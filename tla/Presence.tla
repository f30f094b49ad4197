------------------------------- MODULE Presence -------------------------------
(***************************************************************************)
(* Who is in a room: joining, leaving, heartbeats, disconnect cleanup and  *)
(* the sweep of lapsed entries (app/rooms/JoinRoom.ts, LeaveRoom.ts,       *)
(* Heartbeat.ts, adapters/socketio/presenceReaper.ts and the disconnect    *)
(* handler of registerHandlers.ts), over the three Redis structures of     *)
(* adapters/redis/RedisPresenceStore.ts, the open room_members row and the *)
(* socket channel.                                                         *)
(*                                                                         *)
(* Every key of these structures names a room and a user, so one room is   *)
(* modelled and a structure is the set of users it has the room for.  What *)
(* an entry says of a member (role, mute, raised hand) is left out.        *)
(*                                                                         *)
(* A process is one thread of awaits: the event a socket's queue runs, the *)
(* cleanup after a socket closed, or a sweep.  One action is one call to   *)
(* Redis (a script or MULTI is atomic), Postgres or the socket server.     *)
(***************************************************************************)
EXTENDS Integers, FiniteSets

CONSTANTS
    Users,
    NoUser,
    Sockets,
    UserOf,      \* [Sockets -> Users]
    Sweepers,    \* the server instances; each has a reaper
    Ttl,         \* PRESENCE_TTL_SECONDS, in ticks
    OneAtATime,  \* whether what is done for a user never overlaps
    MayFail      \* whether a port may throw and an instance may die

ASSUME PresenceAssumption ==
    /\ NoUser \notin Users
    /\ UserOf \in [Sockets -> Users]
    /\ Ttl \in Nat \ {0}
    /\ OneAtATime \in BOOLEAN
    /\ MayFail \in BOOLEAN

VARIABLES
    hash,        \* who has a field in presence:room:<R>
    rooms,       \* whose set presence:user:<U> has the room
    score,       \* [Users -> ticks until the deadline in presence:expiry]
    open,        \* who has an open room_members row
    connected,   \* sockets in their user's channel
    subscribed,  \* sockets in the room's channel
    told,        \* whom the room was last told of as being there
    proc,        \* [Processes -> what it does next]
    arrived,     \* history: processes that began a stay and may yet announce it
    ended        \* history: processes that ended a session, not yet announced

store == <<hash, rooms, score>>
history == <<arrived, ended>>
vars == <<hash, rooms, score, open, connected, subscribed, told, proc,
          arrived, ended>>

Queue(s) == <<"queue", s>>
Cleanup(s) == <<"cleanup", s>>
Sweep(w) == <<"sweep", w>>

Processes == ({"queue", "cleanup"} \X Sockets) \cup ({"sweep"} \X Sweepers)

JoinStep == {"record", "subscribe", "look", "greet"}
LeaveStep == {"offline", "unsubscribe", "close", "farewell"}
OtherStep == {"idle", "prune", "beat", "alone", "list", "erase"}

\* `flag' is what an earlier step found out: for a join, that it is a new
\* arrival; for a prune, that the client named the room.  `lapsed' and
\* `leaving' are the entries a sweep claimed: still to be erased, and erased
\* but not yet handed to LeaveRoom.
Process ==
    [at: JoinStep \cup LeaveStep \cup OtherStep, user: Users \cup {NoUser},
     flag: BOOLEAN, lapsed: SUBSET Users, leaving: SUBSET Users]

Doing(step, u, flag) ==
    [at |-> step, user |-> u, flag |-> flag, lapsed |-> {}, leaving |-> {}]

Idle == Doing("idle", NoUser, FALSE)

NotIndexed == -1

\* A deadline that has not passed.
Live(u) == score[u] > 0

\* getMember and getRoomMembers: the fields are there and have not lapsed.
Visible(u) == u \in hash /\ Live(u)

Connected(u) == \E s \in connected : UserOf[s] = u

\* Mutant of SocketsOf: also those that have closed.
SocketsEverOf(u) == {s \in Sockets : UserOf[s] = u}

SocketsOf(u) == {s \in connected : UserOf[s] = u}

Busy(u) ==
    \E p \in Processes : u \in {proc[p].user} \cup proc[p].lapsed \cup proc[p].leaving

\* Only a queue, and only for one socket, keeps two operations apart.
MayBegin(u) == OneAtATime => ~Busy(u)

Init ==
    /\ hash = {} /\ rooms = {}
    /\ score = [u \in Users |-> NotIndexed]
    /\ open = {} /\ connected = {} /\ subscribed = {} /\ told = {}
    /\ proc = [p \in Processes |-> Idle]
    /\ arrived = {} /\ ended = {}

Goto(p, step) == proc' = [proc EXCEPT ![p].at = step]

\* The end of one operation; a sweep goes on with the next entry it claimed.
Finished(p) ==
    IF proc[p].leaving = {} THEN Idle
    ELSE [proc[p] EXCEPT !.at = "erase", !.user = NoUser]

--------------------------------------------------------------------------------
(* Joining. *)

\* Mutant of IsNewArrival: every join is announced.
IsAnyArrival(u) == TRUE

\* Mutant of IsNewArrival: an entry not swept yet counts as present.
IsNewEntry(u) == u \notin hash

\* SET_ONLINE_SCRIPT's answer: a passed deadline counts as absent.
IsNewArrival(u) == ~Live(u)

JoinRoom(s) ==
    LET u == UserOf[s]  p == Queue(s) IN
    /\ s \in connected
    /\ proc[p] = Idle
    /\ MayBegin(u)
    /\ hash' = hash \cup {u}
    /\ rooms' = rooms \cup {u}
    /\ score' = [score EXCEPT ![u] = Ttl]
    /\ proc' = [proc EXCEPT ![p] = Doing("record", u, IsNewArrival(u))]
    /\ arrived' = IF Live(u) THEN arrived ELSE arrived \cup {p}
    /\ UNCHANGED <<open, connected, subscribed, told, ended>>

\* An upsert on the index of open rows: nothing happens to a row already open.
RecordJoin(p) ==
    /\ proc[p].at = "record"
    /\ open' = open \cup {proc[p].user}
    /\ Goto(p, "subscribe")
    /\ UNCHANGED <<store, connected, subscribed, told, history>>

\* Every connection the user has by now.
JoinRoomChannel(p) ==
    LET u == proc[p].user IN
    /\ proc[p].at = "subscribe"
    /\ subscribed' = subscribed \cup SocketsOf(u)
    /\ proc' = [proc EXCEPT ![p] = IF proc[p].flag THEN Doing("look", u, TRUE) ELSE Idle]
    /\ UNCHANGED <<store, open, connected, told, history>>

\* A member who is gone again is not announced.
Look(p) ==
    LET there == Visible(proc[p].user) IN
    /\ proc[p].at = "look"
    /\ proc' = [proc EXCEPT ![p] = IF there THEN Doing("greet", @.user, TRUE) ELSE Idle]
    /\ arrived' = IF there THEN arrived ELSE arrived \ {p}
    /\ UNCHANGED <<store, open, connected, subscribed, told, ended>>

\* user:joined
Greet(p) ==
    /\ proc[p].at = "greet"
    /\ told' = told \cup {proc[p].user}
    /\ proc' = [proc EXCEPT ![p] = Idle]
    /\ arrived' = arrived \ {p}
    /\ UNCHANGED <<store, open, connected, subscribed, ended>>

--------------------------------------------------------------------------------
(* Leaving: the one use case behind the button, the cleanup and the sweep. *)

LeaveRoom(s) ==
    LET u == UserOf[s]  p == Queue(s) IN
    /\ s \in connected
    /\ proc[p] = Idle
    /\ MayBegin(u)
    /\ proc' = [proc EXCEPT ![p] = Doing("offline", u, FALSE)]
    /\ UNCHANGED <<store, open, connected, subscribed, told, history>>

\* Mutant of SetOffline: the deadline stays behind.
SetOfflineKeepingDeadline(p) ==
    LET u == proc[p].user IN
    /\ proc[p].at = "offline"
    /\ hash' = hash \ {u}
    /\ rooms' = rooms \ {u}
    /\ Goto(p, "unsubscribe")
    /\ UNCHANGED <<score, open, connected, subscribed, told, history>>

SetOffline(p) ==
    LET u == proc[p].user IN
    /\ proc[p].at = "offline"
    /\ hash' = hash \ {u}
    /\ rooms' = rooms \ {u}
    /\ score' = [score EXCEPT ![u] = NotIndexed]
    /\ Goto(p, "unsubscribe")
    /\ UNCHANGED <<open, connected, subscribed, told, history>>

\* Mutant of LeaveRoomChannel: the sockets stay in the channel.
LeaveRoomChannelForgotten(p) ==
    /\ proc[p].at = "unsubscribe"
    /\ Goto(p, "close")
    /\ UNCHANGED <<store, open, connected, subscribed, told, history>>

LeaveRoomChannel(p) ==
    /\ proc[p].at = "unsubscribe"
    /\ subscribed' = subscribed \ SocketsOf(proc[p].user)
    /\ Goto(p, "close")
    /\ UNCHANGED <<store, open, connected, told, history>>

\* Mutant of ClosedByThisCall: the update's result is not looked at.
ClosedByAnyCall(u) == TRUE

\* Mutant of ClosedByThisCall: presence as the guard.
ClosedIfPresent(u) == u \in hash

\* recordLeave's answer: whether this call closed an open row.
ClosedByThisCall(u) == u \in open

RecordLeave(p) ==
    LET u == proc[p].user IN
    /\ proc[p].at = "close"
    /\ open' = open \ {u}
    /\ ended' = IF u \in open THEN ended \cup {p} ELSE ended
    /\ proc' = [proc EXCEPT ![p] =
                  IF ClosedByThisCall(u) THEN [@ EXCEPT !.at = "farewell"] ELSE Finished(p)]
    /\ UNCHANGED <<store, connected, subscribed, told, arrived>>

\* user:left
BidFarewell(p) ==
    /\ proc[p].at = "farewell"
    /\ told' = told \ {proc[p].user}
    /\ proc' = [proc EXCEPT ![p] = Finished(p)]
    /\ ended' = ended \ {p}
    /\ UNCHANGED <<store, open, connected, subscribed, arrived>>

--------------------------------------------------------------------------------
(* Which rooms is the user in: the heartbeat and the cleanup begin with it. *)

\* getRoomsForUser found the room, but past its deadline.
FoundStale(u) == u \in rooms /\ ~Live(u)
FoundLive(u) == u \in rooms /\ Live(u)

\* `claimed': the client named the room.
Heartbeat(s, claimed) ==
    LET u == UserOf[s]  p == Queue(s) IN
    /\ s \in connected
    /\ proc[p] = Idle
    /\ MayBegin(u)
    /\ claimed \/ u \in rooms
    /\ proc' = [proc EXCEPT ![p] =
                  Doing(IF FoundStale(u) THEN "prune" ELSE "beat", u, claimed)]
    /\ UNCHANGED <<store, open, connected, subscribed, told, history>>

\* The srem of what was found stale, after the reads that found it so.
Prune(p) ==
    LET u == proc[p].user IN
    /\ proc[p].at = "prune"
    /\ rooms' = rooms \ {u}
    /\ proc' = [proc EXCEPT ![p] = IF @.flag THEN Doing("beat", u, FALSE) ELSE Idle]
    /\ UNCHANGED <<hash, score, open, connected, subscribed, told, history>>

\* Mutant of Beat: the deadline is written without asking whether it passed.
BeatReviving(p) ==
    LET u == proc[p].user IN
    /\ proc[p].at = "beat"
    /\ score' = [score EXCEPT ![u] = Ttl]
    /\ proc' = [proc EXCEPT ![p] = Idle]
    /\ UNCHANGED <<hash, rooms, open, connected, subscribed, told, history>>

\* HEARTBEAT_SCRIPT.  Its HEXISTS answers 0 for a missing field, which Lua
\* takes for true: whether the entry is there makes no difference.
Beat(p) ==
    LET u == proc[p].user IN
    /\ proc[p].at = "beat"
    /\ score' = IF Live(u) THEN [score EXCEPT ![u] = Ttl] ELSE score
    /\ proc' = [proc EXCEPT ![p] = Idle]
    /\ UNCHANGED <<hash, rooms, open, connected, subscribed, told, history>>

--------------------------------------------------------------------------------
(* Sockets come and go. *)

\* A new socket: nothing of an earlier one is still running under its name.
Connect(s) ==
    /\ s \notin connected
    /\ proc[Queue(s)] = Idle
    /\ proc[Cleanup(s)] = Idle
    /\ connected' = connected \cup {s}
    /\ UNCHANGED <<store, open, subscribed, told, proc, history>>

\* The socket leaves its channels at once; the event its queue is running goes
\* on, and the cleanup runs beside it, once for each socket.
Disconnect(s) ==
    /\ s \in connected
    /\ proc[Cleanup(s)] = Idle
    /\ MayBegin(UserOf[s])
    /\ connected' = connected \ {s}
    /\ subscribed' = subscribed \ {s}
    /\ proc' = [proc EXCEPT ![Cleanup(s)] = Doing("alone", UserOf[s], FALSE)]
    /\ UNCHANGED <<store, open, told, history>>

\* isUserConnected: another socket keeps the user's presence.
AskAlone(p) ==
    /\ proc[p].at = "alone"
    /\ proc' = [proc EXCEPT ![p] =
                  IF Connected(@.user) THEN Idle ELSE [@ EXCEPT !.at = "list"]]
    /\ UNCHANGED <<store, open, connected, subscribed, told, history>>

ListRooms(p) ==
    LET u == proc[p].user IN
    /\ proc[p].at = "list"
    /\ proc' = [proc EXCEPT ![p] =
                  CASE FoundLive(u) -> Doing("offline", u, FALSE)
                    [] FoundStale(u) -> Doing("prune", u, FALSE)
                    [] OTHER -> Idle]
    /\ UNCHANGED <<store, open, connected, subscribed, told, history>>

--------------------------------------------------------------------------------
(* The sweep. *)

\* Mutant of Lapsed: the sweep looks for lapsed members in their room sets.
LapsedInRooms == {u \in rooms : score[u] = 0 /\ MayBegin(u)}

Lapsed == {u \in Users : score[u] = 0 /\ MayBegin(u)}

\* REAP_SCRIPT claims what lapsed by taking it out of the expiry index.
ReapExpired(w) ==
    /\ proc[Sweep(w)] = Idle
    /\ Lapsed # {}
    /\ score' = [u \in Users |-> IF u \in Lapsed THEN NotIndexed ELSE score[u]]
    /\ proc' = [proc EXCEPT ![Sweep(w)] =
                  [Doing("erase", NoUser, FALSE) EXCEPT !.lapsed = Lapsed]]
    /\ UNCHANGED <<hash, rooms, open, connected, subscribed, told, history>>

\* The MULTI per claimed entry, whatever became of the entry since.
Erase(p) ==
    /\ proc[p].at = "erase"
    /\ \E u \in proc[p].lapsed :
        /\ hash' = hash \ {u}
        /\ rooms' = rooms \ {u}
        /\ proc' = [proc EXCEPT ![p].lapsed = @ \ {u}, ![p].leaving = @ \cup {u}]
    /\ UNCHANGED <<score, open, connected, subscribed, told, history>>

\* Mutant of HandOver: what expired is removed and nobody is told.
HandOverToNobody(p) ==
    /\ proc[p].at = "erase"
    /\ proc[p].lapsed = {}
    /\ proc' = [proc EXCEPT ![p] = Idle]
    /\ UNCHANGED <<store, open, connected, subscribed, told, history>>

\* When all are erased, each is handed to LeaveRoom in turn.
HandOver(p) ==
    /\ proc[p].at = "erase"
    /\ proc[p].lapsed = {}
    /\ \E u \in proc[p].leaving :
        proc' = [proc EXCEPT ![p].at = "offline", ![p].user = u,
                             ![p].leaving = @ \ {u}]
    /\ UNCHANGED <<store, open, connected, subscribed, told, history>>

--------------------------------------------------------------------------------
(* Time and failure. *)

Tick ==
    /\ \E u \in Users : Live(u)
    /\ score' = [u \in Users |-> IF Live(u) THEN score[u] - 1 ELSE score[u]]
    /\ UNCHANGED <<hash, rooms, open, connected, subscribed, told, proc, history>>

\* A port throws, or the process dies: what was written stays written.
Abort(p) ==
    /\ MayFail
    /\ proc[p] # Idle
    /\ proc' = [proc EXCEPT ![p] = Idle]
    /\ arrived' = arrived \ {p}
    /\ ended' = ended \ {p}
    /\ UNCHANGED <<store, open, connected, subscribed, told>>

\* The instance that held the socket dies: no cleanup runs.
Vanish(s) ==
    /\ MayFail
    /\ s \in connected
    /\ connected' = connected \ {s}
    /\ subscribed' = subscribed \ {s}
    /\ UNCHANGED <<store, open, told, proc, history>>

--------------------------------------------------------------------------------
Proceed(p) ==
    \/ RecordJoin(p) \/ JoinRoomChannel(p) \/ Look(p) \/ Greet(p)
    \/ SetOffline(p) \/ LeaveRoomChannel(p) \/ RecordLeave(p) \/ BidFarewell(p)
    \/ Prune(p) \/ Beat(p) \/ AskAlone(p) \/ ListRooms(p)
    \/ Erase(p) \/ HandOver(p)

Request(s) ==
    \/ JoinRoom(s) \/ LeaveRoom(s)
    \/ \E claimed \in BOOLEAN : Heartbeat(s, claimed)

Next ==
    \/ \E s \in Sockets : Request(s) \/ Connect(s) \/ Disconnect(s) \/ Vanish(s)
    \/ \E p \in Processes : Proceed(p) \/ Abort(p)
    \/ \E w \in Sweepers : ReapExpired(w)
    \/ Tick

Spec == Init /\ [][Next]_vars

\* Time passes, the event loop runs what was begun, and the reaper's timer fires.
FairSpec ==
    /\ Spec
    /\ WF_vars(Tick)
    /\ \A p \in Processes : WF_vars(Proceed(p))
    /\ \A w \in Sweepers : WF_vars(ReapExpired(w))

--------------------------------------------------------------------------------
(* Properties. *)

TypeOK ==
    /\ hash \subseteq Users /\ rooms \subseteq Users
    /\ score \in [Users -> NotIndexed..Ttl]
    /\ open \subseteq Users /\ told \subseteq Users
    /\ connected \subseteq Sockets /\ subscribed \subseteq connected
    /\ proc \in [Processes -> Process]
    /\ arrived \subseteq Processes /\ ended \subseteq Processes

\* Every user:left is owed to a session that the announcing process ended
\* itself and has not announced before: a button, a cleanup and a sweep that
\* overlap announce one departure once (LeaveRoom.ts, recordLeave).
FarewellsAreEarned == \A p \in Processes : proc[p].at = "farewell" => p \in ended

\* Every user:joined is owed to a stay that the announcing process began
\* itself: joins fired at once announce one arrival once (JoinRoom.ts,
\* SET_ONLINE_SCRIPT).
GreetingsAreEarned ==
    \A p \in Processes :
        proc[p].at \in JoinStep /\ proc[p].flag => p \in arrived

\* Nobody becomes present but by joining: a heartbeat that crosses a lapse, a
\* sweep or a cleanup never brings an entry back (Heartbeat.ts).
OnlyJoinsMakePresent ==
    [][\A u \in Users :
         Visible(u)' /\ ~Visible(u) =>
           \E s \in Sockets : UserOf[s] = u /\ proc[Queue(s)] = Idle
                              /\ proc'[Queue(s)].at = "record"]_vars

\* Whoever has no connection has, again and again, no open session and is, again
\* and again, not in anybody's list: the sweep announces what the lapse hid
\* (presenceReaper.ts).
DeparturesAreAnnounced ==
    \A u \in Users : /\ []<>(Connected(u) \/ u \notin open)
                     /\ []<>(Connected(u) \/ u \notin told)

\* Outside any operation on a user, an open session is one a sweep will find:
\* its deadline is in the expiry index (RedisPresenceStore.ts, JoinRoom.ts).
OpenSessionsExpire ==
    \A u \in Users : u \in open /\ ~Busy(u) => score[u] # NotIndexed

\* Outside any operation on a user, whoever is present has a session and is in
\* the others' lists.
PresentAreKnown ==
    \A u \in Users : Visible(u) /\ ~Busy(u) => u \in open /\ u \in told

\* Outside any operation on a user, the three structures agree: who is live has
\* an entry and finds the room among theirs, and an entry has a deadline.
IndexesAgree ==
    \A u \in Users : ~Busy(u) =>
        /\ Live(u) => u \in hash /\ u \in rooms
        /\ u \in hash => score[u] # NotIndexed

\* Outside any operation on a user, a socket that receives the room's events
\* belongs to somebody with a session.
ListenersHaveSessions ==
    \A s \in subscribed : Busy(UserOf[s]) \/ UserOf[s] \in open

A == INSTANCE Attendance WITH session <- open

\* What the room is told follows the sessions (Attendance).
ImplementsAttendance == A!Spec

================================================================================
