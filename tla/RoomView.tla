-------------------------------- MODULE RoomView -------------------------------
(***************************************************************************)
(* What one tab shows of a room: snapshots that replace everything, events *)
(* on top, a socket that drops and comes back, and the heartbeats that     *)
(* tell a lapsed client to join again.                                     *)
(*                                                                         *)
(* The other people and the chat are the server's; the events of one       *)
(* person are sent in order.  A join that a dropped socket had sent goes   *)
(* on without it, and what it subscribes is the socket that came back.     *)
(***************************************************************************)
EXTENDS Naturals, FiniteSets, Sequences, SequencesExt

CONSTANTS
    Others, Blocked,   \* the people of the room, and those the viewer blocked
    Messages,
    MaxMoves,          \* bound on arrivals and departures
    MaxDrops,          \* bound on drops and lapses
    MaxQueue

VARIABLES
    others, log,       \* the room: who else is in it, what was said
    unsent,            \* events not yet broadcast
    present,           \* the viewer's presence entry
    subscribed,        \* their socket is in the room's channel
    up,                \* the socket is connected
    cleanup,           \* the disconnect handler: none, checking or leaving
    requests,          \* sent by the tab: over the socket, or held until it is back
    serving, reading,  \* the join being served, and the snapshot it builds
    events,            \* on their way to the tab
    view,
    late,              \* the join left behind by a socket that dropped
    missed,            \* ghost: an event overtook the snapshot sent last, or came with none
    drops, moves

roomVars == <<others, log, unsent, moves>>
serverVars == <<present, subscribed, cleanup, serving, reading, late, missed>>
vars == <<roomVars, serverVars, up, requests, events, view, drops>>

NoView == [known |-> FALSE, members |-> <<>>, messages |-> <<>>]
NoSnapshot == [members |-> {}, messages |-> {}]

Event(kind, about) == [kind |-> kind, about |-> about]
Pending(kinds, about) == \E e \in unsent : e.kind \in kinds /\ e.about = about

Init ==
    /\ others \in SUBSET Others
    /\ log = {} /\ unsent = {} /\ moves = 0
    /\ present = FALSE /\ subscribed = FALSE /\ up = TRUE /\ cleanup = "none"
    /\ requests = <<"join">>
    /\ serving = "none" /\ reading = NoSnapshot
    /\ events = <<>>
    /\ view = NoView
    /\ late = "none" /\ missed = FALSE
    /\ drops = 0

--------------------------------------------------------------------------------
(***************************************************************************)
(* The room.                                                               *)
(***************************************************************************)

Arrive(o) ==
    /\ o \notin others
    /\ ~Pending({"joined", "left"}, o)
    /\ moves < MaxMoves
    /\ moves' = moves + 1
    /\ others' = others \cup {o}
    /\ unsent' = unsent \cup {Event("joined", o)}
    /\ UNCHANGED <<log, serverVars, up, requests, events, view, drops>>

Depart(o) ==
    /\ o \in others
    /\ ~Pending({"joined", "left"}, o)
    /\ moves < MaxMoves
    /\ moves' = moves + 1
    /\ others' = others \ {o}
    /\ unsent' = unsent \cup {Event("left", o)}
    /\ UNCHANGED <<log, serverVars, up, requests, events, view, drops>>

\* A message is kept, then broadcast.
SendChatMessage(m) ==
    /\ m \notin log
    /\ log' = log \cup {m}
    /\ unsent' = unsent \cup {Event("message", m)}
    /\ UNCHANGED <<others, moves, serverVars, up, requests, events, view, drops>>

\* To whoever is in the channel, blocked or not.
EmitToRoom(e) ==
    /\ e \in unsent
    /\ unsent' = unsent \ {e}
    /\ subscribed => Len(events) < MaxQueue
    /\ events' = IF subscribed THEN Append(events, e) ELSE events
    /\ missed' = (missed \/ serving \in {"members", "read"})
    /\ UNCHANGED <<others, log, moves, present, subscribed, cleanup, serving, reading, late, up,
                   requests, view, drops>>

--------------------------------------------------------------------------------
(***************************************************************************)
(* The server serves one request of the socket at a time.                  *)
(***************************************************************************)

Serves(request) == up /\ serving = "none" /\ requests # <<>> /\ Head(requests) = request

\* Presence first.
JoinRoom ==
    /\ Serves("join")
    /\ requests' = Tail(requests)
    /\ present' = TRUE
    /\ serving' = "online"
    /\ UNCHANGED <<roomVars, subscribed, cleanup, reading, late, missed, up, events, view, drops>>

JoinRoomChannel ==
    /\ serving = "online"
    /\ subscribed' = TRUE
    /\ serving' = "subscribed"
    /\ UNCHANGED <<roomVars, present, cleanup, reading, late, missed, up, requests, events, view,
                   drops>>

\* Blocks are applied to the snapshot.
ReadMembers ==
    /\ serving = "subscribed"
    /\ reading' = [NoSnapshot EXCEPT !.members = others \ Blocked]
    /\ missed' = FALSE
    /\ serving' = "members"
    /\ UNCHANGED <<roomVars, present, subscribed, cleanup, late, up, requests, events, view, drops>>

ReadMessages ==
    /\ serving = "members"
    /\ reading' = [reading EXCEPT !.messages = log]
    /\ serving' = "read"
    /\ UNCHANGED <<roomVars, present, subscribed, cleanup, late, missed, up, requests, events,
                   view, drops>>

EmitState ==
    /\ serving = "read"
    /\ Len(events) < MaxQueue
    /\ events' = Append(events, Event("state", reading))
    /\ serving' = "none"
    /\ reading' = NoSnapshot
    /\ UNCHANGED <<roomVars, present, subscribed, cleanup, late, missed, up, requests, view, drops>>

\* A heartbeat refreshes presence and never creates it; a lapse is told.
Heartbeat ==
    /\ Serves("beat")
    /\ requests' = Tail(requests)
    /\ present \/ Len(events) < MaxQueue
    /\ events' = IF present THEN events ELSE Append(events, Event("error", "NOT_FOUND"))
    /\ UNCHANGED <<roomVars, serverVars, up, view, drops>>

\* The disconnect handler looks for another connection of the user's, and only then leaves.
CheckConnections ==
    /\ cleanup = "checking"
    /\ cleanup' = IF up THEN "none" ELSE "leaving"
    /\ UNCHANGED <<roomVars, present, subscribed, serving, reading, late, missed, up, requests,
                   events, view, drops>>

\* The user leaves the room with every connection, one that came back included.
LeaveRoom ==
    /\ cleanup = "leaving"
    /\ cleanup' = "none"
    /\ present' = FALSE
    /\ subscribed' = FALSE
    /\ UNCHANGED <<roomVars, serving, reading, late, missed, up, requests, events, view, drops>>

\* The heartbeats stop, a phone being locked: the reaper leaves for the user.
Lapse ==
    /\ present
    /\ drops < MaxDrops
    /\ drops' = drops + 1
    /\ present' = FALSE
    /\ subscribed' = FALSE
    /\ UNCHANGED <<roomVars, cleanup, serving, reading, late, missed, up, requests, events, view>>

\* The join of a dropped socket: presence, then the channel.
LateJoin ==
    \/ /\ late = "join"
       /\ present' = TRUE
       /\ late' = "online"
       /\ UNCHANGED <<subscribed, missed>>
    \/ /\ late = "online"
       /\ late' = "none"
       /\ subscribed' = up
       /\ missed' = (missed \/ (up /\ ~subscribed))
       /\ UNCHANGED present

FinishLateJoin ==
    /\ LateJoin
    /\ UNCHANGED <<roomVars, cleanup, serving, reading, up, requests, events, view, drops>>

--------------------------------------------------------------------------------
(***************************************************************************)
(* The tab.                                                                *)
(***************************************************************************)

\* A snapshot replaces what was shown.
Snapshot(shown, state) ==
    [known |-> TRUE, members |-> SetToSeq(state.members), messages |-> SetToSeq(state.messages)]

\* Mutant of ShowArrival: the arrival of somebody shown already.
ShowArrivalTwice(shown, o) ==
    IF ~shown.known THEN shown ELSE [shown EXCEPT !.members = Append(@, o)]

ShowArrival(shown, o) ==
    IF ~shown.known \/ o \in ToSet(shown.members) THEN shown
    ELSE [shown EXCEPT !.members = Append(@, o)]

\* Mutant of ShowDeparture: who left stays.
ShowDepartureNever(shown, o) == shown

\* The list with one person filtered out.
Without(list, o) ==
    LET kept[n \in 0..Len(list)] ==
            IF n = 0 THEN <<>>
            ELSE IF list[n] = o THEN kept[n - 1] ELSE Append(kept[n - 1], list[n])
    IN kept[Len(list)]

ShowDeparture(shown, o) == [shown EXCEPT !.members = Without(@, o)]

\* Messages are shown with or without a snapshot.
ShowMessage(shown, m) ==
    IF m \in ToSet(shown.messages) THEN shown ELSE [shown EXCEPT !.messages = Append(@, m)]

Received(kind) == events # <<>> /\ Head(events).kind = kind

Show ==
    /\ events # <<>>
    /\ Head(events).kind # "error"
    /\ LET e == Head(events)
       IN view' = CASE e.kind = "state" -> Snapshot(view, e.about)
                    [] e.kind = "joined" -> ShowArrival(view, e.about)
                    [] e.kind = "left" -> ShowDeparture(view, e.about)
                    [] OTHER -> ShowMessage(view, e.about)
    /\ events' = Tail(events)
    /\ UNCHANGED <<roomVars, serverVars, up, requests, drops>>

\* Told that its place expired, the tab joins again.
JoinAgain ==
    /\ Received("error")
    /\ Len(requests) < MaxQueue
    /\ events' = Tail(events)
    /\ requests' = Append(requests, "join")
    /\ UNCHANGED <<roomVars, serverVars, up, view, drops>>

\* The interval runs on a socket that is down too; what it sends is held.
SendHeartbeat ==
    /\ \A i \in DOMAIN requests : requests[i] # "beat"
    /\ Len(requests) < MaxQueue
    /\ requests' = Append(requests, "beat")
    /\ UNCHANGED <<roomVars, serverVars, up, events, view, drops>>

\* The socket drops: what was on its way to the tab is lost, what it had sent may be served.
Drop ==
    /\ up
    /\ cleanup = "none" /\ late = "none"
    /\ drops < MaxDrops
    /\ drops' = drops + 1
    /\ up' = FALSE
    /\ subscribed' = FALSE
    /\ cleanup' = "checking"
    /\ late' \in IF serving = "online" THEN {"online"}
                ELSE IF "join" \in ToSet(requests) THEN {"none", "join"} ELSE {"none"}
    /\ serving' = "none"
    /\ reading' = NoSnapshot
    /\ requests' = <<>>
    /\ events' = <<>>
    /\ UNCHANGED <<roomVars, present, missed, view>>

\* What was held goes first, then the listeners join again.
Reconnect ==
    /\ ~up
    /\ up' = TRUE
    /\ Len(requests) < MaxQueue
    /\ requests' = Append(requests, "join")
    /\ UNCHANGED <<roomVars, serverVars, events, view, drops>>

Next ==
    \/ \E o \in Others : Arrive(o) \/ Depart(o)
    \/ \E m \in Messages : SendChatMessage(m)
    \/ \E e \in unsent : EmitToRoom(e)
    \/ JoinRoom \/ JoinRoomChannel \/ ReadMembers \/ ReadMessages \/ EmitState
    \/ Heartbeat \/ CheckConnections \/ LeaveRoom \/ Lapse \/ FinishLateJoin
    \/ Show \/ JoinAgain \/ SendHeartbeat \/ Drop \/ Reconnect

Spec == Init /\ [][Next]_vars

--------------------------------------------------------------------------------

TypeOK ==
    /\ others \subseteq Others
    /\ log \subseteq Messages
    /\ serving \in {"none", "online", "subscribed", "members", "read"}
    /\ cleanup \in {"none", "checking", "leaving"}
    /\ late \in {"none", "join", "online"}
    /\ ToSet(view.members) \subseteq Others
    /\ ToSet(view.messages) \subseteq Messages
    /\ Len(requests) <= MaxQueue /\ Len(events) <= MaxQueue

Settled ==
    /\ up /\ present /\ subscribed
    /\ serving = "none" /\ cleanup = "none" /\ late = "none"
    /\ requests = <<>> /\ events = <<>> /\ unsent = {}

\* However wrong it was, the tab is right again after a snapshot (useRoom.ts:16-26): once all
\* is delivered it shows who is there and what was said, unless an event overtook the
\* snapshot or a late join brought the tab back with none; and a reconnect shows nobody
\* twice (useRoom.ts:136-138).
RightAfterSnapshot ==
    /\ \A i, j \in DOMAIN view.members : view.members[i] = view.members[j] => i = j
    /\ \A i, j \in DOMAIN view.messages : view.messages[i] = view.messages[j] => i = j
    /\ Settled /\ view.known /\ ~missed =>
           /\ ToSet(view.members) \ Blocked = others \ Blocked
           /\ ToSet(view.messages) = log

================================================================================
