--------------------------------- MODULE Stage ---------------------------------
(***************************************************************************)
(* Who may be heard in a room: raising a hand, being approved, muted,      *)
(* removed from the stage or kicked, stepping down, rejoining              *)
(* (app/speaking, app/safety/KickUser.ts, the standing JoinRoom.ts carries *)
(* over), over the member's presence record, the durable room_members row  *)
(* and the grants of the media server.                                     *)
(*                                                                         *)
(* An operation decides at its start and then runs a list of steps, one    *)
(* per call to a port.  The presence record is changed by reading it whole *)
(* and writing it back whole (RedisPresenceStore.ts, patch).  The host     *)
(* stays in the room: an operation of a host who left is refused and       *)
(* changes nothing.  How an entry lapses and is swept is in Presence; here *)
(* a stay ends in one step.                                                *)
(***************************************************************************)
EXTENDS Naturals, FiniteSets, Sequences

CONSTANTS
    Members,      \* everybody in the room but its host
    Host,
    NoOne,
    MaxSpeakers,
    Operations,   \* what people ask for, and "connect": they use their tokens
    MayFail       \* whether a port may throw

ASSUME StageAssumption ==
    /\ Host \notin Members /\ NoOne \notin Members \cup {Host}
    /\ MaxSpeakers \in Nat
    /\ MayFail \in BOOLEAN

VARIABLES
    entry,      \* [Members -> field of presence:room:<R>]
    live,       \* whose field has a deadline that has not passed
    row,        \* [Members -> the open room_members row]
    held,       \* [Members -> the media token their client was last given]
    grant,      \* [Members -> what the media server lets them do]
    op,         \* [People -> the operation their socket's queue is running]
    approved,   \* history: whom the host approved
    disturbed   \* history: on whom two operations met, or one stopped half way

vars == <<entry, live, row, held, grant, op, approved, disturbed>>
media == <<held, grant>>
history == <<approved, disturbed>>

People == Members \cup {Host}

Role == {"listener", "speaker"}
Entry == [role: Role, muted: BOOLEAN, hand: BOOLEAN]
Row == [role: Role, muted: BOOLEAN]
None == [role |-> "none"]

Token == {"none", "listen", "publish"}

\* "mutedGrant": a published track the server has muted.
Grant == Token \cup {"mutedGrant"}

Fields == {"role", "muted", "hand"}
Step ==
    [do: {"load", "store"}, field: {"role"}, value: Role]
    \cup [do: {"load", "store"}, field: {"muted", "hand"}, value: BOOLEAN]
    \cup [do: {"mirror"}, field: {"role"}, value: Role]
    \cup [do: {"mirror"}, field: {"muted"}, value: BOOLEAN]
    \cup [do: {"mute"}, value: BOOLEAN]
    \cup [do: {"revoke", "cut", "eject", "online", "record", "offline", "close",
               "token", "promote"}]

Idle == [who |-> NoOne, todo |-> <<>>, saw |-> None]

\* presence.getMember
Visible(u) == u \in live /\ entry[u] # None
IsSpeaker(u) == Visible(u) /\ entry[u].role = "speaker"
Speakers == {u \in Members : IsSpeaker(u)}

Busy(u) == \E p \in People : op[p].who = u

Init ==
    /\ entry = [u \in Members |-> None]
    /\ live = {}
    /\ row = [u \in Members |-> None]
    /\ held = [u \in Members |-> "none"]
    /\ grant = [u \in Members |-> "none"]
    /\ op = [p \in People |-> Idle]
    /\ approved = {} /\ disturbed = {}

--------------------------------------------------------------------------------
(* What the operations decide and the steps they then take. *)

Do(what) == [do |-> what]
Patch(field, value) == [do |-> "load", field |-> field, value |-> value]
Mirror(field, value) == [do |-> "mirror", field |-> field, value |-> value]

\* Mutant of HasFreeSlot: one too many.
HasRoomForOneMore == Cardinality(Speakers) <= MaxSpeakers

\* canPromoteToSpeaker: the host is not counted.
HasFreeSlot == Cardinality(Speakers) < MaxSpeakers

\* Mutant of MayPublish: the role is not looked at.
MayPublishIfHeard(u) == Visible(u) /\ ~entry[u].muted

\* canPublish
MayPublish(u) == Visible(u) /\ entry[u].role = "speaker" /\ ~entry[u].muted

Begin(p, kind, u, todo) ==
    /\ kind \in Operations
    /\ op[p] = Idle
    /\ op' = [op EXCEPT ![p] = [who |-> u, todo |-> todo, saw |-> None]]
    /\ disturbed' = IF Busy(u) THEN disturbed \cup {u} ELSE disturbed
    /\ UNCHANGED <<entry, live, row, media>>

\* A speaker who is approved again is left alone.
ApproveSpeaker(u) ==
    /\ HasFreeSlot
    /\ Visible(u) /\ entry[u].role = "listener"
    /\ Begin(Host, "approve", u,
             << Patch("role", "speaker"), Mirror("role", "speaker"),
                Patch("hand", FALSE), Do("promote") >>)
    /\ approved' = approved \cup {u}

\* Mutant of DemoteSteps: the durable row is forgotten.
DemoteInPresence == << Do("revoke"), Patch("role", "listener") >>

\* The media server first, then the records.
DemoteSteps == << Do("revoke"), Patch("role", "listener"), Mirror("role", "listener") >>

RemoveSpeaker(u) ==
    /\ IsSpeaker(u)
    /\ Begin(Host, "remove", u, DemoteSteps)
    /\ UNCHANGED approved

StepDown(u) ==
    /\ IsSpeaker(u)
    /\ Begin(u, "stepDown", u, DemoteSteps)
    /\ UNCHANGED approved

\* A listener has no audio to mute.
MuteSpeaker(u, muted) ==
    LET records == << Patch("muted", muted), Mirror("muted", muted) >> IN
    /\ Visible(u)
    /\ Begin(Host, "mute", u,
             IF entry[u].role = "listener" THEN records
             ELSE << [do |-> "mute", value |-> muted] >> \o records)
    /\ UNCHANGED approved

\* A muted member may do neither; a speaker may only lower it.
RaiseHand(u, raised) ==
    /\ Visible(u) /\ ~entry[u].muted
    /\ raised => entry[u].role = "listener"
    /\ Begin(u, "hand", u, << Patch("hand", raised) >>)
    /\ UNCHANGED approved

\* A media server that fails does not stop a kick.
KickUser(u) ==
    /\ Visible(u)
    /\ Begin(Host, "kick", u, << Do("cut"), Do("eject"), Do("offline"), Do("close") >>)
    /\ UNCHANGED approved

LeaveRoom(u) ==
    /\ Begin(u, "leave", u, << Do("offline"), Do("close") >>)
    /\ UNCHANGED approved

InitialRole == "listener"

Newcomer == [role |-> InitialRole, muted |-> FALSE, hand |-> FALSE]

\* Mutant of StandingOf: joining again starts afresh.
StandingForgotten(u) == Newcomer

\* What a rejoining member keeps.
StandingOf(u) == IF Visible(u) THEN entry[u] ELSE Newcomer

\* The standing is read before anything is written.
JoinRoom(u) ==
    /\ "join" \in Operations
    /\ op[u] = Idle
    /\ op' = [op EXCEPT ![u] =
                [who |-> u, todo |-> << Do("online"), Do("record"), Do("token") >>,
                 saw |-> StandingOf(u)]]
    /\ disturbed' = IF Busy(u) THEN disturbed \cup {u} ELSE disturbed
    /\ UNCHANGED <<entry, live, row, media, approved>>

--------------------------------------------------------------------------------
(* The steps. *)

\* p's next step is `what', for u.
At(p, u, what) == op[p].who = u /\ op[p].todo # <<>> /\ Head(op[p].todo).do = what

Proceed(p) ==
    LET rest == Tail(op[p].todo) IN
    op' = [op EXCEPT ![p] = IF rest = <<>> THEN Idle
                            ELSE [@ EXCEPT !.todo = rest]]

\* Mutant of Load: a field that is gone is changed all the same.
LoadAnyway(p, u) ==
    LET step == Head(op[p].todo) IN
    /\ At(p, u, "load")
    /\ op' = [op EXCEPT ![p].saw = entry[u],
                        ![p].todo = << [step EXCEPT !.do = "store"] >> \o Tail(@)]
    /\ UNCHANGED <<entry, live, row, media, history>>

\* patch reads the field, deadline or not; there is nothing to change in none.
Load(p, u) ==
    LET step == Head(op[p].todo) IN
    /\ At(p, u, "load")
    /\ IF entry[u] = None THEN Proceed(p)
       ELSE op' = [op EXCEPT ![p].saw = entry[u],
                             ![p].todo = << [step EXCEPT !.do = "store"] >> \o Tail(@)]
    /\ UNCHANGED <<entry, live, row, media, history>>

\* ... and writes back the whole of what it read.
Store(p, u) ==
    LET step == Head(op[p].todo) IN
    /\ At(p, u, "store")
    /\ entry' = [entry EXCEPT ![u] = [op[p].saw EXCEPT ![step.field] = step.value]]
    /\ Proceed(p)
    /\ UNCHANGED <<live, row, media, history>>

\* updateRole and setMutedByHost of the durable row, if it is open.
MirrorRow(p, u) ==
    LET step == Head(op[p].todo) IN
    /\ At(p, u, "mirror")
    /\ row' = IF row[u] = None THEN row
              ELSE [row EXCEPT ![u] = [@ EXCEPT ![step.field] = step.value]]
    /\ Proceed(p)
    /\ UNCHANGED <<entry, live, media, history>>

\* updateParticipant: skipped when they are not connected.
UpdateGrant(u) ==
    grant' = IF grant[u] = "none" THEN grant ELSE [grant EXCEPT ![u] = "listen"]

RevokePublish(p, u) ==
    /\ \/ At(p, u, "revoke") /\ UpdateGrant(u)
       \/ At(p, u, "cut") /\ (UpdateGrant(u) \/ (MayFail /\ UNCHANGED grant))
    /\ Proceed(p)
    /\ UNCHANGED <<entry, live, row, held, history>>

\* mutePublishedTrack, of the tracks there are.
MuteParticipant(p, u) ==
    LET muted == Head(op[p].todo).value IN
    /\ At(p, u, "mute")
    /\ grant' = IF grant[u] \in {"publish", "mutedGrant"}
                THEN [grant EXCEPT ![u] = IF muted THEN "mutedGrant" ELSE "publish"]
                ELSE grant
    /\ Proceed(p)
    /\ UNCHANGED <<entry, live, row, held, history>>

RemoveParticipant(p, u) ==
    /\ At(p, u, "eject")
    /\ \/ grant' = [grant EXCEPT ![u] = "none"]
       \/ MayFail /\ UNCHANGED grant
    /\ Proceed(p)
    /\ UNCHANGED <<entry, live, row, held, history>>

\* setOnline: role and mute as they were read, the hand if it is still up.
SetOnline(p, u) ==
    /\ At(p, u, "online")
    /\ entry' = [entry EXCEPT ![u] =
                   [op[p].saw EXCEPT !.hand = Visible(u) /\ entry[u].hand]]
    /\ live' = live \cup {u}
    /\ Proceed(p)
    /\ UNCHANGED <<row, media, history>>

RecordJoin(p, u) ==
    /\ At(p, u, "record")
    /\ row' = [row EXCEPT ![u] = [role |-> op[p].saw.role, muted |-> op[p].saw.muted]]
    /\ Proceed(p)
    /\ UNCHANGED <<entry, live, media, history>>

\* The token of a join: what canPublish says of the entry as it is by now; none
\* when the media server is down.
IssueMediaToken(p, u) ==
    /\ At(p, u, "token")
    /\ \/ held' = [held EXCEPT ![u] = IF MayPublish(u) THEN "publish" ELSE "listen"]
       \/ MayFail /\ UNCHANGED held
    /\ Proceed(p)
    /\ UNCHANGED <<entry, live, row, grant, history>>

\* The token of an approval, or a conflict.
IssuePublishToken(p, u) ==
    /\ At(p, u, "promote")
    /\ held' = IF MayPublish(u) THEN [held EXCEPT ![u] = "publish"] ELSE held
    /\ Proceed(p)
    /\ UNCHANGED <<entry, live, row, grant, history>>

SetOffline(p, u) ==
    /\ At(p, u, "offline")
    /\ entry' = [entry EXCEPT ![u] = None]
    /\ live' = live \ {u}
    /\ Proceed(p)
    /\ UNCHANGED <<row, media, history>>

RecordLeave(p, u) ==
    /\ At(p, u, "close")
    /\ row' = [row EXCEPT ![u] = None]
    /\ Proceed(p)
    /\ UNCHANGED <<entry, live, media, history>>

\* A port throws: the operation ends where it stands.
Abort(p) ==
    /\ MayFail
    /\ op[p] # Idle
    /\ op' = [op EXCEPT ![p] = Idle]
    /\ disturbed' = disturbed \cup {op[p].who}
    /\ UNCHANGED <<entry, live, row, media, approved>>

--------------------------------------------------------------------------------
(* The stay ends by itself; the client and its media connection. *)

Lapse(u) ==
    /\ u \in live
    /\ live' = live \ {u}
    /\ entry' = [entry EXCEPT ![u] = None]
    /\ row' = [row EXCEPT ![u] = None]
    /\ disturbed' = IF Busy(u) THEN disturbed \cup {u} ELSE disturbed
    /\ UNCHANGED <<media, op, approved>>

\* The client connects, or connects again, with the token it has.
ConnectMedia(u) ==
    /\ "connect" \in Operations
    /\ held[u] # "none"
    /\ grant' = [grant EXCEPT ![u] = held[u]]
    /\ UNCHANGED <<entry, live, row, held, op, history>>

DropMedia(u) ==
    /\ grant[u] # "none"
    /\ grant' = [grant EXCEPT ![u] = "none"]
    /\ UNCHANGED <<entry, live, row, held, op, history>>

--------------------------------------------------------------------------------
Ask(u) ==
    \/ ApproveSpeaker(u) \/ RemoveSpeaker(u) \/ StepDown(u) \/ KickUser(u)
    \/ LeaveRoom(u) \/ JoinRoom(u)
    \/ \E b \in BOOLEAN : MuteSpeaker(u, b) \/ RaiseHand(u, b)

Continue(p, u) ==
    \/ Load(p, u) \/ Store(p, u) \/ MirrorRow(p, u)
    \/ RevokePublish(p, u) \/ MuteParticipant(p, u) \/ RemoveParticipant(p, u)
    \/ SetOnline(p, u) \/ RecordJoin(p, u) \/ IssueMediaToken(p, u)
    \/ IssuePublishToken(p, u) \/ SetOffline(p, u) \/ RecordLeave(p, u)

Next ==
    \/ \E u \in Members : Ask(u) \/ Lapse(u) \/ ConnectMedia(u) \/ DropMedia(u)
    \/ \E p \in People : (\E u \in Members : Continue(p, u)) \/ Abort(p)

Spec == Init /\ [][Next]_vars

--------------------------------------------------------------------------------
(* Properties. *)

TypeOK ==
    /\ entry \in [Members -> Entry \cup {None}]
    /\ live \subseteq Members
    /\ row \in [Members -> Row \cup {None}]
    /\ held \in [Members -> Token]
    /\ grant \in [Members -> Grant]
    /\ \A p \in People :
        /\ op[p].who \in Members \cup {NoOne}
        /\ op[p].todo \in Seq(Step)
        /\ op[p].saw \in Entry \cup {None}
    /\ approved \subseteq Members /\ disturbed \subseteq Members

\* "Everyone joins listen-only" (trustLadder.ts:176-179, ApproveSpeaker.ts:11-12):
\* whatever crosses or fails, nobody holds a publishing token, is let to publish
\* or is recorded as a speaker whom the host never approved.
OnlyApprovedSpeak ==
    \A u \in Members :
        \/ held[u] = "publish" \/ grant[u] \in {"publish", "mutedGrant"}
        \/ entry[u] # None /\ entry[u].role = "speaker"
        \/ row[u] # None /\ row[u].role = "speaker"
        => u \in approved

\* maxSpeakers is kept (ApproveSpeaker.ts:36-37) although it is counted some
\* steps before the promotion is written, as long as no two operations met on
\* one member.
StageLimit == disturbed = {} => Cardinality(Speakers) <= MaxSpeakers

\* Between operations the presence record and the durable row tell the same
\* of a member, and a member on the stage has no hand up (ApproveSpeaker.ts:39).
RecordsAgree ==
    \A u \in live \ disturbed :
        \/ Busy(u)
        \/ /\ entry[u] # None
           /\ row[u] = [role |-> entry[u].role, muted |-> entry[u].muted]
           /\ entry[u].role = "speaker" => ~entry[u].hand

\* Role and host-mute survive a rejoin, "or a muted user could clear it by
\* rejoining" (JoinRoom.ts:81-82).  Who stays in the room is unmuted by an
\* operation of the host only, unless two operations met on them.
OnlyTheHostUnmutes ==
    [][\A u \in Members \ disturbed :
        Visible(u) /\ entry[u].muted /\ Visible(u)' =>
            entry'[u].muted \/ op[Host].who = u]_vars

\* "A host who silences someone must actually silence them"
\* (LiveKitMediaRoomProvider.ts:31-32): once an operation that took the floor
\* away has ended, undisturbed, the member is not audible.
SilencedStaySilent ==
    \A u \in Members :
        Visible(u) /\ grant[u] = "publish" =>
            Busy(u) \/ u \in disturbed \/ MayPublish(u)

================================================================================
