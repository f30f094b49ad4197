---------------------------- MODULE PresenceProofs ----------------------------
(***************************************************************************)
(* Theorems about Presence for any users, sockets, instances and time to   *)
(* live, whatever overlaps and whatever fails.                             *)
(***************************************************************************)
EXTENDS Presence, TLAPS

\* Who has work in hand has it for somebody.
ActsForSomebody ==
    \A p \in Processes : proc[p].at \notin {"idle", "erase"} => proc[p].user \in Users

WellFormed == TypeOK /\ ActsForSomebody

LEMMA ProcessNames ==
    /\ \A s \in Sockets : Queue(s) \in Processes /\ Cleanup(s) \in Processes
    /\ \A w \in Sweepers : Sweep(w) \in Processes
BY DEF Queue, Cleanup, Sweep, Processes

LEMMA IdleIsProcess ==
    /\ Idle \in Process /\ Idle.at = "idle" /\ Idle.user = NoUser
    /\ Idle.lapsed = {} /\ Idle.leaving = {}
BY DEF Idle, Doing, Process, OtherStep

\* A process that takes a well-formed next step leaves all processes so.
LEMMA OneProcessMoves ==
    ASSUME proc \in [Processes -> Process], ActsForSomebody,
           NEW p \in Processes, NEW next \in Process,
           next.at \notin {"idle", "erase"} => next.user \in Users,
           proc' = [proc EXCEPT ![p] = next]
    PROVE  /\ proc' \in [Processes -> Process]
           /\ ActsForSomebody'
           /\ proc'[p] = next
           /\ \A q \in Processes : q # p => proc'[q] = proc[q]
BY DEF ActsForSomebody

LEMMA GotoIsProcess ==
    ASSUME proc \in [Processes -> Process], NEW p \in Processes,
           NEW step \in JoinStep \cup LeaveStep \cup OtherStep
    PROVE  /\ [proc[p] EXCEPT !.at = step] \in Process
           /\ [proc[p] EXCEPT !.at = step].user = proc[p].user
           /\ [proc[p] EXCEPT !.at = step].at = step
           /\ Goto(p, step) <=> proc' = [proc EXCEPT ![p] = [proc[p] EXCEPT !.at = step]]
BY DEF Goto, Process

LEMMA FinishedIsProcess ==
    ASSUME proc \in [Processes -> Process], NEW p \in Processes
    PROVE  /\ Finished(p) \in Process
           /\ Finished(p).at \in {"idle", "erase"}
<1>1. CASE proc[p].leaving = {}
  BY <1>1, IdleIsProcess DEF Finished
<1>2. CASE proc[p].leaving # {}
  BY <1>2 DEF Finished, Process, OtherStep
<1> QED BY <1>1, <1>2

LEMMA RequestWellFormed ==
    ASSUME WellFormed, NEW s \in Sockets, Request(s)
    PROVE  WellFormed'
<1> USE PresenceAssumption, ProcessNames DEF WellFormed
<1> DEFINE u == UserOf[s]
           p == Queue(s)
<1>0. u \in Users /\ p \in Processes
  OBVIOUS
<1>1. CASE JoinRoom(s)
  <2> DEFINE next == Doing("record", u, IsNewArrival(u))
  <2>1. next \in Process /\ next.user = u /\ next.at = "record"
    BY <1>0 DEF Doing, Process, JoinStep, IsNewArrival
  <2>2. proc' = [proc EXCEPT ![p] = next]
    BY <1>1 DEF JoinRoom
  <2>3. proc' \in [Processes -> Process] /\ ActsForSomebody'
    <3> HIDE DEF next, p, u
    <3> QED BY <1>0, <2>1, <2>2, OneProcessMoves DEF TypeOK
  <2>4. score' \in [Users -> NotIndexed..Ttl]
    BY <1>0, <1>1 DEF JoinRoom, TypeOK, NotIndexed
  <2> QED BY <1>0, <1>1, <2>3, <2>4 DEF JoinRoom, TypeOK
<1>2. CASE LeaveRoom(s)
  <2> DEFINE next == Doing("offline", u, FALSE)
  <2>1. next \in Process /\ next.user = u
    BY <1>0 DEF Doing, Process, LeaveStep
  <2>2. proc' = [proc EXCEPT ![p] = next]
    BY <1>2 DEF LeaveRoom
  <2>3. proc' \in [Processes -> Process] /\ ActsForSomebody'
    <3> HIDE DEF next, p, u
    <3> QED BY <1>0, <2>1, <2>2, OneProcessMoves DEF TypeOK
  <2> QED BY <1>2, <2>3 DEF LeaveRoom, TypeOK, store, history
<1>3. ASSUME NEW claimed \in BOOLEAN, Heartbeat(s, claimed)
      PROVE  WellFormed'
  <2> DEFINE next == Doing(IF FoundStale(u) THEN "prune" ELSE "beat", u, claimed)
  <2>1. next \in Process /\ next.user = u
    BY <1>0 DEF Doing, Process, OtherStep
  <2>2. proc' = [proc EXCEPT ![p] = next]
    BY <1>3 DEF Heartbeat
  <2>3. proc' \in [Processes -> Process] /\ ActsForSomebody'
    <3> HIDE DEF next, p, u
    <3> QED BY <1>0, <2>1, <2>2, OneProcessMoves DEF TypeOK
  <2> QED BY <1>3, <2>3 DEF Heartbeat, TypeOK, store, history
<1> QED BY <1>1, <1>2, <1>3 DEF Request

LEMMA SocketWellFormed ==
    ASSUME WellFormed, NEW s \in Sockets, Connect(s) \/ Disconnect(s) \/ Vanish(s)
    PROVE  WellFormed'
<1> USE PresenceAssumption, ProcessNames DEF WellFormed
<1>1. CASE Connect(s)
  BY <1>1 DEF Connect, TypeOK, ActsForSomebody, store, history
<1>2. CASE Disconnect(s)
  <2> DEFINE next == Doing("alone", UserOf[s], FALSE)
             p == Cleanup(s)
  <2>1. next \in Process /\ next.user \in Users /\ p \in Processes
    BY DEF Doing, Process, OtherStep
  <2>2. proc' = [proc EXCEPT ![p] = next]
    BY <1>2 DEF Disconnect
  <2>3. proc' \in [Processes -> Process] /\ ActsForSomebody'
    <3> HIDE DEF next, p
    <3> QED BY <2>1, <2>2, OneProcessMoves DEF TypeOK
  <2> QED BY <1>2, <2>3 DEF Disconnect, TypeOK, store, history
<1>3. CASE Vanish(s)
  BY <1>3 DEF Vanish, TypeOK, ActsForSomebody, store, history
<1> QED BY <1>1, <1>2, <1>3

LEMMA ProceedWellFormed ==
    ASSUME WellFormed, NEW p \in Processes, Proceed(p)
    PROVE  WellFormed'
<1> USE PresenceAssumption DEF WellFormed
<1> DEFINE u == proc[p].user
<1>0. proc[p] \in Process
  BY DEF TypeOK
<1>a. proc[p].at \notin {"idle", "erase"} => u \in Users
  BY DEF ActsForSomebody
<1>b. ASSUME NEW next \in Process, proc' = [proc EXCEPT ![p] = next],
             next.at \notin {"idle", "erase"} => next.user \in Users
      PROVE  proc' \in [Processes -> Process] /\ ActsForSomebody'
  BY <1>b, OneProcessMoves DEF TypeOK
<1>c. ASSUME NEW step \in JoinStep \cup LeaveStep \cup OtherStep, u \in Users, Goto(p, step)
      PROVE  proc' \in [Processes -> Process] /\ ActsForSomebody'
  <2> DEFINE next == [proc[p] EXCEPT !.at = step]
  <2>1. next \in Process /\ next.user = u /\ proc' = [proc EXCEPT ![p] = next]
    BY <1>c, GotoIsProcess DEF TypeOK
  <2> HIDE DEF next
  <2> QED BY <1>b, <1>c, <2>1
<1>1. CASE RecordJoin(p)
  <2>1. u \in Users /\ proc' \in [Processes -> Process] /\ ActsForSomebody'
    BY <1>1, <1>a, <1>c DEF RecordJoin, JoinStep
  <2> QED BY <1>1, <2>1 DEF RecordJoin, TypeOK, store, history
<1>2. CASE JoinRoomChannel(p)
  <2>0. u \in Users
    BY <1>2, <1>a DEF JoinRoomChannel
  <2> DEFINE next == IF proc[p].flag THEN Doing("look", u, TRUE) ELSE Idle
  <2>1. next \in Process /\ (next.at \notin {"idle", "erase"} => next.user \in Users)
    BY <2>0, IdleIsProcess DEF Doing, Process, JoinStep
  <2>2. proc' = [proc EXCEPT ![p] = next]
    BY <1>2 DEF JoinRoomChannel
  <2>3. proc' \in [Processes -> Process] /\ ActsForSomebody'
    <3> HIDE DEF next
    <3> QED BY <1>b, <2>1, <2>2
  <2> QED BY <1>2, <2>3 DEF JoinRoomChannel, SocketsOf, TypeOK, store, history
<1>3. CASE Look(p)
  <2>0. u \in Users
    BY <1>3, <1>a DEF Look
  <2> DEFINE next == IF Visible(u) THEN Doing("greet", u, TRUE) ELSE Idle
  <2>1. next \in Process /\ (next.at \notin {"idle", "erase"} => next.user \in Users)
    BY <2>0, IdleIsProcess DEF Doing, Process, JoinStep
  <2>2. proc' = [proc EXCEPT ![p] = next]
    BY <1>3 DEF Look, TypeOK
  <2>3. proc' \in [Processes -> Process] /\ ActsForSomebody'
    <3> HIDE DEF next
    <3> QED BY <1>b, <2>1, <2>2
  <2> QED BY <1>3, <2>3 DEF Look, TypeOK, store
<1>4. CASE Greet(p)
  <2>0. u \in Users
    BY <1>4, <1>a DEF Greet
  <2>1. proc' \in [Processes -> Process] /\ ActsForSomebody'
    BY <1>4, <1>b, IdleIsProcess DEF Greet
  <2> QED BY <1>4, <2>0, <2>1 DEF Greet, TypeOK, store
<1>5. CASE SetOffline(p)
  <2>1. u \in Users /\ proc' \in [Processes -> Process] /\ ActsForSomebody'
    BY <1>5, <1>a, <1>c DEF SetOffline, LeaveStep
  <2>2. score' \in [Users -> NotIndexed..Ttl]
    BY <1>5, <2>1 DEF SetOffline, TypeOK, NotIndexed
  <2> QED BY <1>5, <2>1, <2>2 DEF SetOffline, TypeOK, history
<1>6. CASE LeaveRoomChannel(p)
  <2>1. u \in Users /\ proc' \in [Processes -> Process] /\ ActsForSomebody'
    BY <1>6, <1>a, <1>c DEF LeaveRoomChannel, LeaveStep
  <2> QED BY <1>6, <2>1 DEF LeaveRoomChannel, TypeOK, store, history
<1>7. CASE RecordLeave(p)
  <2>0. u \in Users
    BY <1>7, <1>a DEF RecordLeave
  <2> DEFINE next == IF ClosedByThisCall(u) THEN [proc[p] EXCEPT !.at = "farewell"]
                     ELSE Finished(p)
  <2>1. next \in Process /\ (next.at \notin {"idle", "erase"} => next.user \in Users)
    <3>1. /\ [proc[p] EXCEPT !.at = "farewell"] \in Process
          /\ [proc[p] EXCEPT !.at = "farewell"].user = u
      BY GotoIsProcess DEF LeaveStep, TypeOK
    <3>2. Finished(p) \in Process /\ Finished(p).at \in {"idle", "erase"}
      BY FinishedIsProcess DEF TypeOK
    <3> QED BY <2>0, <3>1, <3>2
  <2>2. proc' = [proc EXCEPT ![p] = next]
    BY <1>7 DEF RecordLeave, TypeOK
  <2>3. proc' \in [Processes -> Process] /\ ActsForSomebody'
    <3> HIDE DEF next
    <3> QED BY <1>b, <2>1, <2>2
  <2> QED BY <1>7, <2>3 DEF RecordLeave, TypeOK, store
<1>8. CASE BidFarewell(p)
  <2>1. proc' \in [Processes -> Process] /\ ActsForSomebody'
    <3>1. Finished(p) \in Process /\ Finished(p).at \in {"idle", "erase"}
      BY FinishedIsProcess DEF TypeOK
    <3> QED BY <1>8, <1>b, <3>1 DEF BidFarewell
  <2> QED BY <1>8, <2>1 DEF BidFarewell, TypeOK, store
<1>9. CASE Prune(p)
  <2>0. u \in Users
    BY <1>9, <1>a DEF Prune
  <2> DEFINE next == IF proc[p].flag THEN Doing("beat", u, FALSE) ELSE Idle
  <2>1. next \in Process /\ (next.at \notin {"idle", "erase"} => next.user \in Users)
    BY <2>0, IdleIsProcess DEF Doing, Process, OtherStep
  <2>2. proc' = [proc EXCEPT ![p] = next]
    BY <1>9 DEF Prune, TypeOK
  <2>3. proc' \in [Processes -> Process] /\ ActsForSomebody'
    <3> HIDE DEF next
    <3> QED BY <1>b, <2>1, <2>2
  <2> QED BY <1>9, <2>3 DEF Prune, TypeOK, history
<1>10. CASE Beat(p)
  <2>1. proc' \in [Processes -> Process] /\ ActsForSomebody'
    BY <1>10, <1>b, IdleIsProcess DEF Beat
  <2>2. score' \in [Users -> NotIndexed..Ttl]
    BY <1>10, <1>a DEF Beat, TypeOK, NotIndexed
  <2> QED BY <1>10, <2>1, <2>2 DEF Beat, TypeOK, history
<1>11. CASE AskAlone(p)
  <2>0. u \in Users
    BY <1>11, <1>a DEF AskAlone
  <2> DEFINE next == IF Connected(u) THEN Idle ELSE [proc[p] EXCEPT !.at = "list"]
  <2>1. next \in Process /\ (next.at \notin {"idle", "erase"} => next.user \in Users)
    <3>1. /\ [proc[p] EXCEPT !.at = "list"] \in Process
          /\ [proc[p] EXCEPT !.at = "list"].user = u
      BY GotoIsProcess DEF OtherStep, TypeOK
    <3> QED BY <2>0, <3>1, IdleIsProcess
  <2>2. proc' = [proc EXCEPT ![p] = next]
    BY <1>11 DEF AskAlone, TypeOK
  <2>3. proc' \in [Processes -> Process] /\ ActsForSomebody'
    <3> HIDE DEF next
    <3> QED BY <1>b, <2>1, <2>2
  <2> QED BY <1>11, <2>3 DEF AskAlone, TypeOK, store, history
<1>12. CASE ListRooms(p)
  <2>0. u \in Users
    BY <1>12, <1>a DEF ListRooms
  <2> DEFINE next == CASE FoundLive(u) -> Doing("offline", u, FALSE)
                       [] FoundStale(u) -> Doing("prune", u, FALSE)
                       [] OTHER -> Idle
  <2>1. next \in Process /\ (next.at \notin {"idle", "erase"} => next.user \in Users)
    <3>1. /\ Doing("offline", u, FALSE) \in Process /\ Doing("offline", u, FALSE).user = u
          /\ Doing("prune", u, FALSE) \in Process /\ Doing("prune", u, FALSE).user = u
      BY <2>0 DEF Doing, Process, LeaveStep, OtherStep
    <3>2. FoundLive(u) => ~FoundStale(u)
      BY DEF FoundLive, FoundStale
    <3> QED BY <2>0, <3>1, <3>2, IdleIsProcess
  <2>2. proc' = [proc EXCEPT ![p] = next]
    BY <1>12 DEF ListRooms
  <2>3. proc' \in [Processes -> Process] /\ ActsForSomebody'
    <3> HIDE DEF next
    <3> QED BY <1>b, <2>1, <2>2
  <2> QED BY <1>12, <2>3 DEF ListRooms, TypeOK, store, history
<1>13. CASE Erase(p)
  <2>1. proc[p].lapsed \subseteq Users /\ proc[p].leaving \subseteq Users
    BY <1>0 DEF Process
  <2>2. PICK v \in proc[p].lapsed :
            /\ hash' = hash \ {v}
            /\ rooms' = rooms \ {v}
            /\ proc' = [proc EXCEPT ![p].lapsed = @ \ {v}, ![p].leaving = @ \cup {v}]
    BY <1>13 DEF Erase
  <2> DEFINE next == [proc[p] EXCEPT !.lapsed = @ \ {v}, !.leaving = @ \cup {v}]
  <2>3. next \in Process /\ next.at = "erase"
    BY <1>0, <1>13, <2>1 DEF Process, Erase
  <2>4. proc' = [proc EXCEPT ![p] = next]
    BY <2>2 DEF TypeOK
  <2>5. proc' \in [Processes -> Process] /\ ActsForSomebody'
    <3> HIDE DEF next
    <3> QED BY <1>b, <2>3, <2>4
  <2> QED BY <1>13, <2>2, <2>5 DEF Erase, TypeOK, history
<1>14. CASE HandOver(p)
  <2>1. proc[p].leaving \subseteq Users
    BY <1>0 DEF Process
  <2>2. PICK v \in proc[p].leaving :
            proc' = [proc EXCEPT ![p].at = "offline", ![p].user = v,
                                 ![p].leaving = @ \ {v}]
    BY <1>14 DEF HandOver
  <2> DEFINE next == [proc[p] EXCEPT !.at = "offline", !.user = v, !.leaving = @ \ {v}]
  <2>3. next \in Process /\ next.user \in Users
    BY <1>0, <2>1 DEF Process, LeaveStep
  <2>4. proc' = [proc EXCEPT ![p] = next]
    BY <2>2 DEF TypeOK
  <2>5. proc' \in [Processes -> Process] /\ ActsForSomebody'
    <3> HIDE DEF next
    <3> QED BY <1>b, <2>3, <2>4
  <2> QED BY <1>14, <2>5 DEF HandOver, TypeOK, store, history
<1> QED BY <1>1, <1>2, <1>3, <1>4, <1>5, <1>6, <1>7, <1>8, <1>9, <1>10, <1>11,
           <1>12, <1>13, <1>14 DEF Proceed

LEMMA SweepWellFormed ==
    ASSUME WellFormed, NEW w \in Sweepers, ReapExpired(w)
    PROVE  WellFormed'
<1> USE PresenceAssumption, ProcessNames DEF WellFormed
<1> DEFINE next == [Doing("erase", NoUser, FALSE) EXCEPT !.lapsed = Lapsed]
           p == Sweep(w)
<1>1. next \in Process /\ next.at = "erase"
  BY DEF Doing, Process, OtherStep, Lapsed
<1>2. proc' = [proc EXCEPT ![p] = next] /\ p \in Processes
  BY DEF ReapExpired
<1>3. proc' \in [Processes -> Process] /\ ActsForSomebody'
  <2> HIDE DEF next, p
  <2> QED BY <1>1, <1>2, OneProcessMoves DEF TypeOK
<1>4. score' \in [Users -> NotIndexed..Ttl]
  BY DEF ReapExpired, TypeOK, NotIndexed
<1> QED BY <1>3, <1>4 DEF ReapExpired, TypeOK, history

LEMMA OutsideWellFormed ==
    ASSUME WellFormed, Tick \/ (\E p \in Processes : Abort(p))
    PROVE  WellFormed'
<1> USE PresenceAssumption DEF WellFormed
<1>1. CASE Tick
  <2>1. score' \in [Users -> NotIndexed..Ttl]
    BY <1>1 DEF Tick, Live, TypeOK, NotIndexed
  <2> QED BY <1>1, <2>1 DEF Tick, TypeOK, ActsForSomebody, history
<1>2. ASSUME NEW p \in Processes, Abort(p)
      PROVE  WellFormed'
  <2>1. proc' \in [Processes -> Process] /\ ActsForSomebody'
    BY <1>2, OneProcessMoves, IdleIsProcess DEF Abort, TypeOK
  <2> QED BY <1>2, <2>1 DEF Abort, TypeOK, store
<1> QED BY <1>1, <1>2

LEMMA InitWellFormed == Init => WellFormed
<1> SUFFICES ASSUME Init PROVE WellFormed
  OBVIOUS
<1>1. score \in [Users -> NotIndexed..Ttl]
  BY PresenceAssumption DEF Init, NotIndexed
<1>2. proc \in [Processes -> Process] /\ ActsForSomebody
  BY IdleIsProcess DEF Init, ActsForSomebody
<1> QED BY <1>1, <1>2 DEF Init, WellFormed, TypeOK

LEMMA StepWellFormed == WellFormed /\ [Next]_vars => WellFormed'
<1> SUFFICES ASSUME WellFormed, [Next]_vars PROVE WellFormed'
  OBVIOUS
<1>1. CASE UNCHANGED vars
  BY <1>1 DEF vars, WellFormed, TypeOK, ActsForSomebody
<1>2. CASE Next
  BY <1>2, RequestWellFormed, SocketWellFormed, ProceedWellFormed,
     SweepWellFormed, OutsideWellFormed DEF Next
<1> QED BY <1>1, <1>2

\* Every reachable state is of the declared types, whatever overlaps or fails.
THEOREM TypeCorrect == Spec => []TypeOK
<1>1. WellFormed => TypeOK
  BY DEF WellFormed
<1> QED BY <1>1, InitWellFormed, StepWellFormed, PTL DEF Spec

--------------------------------------------------------------------------------
(* Announcements are earned. *)

\* Only who is new goes on to announce it.
OnlyNewGreet == \A p \in Processes : proc[p].at \in {"look", "greet"} => proc[p].flag

Earned == FarewellsAreEarned /\ GreetingsAreEarned /\ OnlyNewGreet

LEMMA OneProcessEarns ==
    ASSUME WellFormed, Earned, NEW p \in Processes, NEW next,
           proc' = [proc EXCEPT ![p] = next],
           arrived \ {p} \subseteq arrived', ended \ {p} \subseteq ended',
           next.at = "farewell" => p \in ended',
           next.at \in JoinStep /\ next.flag => p \in arrived',
           next.at \in {"look", "greet"} => next.flag
    PROVE  Earned'
BY DEF WellFormed, TypeOK, Earned, FarewellsAreEarned, GreetingsAreEarned, OnlyNewGreet

\* A step to somewhere that announces nothing.
LEMMA SilentStepEarns ==
    ASSUME WellFormed, Earned, NEW p \in Processes, NEW next,
           proc' = [proc EXCEPT ![p] = next],
           arrived \ {p} \subseteq arrived', ended \ {p} \subseteq ended',
           next.at \notin JoinStep \cup {"farewell"}
    PROVE  Earned'
BY OneProcessEarns DEF JoinStep

LEMMA FinishedIsSilent ==
    ASSUME WellFormed, NEW p \in Processes
    PROVE  Finished(p).at \notin JoinStep \cup {"farewell"}
BY FinishedIsProcess DEF WellFormed, TypeOK, JoinStep

LEMMA IdleIsSilent == Idle.at \notin JoinStep \cup {"farewell"}
BY IdleIsProcess DEF JoinStep

LEMMA ProceedEarns ==
    ASSUME WellFormed, Earned, NEW p \in Processes, Proceed(p)
    PROVE  Earned'
<1> DEFINE u == proc[p].user
<1>0. /\ proc[p] \in Process /\ proc \in [Processes -> Process]
      /\ proc[p].at = "farewell" => p \in ended
      /\ proc[p].at \in JoinStep /\ proc[p].flag => p \in arrived
      /\ proc[p].at \in {"look", "greet"} => proc[p].flag
  BY DEF WellFormed, TypeOK, Earned, FarewellsAreEarned, GreetingsAreEarned, OnlyNewGreet
<1>1. CASE RecordJoin(p)
  <2> DEFINE next == [proc[p] EXCEPT !.at = "subscribe"]
  <2>1. next.at = "subscribe" /\ next.flag = proc[p].flag
    BY <1>0 DEF Process
  <2>2. proc' = [proc EXCEPT ![p] = next] /\ UNCHANGED <<arrived, ended>>
    BY <1>0, <1>1 DEF RecordJoin, Goto, history
  <2>3. next.flag => p \in arrived
    BY <1>0, <1>1, <2>1 DEF RecordJoin, JoinStep
  <2> HIDE DEF next
  <2> QED BY <2>1, <2>2, <2>3, OneProcessEarns
<1>2. CASE JoinRoomChannel(p)
  <2> DEFINE next == IF proc[p].flag THEN Doing("look", u, TRUE) ELSE Idle
  <2>1. /\ next.at # "farewell" /\ (next.at \in JoinStep => p \in arrived)
        /\ next.at \in JoinStep => next.flag
    BY <1>0, <1>2, IdleIsSilent DEF JoinRoomChannel, Doing, JoinStep
  <2>2. proc' = [proc EXCEPT ![p] = next] /\ UNCHANGED <<arrived, ended>>
    BY <1>0, <1>2 DEF JoinRoomChannel, history
  <2> HIDE DEF next
  <2> QED BY <2>1, <2>2, OneProcessEarns DEF JoinStep
<1>3. CASE Look(p)
  <2> DEFINE next == IF Visible(u) THEN Doing("greet", u, TRUE) ELSE Idle
  <2>1. /\ next.at # "farewell" /\ (next.at \in JoinStep => p \in arrived')
        /\ next.at \in JoinStep => next.flag
    <3>1. CASE Visible(u)
      <4>1. proc[p].flag
        BY <1>0, <1>3 DEF Look
      <4> QED BY <1>0, <1>3, <3>1, <4>1 DEF Look, Doing, JoinStep
    <3>2. CASE ~Visible(u)
      BY <3>2, IdleIsSilent
    <3> QED BY <3>1, <3>2
  <2>2. /\ proc' = [proc EXCEPT ![p] = next]
        /\ arrived \ {p} \subseteq arrived' /\ ended' = ended
    BY <1>0, <1>3 DEF Look
  <2> HIDE DEF next
  <2> QED BY <2>1, <2>2, OneProcessEarns DEF JoinStep
<1>4. CASE Greet(p)
  BY <1>4, SilentStepEarns, IdleIsSilent DEF Greet
<1>5. CASE SetOffline(p)
  <2> DEFINE next == [proc[p] EXCEPT !.at = "unsubscribe"]
  <2>1. next.at \notin JoinStep \cup {"farewell"}
    BY <1>0 DEF Process, JoinStep
  <2>2. proc' = [proc EXCEPT ![p] = next] /\ UNCHANGED <<arrived, ended>>
    BY <1>0, <1>5 DEF SetOffline, Goto, history
  <2> HIDE DEF next
  <2> QED BY <2>1, <2>2, SilentStepEarns
<1>6. CASE LeaveRoomChannel(p)
  <2> DEFINE next == [proc[p] EXCEPT !.at = "close"]
  <2>1. next.at \notin JoinStep \cup {"farewell"}
    BY <1>0 DEF Process, JoinStep
  <2>2. proc' = [proc EXCEPT ![p] = next] /\ UNCHANGED <<arrived, ended>>
    BY <1>0, <1>6 DEF LeaveRoomChannel, Goto, history
  <2> HIDE DEF next
  <2> QED BY <2>1, <2>2, SilentStepEarns
<1>7. CASE RecordLeave(p)
  <2>1. CASE u \in open
    <3> DEFINE next == [proc[p] EXCEPT !.at = "farewell"]
    <3>1. next.at = "farewell" /\ next.at \notin JoinStep
      BY <1>0 DEF Process, JoinStep
    <3>2. proc' = [proc EXCEPT ![p] = next] /\ arrived' = arrived /\ ended' = ended \cup {p}
      BY <1>0, <1>7, <2>1 DEF RecordLeave, ClosedByThisCall
    <3> HIDE DEF next
    <3> QED BY <3>1, <3>2, OneProcessEarns
  <2>2. CASE u \notin open
    <3>1. proc' = [proc EXCEPT ![p] = Finished(p)] /\ arrived' = arrived /\ ended' = ended
      BY <1>0, <1>7, <2>2 DEF RecordLeave, ClosedByThisCall
    <3> QED BY <3>1, SilentStepEarns, FinishedIsSilent
  <2> QED BY <2>1, <2>2
<1>8. CASE BidFarewell(p)
  BY <1>8, SilentStepEarns, FinishedIsSilent DEF BidFarewell
<1>9. CASE Prune(p)
  <2> DEFINE next == IF proc[p].flag THEN Doing("beat", u, FALSE) ELSE Idle
  <2>1. next.at \notin JoinStep \cup {"farewell"}
    BY IdleIsSilent DEF Doing, JoinStep
  <2>2. proc' = [proc EXCEPT ![p] = next] /\ UNCHANGED <<arrived, ended>>
    BY <1>0, <1>9 DEF Prune, history
  <2> HIDE DEF next
  <2> QED BY <2>1, <2>2, SilentStepEarns
<1>10. CASE Beat(p)
  BY <1>10, SilentStepEarns, IdleIsSilent DEF Beat, history
<1>11. CASE AskAlone(p)
  <2> DEFINE next == IF Connected(u) THEN Idle ELSE [proc[p] EXCEPT !.at = "list"]
  <2>1. next.at \notin JoinStep \cup {"farewell"}
    BY <1>0, IdleIsSilent DEF Process, JoinStep
  <2>2. proc' = [proc EXCEPT ![p] = next] /\ UNCHANGED <<arrived, ended>>
    BY <1>0, <1>11 DEF AskAlone, history
  <2> HIDE DEF next
  <2> QED BY <2>1, <2>2, SilentStepEarns
<1>12. CASE ListRooms(p)
  <2> DEFINE next == CASE FoundLive(u) -> Doing("offline", u, FALSE)
                       [] FoundStale(u) -> Doing("prune", u, FALSE)
                       [] OTHER -> Idle
  <2>1. next.at \notin JoinStep \cup {"farewell"}
    <3>1. FoundLive(u) => ~FoundStale(u)
      BY DEF FoundLive, FoundStale
    <3> QED BY <3>1, IdleIsSilent DEF Doing, JoinStep
  <2>2. proc' = [proc EXCEPT ![p] = next] /\ UNCHANGED <<arrived, ended>>
    BY <1>0, <1>12 DEF ListRooms, history
  <2> HIDE DEF next
  <2> QED BY <2>1, <2>2, SilentStepEarns
<1>13. CASE Erase(p)
  <2>1. PICK v \in proc[p].lapsed :
            proc' = [proc EXCEPT ![p].lapsed = @ \ {v}, ![p].leaving = @ \cup {v}]
    BY <1>13 DEF Erase
  <2> DEFINE next == [proc[p] EXCEPT !.lapsed = @ \ {v}, !.leaving = @ \cup {v}]
  <2>2. next.at \notin JoinStep \cup {"farewell"}
    BY <1>0, <1>13 DEF Process, Erase, JoinStep
  <2>3. proc' = [proc EXCEPT ![p] = next] /\ UNCHANGED <<arrived, ended>>
    BY <1>0, <1>13, <2>1 DEF Erase, history
  <2> HIDE DEF next
  <2> QED BY <2>2, <2>3, SilentStepEarns
<1>14. CASE HandOver(p)
  <2>1. PICK v \in proc[p].leaving :
            proc' = [proc EXCEPT ![p].at = "offline", ![p].user = v,
                                 ![p].leaving = @ \ {v}]
    BY <1>14 DEF HandOver
  <2> DEFINE next == [proc[p] EXCEPT !.at = "offline", !.user = v, !.leaving = @ \ {v}]
  <2>2. next.at \notin JoinStep \cup {"farewell"}
    BY <1>0 DEF Process, JoinStep
  <2>3. proc' = [proc EXCEPT ![p] = next] /\ UNCHANGED <<arrived, ended>>
    BY <1>0, <1>14, <2>1 DEF HandOver, history
  <2> HIDE DEF next
  <2> QED BY <2>2, <2>3, SilentStepEarns
<1> QED BY <1>1, <1>2, <1>3, <1>4, <1>5, <1>6, <1>7, <1>8, <1>9, <1>10, <1>11,
           <1>12, <1>13, <1>14 DEF Proceed

LEMMA StepEarns == WellFormed /\ Earned /\ [Next]_vars => Earned'
<1> SUFFICES ASSUME WellFormed, Earned, [Next]_vars PROVE Earned'
  OBVIOUS
<1> USE ProcessNames
<1>1. CASE UNCHANGED vars
  BY <1>1 DEF vars, Earned, FarewellsAreEarned, GreetingsAreEarned, OnlyNewGreet
<1>2. ASSUME NEW s \in Sockets, JoinRoom(s)
      PROVE  Earned'
  <2> DEFINE p == Queue(s)
             next == Doing("record", UserOf[s], IsNewArrival(UserOf[s]))
  <2>1. next.at = "record" /\ (next.flag => p \in arrived')
    BY <1>2 DEF JoinRoom, Doing, IsNewArrival
  <2>2. /\ proc' = [proc EXCEPT ![p] = next] /\ p \in Processes
        /\ arrived \subseteq arrived' /\ ended' = ended
    BY <1>2 DEF JoinRoom
  <2> HIDE DEF next, p
  <2> QED BY <2>1, <2>2, OneProcessEarns DEF JoinStep
<1>3. ASSUME NEW s \in Sockets, LeaveRoom(s)
      PROVE  Earned'
  BY <1>3, SilentStepEarns DEF LeaveRoom, Doing, JoinStep, history
<1>4. ASSUME NEW s \in Sockets, NEW claimed \in BOOLEAN, Heartbeat(s, claimed)
      PROVE  Earned'
  <2> DEFINE p == Queue(s)
             next == Doing(IF FoundStale(UserOf[s]) THEN "prune" ELSE "beat",
                           UserOf[s], claimed)
  <2>1. next.at \notin JoinStep \cup {"farewell"}
    BY DEF Doing, JoinStep
  <2>2. /\ proc' = [proc EXCEPT ![p] = next] /\ p \in Processes
        /\ UNCHANGED <<arrived, ended>>
    BY <1>4 DEF Heartbeat, history
  <2> HIDE DEF next, p
  <2> QED BY <2>1, <2>2, SilentStepEarns
<1>5. ASSUME NEW s \in Sockets, Disconnect(s)
      PROVE  Earned'
  BY <1>5, SilentStepEarns DEF Disconnect, Doing, JoinStep, history
<1>6. ASSUME NEW s \in Sockets, Connect(s) \/ Vanish(s)
      PROVE  Earned'
  BY <1>6 DEF Connect, Vanish, history, Earned, FarewellsAreEarned, GreetingsAreEarned,
       OnlyNewGreet
<1>7. ASSUME NEW p \in Processes, Abort(p)
      PROVE  Earned'
  BY <1>7, SilentStepEarns, IdleIsSilent DEF Abort
<1>8. ASSUME NEW w \in Sweepers, ReapExpired(w)
      PROVE  Earned'
  <2> DEFINE p == Sweep(w)
             next == [Doing("erase", NoUser, FALSE) EXCEPT !.lapsed = Lapsed]
  <2>1. next.at \notin JoinStep \cup {"farewell"}
    BY DEF Doing, JoinStep
  <2>2. /\ proc' = [proc EXCEPT ![p] = next] /\ p \in Processes
        /\ UNCHANGED <<arrived, ended>>
    BY <1>8 DEF ReapExpired, history
  <2> HIDE DEF next, p
  <2> QED BY <2>1, <2>2, SilentStepEarns
<1>9. CASE Tick
  BY <1>9 DEF Tick, history, Earned, FarewellsAreEarned, GreetingsAreEarned,
       OnlyNewGreet
<1> QED BY <1>1, <1>2, <1>3, <1>4, <1>5, <1>6, <1>7, <1>8, <1>9, ProceedEarns
        DEF Next, Request

LEMMA InitEarned == Init => Earned
BY IdleIsSilent DEF Init, Earned, FarewellsAreEarned, GreetingsAreEarned,
                     OnlyNewGreet, JoinStep

\* One departure is announced at most once: each user:left is preceded by the
\* end of a session that the announcing process brought about itself.
THEOREM DeparturesAnnouncedOnce == Spec => []FarewellsAreEarned
<1>1. Earned => FarewellsAreEarned
  BY DEF Earned
<1> QED BY <1>1, InitWellFormed, StepWellFormed, InitEarned, StepEarns, PTL DEF Spec

\* One arrival is announced at most once: each user:joined is preceded by the
\* beginning of a stay that the announcing process brought about itself.
THEOREM ArrivalsAnnouncedOnce == Spec => []GreetingsAreEarned
<1>1. Earned => GreetingsAreEarned
  BY DEF Earned
<1> QED BY <1>1, InitWellFormed, StepWellFormed, InitEarned, StepEarns, PTL DEF Spec

--------------------------------------------------------------------------------
(* Nobody becomes present but by joining. *)

LEMMA NobodyAppears ==
    ASSUME WellFormed, hash' \subseteq hash,
           \A u \in Users : score'[u] > 0 => score[u] > 0
    PROVE  \A u \in Users : Visible(u)' => Visible(u)
BY DEF Visible, Live

LEMMA ProceedHidesOnly ==
    ASSUME WellFormed, NEW p \in Processes, Proceed(p)
    PROVE  \A u \in Users : Visible(u)' => Visible(u)
<1> USE DEF WellFormed, TypeOK
<1>1. CASE SetOffline(p)
  BY <1>1, NobodyAppears DEF SetOffline, NotIndexed
<1>2. CASE Beat(p)
  <2>1. \A u \in Users : score'[u] > 0 => score[u] > 0
    BY <1>2 DEF Beat, Live
  <2> QED BY <1>2, <2>1, NobodyAppears DEF Beat
<1>3. CASE Erase(p)
  BY <1>3, NobodyAppears DEF Erase
<1>4. CASE UNCHANGED <<hash, score>>
  BY <1>4, NobodyAppears
<1> QED BY <1>1, <1>2, <1>3, <1>4
        DEF Proceed, RecordJoin, JoinRoomChannel, Look, Greet, LeaveRoomChannel,
            RecordLeave, BidFarewell, Prune, AskAlone, ListRooms, HandOver, store

LEMMA StepOnlyJoins ==
    ASSUME WellFormed, [Next]_vars
    PROVE  [\A u \in Users :
              Visible(u)' /\ ~Visible(u) =>
                \E s \in Sockets : UserOf[s] = u /\ proc[Queue(s)] = Idle
                                   /\ proc'[Queue(s)].at = "record"]_vars
<1> USE DEF WellFormed, TypeOK
<1>1. CASE UNCHANGED vars
  BY <1>1
<1>2. ASSUME NEW s \in Sockets, JoinRoom(s)
      PROVE  \A u \in Users :
               Visible(u)' /\ ~Visible(u) =>
                 UserOf[s] = u /\ proc[Queue(s)] = Idle /\ proc'[Queue(s)].at = "record"
  <2>1. proc[Queue(s)] = Idle /\ proc'[Queue(s)].at = "record"
    BY <1>2, ProcessNames DEF JoinRoom, Doing
  <2>2. \A u \in Users : u # UserOf[s] => (Visible(u)' => Visible(u))
    BY <1>2 DEF JoinRoom, Visible, Live
  <2> QED BY <2>1, <2>2
<1>3. ASSUME NEW p \in Processes, Abort(p)
      PROVE  \A u \in Users : Visible(u)' => Visible(u)
  BY <1>3, NobodyAppears DEF Abort, store
<1>4. ASSUME NEW w \in Sweepers, ReapExpired(w)
      PROVE  \A u \in Users : Visible(u)' => Visible(u)
  BY <1>4, NobodyAppears DEF ReapExpired, NotIndexed
<1>5. ASSUME Tick
      PROVE  \A u \in Users : Visible(u)' => Visible(u)
  BY <1>5, NobodyAppears DEF Tick, Live
<1>6. ASSUME NEW s \in Sockets, UNCHANGED store
      PROVE  \A u \in Users : Visible(u)' => Visible(u)
  BY <1>6, NobodyAppears DEF store
<1>7. ASSUME NEW s \in Sockets,
             \/ LeaveRoom(s) \/ (\E claimed \in BOOLEAN : Heartbeat(s, claimed))
             \/ Connect(s) \/ Disconnect(s) \/ Vanish(s)
      PROVE  \A u \in Users : Visible(u)' => Visible(u)
  <2>1. UNCHANGED store
    BY <1>7 DEF LeaveRoom, Heartbeat, Connect, Disconnect, Vanish
  <2> QED BY <1>6, <1>7, <2>1
<1> QED BY <1>1, <1>2, <1>3, <1>4, <1>5, <1>7, ProceedHidesOnly DEF Next, Request

\* A heartbeat, a sweep, a cleanup or a failure never brings anybody back.
THEOREM PresenceComesFromJoining == Spec => OnlyJoinsMakePresent
<1>1. WellFormed /\ [Next]_vars =>
        [\A u \in Users :
           Visible(u)' /\ ~Visible(u) =>
             \E s \in Sockets : UserOf[s] = u /\ proc[Queue(s)] = Idle
                                /\ proc'[Queue(s)].at = "record"]_vars
  BY StepOnlyJoins
<1> QED BY <1>1, InitWellFormed, StepWellFormed, PTL DEF Spec, OnlyJoinsMakePresent

--------------------------------------------------------------------------------
(* One thing at a time, and nothing fails: what the room is told follows the  *)
(* sessions.                                                                  *)

\* Whom a process has work in hand for.
Concern(r) == ({r.user} \cup r.lapsed \cup r.leaving) \ {NoUser}

InTurn ==
    \A p, q \in Processes : p # q => Concern(proc[p]) \cap Concern(proc[q]) = {}

InStep ==
    /\ \A u \in told : \/ u \in open
                       \/ \E p \in Processes : proc[p].at = "farewell" /\ proc[p].user = u
    /\ \A p \in Processes :
        /\ proc[p].at = "farewell" => proc[p].user \notin open
        /\ proc[p].at \in {"subscribe", "look", "greet"} => proc[p].user \in open

Orderly == InTurn /\ InStep

LEMMA ConcernOfIdle == Concern(Idle) = {}
BY IdleIsProcess DEF Concern

\* A process goes on without taking on anybody, or takes on somebody who is free.
LEMMA TurnsAreKept ==
    ASSUME WellFormed, InTurn, NEW p \in Processes, NEW next,
           proc' = [proc EXCEPT ![p] = next],
           \A u \in Concern(next) : u \in Concern(proc[p]) \/ ~Busy(u)
    PROVE  InTurn'
<1>1. \A q \in Processes : q # p => proc'[q] = proc[q]
  OBVIOUS
<1>2. proc'[p] = next
  BY DEF WellFormed, TypeOK
<1>3. \A q \in Processes : \A u : u \in Concern(proc[q]) => Busy(u)
  BY DEF Concern, Busy
<1> QED BY <1>1, <1>2, <1>3 DEF InTurn

\* A process goes on and neither the rows nor the announcements change.
LEMMA QuietMove ==
    ASSUME WellFormed, InStep, NEW p \in Processes, NEW next,
           proc' = [proc EXCEPT ![p] = next], UNCHANGED <<open, told>>,
           proc[p].at # "farewell", next.at # "farewell",
           next.at \in {"subscribe", "look", "greet"} => next.user \in open
    PROVE  InStep'
<1>1. \A q \in Processes : q # p => proc'[q] = proc[q]
  OBVIOUS
<1>2. proc'[p] = next
  BY DEF WellFormed, TypeOK
<1> QED BY <1>1, <1>2 DEF InStep

Follows == Orderly' /\ [A!Next]_<<open, told>>

LEMMA QuietFollows ==
    ASSUME WellFormed, Orderly, NEW p \in Processes, NEW next,
           proc' = [proc EXCEPT ![p] = next], UNCHANGED <<open, told>>,
           proc[p].at # "farewell", next.at # "farewell",
           next.at \in {"subscribe", "look", "greet"} => next.user \in open,
           \A u \in Concern(next) : u \in Concern(proc[p]) \/ ~Busy(u)
    PROVE  Follows
BY TurnsAreKept, QuietMove DEF Orderly, Follows

\* Only one process acts for a user.
LEMMA NobodyElse ==
    ASSUME WellFormed, InTurn, NEW p \in Processes, NEW q \in Processes,
           proc[p].user \in Users, proc[q].user = proc[p].user
    PROVE  p = q
BY PresenceAssumption DEF InTurn, Concern

LEMMA FinishedConcerns ==
    ASSUME WellFormed, NEW p \in Processes
    PROVE  /\ Concern(Finished(p)) \subseteq Concern(proc[p])
           /\ Finished(p).at \in {"idle", "erase"}
<1>1. CASE proc[p].leaving = {}
  BY <1>1, ConcernOfIdle, IdleIsProcess DEF Finished
<1>2. CASE proc[p].leaving # {}
  BY <1>2 DEF WellFormed, TypeOK, Finished, Process, Concern
<1> QED BY <1>1, <1>2

LEMMA ProceedFollows ==
    ASSUME WellFormed, Orderly, NEW p \in Processes, Proceed(p)
    PROVE  Follows
<1> DEFINE u == proc[p].user
<1>0. /\ proc[p] \in Process /\ proc \in [Processes -> Process]
      /\ u \in Users \/ proc[p].at \in {"idle", "erase"}
      /\ proc[p].at \in {"subscribe", "look", "greet"} => u \in open
      /\ proc[p].at = "farewell" => u \notin open
      /\ InTurn /\ InStep
      /\ u \in Users => u # NoUser
  BY PresenceAssumption
     DEF WellFormed, TypeOK, ActsForSomebody, Orderly, InStep
<1>1. CASE RecordJoin(p)
  <2> DEFINE next == [proc[p] EXCEPT !.at = "subscribe"]
  <2>0. u \in Users
    BY <1>0, <1>1 DEF RecordJoin
  <2>1. next.at = "subscribe" /\ next.user = u /\ Concern(next) = Concern(proc[p])
    BY <1>0 DEF Process, Concern
  <2>2. proc' = [proc EXCEPT ![p] = next] /\ told' = told /\ open' = open \cup {u}
    BY <1>0, <1>1 DEF RecordJoin, Goto
  <2>3. proc[p].at = "record"
    BY <1>1 DEF RecordJoin
  <2> HIDE DEF next
  <2>4. InTurn'
    BY <1>0, <2>1, <2>2, TurnsAreKept
  <2>5. \A q \in Processes : q # p => proc'[q] = proc[q] /\ proc[q].user # u
    BY <1>0, <2>0, <2>2, NobodyElse
  <2>6. proc'[p] = next
    BY <1>0, <2>2
  <2>7. u \notin told \/ u \in open
    BY <1>0, <2>3, <2>5 DEF InStep
  <2>8. InStep'
    BY <1>0, <2>1, <2>2, <2>3, <2>5, <2>6 DEF InStep
  <2>9. [A!Next]_<<open, told>>
    BY <2>0, <2>2, <2>7 DEF A!Next, A!Enter
  <2> QED BY <2>4, <2>8, <2>9 DEF Follows, Orderly
<1>2. CASE JoinRoomChannel(p)
  <2> DEFINE next == IF proc[p].flag THEN Doing("look", u, TRUE) ELSE Idle
  <2>1. /\ next.at # "farewell" /\ Concern(next) \subseteq Concern(proc[p])
        /\ next.at \in {"subscribe", "look", "greet"} => next.user \in open
    BY <1>0, <1>2, IdleIsProcess, ConcernOfIdle DEF JoinRoomChannel, Doing, Concern
  <2>2. proc' = [proc EXCEPT ![p] = next] /\ UNCHANGED <<open, told>>
    BY <1>2 DEF JoinRoomChannel
  <2>3. proc[p].at # "farewell"
    BY <1>2 DEF JoinRoomChannel
  <2> HIDE DEF next
  <2> QED BY <2>1, <2>2, <2>3, QuietFollows
<1>3. CASE Look(p)
  <2> DEFINE next == IF Visible(u) THEN Doing("greet", u, TRUE) ELSE Idle
  <2>1. /\ next.at # "farewell" /\ Concern(next) \subseteq Concern(proc[p])
        /\ next.at \in {"subscribe", "look", "greet"} => next.user \in open
    BY <1>0, <1>3, IdleIsProcess, ConcernOfIdle DEF Look, Doing, Concern
  <2>2. proc' = [proc EXCEPT ![p] = next] /\ UNCHANGED <<open, told>>
    BY <1>0, <1>3 DEF Look
  <2>3. proc[p].at # "farewell"
    BY <1>3 DEF Look
  <2> HIDE DEF next
  <2> QED BY <2>1, <2>2, <2>3, QuietFollows
<1>4. CASE Greet(p)
  <2>1. u \in Users /\ u \in open
    BY <1>0, <1>4 DEF Greet
  <2>2. /\ proc' = [proc EXCEPT ![p] = Idle]
        /\ told' = told \cup {u} /\ open' = open /\ proc[p].at = "greet"
    BY <1>4 DEF Greet
  <2>3. InTurn'
    BY <1>0, <2>2, TurnsAreKept, ConcernOfIdle
  <2>4. /\ proc'[p] = Idle
        /\ \A q \in Processes : q # p => proc'[q] = proc[q]
    BY <1>0, <2>2
  <2>5. InStep'
    BY <1>0, <2>1, <2>2, <2>4, IdleIsProcess DEF InStep
  <2>6. [A!Next]_<<open, told>>
    BY <2>1, <2>2 DEF A!Next, A!Greet
  <2> QED BY <2>3, <2>5, <2>6 DEF Follows, Orderly
<1>5. CASE SetOffline(p)
  <2> DEFINE next == [proc[p] EXCEPT !.at = "unsubscribe"]
  <2>1. next.at = "unsubscribe" /\ Concern(next) = Concern(proc[p])
    BY <1>0 DEF Process, Concern
  <2>2. proc' = [proc EXCEPT ![p] = next] /\ UNCHANGED <<open, told>>
    BY <1>0, <1>5 DEF SetOffline, Goto
  <2>3. proc[p].at # "farewell"
    BY <1>5 DEF SetOffline
  <2> HIDE DEF next
  <2> QED BY <2>1, <2>2, <2>3, QuietFollows
<1>6. CASE LeaveRoomChannel(p)
  <2> DEFINE next == [proc[p] EXCEPT !.at = "close"]
  <2>1. next.at = "close" /\ Concern(next) = Concern(proc[p])
    BY <1>0 DEF Process, Concern
  <2>2. proc' = [proc EXCEPT ![p] = next] /\ UNCHANGED <<open, told>>
    BY <1>0, <1>6 DEF LeaveRoomChannel, Goto
  <2>3. proc[p].at # "farewell"
    BY <1>6 DEF LeaveRoomChannel
  <2> HIDE DEF next
  <2> QED BY <2>1, <2>2, <2>3, QuietFollows
<1>7. CASE RecordLeave(p)
  <2>0. u \in Users /\ proc[p].at = "close" /\ open' = open \ {u} /\ told' = told
    BY <1>0, <1>7 DEF RecordLeave
  <2>1. CASE u \in open
    <3> DEFINE next == [proc[p] EXCEPT !.at = "farewell"]
    <3>1. next.at = "farewell" /\ next.user = u /\ Concern(next) = Concern(proc[p])
      BY <1>0 DEF Process, Concern
    <3>2. proc' = [proc EXCEPT ![p] = next]
      BY <1>0, <1>7, <2>1 DEF RecordLeave, ClosedByThisCall
    <3> HIDE DEF next
    <3>3. InTurn'
      BY <1>0, <3>1, <3>2, TurnsAreKept
    <3>4. proc'[p] = next /\ p \in Processes
      BY <1>0, <3>2
    <3>5. \A q \in Processes : q # p => proc'[q] = proc[q] /\ proc[q].user # u
      BY <1>0, <2>0, <3>2, NobodyElse
    <3>6. InStep'
      BY <1>0, <2>0, <3>1, <3>4, <3>5 DEF InStep
    <3>7. [A!Next]_<<open, told>>
      BY <2>0, <2>1 DEF A!Next, A!Exit
    <3> QED BY <3>3, <3>6, <3>7 DEF Follows, Orderly
  <2>2. CASE u \notin open
    <3>1. proc' = [proc EXCEPT ![p] = Finished(p)] /\ UNCHANGED <<open, told>>
      BY <1>0, <1>7, <2>0, <2>2 DEF RecordLeave, ClosedByThisCall
    <3> QED BY <2>0, <3>1, QuietFollows, FinishedConcerns
  <2> QED BY <2>1, <2>2
<1>8. CASE BidFarewell(p)
  <2>1. u \in Users /\ u \notin open
    BY <1>0, <1>8 DEF BidFarewell
  <2>2. /\ proc' = [proc EXCEPT ![p] = Finished(p)]
        /\ told' = told \ {u} /\ open' = open
    BY <1>8 DEF BidFarewell
  <2>3. InTurn'
    BY <1>0, <2>2, TurnsAreKept, FinishedConcerns
  <2>4. /\ proc'[p] = Finished(p) /\ Finished(p).at \in {"idle", "erase"}
        /\ \A q \in Processes : q # p => proc'[q] = proc[q]
    BY <1>0, <2>2, FinishedConcerns
  <2>5. InStep'
    BY <1>0, <2>1, <2>2, <2>4 DEF InStep
  <2>6. [A!Next]_<<open, told>>
    BY <2>1, <2>2 DEF A!Next, A!BidFarewell
  <2> QED BY <2>3, <2>5, <2>6 DEF Follows, Orderly
<1>9. CASE Prune(p)
  <2> DEFINE next == IF proc[p].flag THEN Doing("beat", u, FALSE) ELSE Idle
  <2>1. /\ next.at \in {"beat", "idle"} /\ Concern(next) \subseteq Concern(proc[p])
    BY IdleIsProcess, ConcernOfIdle DEF Doing, Concern
  <2>2. proc' = [proc EXCEPT ![p] = next] /\ UNCHANGED <<open, told>>
    BY <1>0, <1>9 DEF Prune
  <2>3. proc[p].at # "farewell"
    BY <1>9 DEF Prune
  <2> HIDE DEF next
  <2> QED BY <2>1, <2>2, <2>3, QuietFollows
<1>10. CASE Beat(p)
  BY <1>10, QuietFollows, ConcernOfIdle, IdleIsProcess DEF Beat
<1>11. CASE AskAlone(p)
  <2> DEFINE next == IF Connected(u) THEN Idle ELSE [proc[p] EXCEPT !.at = "list"]
  <2>1. /\ next.at \in {"list", "idle"} /\ Concern(next) \subseteq Concern(proc[p])
    BY <1>0, IdleIsProcess, ConcernOfIdle DEF Process, Concern
  <2>2. proc' = [proc EXCEPT ![p] = next] /\ UNCHANGED <<open, told>>
    BY <1>0, <1>11 DEF AskAlone
  <2>3. proc[p].at # "farewell"
    BY <1>11 DEF AskAlone
  <2> HIDE DEF next
  <2> QED BY <2>1, <2>2, <2>3, QuietFollows
<1>12. CASE ListRooms(p)
  <2> DEFINE next == CASE FoundLive(u) -> Doing("offline", u, FALSE)
                       [] FoundStale(u) -> Doing("prune", u, FALSE)
                       [] OTHER -> Idle
  <2>1. /\ next.at \in {"offline", "prune", "idle"}
        /\ Concern(next) \subseteq Concern(proc[p])
    <3>1. FoundLive(u) => ~FoundStale(u)
      BY DEF FoundLive, FoundStale
    <3> QED BY <3>1, IdleIsProcess, ConcernOfIdle DEF Doing, Concern
  <2>2. proc' = [proc EXCEPT ![p] = next] /\ UNCHANGED <<open, told>>
    BY <1>0, <1>12 DEF ListRooms
  <2>3. proc[p].at # "farewell"
    BY <1>12 DEF ListRooms
  <2> HIDE DEF next
  <2> QED BY <2>1, <2>2, <2>3, QuietFollows
<1>13. CASE Erase(p)
  <2>1. PICK v \in proc[p].lapsed :
            proc' = [proc EXCEPT ![p].lapsed = @ \ {v}, ![p].leaving = @ \cup {v}]
    BY <1>13 DEF Erase
  <2> DEFINE next == [proc[p] EXCEPT !.lapsed = @ \ {v}, !.leaving = @ \cup {v}]
  <2>2. next.at = proc[p].at /\ Concern(next) \subseteq Concern(proc[p])
    BY <1>0, <2>1 DEF Process, Concern
  <2>3. proc' = [proc EXCEPT ![p] = next] /\ UNCHANGED <<open, told>>
    BY <1>0, <1>13, <2>1 DEF Erase
  <2>4. proc[p].at = "erase"
    BY <1>13 DEF Erase
  <2> HIDE DEF next
  <2> QED BY <2>2, <2>3, <2>4, QuietFollows
<1>14. CASE HandOver(p)
  <2>1. PICK v \in proc[p].leaving :
            proc' = [proc EXCEPT ![p].at = "offline", ![p].user = v,
                                 ![p].leaving = @ \ {v}]
    BY <1>14 DEF HandOver
  <2> DEFINE next == [proc[p] EXCEPT !.at = "offline", !.user = v, !.leaving = @ \ {v}]
  <2>2. next.at = "offline" /\ Concern(next) \subseteq Concern(proc[p])
    BY <1>0, <2>1 DEF Process, Concern
  <2>3. proc' = [proc EXCEPT ![p] = next] /\ UNCHANGED <<open, told>>
    BY <1>0, <1>14, <2>1 DEF HandOver
  <2>4. proc[p].at = "erase"
    BY <1>14 DEF HandOver
  <2> HIDE DEF next
  <2> QED BY <2>2, <2>3, <2>4, QuietFollows
<1> QED BY <1>1, <1>2, <1>3, <1>4, <1>5, <1>6, <1>7, <1>8, <1>9, <1>10, <1>11,
           <1>12, <1>13, <1>14 DEF Proceed

LEMMA BeginFollows ==
    ASSUME OneAtATime, WellFormed, Orderly, NEW p \in Processes, proc[p] = Idle,
           NEW step \in OtherStep \cup {"record", "offline"}, NEW u \in Users,
           NEW flag, MayBegin(u),
           proc' = [proc EXCEPT ![p] = Doing(step, u, flag)], UNCHANGED <<open, told>>
    PROVE  Follows
<1> DEFINE next == Doing(step, u, flag)
<1>1. next.at = step /\ Concern(next) \subseteq {u}
  BY DEF Doing, Concern
<1>2. proc[p].at = "idle"
  BY IdleIsProcess
<1>3. proc' = [proc EXCEPT ![p] = next]
  OBVIOUS
<1>4. \A v \in Concern(next) : ~Busy(v)
  BY <1>1 DEF MayBegin
<1>5. next.at \notin {"subscribe", "look", "greet", "farewell"}
  BY <1>1 DEF OtherStep
<1> HIDE DEF next
<1> QED BY <1>1, <1>2, <1>3, <1>4, <1>5, QuietFollows

LEMMA StepFollows ==
    ASSUME OneAtATime, ~MayFail, WellFormed, Orderly, [Next]_vars
    PROVE  Follows
<1> USE PresenceAssumption, ProcessNames
<1>1. CASE UNCHANGED vars
  BY <1>1 DEF vars, Follows, Orderly, InTurn, InStep
<1>2. ASSUME NEW s \in Sockets, JoinRoom(s)
      PROVE  Follows
  BY <1>2, BeginFollows DEF JoinRoom
<1>3. ASSUME NEW s \in Sockets, LeaveRoom(s)
      PROVE  Follows
  BY <1>3, BeginFollows DEF LeaveRoom
<1>4. ASSUME NEW s \in Sockets, NEW claimed \in BOOLEAN, Heartbeat(s, claimed)
      PROVE  Follows
  <2> DEFINE step == IF FoundStale(UserOf[s]) THEN "prune" ELSE "beat"
  <2>1. step \in OtherStep
    BY DEF OtherStep
  <2>2. /\ proc' = [proc EXCEPT ![Queue(s)] = Doing(step, UserOf[s], claimed)]
        /\ MayBegin(UserOf[s]) /\ proc[Queue(s)] = Idle /\ UNCHANGED <<open, told>>
    BY <1>4 DEF Heartbeat
  <2> HIDE DEF step
  <2> QED BY <2>1, <2>2, BeginFollows
<1>6. ASSUME NEW s \in Sockets, Connect(s)
      PROVE  Follows
  BY <1>6 DEF Connect, Follows, Orderly, InTurn, InStep
<1>8. ASSUME NEW w \in Sweepers, ReapExpired(w)
      PROVE  Follows
  <2> DEFINE p == Sweep(w)
             next == [Doing("erase", NoUser, FALSE) EXCEPT !.lapsed = Lapsed]
  <2>1. next.at = "erase" /\ Concern(next) \subseteq Lapsed
    BY DEF Doing, Concern
  <2>2. \A u \in Lapsed : ~Busy(u)
    BY DEF Lapsed, MayBegin
  <2>3. /\ proc' = [proc EXCEPT ![p] = next] /\ p \in Processes
        /\ proc[p].at = "idle" /\ UNCHANGED <<open, told>>
    BY <1>8, IdleIsProcess DEF ReapExpired
  <2> HIDE DEF next, p
  <2> QED BY <2>1, <2>2, <2>3, QuietFollows
<1>9. CASE Tick
  BY <1>9 DEF Tick, Follows, Orderly, InTurn, InStep
<1>10. ASSUME NEW s \in Sockets, Disconnect(s)
       PROVE  Follows
  <2> DEFINE p == Cleanup(s)
             next == Doing("alone", UserOf[s], FALSE)
  <2>1. next.at = "alone" /\ Concern(next) \subseteq {UserOf[s]}
    BY DEF Doing, Concern
  <2>2. /\ proc' = [proc EXCEPT ![p] = next] /\ p \in Processes
        /\ ~Busy(UserOf[s]) /\ UNCHANGED <<open, told>>
    BY <1>10 DEF Disconnect, MayBegin
  <2>3. proc[p].at = "idle"
    BY <1>10, IdleIsProcess DEF Disconnect
  <2> HIDE DEF next, p
  <2> QED BY <2>1, <2>2, <2>3, QuietFollows
<1> QED BY <1>1, <1>2, <1>3, <1>4, <1>6, <1>8, <1>9, <1>10, ProceedFollows
        DEF Next, Request, Vanish, Abort

LEMMA InitOrderly == Init => Orderly /\ A!Init
<1> SUFFICES ASSUME Init PROVE Orderly /\ A!Init
  OBVIOUS
<1>1. \A p \in Processes : proc[p] = Idle
  BY DEF Init
<1>2. InTurn
  BY <1>1, ConcernOfIdle DEF InTurn
<1>3. InStep
  BY <1>1, IdleIsProcess DEF Init, InStep
<1> QED BY <1>2, <1>3 DEF Init, Orderly, A!Init

\* While nothing done for a user overlaps and nothing fails, the room is told of
\* a person exactly along that person's sessions: nobody is announced without
\* one, or as gone during one, and a session does not begin while the others
\* still list the last one.
THEOREM AttendanceIsImplemented ==
    ASSUME OneAtATime, ~MayFail
    PROVE  Spec => ImplementsAttendance
<1>1. WellFormed /\ Orderly /\ [Next]_vars => Orderly' /\ [A!Next]_<<open, told>>
  BY StepFollows DEF Follows
<1>2. A!Spec <=> A!Init /\ [][A!Next]_<<open, told>>
  BY DEF A!Spec, A!vars
<1> QED BY <1>1, <1>2, InitWellFormed, StepWellFormed, InitOrderly, PTL
        DEF Spec, ImplementsAttendance

--------------------------------------------------------------------------------
(* One thing at a time, and nothing fails: what is stored of a person nobody  *)
(* works on is of one piece.                                                  *)

\* What the four invariants say of a person, under no condition.
Settled(u) ==
    /\ u \in open => score[u] # NotIndexed
    /\ Visible(u) => u \in open /\ u \in told
    /\ Live(u) => u \in hash /\ u \in rooms
    /\ u \in hash => score[u] # NotIndexed
    /\ \A s \in subscribed : UserOf[s] = u => u \in open

\* Since the join was stored the entry can have lapsed, but not gone.
Entered(u) ==
    /\ score[u] # NotIndexed
    /\ Live(u) => u \in hash /\ u \in rooms

Offline(u) == u \notin hash /\ u \notin rooms /\ score[u] = NotIndexed

Unheard(u) == \A s \in subscribed : UserOf[s] # u

\* Where the operation of p has brought the person it is for.
Brought(p, u) ==
    /\ proc[p].at \in {"beat", "prune", "alone", "list"} => Settled(u)
    /\ proc[p].at = "prune" => ~Live(u)
    /\ proc[p].at \in JoinStep => Entered(u)
    /\ proc[p].at \in {"record", "subscribe"} /\ ~proc[p].flag => u \in told
    /\ proc[p].at \in {"unsubscribe", "close", "farewell"} => Offline(u)
    /\ proc[p].at \in {"close", "farewell"} => Unheard(u)

\* A sweep hands over when all are erased, and has nobody left when it ends.
Holds(r) ==
    /\ r.at # "erase" => r.lapsed = {}
    /\ r.at \notin LeaveStep \cup {"erase"} => r.leaving = {}
    /\ r.at = "erase" => r.user = NoUser

InPlace ==
    /\ \A u \in Users : ~Busy(u) => Settled(u)
    /\ \A p \in Processes, u \in Users : proc[p].user = u => Brought(p, u)
    /\ \A p \in Processes : Holds(proc[p])

\* What is stored of u stays as it is, and no socket of theirs is subscribed.
Keeps(u) ==
    /\ u \in hash' <=> u \in hash
    /\ u \in rooms' <=> u \in rooms
    /\ u \in open' <=> u \in open
    /\ u \in told' <=> u \in told
    /\ score'[u] = score[u]
    /\ \A s \in subscribed' : UserOf[s] = u => s \in subscribed

LEMMA KeptSettled ==
    ASSUME NEW u \in Users, Keeps(u), Settled(u)
    PROVE  Settled(u)'
BY DEF Keeps, Settled, Visible, Live

LEMMA KeptBrought ==
    ASSUME NEW u \in Users, Keeps(u), NEW q \in Processes, proc'[q] = proc[q], Brought(q, u)
    PROVE  Brought(q, u)'
<1>1. Settled(u) => Settled(u)'
  BY KeptSettled
<1>2. (Live(u)' <=> Live(u)) /\ (Entered(u) => Entered(u)') /\ (Offline(u) => Offline(u)')
      /\ (Unheard(u) => Unheard(u)') /\ (u \in told => u \in told')
  BY DEF Keeps, Live, Entered, Offline, Unheard
<1> QED BY <1>1, <1>2 DEF Brought

\* A process acts on one person, and lets go of nobody else.
LEMMA OneActs ==
    ASSUME WellFormed, InTurn, InPlace, NEW p \in Processes, NEW next, NEW u \in Users,
           proc' = [proc EXCEPT ![p] = next],
           \A v \in Users : v # u => Keeps(v),
           u \in Concern(proc[p]) \/ ~Busy(u),
           \A v \in Users : v # u /\ v \in Concern(proc[p]) => v \in Concern(next),
           next.user \in {u, NoUser}, Holds(next),
           next.user = u => Brought(p, u)',
           u \in Concern(next) \/ Settled(u)'
    PROVE  InPlace'
<1>0. NoUser \notin Users
  BY PresenceAssumption
<1>1. proc'[p] = next /\ \A q \in Processes : q # p => proc'[q] = proc[q]
  BY DEF WellFormed, TypeOK
<1>2. \A q \in Processes, v \in Users : v \in Concern(proc[q]) => Busy(v)
  BY DEF Concern, Busy
<1>3. \A q \in Processes, v \in Users : v \in Concern(proc'[q]) => Busy(v)'
  BY DEF Concern, Busy
<1>4. \A q \in Processes : q # p => u \notin Concern(proc[q])
  BY <1>2 DEF InTurn
<1>5. ASSUME NEW v \in Users, ~Busy(v)' PROVE Settled(v)'
  <2>1. CASE v = u
    BY <1>1, <1>3, <1>5, <2>1
  <2>2. CASE v # u
    <3>1. ~Busy(v)
      <4> SUFFICES ASSUME NEW q \in Processes, v \in Concern(proc[q]) PROVE FALSE
        BY <1>0 DEF Busy, Concern
      <4> QED BY <1>1, <1>3, <1>5, <2>2
    <3> QED BY <2>2, <3>1, KeptSettled DEF InPlace
  <2> QED BY <2>1, <2>2
<1>6. ASSUME NEW q \in Processes, NEW v \in Users, proc'[q].user = v PROVE Brought(q, v)'
  <2>1. CASE q = p
    BY <1>0, <1>1, <1>6, <2>1
  <2>2. CASE q # p
    <3>1. proc'[q] = proc[q] /\ proc[q].user = v
      BY <1>1, <1>6, <2>2
    <3>2. v # u
      BY <1>0, <1>4, <2>2, <3>1 DEF Concern
    <3> QED BY <3>1, <3>2, KeptBrought DEF InPlace
  <2> QED BY <2>1, <2>2
<1>7. \A q \in Processes : Holds(proc'[q])
  BY <1>1 DEF InPlace
<1>8. \A q \in Processes : Holds(proc[q])'
  BY <1>7 DEF Holds
<1> QED BY <1>5, <1>6, <1>8 DEF InPlace


LEMMA ProceedPlaces ==
    ASSUME WellFormed, Orderly, InPlace, NEW p \in Processes, Proceed(p)
    PROVE  InPlace'
<1> PICK u : u = proc[p].user
  OBVIOUS
<1>0. /\ proc[p] \in Process /\ proc \in [Processes -> Process]
      /\ u \in Users \/ proc[p].at \in {"idle", "erase"}
      /\ NoUser \notin Users
      /\ score \in [Users -> NotIndexed..Ttl] /\ Ttl \in Nat /\ Ttl > 0
      /\ subscribed \subseteq connected
  BY PresenceAssumption DEF WellFormed, TypeOK, ActsForSomebody
<1>h. /\ proc[p].at # "erase" => proc[p].lapsed = {}
      /\ proc[p].at \notin LeaveStep \cup {"erase"} => proc[p].leaving = {}
      /\ proc[p].at = "erase" => u = NoUser
  BY DEF InPlace, Holds
<1>c. /\ u \in Users => Brought(p, u) /\ u \in Concern(proc[p])
      /\ proc[p].at \notin LeaveStep \cup {"erase"} => Concern(proc[p]) \subseteq {u}
      /\ proc[p].at \in LeaveStep => Concern(proc[p]) \subseteq {u} \cup proc[p].leaving
  BY <1>0, <1>h DEF InPlace, Concern, LeaveStep
<1>t. InTurn
  BY DEF Orderly
<1>s. /\ proc[p].at \in {"subscribe", "look", "greet"} => u \in open
      /\ proc[p].at = "farewell" => u \notin open
      /\ u \in told => u \in open \/ \E q \in Processes : proc[q].at = "farewell" /\ proc[q].user = u
  BY DEF Orderly, InStep
<1>i. Idle.at = "idle" /\ Holds(Idle) /\ Idle.user = NoUser /\ Concern(Idle) = {}
  BY IdleIsProcess, ConcernOfIdle DEF Holds
\* Work that is over leaves the person settled.
<1>d. ASSUME u \in Users, proc[p].at \notin LeaveStep \cup {"erase"},
             proc' = [proc EXCEPT ![p] = Idle],
             \A v \in Users : v # u => Keeps(v), Settled(u)'
      PROVE  InPlace'
  <2> DEFINE next == Idle
  <2>1. \A v \in Users : v # u /\ v \in Concern(proc[p]) => v \in Concern(next)
    BY <1>c, <1>d
  <2>2. next.user \in {u, NoUser} /\ Holds(next) /\ next.user # u
    BY <1>0, <1>i, <1>d
  <2>3. proc' = [proc EXCEPT ![p] = next]
    BY <1>d
  <2> HIDE DEF next
  <2> QED BY <1>c, <1>t, <1>d, <2>1, <2>2, <2>3, OneActs
\* Work for a person goes on.
<1>g. ASSUME u \in Users, NEW next, proc' = [proc EXCEPT ![p] = next],
             next.user = u, next.lapsed = proc[p].lapsed, next.leaving = proc[p].leaving,
             next.at # "erase", proc[p].at # "erase",
             next.at \in LeaveStep \/ proc[p].leaving = {},
             \A v \in Users : v # u => Keeps(v), Brought(p, u)'
      PROVE  InPlace'
  <2>1. Concern(next) = Concern(proc[p])
    BY <1>g DEF Concern
  <2>2. Holds(next)
    BY <1>h, <1>g DEF Holds
  <2> QED BY <1>c, <1>t, <1>g, <2>1, <2>2, OneActs
\* One person's departure is over, and that of the others begins.
<1>f. ASSUME u \in Users, proc[p].at \in LeaveStep, proc' = [proc EXCEPT ![p] = Finished(p)],
             \A v \in Users : v # u => Keeps(v), Settled(u)'
      PROVE  InPlace'
  <2> DEFINE next == Finished(p)
  <2>1. CASE proc[p].leaving = {}
    <3>1. next = Idle
      BY <2>1 DEF Finished
    <3>2. \A v \in Users : v # u /\ v \in Concern(proc[p]) => v \in Concern(next)
      BY <1>c, <1>f, <2>1
    <3>3. next.user \in {u, NoUser} /\ Holds(next) /\ next.user # u
      BY <1>0, <1>i, <1>f, <3>1
    <3>4. proc' = [proc EXCEPT ![p] = next]
      BY <1>f
    <3> HIDE DEF next
    <3> QED BY <1>c, <1>t, <1>f, <3>2, <3>3, <3>4, OneActs
  <2>2. CASE proc[p].leaving # {}
    <3>1. /\ next.at = "erase" /\ next.user = NoUser
          /\ next.leaving = proc[p].leaving /\ next.lapsed = proc[p].lapsed
      BY <1>0, <2>2 DEF Finished, Process
    <3>2. \A v \in Users : v # u /\ v \in Concern(proc[p]) => v \in Concern(next)
      <4> HIDE DEF next
      <4> QED BY <1>0, <3>1 DEF Concern
    <3>3. next.user \in {u, NoUser} /\ Holds(next) /\ next.user # u
      BY <1>0, <1>f, <3>1 DEF Holds
    <3>4. proc' = [proc EXCEPT ![p] = next]
      BY <1>f
    <3> HIDE DEF next
    <3> QED BY <1>c, <1>t, <1>f, <3>2, <3>3, <3>4, OneActs
  <2> QED BY <2>1, <2>2
<1>1. CASE RecordJoin(p)
  <2> DEFINE next == [proc[p] EXCEPT !.at = "subscribe"]
  <2>0. u \in Users /\ proc[p].at = "record"
    BY <1>0, <1>1 DEF RecordJoin
  <2>1. /\ next.at = "subscribe" /\ next.user = u /\ next.flag = proc[p].flag
        /\ next.lapsed = proc[p].lapsed /\ next.leaving = proc[p].leaving
    BY <1>0 DEF Process
  <2>2. /\ proc' = [proc EXCEPT ![p] = next] /\ open' = open \cup {u}
        /\ UNCHANGED <<hash, rooms, score, told, subscribed>>
    BY <1>0, <1>1 DEF RecordJoin, Goto, store
  <2> HIDE DEF next
  <2>3. \A v \in Users : v # u => Keeps(v)
    BY <2>2 DEF Keeps
  <2>4. proc'[p] = next
    BY <1>0, <2>2
  <2>5. Brought(p, u)'
    BY <1>c, <2>0, <2>1, <2>2, <2>4 DEF Brought, Entered, Live, JoinStep
  <2>6. proc[p].leaving = {}
    BY <1>h, <2>0 DEF LeaveStep
  <2> QED BY <1>g, <2>0, <2>1, <2>2, <2>3, <2>5, <2>6
<1>2. CASE JoinRoomChannel(p)
  <2>0. /\ u \in Users /\ proc[p].at = "subscribe" /\ proc[p].leaving = {}
        /\ proc[p].lapsed = {}
    BY <1>0, <1>h, <1>2 DEF JoinRoomChannel, LeaveStep
  <2>1. /\ UNCHANGED <<hash, rooms, score, told, open>>
        /\ subscribed' = subscribed \cup SocketsOf(u)
    BY <1>2 DEF JoinRoomChannel, store
  <2>2. \A v \in Users : v # u => Keeps(v)
    BY <2>1 DEF Keeps, SocketsOf
  <2>3. Entered(u)' /\ u \in open' /\ (~proc[p].flag => u \in told')
    BY <1>c, <1>s, <2>0, <2>1 DEF Brought, Entered, Live, JoinStep
  <2>4. CASE proc[p].flag
    <3> DEFINE next == Doing("look", u, TRUE)
    <3>1. next.at = "look" /\ next.user = u /\ next.lapsed = {} /\ next.leaving = {}
      BY DEF Doing
    <3>2. proc' = [proc EXCEPT ![p] = next]
      BY <1>2, <2>4 DEF JoinRoomChannel
    <3> HIDE DEF next
    <3>3. proc'[p] = next
      BY <1>0, <3>2
    <3>4. Brought(p, u)'
      BY <2>3, <3>1, <3>3 DEF Brought
    <3> QED BY <1>g, <2>0, <2>2, <3>1, <3>2, <3>4
  <2>5. CASE ~proc[p].flag
    <3>1. proc' = [proc EXCEPT ![p] = Idle]
      BY <1>2, <2>5 DEF JoinRoomChannel
    <3>2. Settled(u)'
      BY <2>3, <2>5 DEF Settled, Entered, Visible
    <3> QED BY <1>d, <2>0, <2>2, <3>1, <3>2 DEF LeaveStep
  <2> QED BY <2>4, <2>5
<1>3. CASE Look(p)
  <2>0. /\ u \in Users /\ proc[p].at = "look" /\ proc[p].leaving = {}
        /\ proc[p].lapsed = {}
    BY <1>0, <1>h, <1>3 DEF Look, LeaveStep
  <2>1. UNCHANGED <<hash, rooms, score, told, open, subscribed>>
    BY <1>3 DEF Look, store
  <2>2. \A v \in Users : v # u => Keeps(v)
    BY <2>1 DEF Keeps
  <2>3. Entered(u)' /\ u \in open' /\ (Visible(u)' <=> Visible(u))
    BY <1>c, <1>s, <2>0, <2>1 DEF Brought, Entered, Visible, Live, JoinStep
  <2>4. CASE Visible(u)
    <3> DEFINE next == Doing("greet", u, TRUE)
    <3>1. next.at = "greet" /\ next.user = u /\ next.lapsed = {} /\ next.leaving = {}
      BY DEF Doing
    <3>2. proc' = [proc EXCEPT ![p] = next]
      BY <1>0, <1>3, <2>4 DEF Look
    <3> HIDE DEF next
    <3>3. proc'[p] = next
      BY <1>0, <3>2
    <3>4. Brought(p, u)'
      BY <2>3, <3>1, <3>3 DEF Brought
    <3> QED BY <1>g, <2>0, <2>2, <3>1, <3>2, <3>4
  <2>5. CASE ~Visible(u)
    <3>1. proc' = [proc EXCEPT ![p] = Idle]
      BY <1>3, <2>5 DEF Look
    <3>2. Settled(u)'
      BY <2>3, <2>5 DEF Settled, Entered
    <3> QED BY <1>d, <2>0, <2>2, <3>1, <3>2 DEF LeaveStep
  <2> QED BY <2>4, <2>5
<1>4. CASE Greet(p)
  <2>0. u \in Users /\ proc[p].at = "greet"
    BY <1>0, <1>4 DEF Greet
  <2>1. /\ UNCHANGED <<hash, rooms, score, open, subscribed>> /\ told' = told \cup {u}
        /\ proc' = [proc EXCEPT ![p] = Idle]
    BY <1>4 DEF Greet, store
  <2>2. \A v \in Users : v # u => Keeps(v)
    BY <2>1 DEF Keeps
  <2>3. Entered(u)' /\ u \in open' /\ u \in told'
    BY <1>c, <1>s, <2>0, <2>1 DEF Brought, Entered, Live, JoinStep
  <2>4. Settled(u)'
    BY <2>3 DEF Settled, Entered
  <2> QED BY <1>d, <2>0, <2>1, <2>2, <2>4 DEF LeaveStep
<1>5. CASE SetOffline(p)
  <2> DEFINE next == [proc[p] EXCEPT !.at = "unsubscribe"]
  <2>0. u \in Users /\ proc[p].at = "offline"
    BY <1>0, <1>5 DEF SetOffline
  <2>1. /\ next.at = "unsubscribe" /\ next.user = u
        /\ next.lapsed = proc[p].lapsed /\ next.leaving = proc[p].leaving
    BY <1>0 DEF Process
  <2>2. /\ proc' = [proc EXCEPT ![p] = next] /\ hash' = hash \ {u} /\ rooms' = rooms \ {u}
        /\ score' = [score EXCEPT ![u] = NotIndexed]
        /\ UNCHANGED <<open, told, subscribed>>
    BY <1>0, <1>5 DEF SetOffline, Goto
  <2> HIDE DEF next
  <2>3. \A v \in Users : v # u => Keeps(v)
    BY <1>0, <2>2 DEF Keeps
  <2>4. proc'[p] = next /\ Offline(u)'
    BY <1>0, <2>0, <2>2 DEF Offline
  <2>5. Brought(p, u)'
    BY <2>1, <2>4 DEF Brought, JoinStep
  <2>6. next.at \in LeaveStep
    BY <2>1 DEF LeaveStep
  <2> QED BY <1>g, <2>0, <2>1, <2>2, <2>3, <2>5, <2>6
<1>6. CASE LeaveRoomChannel(p)
  <2> DEFINE next == [proc[p] EXCEPT !.at = "close"]
  <2>0. u \in Users /\ proc[p].at = "unsubscribe"
    BY <1>0, <1>6 DEF LeaveRoomChannel
  <2>1. /\ next.at = "close" /\ next.user = u
        /\ next.lapsed = proc[p].lapsed /\ next.leaving = proc[p].leaving
    BY <1>0 DEF Process
  <2>2. /\ proc' = [proc EXCEPT ![p] = next]
        /\ subscribed' = subscribed \ SocketsOf(u)
        /\ UNCHANGED <<hash, rooms, score, open, told>>
    BY <1>0, <1>6 DEF LeaveRoomChannel, Goto, store
  <2> HIDE DEF next
  <2>3. \A v \in Users : v # u => Keeps(v)
    BY <2>2 DEF Keeps
  <2>4. proc'[p] = next /\ Offline(u)' /\ Unheard(u)'
    BY <1>0, <1>c, <2>0, <2>2 DEF Brought, Offline, Unheard, SocketsOf
  <2>5. Brought(p, u)'
    BY <2>1, <2>4 DEF Brought, JoinStep
  <2>6. next.at \in LeaveStep
    BY <2>1 DEF LeaveStep
  <2> QED BY <1>g, <2>0, <2>1, <2>2, <2>3, <2>5, <2>6
<1>7. CASE RecordLeave(p)
  <2>0. /\ u \in Users /\ proc[p].at = "close" /\ open' = open \ {u}
        /\ UNCHANGED <<hash, rooms, score, told, subscribed>>
    BY <1>0, <1>7 DEF RecordLeave, store
  <2>1. \A v \in Users : v # u => Keeps(v)
    BY <2>0 DEF Keeps
  <2>2. Offline(u)' /\ Unheard(u)' /\ u \notin open'
    BY <1>c, <2>0 DEF Brought, Offline, Unheard
  <2>3. CASE u \in open
    <3> DEFINE next == [proc[p] EXCEPT !.at = "farewell"]
    <3>1. /\ next.at = "farewell" /\ next.user = u
          /\ next.lapsed = proc[p].lapsed /\ next.leaving = proc[p].leaving
      BY <1>0 DEF Process
    <3>2. proc' = [proc EXCEPT ![p] = next]
      BY <1>0, <1>7, <2>3 DEF RecordLeave, ClosedByThisCall
    <3> HIDE DEF next
    <3>3. proc'[p] = next
      BY <1>0, <3>2
    <3>4. Brought(p, u)'
      BY <2>2, <3>1, <3>3 DEF Brought, JoinStep
    <3>5. next.at \in LeaveStep
      BY <3>1 DEF LeaveStep
    <3> QED BY <1>g, <2>0, <2>1, <3>1, <3>2, <3>4, <3>5
  <2>4. CASE u \notin open
    <3>1. proc' = [proc EXCEPT ![p] = Finished(p)]
      BY <1>0, <1>7, <2>4 DEF RecordLeave, ClosedByThisCall
    <3>2. Settled(u)'
      BY <2>2 DEF Settled, Offline, Unheard, Visible, Live, NotIndexed
    <3>3. proc[p].at \in LeaveStep
      BY <2>0 DEF LeaveStep
    <3> QED BY <1>f, <2>0, <2>1, <3>1, <3>2, <3>3
  <2> QED BY <2>3, <2>4
<1>8. CASE BidFarewell(p)
  <2>0. /\ u \in Users /\ proc[p].at = "farewell" /\ proc[p].at \in LeaveStep
        /\ told' = told \ {u} /\ proc' = [proc EXCEPT ![p] = Finished(p)]
        /\ UNCHANGED <<hash, rooms, score, open, subscribed>>
    BY <1>0, <1>8 DEF BidFarewell, store, LeaveStep
  <2>1. \A v \in Users : v # u => Keeps(v)
    BY <2>0 DEF Keeps
  <2>2. Offline(u)' /\ Unheard(u)' /\ u \notin open'
    BY <1>c, <1>s, <2>0 DEF Brought, Offline, Unheard
  <2>3. Settled(u)'
    BY <2>2 DEF Settled, Offline, Unheard, Visible, Live, NotIndexed
  <2> QED BY <1>f, <2>0, <2>1, <2>3
<1>9. CASE Prune(p)
  <2>0. /\ u \in Users /\ proc[p].at = "prune" /\ proc[p].leaving = {}
        /\ proc[p].lapsed = {}
    BY <1>0, <1>h, <1>9 DEF Prune, LeaveStep
  <2>1. UNCHANGED <<hash, score, told, open, subscribed>> /\ rooms' = rooms \ {u}
    BY <1>9 DEF Prune
  <2>2. \A v \in Users : v # u => Keeps(v)
    BY <2>1 DEF Keeps
  <2>3. Settled(u)'
    BY <1>c, <2>0, <2>1 DEF Brought, Settled, Visible, Live
  <2>4. CASE proc[p].flag
    <3> DEFINE next == Doing("beat", u, FALSE)
    <3>1. next.at = "beat" /\ next.user = u /\ next.lapsed = {} /\ next.leaving = {}
      BY DEF Doing
    <3>2. proc' = [proc EXCEPT ![p] = next]
      BY <1>0, <1>9, <2>4 DEF Prune
    <3> HIDE DEF next
    <3>3. proc'[p] = next
      BY <1>0, <3>2
    <3>4. Brought(p, u)'
      BY <2>3, <3>1, <3>3 DEF Brought, JoinStep
    <3> QED BY <1>g, <2>0, <2>2, <3>1, <3>2, <3>4
  <2>5. CASE ~proc[p].flag
    <3>1. proc' = [proc EXCEPT ![p] = Idle]
      BY <1>0, <1>9, <2>5 DEF Prune
    <3> QED BY <1>d, <2>0, <2>2, <2>3, <3>1 DEF LeaveStep
  <2> QED BY <2>4, <2>5
<1>10. CASE Beat(p)
  <2>0. u \in Users /\ proc[p].at = "beat"
    BY <1>0, <1>10 DEF Beat
  <2>1. /\ UNCHANGED <<hash, rooms, told, open, subscribed>>
        /\ proc' = [proc EXCEPT ![p] = Idle]
        /\ score' = IF Live(u) THEN [score EXCEPT ![u] = Ttl] ELSE score
    BY <1>10 DEF Beat
  <2>2. \A v \in Users : v # u => Keeps(v)
    BY <1>0, <2>1 DEF Keeps
  <2>3. /\ Live(u)' => Live(u)
        /\ score[u] # NotIndexed => score'[u] # NotIndexed
    BY <1>0, <2>0, <2>1 DEF Live, NotIndexed
  <2>4. Settled(u)'
    BY <1>c, <2>0, <2>1, <2>3 DEF Brought, Settled, Visible
  <2> QED BY <1>d, <2>0, <2>1, <2>2, <2>4 DEF LeaveStep
<1>11. CASE AskAlone(p)
  <2>0. /\ u \in Users /\ proc[p].at = "alone" /\ proc[p].leaving = {}
        /\ UNCHANGED <<hash, rooms, score, told, open, subscribed>>
    BY <1>0, <1>h, <1>11 DEF AskAlone, store, LeaveStep
  <2>1. \A v \in Users : v # u => Keeps(v)
    BY <2>0 DEF Keeps
  <2>2. Settled(u)'
    BY <1>c, <2>0 DEF Brought, Settled, Visible, Live
  <2>3. CASE Connected(u)
    <3>1. proc' = [proc EXCEPT ![p] = Idle]
      BY <1>0, <1>11, <2>3 DEF AskAlone
    <3> QED BY <1>d, <2>0, <2>1, <2>2, <3>1 DEF LeaveStep
  <2>4. CASE ~Connected(u)
    <3> DEFINE next == [proc[p] EXCEPT !.at = "list"]
    <3>1. /\ next.at = "list" /\ next.user = u
          /\ next.lapsed = proc[p].lapsed /\ next.leaving = proc[p].leaving
      BY <1>0 DEF Process
    <3>2. proc' = [proc EXCEPT ![p] = next]
      BY <1>0, <1>11, <2>4 DEF AskAlone
    <3> HIDE DEF next
    <3>3. proc'[p] = next
      BY <1>0, <3>2
    <3>4. Brought(p, u)'
      BY <2>2, <3>1, <3>3 DEF Brought, JoinStep
    <3> QED BY <1>g, <2>0, <2>1, <3>1, <3>2, <3>4
  <2> QED BY <2>3, <2>4
<1>12. CASE ListRooms(p)
  <2>0. /\ u \in Users /\ proc[p].at = "list" /\ proc[p].leaving = {}
        /\ proc[p].lapsed = {}
        /\ UNCHANGED <<hash, rooms, score, told, open, subscribed>>
    BY <1>0, <1>h, <1>12 DEF ListRooms, store, LeaveStep
  <2>1. \A v \in Users : v # u => Keeps(v)
    BY <2>0 DEF Keeps
  <2>2. Settled(u)'
    BY <1>c, <2>0 DEF Brought, Settled, Visible, Live
  <2>3. CASE FoundLive(u)
    <3> DEFINE next == Doing("offline", u, FALSE)
    <3>1. next.at = "offline" /\ next.user = u /\ next.lapsed = {} /\ next.leaving = {}
      BY DEF Doing
    <3>2. proc' = [proc EXCEPT ![p] = next]
      BY <1>12, <2>3 DEF ListRooms, FoundLive, FoundStale
    <3> HIDE DEF next
    <3>3. proc'[p] = next
      BY <1>0, <3>2
    <3>4. Brought(p, u)'
      BY <3>1, <3>3 DEF Brought, JoinStep
    <3> QED BY <1>g, <2>0, <2>1, <3>1, <3>2, <3>4
  <2>4. CASE FoundStale(u)
    <3> DEFINE next == Doing("prune", u, FALSE)
    <3>1. next.at = "prune" /\ next.user = u /\ next.lapsed = {} /\ next.leaving = {}
      BY DEF Doing
    <3>2. proc' = [proc EXCEPT ![p] = next]
      BY <1>12, <2>4 DEF ListRooms, FoundLive, FoundStale
    <3> HIDE DEF next
    <3>3. proc'[p] = next /\ ~Live(u)'
      BY <1>0, <2>0, <2>4, <3>2 DEF FoundStale, Live
    <3>4. Brought(p, u)'
      BY <2>2, <3>1, <3>3 DEF Brought, JoinStep
    <3> QED BY <1>g, <2>0, <2>1, <3>1, <3>2, <3>4
  <2>5. CASE ~FoundLive(u) /\ ~FoundStale(u)
    <3>1. proc' = [proc EXCEPT ![p] = Idle]
      BY <1>12, <2>5 DEF ListRooms
    <3> QED BY <1>d, <2>0, <2>1, <2>2, <3>1 DEF LeaveStep
  <2> QED BY <2>3, <2>4, <2>5
<1>13. CASE Erase(p)
  <2>0. proc[p].at = "erase" /\ proc[p].lapsed \subseteq Users /\ u = NoUser
    BY <1>0, <1>h, <1>13 DEF Erase, Process
  <2>1. PICK v \in proc[p].lapsed :
            /\ hash' = hash \ {v} /\ rooms' = rooms \ {v}
            /\ proc' = [proc EXCEPT ![p].lapsed = @ \ {v}, ![p].leaving = @ \cup {v}]
    BY <1>13 DEF Erase
  <2> DEFINE next == [proc[p] EXCEPT !.lapsed = @ \ {v}, !.leaving = @ \cup {v}]
  <2>2. /\ next.at = "erase" /\ next.user = NoUser
        /\ next.lapsed = proc[p].lapsed \ {v} /\ next.leaving = proc[p].leaving \cup {v}
    BY <1>0, <2>0 DEF Process
  <2>3. proc' = [proc EXCEPT ![p] = next] /\ UNCHANGED <<score, open, told, subscribed>>
    BY <1>0, <1>13, <2>1 DEF Erase
  <2> HIDE DEF next
  <2>4. \A x \in Users : x # v => Keeps(x)
    BY <2>1, <2>3 DEF Keeps
  <2>5. v \in Users /\ v # NoUser /\ v \in Concern(proc[p]) /\ v \in Concern(next)
    BY <1>0, <2>0, <2>2 DEF Concern
  <2>6. \A x \in Users : x \in Concern(proc[p]) => x \in Concern(next)
    BY <2>0, <2>2 DEF Concern
  <2>7. Holds(next)
    BY <2>2 DEF Holds
  <2> QED BY <1>t, <2>2, <2>3, <2>4, <2>5, <2>6, <2>7, OneActs
<1>14. CASE HandOver(p)
  <2>0. /\ proc[p].at = "erase" /\ proc[p].lapsed = {} /\ proc[p].leaving \subseteq Users
        /\ u = NoUser
        /\ UNCHANGED <<hash, rooms, score, open, told, subscribed>>
    BY <1>0, <1>h, <1>14 DEF HandOver, Process, store
  <2>1. PICK v \in proc[p].leaving :
            proc' = [proc EXCEPT ![p].at = "offline", ![p].user = v,
                                 ![p].leaving = @ \ {v}]
    BY <1>14 DEF HandOver
  <2> DEFINE next == [proc[p] EXCEPT !.at = "offline", !.user = v, !.leaving = @ \ {v}]
  <2>2. /\ next.at = "offline" /\ next.user = v /\ next.lapsed = {}
        /\ next.leaving = proc[p].leaving \ {v}
    BY <1>0, <2>0 DEF Process
  <2>3. proc' = [proc EXCEPT ![p] = next]
    BY <1>0, <2>1
  <2> HIDE DEF next
  <2>4. \A x \in Users : x # v => Keeps(x)
    BY <2>0 DEF Keeps
  <2>5. v \in Users /\ v # NoUser /\ v \in Concern(proc[p]) /\ v \in Concern(next)
    BY <1>0, <2>0, <2>2 DEF Concern
  <2>6. \A x \in Users : x \in Concern(proc[p]) => x \in Concern(next)
    BY <2>0, <2>2 DEF Concern
  <2>7. Holds(next)
    BY <2>2 DEF Holds, LeaveStep
  <2>8. Brought(p, v)'
    <3>1. proc'[p] = next
      BY <1>0, <2>3
    <3> QED BY <2>2, <3>1 DEF Brought, JoinStep
  <2> QED BY <1>t, <2>2, <2>3, <2>4, <2>5, <2>6, <2>7, <2>8, OneActs
<1> QED BY <1>1, <1>2, <1>3, <1>4, <1>5, <1>6, <1>7, <1>8, <1>9, <1>10, <1>11,
           <1>12, <1>13, <1>14 DEF Proceed


\* A process that was idle takes on a person who is free.
LEMMA BeginPlaces ==
    ASSUME OneAtATime, WellFormed, Orderly, InPlace, NEW p \in Processes, proc[p] = Idle,
           NEW step, NEW u \in Users, NEW flag, step # "erase", MayBegin(u),
           proc' = [proc EXCEPT ![p] = Doing(step, u, flag)],
           \A v \in Users : v # u => Keeps(v), Brought(p, u)'
    PROVE  InPlace'
<1> DEFINE next == Doing(step, u, flag)
<1>1. /\ next.at = step /\ next.user = u /\ next.lapsed = {} /\ next.leaving = {}
  BY DEF Doing
<1>2. proc' = [proc EXCEPT ![p] = next]
  OBVIOUS
<1> HIDE DEF next
<1>3. ~Busy(u) /\ u # NoUser
  BY PresenceAssumption DEF MayBegin
<1>4. u \in Concern(next) /\ Holds(next)
  BY <1>1, <1>3 DEF Concern, Holds
<1>5. Concern(proc[p]) = {}
  BY ConcernOfIdle
<1> QED BY <1>1, <1>2, <1>3, <1>4, <1>5, OneActs DEF Orderly

\* The sweep takes on everybody it claims.
LEMMA SweepPlaces ==
    ASSUME OneAtATime, WellFormed, Orderly, InPlace, NEW w \in Sweepers, ReapExpired(w)
    PROVE  InPlace'
<1> DEFINE p == Sweep(w)
           next == [Doing("erase", NoUser, FALSE) EXCEPT !.lapsed = Lapsed]
<1>0. NoUser \notin Users /\ p \in Processes
  BY PresenceAssumption, ProcessNames
<1>1. /\ next.at = "erase" /\ next.user = NoUser /\ next.lapsed = Lapsed /\ Holds(next)
  BY DEF Doing, Holds
<1>2. /\ proc' = [proc EXCEPT ![p] = next] /\ proc[p] = Idle
      /\ UNCHANGED <<hash, rooms, open, told, subscribed>>
      /\ score' = [u \in Users |-> IF u \in Lapsed THEN NotIndexed ELSE score[u]]
  BY DEF ReapExpired
<1>3. \A u \in Lapsed : ~Busy(u)
  BY DEF Lapsed, MayBegin
<1> HIDE DEF next, p
<1>4. proc'[p] = next /\ \A q \in Processes : q # p => proc'[q] = proc[q]
  BY <1>0, <1>2 DEF WellFormed, TypeOK
<1>5. \A u \in Users : u \notin Lapsed => Keeps(u)
  BY <1>2 DEF Keeps
<1>6. ASSUME NEW u \in Users, ~Busy(u)' PROVE Settled(u)'
  <2>1. u \notin Lapsed
    BY <1>0, <1>1, <1>4, <1>6 DEF Busy
  <2>2. ~Busy(u)
    <3> SUFFICES ASSUME NEW q \in Processes, u \in {proc[q].user} \cup proc[q].lapsed \cup proc[q].leaving
                 PROVE  FALSE
      BY DEF Busy
    <3>1. q # p
      BY <1>0, <1>2, IdleIsProcess
    <3>2. proc'[q] = proc[q]
      BY <1>4, <3>1
    <3> QED BY <1>6, <3>2 DEF Busy
  <2> QED BY <1>5, <2>1, <2>2, KeptSettled DEF InPlace
<1>7. ASSUME NEW q \in Processes, NEW u \in Users, proc'[q].user = u PROVE Brought(q, u)'
  <2>1. q # p
    BY <1>0, <1>1, <1>4, <1>7
  <2>2. proc'[q] = proc[q] /\ proc[q].user = u
    BY <1>4, <1>7, <2>1
  <2>3. u \notin Lapsed
    BY <1>3, <2>2 DEF Busy
  <2> QED BY <1>5, <2>2, <2>3, KeptBrought DEF InPlace
<1>8. \A q \in Processes : Holds(proc'[q])
  BY <1>1, <1>4 DEF InPlace
<1>9. \A q \in Processes : Holds(proc[q])'
  BY <1>8 DEF Holds
<1> QED BY <1>6, <1>7, <1>9 DEF InPlace

\* Time only takes presence away, and never a deadline.
LEMMA TickPlaces ==
    ASSUME WellFormed, InPlace, Tick
    PROVE  InPlace'
<1>0. /\ UNCHANGED <<hash, rooms, open, told, subscribed, proc>>
      /\ \A u \in Users : /\ Live(u)' => Live(u)
                          /\ score[u] # NotIndexed => score'[u] # NotIndexed
                          /\ score[u] = NotIndexed => score'[u] = NotIndexed
  BY PresenceAssumption DEF Tick, Live, WellFormed, TypeOK, NotIndexed
<1>1. ASSUME NEW u \in Users, Settled(u) PROVE Settled(u)'
  BY <1>0, <1>1 DEF Settled, Visible
<1>2. ASSUME NEW u \in Users, NEW q \in Processes, Brought(q, u) PROVE Brought(q, u)'
  <2>1. Settled(u) => Settled(u)'
    BY <1>1
  <2>2. Entered(u) => Entered(u)'
    BY <1>0 DEF Entered
  <2>3. (Offline(u) => Offline(u)') /\ (Unheard(u) => Unheard(u)')
    BY <1>0 DEF Offline, Unheard
  <2> QED BY <1>0, <1>2, <2>1, <2>2, <2>3 DEF Brought
<1>3. \A u \in Users : Busy(u)' <=> Busy(u)
  BY <1>0 DEF Busy
<1> QED BY <1>0, <1>1, <1>2, <1>3 DEF InPlace, Holds

LEMMA NothingPlaces ==
    ASSUME InPlace, UNCHANGED <<store, open, told, subscribed, proc>>
    PROVE  InPlace'
<1>1. \A u \in Users : Keeps(u)
  BY DEF Keeps, store
<1>2. \A u \in Users : Busy(u)' <=> Busy(u)
  BY DEF Busy
<1> QED BY <1>1, <1>2, KeptSettled, KeptBrought DEF InPlace, Holds

LEMMA StepPlaces ==
    ASSUME OneAtATime, ~MayFail, WellFormed, Orderly, InPlace, [Next]_vars
    PROVE  InPlace'
<1> USE PresenceAssumption, ProcessNames
<1>0. score \in [Users -> NotIndexed..Ttl] /\ proc \in [Processes -> Process]
  BY DEF WellFormed, TypeOK
<1>1. CASE UNCHANGED vars
  BY <1>1, NothingPlaces DEF vars, store
<1>2. ASSUME NEW s \in Sockets, JoinRoom(s)
      PROVE  InPlace'
  <2> DEFINE p == Queue(s)
             new == IsNewArrival(UserOf[s])
  <2> PICK u \in Users : u = UserOf[s]
    OBVIOUS
  <2>1. /\ proc[p] = Idle /\ MayBegin(u) /\ p \in Processes
        /\ proc' = [proc EXCEPT ![p] = Doing("record", u, new)]
        /\ hash' = hash \cup {u} /\ rooms' = rooms \cup {u}
        /\ score' = [score EXCEPT ![u] = Ttl] /\ UNCHANGED <<open, told, subscribed>>
    BY <1>2 DEF JoinRoom
  <2>2. \A v \in Users : v # u => Keeps(v)
    BY <1>0, <2>1 DEF Keeps
  <2>3. Settled(u)
    BY <2>1, <1>2 DEF MayBegin, InPlace
  <2>4. ~new => u \in told
    BY <2>3 DEF IsNewArrival, Settled, Visible
  <2>5. Entered(u)'
    BY <1>0, <2>1 DEF Entered, NotIndexed
  <2>6. proc'[p] = Doing("record", u, new)
    BY <1>0, <2>1
  <2>7. proc'[p].at = "record" /\ proc'[p].flag = new
    <3> HIDE DEF new
    <3> QED BY <2>6 DEF Doing
  <2>8. Brought(p, u)'
    <3> HIDE DEF new, p
    <3> QED BY <2>1, <2>4, <2>5, <2>7 DEF Brought
  <2> HIDE DEF new, p
  <2> QED BY <2>1, <2>2, <2>8, BeginPlaces
<1>a. ASSUME NEW p \in Processes, proc[p] = Idle, NEW u \in Users, MayBegin(u),
             NEW step \in {"offline", "beat", "prune", "alone"}, NEW flag,
             step = "prune" => ~Live(u),
             proc' = [proc EXCEPT ![p] = Doing(step, u, flag)],
             UNCHANGED <<store, open, told>>, subscribed' \subseteq subscribed
      PROVE  InPlace'
  <2>1. \A v \in Users : Keeps(v)
    BY <1>a DEF Keeps, store
  <2>2. Settled(u)'
    BY <1>a, <2>1, KeptSettled DEF MayBegin, InPlace
  <2>3. proc'[p].at = step
    BY <1>0, <1>a DEF Doing
  <2>4. Live(u)' <=> Live(u)
    BY <1>a DEF Live, store
  <2>5. Brought(p, u)'
    BY <1>a, <2>2, <2>3, <2>4 DEF Brought, JoinStep
  <2> QED BY <1>a, <2>1, <2>5, BeginPlaces
<1>3. ASSUME NEW s \in Sockets, LeaveRoom(s)
      PROVE  InPlace'
  BY <1>3, <1>a DEF LeaveRoom
<1>4. ASSUME NEW s \in Sockets, NEW claimed \in BOOLEAN, Heartbeat(s, claimed)
      PROVE  InPlace'
  <2> DEFINE step == IF FoundStale(UserOf[s]) THEN "prune" ELSE "beat"
  <2>1. step \in {"beat", "prune"} /\ (step = "prune" => ~Live(UserOf[s]))
    BY DEF FoundStale
  <2>2. /\ proc' = [proc EXCEPT ![Queue(s)] = Doing(step, UserOf[s], claimed)]
        /\ MayBegin(UserOf[s]) /\ proc[Queue(s)] = Idle
        /\ UNCHANGED <<store, open, told, subscribed>>
    BY <1>4 DEF Heartbeat
  <2> HIDE DEF step
  <2> QED BY <2>1, <2>2, <1>a
<1>5. ASSUME NEW s \in Sockets, Disconnect(s)
      PROVE  InPlace'
  BY <1>5, <1>a DEF Disconnect
<1>6. ASSUME NEW s \in Sockets, Connect(s)
      PROVE  InPlace'
  BY <1>6, NothingPlaces DEF Connect
<1> QED BY <1>1, <1>2, <1>3, <1>4, <1>5, <1>6, SweepPlaces, TickPlaces, ProceedPlaces
        DEF Next, Request, Vanish, Abort

LEMMA InitInPlace == Init => InPlace
<1> SUFFICES ASSUME Init PROVE InPlace
  OBVIOUS
<1>1. \A u \in Users : Settled(u)
  BY PresenceAssumption DEF Init, Settled, Visible, Live, NotIndexed
<1>2. \A p \in Processes : proc[p] = Idle /\ Holds(proc[p])
  BY IdleIsProcess DEF Init, Holds
<1>3. \A p \in Processes, u \in Users : Brought(p, u)
  BY <1>2, IdleIsProcess DEF Brought, JoinStep
<1> QED BY <1>1, <1>2, <1>3 DEF InPlace

LEMMA AlwaysInPlace ==
    ASSUME OneAtATime, ~MayFail
    PROVE  Spec => []InPlace
<1>1. WellFormed /\ Orderly /\ InPlace /\ [Next]_vars => Orderly' /\ InPlace'
  BY StepFollows, StepPlaces DEF Follows
<1>2. Init => Orderly
  BY InitOrderly
<1> QED BY <1>1, <1>2, InitWellFormed, StepWellFormed, InitInPlace, PTL DEF Spec

\* While nothing done for a user overlaps and nothing fails, an open session
\* that nobody works on has a deadline a sweep will find: no session is left
\* behind by a join that crossed a lapse, a cleanup or a sweep.
THEOREM NoSessionIsForgotten ==
    ASSUME OneAtATime, ~MayFail
    PROVE  Spec => []OpenSessionsExpire
<1>1. InPlace => OpenSessionsExpire
  BY DEF InPlace, OpenSessionsExpire, Settled
<1> QED BY <1>1, AlwaysInPlace, PTL

\* Under the same conditions, whoever is present and is not being worked on has
\* a session and was announced to the others.
THEOREM ThePresentWereAnnounced ==
    ASSUME OneAtATime, ~MayFail
    PROVE  Spec => []PresentAreKnown
<1>1. InPlace => PresentAreKnown
  BY DEF InPlace, PresentAreKnown, Settled
<1> QED BY <1>1, AlwaysInPlace, PTL

\* Under the same conditions, the hash, the user's set and the expiry index
\* agree about everybody who is not being worked on.
THEOREM TheIndexesAgree ==
    ASSUME OneAtATime, ~MayFail
    PROVE  Spec => []IndexesAgree
<1>1. InPlace => IndexesAgree
  BY DEF InPlace, IndexesAgree, Settled
<1> QED BY <1>1, AlwaysInPlace, PTL

\* Under the same conditions, no socket goes on receiving the room's events
\* after its owner's session ended.
THEOREM NobodyListensOn ==
    ASSUME OneAtATime, ~MayFail
    PROVE  Spec => []ListenersHaveSessions
<1>1. WellFormed /\ InPlace => ListenersHaveSessions
  BY PresenceAssumption
     DEF WellFormed, TypeOK, InPlace, ListenersHaveSessions, Settled
<1> QED BY <1>1, AlwaysInPlace, InitWellFormed, StepWellFormed, PTL DEF Spec

================================================================================
