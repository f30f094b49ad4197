------------------------------ MODULE Attendance ------------------------------
(***************************************************************************)
(* What a room is promised about who attends it (app/rooms/LeaveRoom.ts,   *)
(* app/rooms/JoinRoom.ts): the others hear of a person exactly while that  *)
(* person has a session.  Nobody is announced who has no session, nobody   *)
(* is announced as gone during one, and a new session does not begin       *)
(* before the departure that ended the last one was announced.             *)
(***************************************************************************)
CONSTANT Users

VARIABLES
    session,   \* who has an open session
    told       \* whom the others were last told of as being there

vars == <<session, told>>

Init == session = {} /\ told = {}

Enter(u) ==
    /\ u \notin session \cup told
    /\ session' = session \cup {u}
    /\ UNCHANGED told

Greet(u) ==
    /\ u \in session
    /\ told' = told \cup {u}
    /\ UNCHANGED session

Exit(u) ==
    /\ u \in session
    /\ session' = session \ {u}
    /\ UNCHANGED told

BidFarewell(u) ==
    /\ u \notin session
    /\ told' = told \ {u}
    /\ UNCHANGED session

Next == \E u \in Users : Enter(u) \/ Greet(u) \/ Exit(u) \/ BidFarewell(u)

Spec == Init /\ [][Next]_vars

===============================================================================
