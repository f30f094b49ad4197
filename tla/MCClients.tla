------------------------------- MODULE MCClients -------------------------------
(***************************************************************************)
(* One tab of the web client: the room it shows, and the audio it is in.   *)
(* A behaviour runs one of the two and leaves the other alone.             *)
(***************************************************************************)
EXTENDS Naturals, Sequences, FiniteSets

CONSTANTS
    Others, Blocked, Messages, MaxMoves, MaxDrops, MaxQueue,
    SdkRooms, Tasks, NoSdkRoom

\* People, messages and calls are finitely many, a socket can hold the first join,
\* and SDK rooms are numbered.
ASSUME ClientsAssumption ==
    /\ IsFiniteSet(Others) /\ IsFiniteSet(Messages) /\ IsFiniteSet(Tasks)
    /\ MaxQueue \in Nat \ {0}
    /\ SdkRooms \subseteq Nat /\ IsFiniteSet(SdkRooms) /\ NoSdkRoom \notin SdkRooms

VARIABLES
    part,
    others, log, unsent, present, subscribed, up, cleanup, requests, serving, reading,
    events, view, late, missed, drops, moves,
    screen, role, call, sdk, current, publishAllowed, task, shared

viewVars == <<others, log, unsent, present, subscribed, up, cleanup, requests, serving, reading,
              events, view, late, missed, drops, moves>>
audioVars == <<screen, role, call, sdk, current, publishAllowed, task, shared>>
vars == <<part, viewVars, audioVars>>

Tab == INSTANCE RoomView
Sound == INSTANCE Audio

Init ==
    /\ part \in {"view", "audio"}
    /\ Tab!Init
    /\ part = "audio" => others = {}
    /\ Sound!Init

Next ==
    /\ UNCHANGED part
    /\ \/ part = "view" /\ Tab!Next /\ UNCHANGED audioVars
       \/ part = "audio" /\ Sound!Next /\ UNCHANGED viewVars

Spec == Init /\ [][Next]_vars

--------------------------------------------------------------------------------

\* A tab shows who is there and what was said once a snapshot is in (useRoom.ts:16-26), holds
\* one audio connection, which it leaves with the screen or the call (useRoom.ts:308-310), and
\* sends sound only where a token allowed it (mediaClient.ts:19-26).
ClientsHold ==
    CASE part = "view" -> Tab!TypeOK /\ Tab!RightAfterSnapshot
      [] part = "audio" -> Sound!TypeOK /\ Sound!OneAudio /\ Sound!MicrophoneIsGranted

================================================================================
