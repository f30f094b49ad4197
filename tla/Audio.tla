--------------------------------- MODULE Audio ---------------------------------
(***************************************************************************)
(* The one media client of a tab, which the room screen and the call layer *)
(* share without knowing of each other.                                    *)
(*                                                                         *)
(* connect, upgrade and disconnect are asynchronous: each first awaits the *)
(* end of the SDK room that is current.  An SDK room is a connection of its*)
(* own; the media server ends the older of two with one identity.          *)
(***************************************************************************)
EXTENDS Naturals, FiniteSets

CONSTANTS
    SdkRooms,     \* the SDK rooms a tab makes, by number: bounds the connects
    Tasks,        \* calls of the client that may be in flight
    NoSdkRoom

VARIABLES
    screen,       \* the room screen is open
    role,         \* of the viewer in that room
    call,         \* activeCall
    sdk,          \* the SDK rooms made so far
    current,      \* this.room
    publishAllowed,
    task,         \* calls of the client in flight
    shared        \* ghost: two calls awaited the end of one SDK room

vars == <<screen, role, call, sdk, current, publishAllowed, task, shared>>

Unmade == [state |-> "none", purpose |-> "none", granted |-> FALSE, mic |-> FALSE]
Idle == [step |-> "idle", purpose |-> "none", granted |-> FALSE, mic |-> FALSE, sdk |-> NoSdkRoom]

Live == {r \in SdkRooms : sdk[r].state \in {"connecting", "connected"}}
Unused == {r \in SdkRooms : sdk[r].state = "none"}

Init ==
    /\ screen = "elsewhere"
    /\ role = "listener"
    /\ call = "none"
    /\ sdk = [r \in SdkRooms |-> Unmade]
    /\ current = NoSdkRoom
    /\ publishAllowed = FALSE
    /\ task = [t \in Tasks |-> Idle]
    /\ shared = FALSE

--------------------------------------------------------------------------------
(***************************************************************************)
(* The media client.                                                       *)
(***************************************************************************)

\* The current room is let go; a connect makes its own and starts connecting.
Proceed(t, call_, rooms) ==
    IF call_.purpose = "none"
    THEN /\ sdk' = rooms
         /\ current' = NoSdkRoom
         /\ task' = [task EXCEPT ![t] = Idle]
    ELSE LET r == CHOOSE x \in Unused : \A y \in Unused : x <= y
         IN /\ sdk' = [rooms EXCEPT ![r] = [state |-> "connecting", purpose |-> call_.purpose,
                                            granted |-> call_.granted, mic |-> FALSE]]
            /\ current' = r
            /\ task' = [task EXCEPT ![t] = [call_ EXCEPT !.step = "connecting", !.sdk = r]]

\* A call of the client awaits the end of an SDK room.
AwaitsEnd(t, r) == task[t].step = "ending" /\ task[t].sdk = r

\* Mutant of Begin: connect does not end the room before it.
BeginOver(t, call_) ==
    /\ Proceed(t, call_, sdk)
    /\ publishAllowed' = FALSE
    /\ UNCHANGED shared

\* disconnect, and the start of every connect: await the end of the current room.
Begin(t, call_) ==
    IF current = NoSdkRoom
    THEN /\ Proceed(t, call_, sdk)
         /\ publishAllowed' = FALSE
         /\ UNCHANGED shared
    ELSE /\ task' = [task EXCEPT ![t] = [call_ EXCEPT !.step = "ending", !.sdk = current]]
         /\ shared' = (shared \/ \E u \in Tasks : AwaitsEnd(u, current))
         /\ UNCHANGED <<sdk, current, publishAllowed>>

Connect(purpose, granted, mic) ==
    [Idle EXCEPT !.purpose = purpose, !.granted = granted, !.mic = mic]

Calls(call_) ==
    /\ Cardinality(Unused) > Cardinality({u \in Tasks : task[u].step = "ending"})
    /\ \E t \in Tasks : task[t].step = "idle" /\ Begin(t, call_)

\* Whatever is current by then is forgotten.
Ended(t) ==
    /\ task[t].step = "ending"
    /\ Proceed(t, task[t], [sdk EXCEPT ![task[t].sdk].state = "ended", ![task[t].sdk].mic = FALSE])
    /\ publishAllowed' = FALSE
    /\ UNCHANGED <<screen, role, call, shared>>

Connected(t) ==
    /\ task[t].step = "connecting"
    /\ LET r == task[t].sdk
       IN /\ sdk[r].state = "connecting"
          /\ sdk' = [x \in SdkRooms |->
                 IF x = r THEN [sdk[x] EXCEPT !.state = "connected"]
                 ELSE IF x \in Live /\ sdk[x].purpose = sdk[r].purpose
                 THEN [sdk[x] EXCEPT !.state = "ended", !.mic = FALSE] ELSE sdk[x]]
          /\ publishAllowed' = sdk[r].granted
    /\ task' = [task EXCEPT ![t] = IF task[t].mic THEN [@ EXCEPT !.step = "mic"] ELSE Idle]
    /\ UNCHANGED <<screen, role, call, current, shared>>

\* The connection fails, or was ended under it; the caller shows an error.
ConnectFails(t) ==
    /\ task[t].step = "connecting"
    /\ sdk' = [sdk EXCEPT ![task[t].sdk].state = "ended"]
    /\ task' = [task EXCEPT ![t] =
           IF task[t].purpose = "call" THEN [Idle EXCEPT !.step = "ends call"] ELSE Idle]
    /\ UNCHANGED <<screen, role, call, current, publishAllowed, shared>>

\* Mutant of MayPublish: left to the media server.
MayPublishAnywhere == current # NoSdkRoom

\* What the token of the room that connected last allowed.
MayPublish == current # NoSdkRoom /\ publishAllowed

\* The microphone of whatever room is current, if the client may.
SetMicrophoneEnabled(t) ==
    /\ task[t].step = "mic"
    /\ IF MayPublish /\ sdk[current].state = "connected"
       THEN sdk' = [sdk EXCEPT ![current].mic = TRUE]
       ELSE UNCHANGED sdk
    /\ task' = [task EXCEPT ![t] =
           IF task[t].purpose = "call" /\ current # NoSdkRoom /\ ~MayPublish
           THEN [Idle EXCEPT !.step = "ends call"] ELSE Idle]
    /\ UNCHANGED <<screen, role, call, current, publishAllowed, shared>>

\* The button of the room screen, and that of the call bar.
ToggleMic ==
    /\ screen = "room" \/ call = "connected"
    /\ current # NoSdkRoom
    /\ sdk[current].state = "connected"
    /\ sdk' = [sdk EXCEPT ![current].mic = ~@ /\ MayPublish]
    /\ UNCHANGED <<screen, role, call, current, publishAllowed, task, shared>>

--------------------------------------------------------------------------------
(***************************************************************************)
(* The room screen.                                                        *)
(***************************************************************************)

EnterRoom ==
    /\ screen = "elsewhere"
    /\ screen' = "room"
    /\ UNCHANGED <<role, call, sdk, current, publishAllowed, task, shared>>

\* A snapshot, after a join or another one, brings a token of the viewer's role.
RoomState ==
    /\ screen = "room"
    /\ Calls(Connect("room", role = "speaker", FALSE))
    /\ UNCHANGED <<screen, role, call>>

\* A promotion reconnects, and only then asks for the microphone.
Promoted ==
    /\ screen = "room"
    /\ role = "listener"
    /\ role' = "speaker"
    /\ Calls(Connect("room", TRUE, TRUE))
    /\ UNCHANGED <<screen, call>>

\* The media server revokes; its notice reaches the client of that room.
Demoted ==
    /\ role = "speaker"
    /\ role' = "listener"
    /\ sdk' = [r \in SdkRooms |->
           IF sdk[r].purpose = "room" THEN [sdk[r] EXCEPT !.granted = FALSE, !.mic = FALSE]
           ELSE sdk[r]]
    /\ task' = [t \in Tasks |->
           IF task[t].purpose = "room" THEN [task[t] EXCEPT !.granted = FALSE] ELSE task[t]]
    /\ publishAllowed' =
           (publishAllowed /\ \A r \in SdkRooms :
                                 sdk[r].state = "connected" => sdk[r].purpose # "room")
    /\ UNCHANGED <<screen, call, current, shared>>

\* Leaving the screen leaves the audio room.
LeaveScreen ==
    /\ screen = "room"
    /\ screen' = "elsewhere"
    /\ role' = "listener"
    /\ Calls(Idle)
    /\ UNCHANGED call

--------------------------------------------------------------------------------
(***************************************************************************)
(* Calls.                                                                  *)
(***************************************************************************)

PlaceCall ==
    /\ call = "none"
    /\ call' = "dialling"
    /\ UNCHANGED <<screen, role, sdk, current, publishAllowed, task, shared>>

CallAccepted ==
    /\ call' = "connected"
    /\ Calls(Connect("call", TRUE, TRUE))
    /\ UNCHANGED <<screen, role>>

\* A decline, a hang-up on either side, a busy line, a ring nobody answered or one that was
\* cancelled: the audio is left, whichever it is.
EndLocally ==
    /\ call' = "none"
    /\ Calls(Idle)
    /\ UNCHANGED <<screen, role>>

\* The microphone or the room of a call would not open.
GiveUpCall(t) ==
    /\ task[t].step = "ends call"
    /\ call' = "none"
    /\ Begin(t, Idle)
    /\ UNCHANGED <<screen, role>>

Next ==
    \/ \E t \in Tasks :
           Ended(t) \/ Connected(t) \/ ConnectFails(t) \/ SetMicrophoneEnabled(t) \/ GiveUpCall(t)
    \/ ToggleMic
    \/ EnterRoom \/ RoomState \/ Promoted \/ Demoted \/ LeaveScreen
    \/ PlaceCall \/ CallAccepted \/ EndLocally

Spec == Init /\ [][Next]_vars

--------------------------------------------------------------------------------

TypeOK ==
    /\ screen \in {"elsewhere", "room"}
    /\ role \in {"listener", "speaker"}
    /\ call \in {"none", "dialling", "connected"}
    /\ current \in SdkRooms \cup {NoSdkRoom}
    /\ publishAllowed \in BOOLEAN
    /\ \A t \in Tasks : task[t].step \in {"idle", "ending", "connecting", "mic", "ends call"}

Quiet == \A t \in Tasks : task[t].step = "idle"

\* The tab holds one audio connection, the one it knows of (mediaClient.ts:91-92), and leaving
\* the screen or the call leaves the audio (useRoom.ts:308-310): unless two calls of the
\* client awaited the end of one room, when the second forgets what the first had made.
OneAudio ==
    ~shared =>
        /\ \A r \in Live : r = current \/ \E t \in Tasks : AwaitsEnd(t, r)
        /\ Quiet /\ screen = "elsewhere" /\ call = "none" => Live = {}

\* A microphone is live only in a room whose token allowed it (mediaClient.ts:19-26),
\* whatever was promoted, demoted, answered and left meanwhile; with two rooms made, what the
\* one allows is tried in the other.
MicrophoneIsGranted ==
    ~shared => \A r \in SdkRooms : sdk[r].mic => sdk[r].granted /\ sdk[r].state = "connected"

================================================================================
