------------------------------- MODULE MCClocks --------------------------------
(***************************************************************************)
(* What the server counts: rooms that open by the clock, days in a zone,   *)
(* streaks, trust, calls in a window, and how a room feels.  A behaviour   *)
(* runs one part and leaves the others alone.                              *)
(*                                                                         *)
(* Schedules runs in two sizes: one room that two servers sweep, and two   *)
(* rooms whose addresses collide.                                          *)
(***************************************************************************)
EXTENDS Integers, FiniteSets, TLC

CONSTANTS
    Room, Rooms, Server, Servers, Patterns, Horizon, SlugAttempts, MaxPerSweep, MaxFaults,
    LastMinute, Never,
    DayLength, Zones, Timetables, SearchDays, FirstDay, LastInstant,
    Joins, HomeZones, DaySteps, LastStep, MaxMoves, NoDay,
    Appends, Reasons, Deltas, TrustMin, TrustMax, RegularFrom, TrustedFrom, NoReason,
    Limit, WindowSec, LastSecond, MaxCalls,
    Users, Feelings, PulseWindow, MinVoters, LastPulse, NoFeeling

\* Weak evidence is in the numbers: two kicks leave the starting balance above zero.
ASSUME ClocksAssumption ==
    /\ IsFiniteSet(Rooms) /\ IsFiniteSet(Servers)
    /\ \A p \in Patterns : p \subseteq Nat
    /\ {Horizon, SlugAttempts, MaxPerSweep, MaxFaults, LastMinute} \subseteq Nat
    /\ Never \notin Nat
    /\ DayLength \in Nat \ {0}
    /\ \A z \in Zones : /\ z.before \in Int /\ z.after \in Int /\ z.change \in Int
                        /\ z.before - z.after \in -DayLength..DayLength
    /\ \A t \in Timetables : t # {} /\ t \subseteq 0..(DayLength - 1)
    /\ SearchDays \in Nat /\ SearchDays >= 2
    /\ FirstDay \in Int /\ LastInstant \in Int /\ FirstDay <= LastInstant
    /\ HomeZones \subseteq Int /\ DaySteps \in Nat \ {0} /\ LastStep \in Nat
    /\ NoDay \notin Int
    /\ IsFiniteSet(Appends) /\ NoReason \notin Reasons
    /\ {TrustMin, TrustMax, RegularFrom, TrustedFrom} \subseteq Int
    /\ TrustMin <= 0 /\ 0 <= RegularFrom /\ 0 <= TrustedFrom
    /\ Deltas \in [Reasons \cup {"account_created"} -> Int]
    /\ Deltas["account_created"] \in 0..TrustMax
    /\ \A r \in Reasons \ {"kicked_from_room", "report_upheld", "banned"} : Deltas[r] >= 0
    /\ "kicked_from_room" \in Reasons =>
           Deltas["account_created"] + 2 * Deltas["kicked_from_room"] >= 0
    /\ Limit \in Nat /\ WindowSec \in Nat \ {0} /\ LastSecond \in Nat
    /\ IsFiniteSet(Users) /\ NoFeeling \notin Feelings
    /\ PulseWindow \in Nat \ {0} /\ MinVoters \in Nat /\ LastPulse \in Nat

VARIABLES
    part, now,
    room, draft, server, announced, claimed, openings, faults,
    zone, times, booked, previous, swept,
    stored, timeZone, join, shown, moves,
    trustScore, event, tx, summed, alone,
    counter, allowed, refused, lost,
    inside, voting, ballots, expires, cast, told

scheduleVars == <<room, draft, server, announced, claimed, openings, faults>>
zoneVars == <<zone, times, booked, previous, swept>>
streakVars == <<stored, timeZone, join, shown, moves>>
ledgerVars == <<trustScore, event, tx, summed, alone>>
limitVars == <<counter, allowed, refused, lost>>
pulseVars == <<inside, voting, ballots, expires, cast, told>>
vars == <<part, now, scheduleVars, zoneVars, streakVars, ledgerVars, limitVars, pulseVars>>

Sched == INSTANCE Schedules WITH MaxTime <- LastMinute

Day == INSTANCE WallClock WITH MaxTime <- LastInstant

Habit == INSTANCE Streaks
    WITH TimeZones <- HomeZones, DayLength <- DaySteps, MaxTime <- LastStep

Standing == INSTANCE TrustLedger

Calls == INSTANCE RateLimits WITH MaxTime <- LastSecond

Mood == INSTANCE RoomPulse WITH Window <- PulseWindow, MaxTime <- LastPulse

Init ==
    /\ part \in {"sweeps", "addresses", "zone", "streak", "ledger", "limit", "pulse"}
    /\ room = [r \in Rooms |-> Sched!NotCreated]
    /\ draft = [r \in Rooms |-> Sched!NoDraft]
    /\ server = [s \in Servers |-> Sched!Down]
    /\ announced = [r \in Rooms |-> 0]
    /\ claimed = [r \in Rooms |-> {}]
    /\ openings = [r \in Rooms |-> 0]
    /\ faults = 0
    /\ IF part = "zone" THEN Day!Init
       ELSE /\ now = 0
            /\ zone = "none" /\ times = {} /\ booked = 0 /\ previous = 0 /\ swept = 0
    /\ stored = Habit!EmptyStreak
    /\ IF part = "streak" THEN timeZone \in HomeZones ELSE timeZone = "none"
    /\ join = [j \in Joins |-> Habit!Idle]
    /\ shown = {}
    /\ moves = 0
    /\ Standing!Init
    /\ IF part = "limit" THEN Calls!Init
       ELSE counter = Calls!NoKey /\ allowed = <<>> /\ lost = <<>> /\ refused = FALSE
    /\ inside \in (IF part = "pulse" THEN {Users, {}} ELSE {{}})
    /\ voting = {}
    /\ ballots = [u \in Users |-> NoFeeling]
    /\ expires = 0
    /\ cast = [u \in Users |-> Mood!Ever]
    /\ told = Mood!Silent

\* The sizes of Schedules.
OneRoom == \A r \in Rooms \ {Room} : draft'[r] = draft[r]
OneServer == \A s \in Servers \ {Server} : server'[s] = server[s]

Sweeping == OneRoom
Addressing == OneServer /\ now' <= 2

Next ==
    /\ UNCHANGED part
    /\ \/ /\ part = "sweeps" /\ Sched!Next /\ Sweeping
          /\ UNCHANGED <<zoneVars, streakVars, ledgerVars, limitVars, pulseVars>>
       \/ /\ part = "addresses" /\ Sched!Next /\ Addressing
          /\ UNCHANGED <<zoneVars, streakVars, ledgerVars, limitVars, pulseVars>>
       \/ /\ part = "zone" /\ Day!Next
          /\ UNCHANGED <<scheduleVars, streakVars, ledgerVars, limitVars, pulseVars>>
       \/ /\ part = "streak" /\ Habit!Next
          /\ UNCHANGED <<scheduleVars, zoneVars, ledgerVars, limitVars, pulseVars>>
       \/ /\ part = "ledger" /\ Standing!Next
          /\ UNCHANGED <<now, scheduleVars, zoneVars, streakVars, limitVars, pulseVars>>
       \/ /\ part = "limit" /\ Calls!Next
          /\ UNCHANGED <<scheduleVars, zoneVars, streakVars, ledgerVars, pulseVars>>
       \/ /\ part = "pulse" /\ Mood!Next
          /\ UNCHANGED <<scheduleVars, zoneVars, streakVars, ledgerVars, limitVars>>

\* The fairness of Schedules, for the part that needs it.
ClockTicks ==
    /\ part = "sweeps" /\ UNCHANGED part
    /\ Sched!Tick
    /\ UNCHANGED <<zoneVars, streakVars, ledgerVars, limitVars, pulseVars>>

ServerSweeps(s) ==
    /\ part = "sweeps" /\ UNCHANGED part
    /\ Sched!Runs(s)
    /\ UNCHANGED <<zoneVars, streakVars, ledgerVars, limitVars, pulseVars>>

Fairness == WF_vars(ClockTicks) /\ \A s \in Servers : WF_vars(ServerSweeps(s))

Spec == Init /\ [][Next]_vars /\ Fairness

--------------------------------------------------------------------------------

\* A room is opened once for an occurrence, announced by who opened it, and has an address
\* of its own (OpenScheduledRooms.ts:16-34, CreateRoom.ts:151-158).
RoomsOpenOnce ==
    part \in {"sweeps", "addresses"} =>
        /\ Sched!TypeOK /\ Sched!OpenedOncePerOccurrence /\ Sched!NothingReplayed
        /\ Sched!AnnouncedByTheWinner /\ Sched!LiveIsOpen /\ Sched!SlugsAreUnique

\* A room follows the wall clock of its zone, whichever way that changes (schedule.ts:289-308).
RoomsFollowTheClock ==
    part = "zone" =>
        Day!TypeOK /\ Day!BookedOnTheClock /\ Day!NothingPassedOver /\ Day!OncePerDay

\* A day is counted once and a missed one forgiven once, whatever joins overlap
\* (streaks.ts:166-179).
StreaksAreTrue ==
    part = "streak" => Habit!TypeOK /\ Habit!OneMissForgiven /\ Habit!ViewIsTrue

\* A score is its ledger's, and not taken on weak evidence (trust.ts:11-13, 48-55).
StandingIsEarned ==
    part = "ledger" => Standing!TypeOK /\ Standing!ScoreIsProjected /\ Standing!WeakEvidence

\* A limit lets through what it says and refuses for a cause (RedisRateLimiter.ts:21-28).
LimitsAreKept ==
    part = "limit" => Calls!TypeOK /\ Calls!BurstsAreBounded /\ Calls!RefusedForCause

\* A room's votes lapse together and are told of in numbers (RedisRoomPulseStore.ts:26-31).
VotesAreCounted ==
    part = "pulse" => Mood!TypeOK /\ Mood!VotesLastTheirWindow /\ Mood!ToldOfEnough

\* What the server counts is right, whichever component it is counted by.
ClocksHold ==
    /\ RoomsOpenOnce /\ RoomsFollowTheClock /\ StreaksAreTrue
    /\ StandingIsEarned /\ LimitsAreKept /\ VotesAreCounted

\* A room that is due is opened, or taken out of the sweep, whoever crashed meanwhile
\* (OpenScheduledRooms.ts:16-19).
DueRoomsOpen ==
    (part = "sweeps" /\ Sched!Overdue(Room)) ~> (part = "sweeps" /\ ~Sched!Overdue(Room))

--------------------------------------------------------------------------------
(***************************************************************************)
(* Values for TLC.                                                         *)
(***************************************************************************)

\* Every minute, and once.
EveryMinuteOrOnce == {1..8, {2}}

\* Two units to the hour; zones east and west of UTC, and both changes.
EastAndWest ==
    [before : {0}, after : {2}, change : 18..20]
        \cup [before : {2}, after : {0}, change : 18..20]
        \cup [before : {-2}, after : {-4}, change : 20..22]
        \cup [before : {-4}, after : {-2}, change : 20..22]

HoursAndPairs == {{h} : h \in 0..(DayLength - 1)} \cup {{h, h + 1} : h \in 0..(DayLength - 2)}

\* TRUST_DELTAS.
TrustDeltas ==
    [account_created |-> 10, room_session_completed |-> 2,
     kicked_from_room |-> -5, report_upheld |-> -25, banned |-> -100]
LowestTrust == -100

================================================================================
