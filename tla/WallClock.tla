------------------------------- MODULE WallClock -------------------------------
(***************************************************************************)
(* A schedule on the wall clock of a zone, across one change of its offset.*)
(*                                                                         *)
(* Time is counted in halves of the hour the clock moves by, and a day has *)
(* DayLength of them.  A schedule is its times of day, every day; an       *)
(* expression that picks days is abstracted to the instants it matches     *)
(* (Schedules).                                                            *)
(***************************************************************************)
EXTENDS Integers, FiniteSets

CONSTANTS
    DayLength,
    Zones,        \* [before, after, change]: the offsets, and the instant they change at
    Timetables,   \* sets of times of day
    SearchDays,   \* SEARCH_LIMIT_DAYS
    FirstDay, MaxTime

VARIABLES
    zone, times,
    now,
    booked,       \* next_occurrence
    previous,     \* ghost: the occurrence booked before it
    swept         \* ghost: when it was booked

vars == <<zone, times, now, booked, previous, swept>>

\* The zone's offset at an instant.
OffsetAt(z, instant) == IF instant < z.change THEN z.before ELSE z.after

LocalPartsOf(z, instant) == instant + OffsetAt(z, instant)

\* Mutant of InstantOf: one correction.
InstantOfOnce(z, local) == local - OffsetAt(z, local)

\* Guess that the local time is UTC and correct by the offset, twice.
InstantOf(z, local) == local - OffsetAt(z, local - OffsetAt(z, local))

\* The local times of the days searched, in their order.
Candidates(z, t, after) ==
    LET today == LocalPartsOf(z, after) \div DayLength
    IN {(today + d) * DayLength + time : d \in 0..SearchDays, time \in t}

\* The first local time whose instant is strictly later.
NextOccurrence(z, t, after) ==
    LET later == {local \in Candidates(z, t, after) : InstantOf(z, local) > after}
    IN InstantOf(z, CHOOSE local \in later : \A other \in later : local <= other)

Init ==
    /\ zone \in Zones
    /\ times \in Timetables
    /\ now = FirstDay
    /\ booked = NextOccurrence(zone, times, FirstDay)
    /\ previous = FirstDay
    /\ swept = FirstDay

\* A sweep of OpenScheduledRooms books forward from its own time, not from the occurrence.
Reschedule ==
    /\ booked <= now
    /\ booked' = NextOccurrence(zone, times, now)
    /\ previous' = booked
    /\ swept' = now
    /\ UNCHANGED <<zone, times, now>>

\* Sweeps come late: the clock moves whether or not the room is opened.
Tick ==
    /\ now < MaxTime
    /\ now' = now + 1
    /\ UNCHANGED <<zone, times, booked, previous, swept>>

Next == Reschedule \/ Tick

Spec == Init /\ [][Next]_vars

--------------------------------------------------------------------------------

TypeOK ==
    /\ zone \in Zones
    /\ times \in Timetables
    /\ {now, previous, swept} \subseteq FirstDay..MaxTime
    /\ booked \in Int

Shift == IF zone.after > zone.before THEN zone.after - zone.before ELSE zone.before - zone.after

\* The instants a local clock shows once and that the schedule names.
Named ==
    {i \in FirstDay..(MaxTime + DayLength) :
        /\ LocalPartsOf(zone, i) % DayLength \in times
        /\ \A j \in (i - Shift)..(i + Shift) :
               LocalPartsOf(zone, j) = LocalPartsOf(zone, i) => j = i}

\* A room opens when its clock says so (schedule.ts:289-308): a booking shows a time of the
\* schedule unless the change of the clocks is within the hour.
BookedOnTheClock ==
    \/ LocalPartsOf(zone, booked) % DayLength \in times
    \/ zone.change - Shift <= booked /\ booked < zone.change + Shift

\* A change of the clocks never silences a room (schedule.ts:301-304): a time that exists is
\* booked, or the room opens within the hour of it.
NothingPassedOver == \A i \in Named : i > swept => booked <= i + Shift

\* A daily room opens once a day (schedule.ts:305-307): the day it opens is shorter or longer
\* by the hour at most, and the second of two equal wall clocks is skipped.
OncePerDay ==
    Cardinality(times) = 1 /\ previous > FirstDay => booked - previous >= DayLength - Shift

================================================================================
