-------------------------------- MODULE Streaks --------------------------------
(***************************************************************************)
(* Showing up: each join reads the account, counts the local day and writes*)
(* the whole streak back, in steps of its own.  The zone a day is counted  *)
(* in is the account's, as the join read it.                               *)
(*                                                                         *)
(* An instant is a number, a zone a number of steps ahead, and DayLength   *)
(* steps make a day.  since is a ghost of the row: the day its streak began*)
(***************************************************************************)
EXTENDS Integers, FiniteSets

CONSTANTS Joins, TimeZones, DayLength, MaxTime, MaxMoves, NoDay

VARIABLES
    now, stored, timeZone,
    join,          \* the user object each join holds
    shown,         \* ghost: the days counted
    moves          \* bounds the changes of zone

vars == <<now, stored, timeZone, join, shown, moves>>

EmptyStreak == [current |-> 0, longest |-> 0, lastDay |-> NoDay, freeze |-> TRUE, since |-> NoDay]

LocalDayOf(instant, zone) == (instant + zone) \div DayLength

\* What a day makes of a streak.
Begun(state, today) ==
    [current |-> 1, longest |-> IF state.longest < 1 THEN 1 ELSE state.longest,
     lastDay |-> today, freeze |-> TRUE, since |-> today]

\* Mutant of Extended: longest is not kept.
ExtendedOnly(state, today, freeze) ==
    [state EXCEPT !.current = @ + 1, !.lastDay = today, !.freeze = freeze]

\* Mutant of Extended: the freeze is never spent.
ExtendedUnspent(state, today, freeze) ==
    [state EXCEPT !.current = @ + 1,
                  !.longest = IF @ < state.current + 1 THEN state.current + 1 ELSE @,
                  !.lastDay = today]

Extended(state, today, freeze) ==
    [state EXCEPT !.current = @ + 1,
                  !.longest = IF @ < state.current + 1 THEN state.current + 1 ELSE @,
                  !.lastDay = today, !.freeze = freeze]

Counted(state, today) ==
    IF state.lastDay = NoDay THEN Begun(state, today)
    ELSE LET gap == today - state.lastDay
         IN CASE gap <= 0 -> state
              [] gap = 1 -> Extended(state, today, state.freeze)
              [] gap = 2 /\ state.freeze -> Extended(state, today, FALSE)
              [] OTHER -> Begun(state, today)

\* Mutant of StreakAsOf: the freeze is taken for granted.
StreakAsOfFrozen(state, today) ==
    LET gap == IF state.lastDay = NoDay THEN 0 ELSE today - state.lastDay
        alive == state.lastDay # NoDay /\ gap <= 2
    IN [current |-> IF alive THEN state.current ELSE 0,
        longest |-> state.longest,
        showedUpToday |-> state.lastDay # NoDay /\ gap <= 0,
        atRisk |-> alive /\ gap = 2,
        freezeAvailable |-> IF alive THEN state.freeze ELSE TRUE]

\* What is rendered.
StreakAsOf(state, today) ==
    LET gap == IF state.lastDay = NoDay THEN 0 ELSE today - state.lastDay
        alive == state.lastDay # NoDay /\ (gap <= 1 \/ (gap = 2 /\ state.freeze))
    IN [current |-> IF alive THEN state.current ELSE 0,
        longest |-> state.longest,
        showedUpToday |-> state.lastDay # NoDay /\ gap <= 0,
        atRisk |-> alive /\ gap = 2,
        freezeAvailable |-> IF alive THEN state.freeze ELSE TRUE]

--------------------------------------------------------------------------------

Idle == [step |-> "idle", streak |-> EmptyStreak, zone |-> 0]

Init ==
    /\ now = 0
    /\ stored = EmptyStreak
    /\ timeZone \in TimeZones
    /\ join = [j \in Joins |-> Idle]
    /\ shown = {}
    /\ moves = 0

\* The account is read when the event arrives.
LoadUser(j) ==
    /\ join[j].step = "idle"
    /\ join' = [join EXCEPT ![j] = [step |-> "loaded", streak |-> stored, zone |-> timeZone]]
    /\ UNCHANGED <<now, stored, timeZone, shown, moves>>

\* The join counts the day; the same object back means nothing to write.
RecordShowUp(j) ==
    /\ join[j].step = "loaded"
    /\ LET today == LocalDayOf(now, join[j].zone)
           next == Counted(join[j].streak, today)
       IN IF next = join[j].streak
          THEN /\ join' = [join EXCEPT ![j] = Idle]
               /\ UNCHANGED shown
          ELSE /\ join' = [join EXCEPT ![j].step = "saving", ![j].streak = next]
               /\ shown' = shown \cup {today}
    /\ UNCHANGED <<now, stored, timeZone, moves>>

\* The row takes whatever was computed.
SaveStreak(j) ==
    /\ join[j].step = "saving"
    /\ stored' = join[j].streak
    /\ join' = [join EXCEPT ![j] = Idle]
    /\ UNCHANGED <<now, timeZone, shown, moves>>

\* A failure is swallowed; the join is unaffected.
LoseStreak(j) ==
    /\ join[j].step = "saving"
    /\ join' = [join EXCEPT ![j] = Idle]
    /\ UNCHANGED <<now, stored, timeZone, shown, moves>>

\* History is not rewritten.
SetTimeZone(zone) ==
    /\ zone # timeZone
    /\ moves < MaxMoves
    /\ moves' = moves + 1
    /\ timeZone' = zone
    /\ UNCHANGED <<now, stored, join, shown>>

Tick ==
    /\ now < MaxTime
    /\ now' = now + 1
    /\ UNCHANGED <<stored, timeZone, join, shown, moves>>

Next ==
    \/ \E j \in Joins : LoadUser(j) \/ RecordShowUp(j) \/ SaveStreak(j) \/ LoseStreak(j)
    \/ \E zone \in TimeZones : SetTimeZone(zone)
    \/ Tick

Spec == Init /\ [][Next]_vars

--------------------------------------------------------------------------------

Days == {LocalDayOf(instant, zone) : instant \in 0..MaxTime, zone \in TimeZones}

TypeOK ==
    /\ now \in 0..MaxTime
    /\ timeZone \in TimeZones
    /\ stored.lastDay \in Days \cup {NoDay}
    /\ \A j \in Joins : join[j].step \in {"idle", "loaded", "saving"}

\* A streak is days turned up on, one missed day at most, and that one paid for
\* (streaks.ts:166-179): whatever joins overlapped, every day it spans was counted but for
\* the freeze.
OneMissForgiven ==
    stored.lastDay # NoDay =>
        /\ stored.lastDay - stored.since + 1 = stored.current + (IF stored.freeze THEN 0 ELSE 1)
        /\ stored.current <= Cardinality(shown \cap (stored.since..stored.lastDay))
        /\ stored.current <= stored.longest

\* The screen tells the truth (streaks.ts:203-217): a streak is shown as alive exactly when a
\* join now would continue it rather than begin again.
ViewIsTrue ==
    LET today == LocalDayOf(now, timeZone)
        view == StreakAsOf(stored, today)
        joined == Counted(stored, today)
    IN /\ IF view.showedUpToday THEN joined = stored ELSE joined.current = view.current + 1
       /\ view.atRisk => ~joined.freeze

================================================================================
