------------------------------- MODULE RateLimits ------------------------------
(***************************************************************************)
(* One rate limit: a counter in Redis that one script increments, with an  *)
(* expiry set by the first call of a window.                               *)
(***************************************************************************)
EXTENDS Integers, Functions

CONSTANTS Limit, WindowSec, MaxTime, MaxCalls

VARIABLES
    now,
    counter,     \* the key: its count, and when it expires
    allowed,     \* ghost: the calls let through at each instant
    refused,     \* ghost: how the last call was answered, and when
    lost         \* ghost: the answers lost at each instant

vars == <<now, counter, allowed, refused, lost>>

NoKey == [count |-> 0, expires |-> 0]

TotalOf(log, from, to) == SumFunctionOnSet(log, (DOMAIN log) \cap (from..to))

Calls == TotalOf(allowed, 0, MaxTime) + TotalOf(lost, 0, MaxTime)

Init ==
    /\ now = 0
    /\ counter = NoKey
    /\ allowed = [t \in 0..MaxTime |-> 0]
    /\ lost = [t \in 0..MaxTime |-> 0]
    /\ refused = FALSE

\* Mutant of Increment: every call sets the expiry.
IncrementExtended(key) ==
    IF key.count = 0 \/ key.expires <= now
    THEN [count |-> 1, expires |-> now + WindowSec]
    ELSE [count |-> key.count + 1, expires |-> now + WindowSec]

\* Mutant of Increment: a crash between INCR and EXPIRE leaves a key without one.
IncrementForever(key) ==
    IF key.count = 0
    THEN [count |-> 1, expires |-> MaxTime + 1]
    ELSE [key EXCEPT !.count = @ + 1]

\* INCR, and EXPIRE on the first: one script, and a key past its time is gone.
Increment(key) ==
    IF key.count = 0 \/ key.expires <= now
    THEN [count |-> 1, expires |-> now + WindowSec]
    ELSE [key EXCEPT !.count = @ + 1]

Check ==
    /\ counter' = Increment(counter)
    /\ IF counter'.count <= Limit
       THEN /\ Calls < MaxCalls
            /\ allowed' = [allowed EXCEPT ![now] = @ + 1]
            /\ refused' = FALSE
       ELSE /\ counter'.count <= Limit + 2
            /\ refused' = TRUE
            /\ UNCHANGED allowed
    /\ UNCHANGED <<now, lost>>

\* The script runs and its answer is lost: the client of Redis sends it again.
LoseAnswer ==
    /\ Calls < MaxCalls
    /\ counter' = Increment(counter)
    /\ counter'.count <= Limit + 2
    /\ lost' = [lost EXCEPT ![now] = @ + 1]
    /\ refused' = FALSE
    /\ UNCHANGED <<now, allowed>>

Tick ==
    /\ now < MaxTime
    /\ now' = now + 1
    /\ refused' = FALSE
    /\ UNCHANGED <<counter, allowed, lost>>

Next == Check \/ LoseAnswer \/ Tick

Spec == Init /\ [][Next]_vars

--------------------------------------------------------------------------------

TypeOK ==
    /\ now \in 0..MaxTime
    /\ counter.count \in 0..(Limit + 2)
    /\ counter.expires \in 0..(MaxTime + WindowSec)

\* A burst across the boundary of two windows is all that passes (RedisRateLimiter.ts:21-23):
\* twice the limit in any span as long as a window.
BurstsAreBounded ==
    \A t \in 0..MaxTime : TotalOf(allowed, t, t + WindowSec - 1) <= 2 * Limit

\* Nobody is locked out by trying (RedisRateLimiter.ts:26-28, 57-60): a call is refused only
\* when as many as the limit were used in the window before it.
RefusedForCause ==
    refused => TotalOf(allowed, now - WindowSec + 1, now)
                 + TotalOf(lost, now - WindowSec + 1, now) >= Limit

================================================================================
