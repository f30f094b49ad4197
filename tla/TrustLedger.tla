------------------------------ MODULE TrustLedger ------------------------------
(***************************************************************************)
(* The ledger a person's standing is projected from.  Each append is a     *)
(* transaction of two statements under READ COMMITTED: the insert, which   *)
(* nobody else sees yet, and the update, whose sum is over what had been   *)
(* committed when the statement began, even if it then waits for the row.  *)
(***************************************************************************)
EXTENDS Integers, FiniteSets, Functions

CONSTANTS
    Appends,      \* the appends of one run, each a transaction
    Reasons, Deltas,
    TrustMin, TrustMax, RegularFrom, TrustedFrom,
    NoReason

VARIABLES
    trustScore,
    event,       \* trust_events: the reason of each append
    tx,          \* the transaction of each append
    summed,      \* the score its update will write
    alone        \* ghost: the last commit saw every event committed before it

vars == <<trustScore, event, tx, summed, alone>>

ClampTrust(score) ==
    CASE score > TrustMax -> TrustMax [] score < TrustMin -> TrustMin [] OTHER -> score

Committed == {a \in Appends : tx[a] = "committed"}

SumOf(appends) == SumFunction([a \in appends |-> Deltas[event[a]]])

\* Thresholds are lower bounds, from the top down.
TrustTier(score) ==
    CASE score < 0 -> "restricted"
      [] score >= TrustedFrom -> "trusted"
      [] score >= RegularFrom -> "regular"
      [] OTHER -> "newcomer"

\* An account begins with its starting balance.
Init ==
    /\ trustScore = Deltas["account_created"]
    /\ event = [a \in Appends |-> NoReason]
    /\ tx = [a \in Appends |-> "none"]
    /\ summed = [a \in Appends |-> 0]
    /\ alone = TRUE

Insert(a, reason) ==
    /\ tx[a] = "none"
    /\ tx' = [tx EXCEPT ![a] = "inserted"]
    /\ event' = [event EXCEPT ![a] = reason]
    /\ UNCHANGED <<trustScore, summed, alone>>

\* Mutant of Projection: the cached score is incremented.
ProjectionIncremented(a) == ClampTrust(trustScore + Deltas[event[a]])

\* What the update writes: recomputed from the ledger, never incremented.
Projection(a) == ClampTrust(Deltas["account_created"] + SumOf(Committed \cup {a}))

\* The statement takes its snapshot, and the row's lock unless another holds it.
Recompute(a) ==
    /\ tx[a] = "inserted"
    /\ summed' = [summed EXCEPT ![a] = Projection(a)]
    /\ tx' = [tx EXCEPT ![a] =
                  IF \E b \in Appends : tx[b] = "updated" THEN "waiting" ELSE "updated"]
    /\ UNCHANGED <<trustScore, event, alone>>

\* The lock passes to one that waits; its sum stays the one of its snapshot.
Acquire(a) ==
    /\ tx[a] = "waiting"
    /\ \A b \in Appends : tx[b] # "updated"
    /\ tx' = [tx EXCEPT ![a] = "updated"]
    /\ UNCHANGED <<trustScore, event, summed, alone>>

Commit(a) ==
    /\ tx[a] = "updated"
    /\ trustScore' = summed[a]
    /\ tx' = [tx EXCEPT ![a] = "committed"]
    /\ alone' = (summed[a] = Projection(a))
    /\ UNCHANGED <<event, summed>>

\* The connection is lost: both writes are gone, and callers let it fail.
Rollback(a) ==
    /\ tx[a] \in {"inserted", "waiting", "updated"}
    /\ tx' = [tx EXCEPT ![a] = "gone"]
    /\ UNCHANGED <<trustScore, event, summed, alone>>

Next ==
    \E a \in Appends :
        \/ \E reason \in Reasons : Insert(a, reason)
        \/ Recompute(a) \/ Acquire(a) \/ Commit(a) \/ Rollback(a)

Spec == Init /\ [][Next]_vars
--------------------------------------------------------------------------------

TypeOK ==
    /\ trustScore \in TrustMin..TrustMax
    /\ \A a \in Appends :
           /\ event[a] \in Reasons \cup {NoReason}
           /\ tx[a] \in {"none", "inserted", "waiting", "updated", "committed", "gone"}
    /\ Cardinality({a \in Appends : tx[a] = "updated"}) <= 1

\* The score is the ledger's sum, clamped (trust.ts:11-13), whenever the last writer saw the
\* whole ledger: one that overlapped another leaves it wrong until the next append.
ScoreIsProjected ==
    alone => trustScore = ClampTrust(Deltas["account_created"] + SumOf(Committed))

\* Weak evidence is weak (trust.ts:48-55): nobody is restricted by fewer than three kicks
\* alone, in whatever order and overlap the events were written.
WeakEvidence ==
    TrustTier(trustScore) = "restricted" =>
        \/ \E a \in Committed : event[a] \in {"report_upheld", "banned"}
        \/ Cardinality({a \in Committed : event[a] = "kicked_from_room"}) >= 3

================================================================================
