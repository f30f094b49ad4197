------------------------------ MODULE TrustLadder ------------------------------
(***************************************************************************)
(* The pure rules of the trust ladder: domain/entities/Relationship.ts and *)
(* the contact rungs of domain/rules/trustLadder.ts.                       *)
(*                                                                         *)
(* A relationship row is [state, requestedBy, blockedBy, age].  `age' is   *)
(* now - updatedAt in ticks, kept only up to MaxCall because no rule tells *)
(* two larger ages apart, and only while the pair is in call_open, the one *)
(* state in which a rule reads updatedAt.  An account is reduced to its    *)
(* standing: "ok", "restricted" (active with a low trust score) or         *)
(* "inactive" (suspended or banned).  A denial is FALSE; its wording is    *)
(* left out.                                                               *)
(***************************************************************************)
EXTENDS Naturals

CONSTANTS
    NoUser,       \* null in requested_by and blocked_by
    RingTimeout,  \* CALL_RING_TIMEOUT_MS, in ticks
    MaxCall       \* CALL_MAX_DURATION_MS, in ticks

ASSUME TimeoutAssumption ==
    /\ RingTimeout \in Nat \ {0}
    /\ MaxCall \in Nat
    /\ RingTimeout <= MaxCall

RelationshipState == {"none", "dm_requested", "dm_open", "call_open", "blocked"}

Standing == {"ok", "restricted", "inactive"}

Transitions ==
    [ none         |-> {"dm_requested", "blocked"},
      dm_requested |-> {"dm_open", "none", "blocked"},
      dm_open      |-> {"call_open", "none", "blocked"},
      call_open    |-> {"call_open", "dm_open", "none", "blocked"},
      blocked      |-> {"none"} ]

CanTransition(from, to) == to \in Transitions[from]

Row(state, requestedBy, blockedBy, age) ==
    [state |-> state, requestedBy |-> requestedBy, blockedBy |-> blockedBy, age |-> age]

\* A pair with no row yet, and a row whose pending fields have been cleared.
EmptyRelationship == Row("none", NoUser, NoUser, 0)

IsDmOpen(rel) == rel.state \in {"dm_open", "call_open"}

IsRinging(rel)   == rel.state = "call_open" /\ rel.requestedBy # NoUser
IsConnected(rel) == rel.state = "call_open" /\ rel.requestedBy = NoUser

IsRingStale(rel)     == IsRinging(rel)   /\ rel.age >= RingTimeout
IsCallAbandoned(rel) == IsConnected(rel) /\ rel.age >= MaxCall

--------------------------------------------------------------------------------
(* Rung 0: the account itself. *)

IsActive(standing) == standing # "inactive"

CanAct(standing) == IsActive(standing) /\ standing # "restricted"

(* Rung 3: direct messages. *)

\* Mutants of CanRequestDm: one condition is forgotten.
CanRequestDmOfStranger(actor, target, rel, haveSharedRoomSession) ==
    CanAct(actor) /\ IsActive(target) /\ rel.state # "blocked" /\ ~IsDmOpen(rel)

CanRequestDmTwice(actor, target, rel, haveSharedRoomSession) ==
    CanAct(actor) /\ IsActive(target) /\ rel.state # "blocked" /\ haveSharedRoomSession

CanRequestDmOverBlock(actor, target, rel, haveSharedRoomSession) ==
    CanAct(actor) /\ IsActive(target) /\ ~IsDmOpen(rel) /\ haveSharedRoomSession

CanRequestDm(actor, target, rel, haveSharedRoomSession) ==
    /\ CanAct(actor)
    /\ IsActive(target)
    /\ rel.state # "blocked"
    /\ ~IsDmOpen(rel)
    /\ haveSharedRoomSession

CanSendDm(actor, target, rel) ==
    /\ CanAct(actor)
    /\ IsActive(target)
    /\ rel.state # "blocked"
    /\ IsDmOpen(rel)

(* Rung 4: calls.  The first rule is about the pair, the others about now. *)

CanInviteToCall(actor, target, rel) ==
    /\ CanAct(actor)
    /\ IsActive(target)
    /\ rel.state # "blocked"
    /\ IsDmOpen(rel)

\* Mutant of CanStartRinging: a connected call that was never hung up keeps the
\* line for ever.
CanStartRingingUnlessStale(rel) ==
    /\ rel.state = "call_open" => IsRingStale(rel)
    /\ IsDmOpen(rel)

CanStartRinging(rel) ==
    /\ rel.state # "blocked"
    /\ rel.state = "call_open" => IsRingStale(rel) \/ IsCallAbandoned(rel)
    /\ IsDmOpen(rel)

\* Mutants of CanAcceptCall: the dialler answers, or anyone answers again.
CanAcceptOwnCall(rel, acceptor) ==
    rel.state = "call_open" /\ rel.requestedBy # NoUser /\ ~IsRingStale(rel)

CanAcceptAnsweredCall(rel, acceptor) ==
    rel.state = "call_open" /\ rel.requestedBy # acceptor /\ ~IsRingStale(rel)

CanAcceptCall(rel, acceptor) ==
    /\ rel.state = "call_open"
    /\ rel.requestedBy # NoUser
    /\ rel.requestedBy # acceptor
    /\ ~IsRingStale(rel)

================================================================================
