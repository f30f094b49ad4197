--------------------------- MODULE ConnectionsProofs ---------------------------
(***************************************************************************)
(* What holds of the contact protocol for any set of users, any number of  *)
(* connections and any time-outs.                                          *)
(***************************************************************************)
EXTENDS Connections, TLAPS

--------------------------------------------------------------------------------
(* Facts about the definitions. *)

\* Two different users are a pair.
LEMMA PairFact ==
    ASSUME NEW u \in User, NEW v \in User, u # v
    PROVE  {u, v} \in Pair
BY DEF Pair

\* The members of a pair are users, and none of them is null.
LEMMA PairMembers ==
    ASSUME NEW p \in Pair
    PROVE  p \subseteq User /\ NoUser \notin p
BY ConnAssumption DEF Pair

\* The row and the operation every pair and connection start with are typed.
LEMMA InitialValues ==
    /\ EmptyRelationship \in Relationship
    /\ Idle \in Operation
BY ConnAssumption, TimeoutAssumption
DEF EmptyRelationship, Row, Relationship, RelationshipState, Idle, Pending, Operation

\* An operation in flight is about a pair its connection's owner belongs to.
LEMMA PairOfType ==
    ASSUME TypeOK, NEW c \in Conn, op[c] # Idle
    PROVE  /\ PairOf(c) \in Pair
           /\ op[c].pc \in PendingWrite
           /\ Owner[c] \in User
           /\ op[c].target \in User
           /\ op[c].target # Owner[c]
           /\ op[c].seen \in RelationshipState
           /\ op[c].lag \in 0..MaxCall
BY ConnAssumption, PairFact DEF TypeOK, PairOf, Operation

LEMMA OlderType ==
    ASSUME NEW n \in 0..MaxCall
    PROVE  Older(n) \in 0..MaxCall
BY TimeoutAssumption DEF Older

--------------------------------------------------------------------------------
(* Type correctness. *)

\* A Begin action leaves one well-typed operation in flight and nothing else.
LEMMA StartType ==
    ASSUME TypeOK, NEW c \in Conn, NEW v \in User, NEW k, MayBegin(c, v, k),
           NEW pc \in PendingWrite, NEW seen \in RelationshipState,
           Start(c, v, pc, seen)
    PROVE  TypeOK'
<1> DEFINE new == Pending(pc, v, seen, 0)
<1>1. new \in Operation /\ new # Idle /\ new.pc # "idle"
  BY TimeoutAssumption DEF Operation, Pending, Idle, PendingWrite
<1>2. v \in User \ {Owner[c]}
  BY DEF MayBegin
<1>3. op' = [op EXCEPT ![c] = new]
  BY DEF Start
<1>4. UNCHANGED <<row, shared, standing, tokens, inRoom>>
  BY DEF Start
<1>5. op' \in [Conn -> Operation]
  BY <1>1, <1>3 DEF TypeOK
<1>6. \A d \in Conn : op'[d] # Idle =>
         op'[d].pc # "idle" /\ op'[d].target \in User \ {Owner[d]}
  <2>1. new.target \in User \ {Owner[c]}
    BY <1>2 DEF Pending
  <2> HIDE DEF new
  <2> QED BY <1>1, <2>1, <1>3 DEF TypeOK
<1> QED BY <1>4, <1>5, <1>6 DEF TypeOK

LEMMA BeginType ==
    ASSUME TypeOK, NEW c \in Conn, NEW v \in User, Begin(c, v)
    PROVE  TypeOK'
<1>1. ASSUME NEW k, MayBegin(c, v, k) PROVE row[{Owner[c], v}].state \in RelationshipState
  <2>1. {Owner[c], v} \in Pair
    BY <1>1, ConnAssumption, PairFact DEF MayBegin
  <2> QED BY <2>1 DEF TypeOK, Relationship
<1>2. CASE RequestDmBegin(c, v)
  BY <1>1, <1>2, StartType DEF RequestDmBegin, PendingWrite
<1>3. CASE AcceptDmBegin(c, v)
  BY <1>3, StartType DEF AcceptDmBegin, PendingWrite, RelationshipState
<1>4. CASE DeclineDmBegin(c, v)
  BY <1>4, StartType DEF DeclineDmBegin, PendingWrite, RelationshipState
<1>5. CASE BlockBegin(c, v)
  BY <1>1, <1>5, StartType DEF BlockBegin, PendingWrite
<1>6. CASE UnblockBegin(c, v)
  BY <1>6, StartType DEF UnblockBegin, PendingWrite, RelationshipState
<1>7. CASE InviteBegin(c, v)
  BY <1>7, StartType DEF InviteBegin, PendingWrite, RelationshipState
<1>8. CASE AcceptCallBegin(c, v)
  BY <1>8, StartType DEF AcceptCallBegin, PendingWrite, RelationshipState
<1>9. CASE EndCallBegin(c, v)
  BY <1>9, StartType DEF EndCallBegin, PendingWrite, RelationshipState
<1> QED BY <1>2, <1>3, <1>4, <1>5, <1>6, <1>7, <1>8, <1>9 DEF Begin

LEMMA TransitionType ==
    ASSUME TypeOK, NEW p \in Pair, NEW from, NEW to \in RelationshipState,
           NEW by \in User \cup {NoUser}, NEW blocker \in User \cup {NoUser},
           NEW age \in 0..MaxCall, Transition(p, from, to, by, blocker, age)
    PROVE  row' \in [Pair -> Relationship]
<1>1. 0 \in 0..MaxCall
  BY TimeoutAssumption
<1> QED BY <1>1 DEF TypeOK, Transition, Row, Relationship

\* Ending an operation, or moving it to its next write, keeps op well typed.
LEMMA FinishType ==
    ASSUME TypeOK, NEW c \in Conn, Finish(c)
    PROVE  /\ op' \in [Conn -> Operation]
           /\ \A d \in Conn : op'[d] # Idle =>
                 op'[d].pc # "idle" /\ op'[d].target \in User \ {Owner[d]}
BY InitialValues DEF TypeOK, Finish

LEMMA ThenType ==
    ASSUME TypeOK, NEW c \in Conn, op[c] # Idle, NEW pc \in PendingWrite,
           NEW lag \in 0..MaxCall, Then(c, pc, lag)
    PROVE  /\ op' \in [Conn -> Operation]
           /\ \A d \in Conn : op'[d] # Idle =>
                 op'[d].pc # "idle" /\ op'[d].target \in User \ {Owner[d]}
<1> DEFINE next == Pending(pc, op[c].target, op[c].seen, lag)
<1>1. next \in Operation /\ next.pc # "idle" /\ next.target = op[c].target
  BY PairOfType DEF Operation, Pending, PendingWrite
<1>2. op' = [op EXCEPT ![c] = next]
  BY DEF Then
<1> QED BY <1>1, <1>2 DEF TypeOK

\* The write actions that only touch the row and their own operation.
LEMMA RowWriteType ==
    ASSUME TypeOK, NEW c \in Conn,
           \/ RequestDm(c) \/ AcceptDm(c) \/ DeclineDm(c) \/ Block(c) \/ Unblock(c)
           \/ Release(c) \/ Claim(c) \/ Answer(c) \/ HangUp(c)
    PROVE  TypeOK'
<1>1. op[c] # Idle
  BY DEF Idle, Pending, RequestDm, AcceptDm, DeclineDm, Block, Unblock, Release, Claim,
         Answer, HangUp
<1> DEFINE p == PairOf(c)
<1>2. p \in Pair /\ Owner[c] \in User /\ op[c].lag \in 0..MaxCall /\ 0 \in 0..MaxCall
  BY <1>1, PairOfType, TimeoutAssumption
<1> DEFINE opOK == /\ op' \in [Conn -> Operation]
                   /\ \A d \in Conn : op'[d] # Idle =>
                        op'[d].pc # "idle" /\ op'[d].target \in User \ {Owner[d]}
           rowOK == row' \in [Pair -> Relationship]
<1>3. ASSUME NEW from, LostRace(c, from) PROVE rowOK /\ opOK
  BY <1>3, FinishType DEF LostRace, TypeOK
<1>4. ASSUME NEW from, NEW to \in RelationshipState, NEW by \in User \cup {NoUser},
             NEW blocker \in User \cup {NoUser}, NEW age \in 0..MaxCall,
             Transition(p, from, to, by, blocker, age)
      PROVE  rowOK
  BY <1>2, <1>4, TransitionType
<1>5. CASE RequestDm(c)
  BY <1>2, <1>3, <1>4, <1>5, FinishType DEF RequestDm, TypeOK, RelationshipState
<1>6. CASE AcceptDm(c)
  BY <1>2, <1>3, <1>4, <1>6, FinishType DEF AcceptDm, TypeOK, RelationshipState
<1>7. CASE DeclineDm(c)
  BY <1>2, <1>3, <1>4, <1>7, FinishType DEF DeclineDm, TypeOK, RelationshipState
<1>8. CASE Block(c)
  BY <1>2, <1>3, <1>4, <1>8, FinishType DEF Block, TypeOK, RelationshipState
<1>9. CASE Unblock(c)
  BY <1>2, <1>3, <1>4, <1>9, FinishType DEF Unblock, TypeOK, RelationshipState
<1>10. CASE Release(c)
  BY <1>1, <1>2, <1>3, <1>4, <1>10, ThenType
  DEF Release, TypeOK, RelationshipState, PendingWrite
<1>11. CASE Claim(c)
  BY <1>2, <1>3, <1>4, <1>11, FinishType DEF Claim, TypeOK, RelationshipState
<1>12. CASE Answer(c)
  <2>1. rowOK
    BY <1>2, <1>3, <1>4, <1>12 DEF Answer, RelationshipState
  <2>2. opOK
    <3>1. CASE Then(c, "mint", 0)
      BY <1>1, <1>2, <3>1, ThenType DEF PendingWrite
    <3>2. CASE LostRace(c, "call_open")
      BY <1>3, <3>2
    <3> QED BY <1>12, <3>1, <3>2 DEF Answer
  <2> QED BY <1>12, <2>1, <2>2 DEF Answer, TypeOK
<1>13. CASE HangUp(c)
  BY <1>1, <1>2, <1>3, <1>4, <1>13, ThenType
  DEF HangUp, TypeOK, RelationshipState, PendingWrite
<1> QED BY <1>5, <1>6, <1>7, <1>8, <1>9, <1>10, <1>11, <1>12, <1>13

LEMMA MediaWriteType ==
    ASSUME TypeOK, NEW c \in Conn, Mint(c) \/ Close(c) \/ Abort(c)
    PROVE  TypeOK'
<1>1. op[c] # Idle /\ Finish(c)
  BY DEF Idle, Pending, Mint, Close, Abort
<1>2. PairOf(c) \in Pair /\ PairOf(c) \subseteq User
  BY <1>1, PairOfType, PairMembers
<1>3. UNCHANGED <<row, shared, standing>>
  BY DEF Mint, Close, Abort
<1>4. tokens' \in [Pair -> SUBSET User]
  BY <1>2 DEF TypeOK, Mint, Close, Abort
<1>5. inRoom' \in [Pair -> SUBSET User]
  BY <1>2 DEF TypeOK, Mint, Close, Abort
<1> QED BY <1>1, <1>3, <1>4, <1>5, FinishType DEF TypeOK

LEMMA TickType ==
    ASSUME TypeOK, Tick
    PROVE  TypeOK'
<1>1. row' \in [Pair -> Relationship]
  BY OlderType DEF TypeOK, Tick, Row, Relationship
<1>2. \A c \in Conn : /\ op'[c] \in Operation
                      /\ op'[c].pc = op[c].pc /\ op'[c].target = op[c].target
                      /\ op[c] = Idle => op'[c] = Idle
  BY OlderType DEF TypeOK, Tick, Operation, Pending, Idle, KeepsTime
<1>3. op' \in [Conn -> Operation]
  <2>1. op' = [c \in Conn |-> op'[c]]
    BY DEF Tick
  <2> QED BY <1>2, <2>1
<1> QED BY <1>1, <1>2, <1>3 DEF TypeOK, Tick

LEMMA EnvironmentType ==
    ASSUME TypeOK, Environment
    PROVE  TypeOK'
<1>1. CASE Tick
  BY <1>1, TickType
<1>2. ASSUME NEW p \in Pair, ShareRoom(p) PROVE TypeOK'
  BY <1>2 DEF TypeOK, ShareRoom
<1>3. ASSUME NEW u \in User, NEW s \in Standings, ChangeStanding(u, s) PROVE TypeOK'
  BY <1>3, ConnAssumption DEF TypeOK, ChangeStanding
<1>4. ASSUME NEW p \in Pair, NEW u \in User,
             JoinMedia(u, p) \/ LeaveMedia(u, p) \/ ExpireToken(u, p)
      PROVE  TypeOK'
  BY <1>4 DEF TypeOK, JoinMedia, LeaveMedia, ExpireToken
<1> QED BY <1>1, <1>2, <1>3, <1>4 DEF Environment

LEMMA NextType == TypeOK /\ [Next]_vars => TypeOK'
<1> SUFFICES ASSUME TypeOK, [Next]_vars PROVE TypeOK'
  OBVIOUS
<1>1. ASSUME NEW c \in Conn, NEW v \in User, Begin(c, v) PROVE TypeOK'
  BY <1>1, BeginType
<1>2. ASSUME NEW c \in Conn, Continue(c) \/ Abort(c) PROVE TypeOK'
  BY <1>2, RowWriteType, MediaWriteType DEF Continue
<1>3. CASE Environment
  BY <1>3, EnvironmentType
<1>4. CASE UNCHANGED vars
  BY <1>4 DEF TypeOK, vars, PairOf
<1> QED BY <1>1, <1>2, <1>3, <1>4 DEF Next

LEMMA InitType == Init => TypeOK
BY InitialValues DEF Init, TypeOK, Standing

\* Type correctness: the table holds relationships of the pairs that own them,
\* and a request in flight is always between two different people.
THEOREM TypeCorrect == Spec => []TypeOK
BY InitType, NextType, PTL DEF Spec

--------------------------------------------------------------------------------
(* What a step can do, stated once for the invariants below. *)

\* What connection c writes to row r, with the write it has pending.
Wrote(c, r, new) ==
    LET me == Owner[c] IN
    \/ /\ op[c].pc = "request" /\ r.state = op[c].seen
       /\ new = Row("dm_requested", me, NoUser, 0)
    \/ /\ op[c].pc = "acceptDm" /\ r.state = "dm_requested"
       /\ new = Row("dm_open", NoUser, NoUser, 0)
    \/ /\ op[c].pc = "declineDm" /\ r.state = "dm_requested"
       /\ new = EmptyRelationship
    \/ /\ op[c].pc = "block" /\ r.state = op[c].seen
       /\ new = Row("blocked", NoUser, me, 0)
    \/ /\ op[c].pc = "unblock" /\ r.state = "blocked"
       /\ new = EmptyRelationship
    \/ /\ op[c].pc \in {"release", "hangUp"} /\ r.state = "call_open"
       /\ new = Row("dm_open", NoUser, NoUser, 0)
    \/ /\ op[c].pc = "claim" /\ r.state = "dm_open"
       /\ new = Row("call_open", me, NoUser, op[c].lag)
    \/ /\ op[c].pc = "answer" /\ r.state = "call_open"
       /\ new = Row("call_open", NoUser, NoUser, op[c].lag)

\* A continuing or aborted operation touches its own pair and its own place.
ContinueEffect(c) ==
    /\ op[c] # Idle
    /\ \A d \in Conn \ {c} : op'[d] = op[d]
    /\ \/ op'[c] = Idle
       \/ /\ op'[c].target = op[c].target
          /\ op'[c].pc \in {"claim", "mint", "close"}
    /\ op[c].pc = "unblock" => op'[c] = Idle
    /\ op[c].pc = "answer" /\ op'[c].pc = "mint" => row[PairOf(c)].state = "call_open"
    /\ \A q \in Pair \ {PairOf(c)} : row'[q] = row[q]
    /\ \/ row'[PairOf(c)] = row[PairOf(c)]
       \/ Wrote(c, row[PairOf(c)], row'[PairOf(c)])
    /\ UNCHANGED <<shared, standing>>

\* A beginning operation read the row it will write, and writes nothing yet.
BeginEffect(c, v) ==
    LET r == row[{Owner[c], v}] IN
    /\ op[c] = Idle
    /\ v # Owner[c]
    /\ \A d \in Conn \ {c} : op'[d] = op[d]
    /\ op'[c].target = v
    /\ op'[c].pc = "request" =>
          /\ op'[c].seen = r.state /\ r.state \in {"none", "dm_requested"}
          /\ {Owner[c], v} \in shared
    /\ op'[c].pc = "block" => op'[c].seen = r.state /\ r.state # "blocked"
    /\ op'[c].pc \in {"acceptDm", "declineDm"} =>
          r.state = "dm_requested" /\ r.requestedBy = v
    /\ op'[c].pc = "unblock" => r.state = "blocked" /\ r.blockedBy = Owner[c]
    /\ op'[c].pc = "answer" =>
          r.state = "call_open" /\ r.requestedBy \notin {NoUser, Owner[c]}
    /\ UNCHANGED <<row, shared, standing>>

\* Nothing else moves the columns of a row or an operation in flight.
OtherEffect ==
    /\ \A p \in Pair : /\ row'[p].state = row[p].state
                       /\ row'[p].requestedBy = row[p].requestedBy
                       /\ row'[p].blockedBy = row[p].blockedBy
                       /\ row[p].state # "call_open" => row'[p] = row[p]
    /\ \A c \in Conn : /\ op'[c].pc = op[c].pc
                       /\ op'[c].target = op[c].target
                       /\ op'[c].seen = op[c].seen
                       /\ op[c].pc \notin KeepsTime => op'[c] = op[c]
    /\ \/ shared' = shared
       \/ \E p \in Pair : shared' = shared \cup {p}

LEMMA ContinueFacts ==
    ASSUME TypeOK, NEW c \in Conn, Continue(c) \/ Abort(c)
    PROVE  ContinueEffect(c)
<1>1. op[c] # Idle
  BY DEF Idle, Pending, Continue, Abort, RequestDm, AcceptDm, DeclineDm, Block,
         Unblock, Release, Claim, Answer, Mint, HangUp, Close
<1> DEFINE p == PairOf(c)
<1>2. p \in Pair
  BY <1>1, PairOfType
<1>3. UNCHANGED <<shared, standing>>
  BY DEF Continue, Abort, RequestDm, AcceptDm, DeclineDm, Block, Unblock,
         Release, Claim, Answer, Mint, HangUp, Close
<1> DEFINE place == /\ \A d \in Conn \ {c} : op'[d] = op[d]
                    /\ \/ op'[c] = Idle
                       \/ /\ op'[c].target = op[c].target
                          /\ op'[c].pc \in {"claim", "mint", "close"}
<1>4. Finish(c) => place
  BY DEF TypeOK, Finish
<1>5. \A lag : \A pc \in {"claim", "mint", "close"} : Then(c, pc, lag) => place
  BY DEF TypeOK, Then, Pending
<1>6. place
  BY <1>4, <1>5 DEF Continue, Abort, RequestDm, AcceptDm, DeclineDm, Block,
     Unblock, Release, Claim, Answer, Mint, HangUp, Close, LostRace
<1>7. ASSUME NEW from, NEW to, NEW by, NEW blocker, NEW age,
             Transition(p, from, to, by, blocker, age)
      PROVE  /\ row[p].state = from
             /\ row'[p] = Row(to, by, blocker, IF to = "call_open" THEN age ELSE 0)
             /\ \A q \in Pair \ {p} : row'[q] = row[q]
  BY <1>2, <1>7 DEF Transition, TypeOK
<1>10. op[c].pc = "unblock" => op'[c] = Idle
  BY <1>1 DEF TypeOK, Finish, LostRace, Continue, Abort, RequestDm, AcceptDm, DeclineDm,
     Block, Unblock, Release, Claim, Answer, Mint, HangUp, Close
<1>11. op[c].pc = "answer" /\ op'[c].pc = "mint" => row[p].state = "call_open"
  <2>1. Finish(c) => op'[c].pc # "mint"
    BY DEF TypeOK, Finish, Idle, Pending
  <2> QED BY <2>1 DEF LostRace, Transition, Continue, Abort, RequestDm, AcceptDm,
      DeclineDm, Block, Unblock, Release, Claim, Answer, Mint, HangUp, Close
<1> DEFINE effect == /\ \A q \in Pair \ {p} : row'[q] = row[q]
                     /\ row'[p] = row[p] \/ Wrote(c, row[p], row'[p])
<1>8. CASE row' = row
  BY <1>1, <1>3, <1>6, <1>8, <1>10, <1>11 DEF ContinueEffect
<1>9. CASE row' # row
  <2>1. ASSUME RequestDm(c) PROVE effect
    BY <1>7, <1>9, <2>1 DEF RequestDm, LostRace, Wrote
  <2>2. ASSUME AcceptDm(c) PROVE effect
    BY <1>7, <1>9, <2>2 DEF AcceptDm, LostRace, Wrote
  <2>3. ASSUME DeclineDm(c) PROVE effect
    BY <1>7, <1>9, <2>3 DEF DeclineDm, LostRace, Wrote, EmptyRelationship
  <2>4. ASSUME Block(c) PROVE effect
    BY <1>7, <1>9, <2>4 DEF Block, LostRace, Wrote
  <2>5. ASSUME Unblock(c) PROVE effect
    BY <1>7, <1>9, <2>5 DEF Unblock, LostRace, Wrote, EmptyRelationship
  <2>6. ASSUME Release(c) PROVE effect
    BY <1>7, <1>9, <2>6 DEF Release, LostRace, Wrote
  <2>7. ASSUME Claim(c) PROVE effect
    BY <1>7, <1>9, <2>7 DEF Claim, LostRace, Wrote
  <2>8. ASSUME Answer(c) PROVE effect
    BY <1>7, <1>9, <2>8 DEF Answer, LostRace, Wrote
  <2>9. ASSUME HangUp(c) PROVE effect
    BY <1>7, <1>9, <2>9 DEF HangUp, LostRace, Wrote
  <2>10. ASSUME Mint(c) \/ Close(c) \/ Abort(c) PROVE effect
    BY <1>9, <2>10 DEF Mint, Close, Abort
  <2>11. effect
    BY <2>1, <2>2, <2>3, <2>4, <2>5, <2>6, <2>7, <2>8, <2>9, <2>10 DEF Continue
  <2> QED BY <1>1, <1>3, <1>6, <1>10, <1>11, <2>11 DEF ContinueEffect
<1> QED BY <1>8, <1>9

LEMMA BeginFacts ==
    ASSUME TypeOK, NEW c \in Conn, NEW v \in User, Begin(c, v)
    PROVE  BeginEffect(c, v)
<1> DEFINE r == row[{Owner[c], v}]
<1>1. PICK k \in OperationKind : MayBegin(c, v, k)
  BY DEF Begin, OperationKind, RequestDmBegin, AcceptDmBegin, DeclineDmBegin,
         BlockBegin, UnblockBegin, InviteBegin, AcceptCallBegin, EndCallBegin
<1>2. r.state \in RelationshipState
  BY <1>1, ConnAssumption, PairFact DEF MayBegin, TypeOK, Relationship
<1>3. ASSUME NEW pc, NEW seen, Start(c, v, pc, seen)
      PROVE  /\ \A d \in Conn \ {c} : op'[d] = op[d]
             /\ op'[c].pc = pc /\ op'[c].target = v /\ op'[c].seen = seen
             /\ UNCHANGED <<row, shared, standing>>
  BY <1>3 DEF Start, Pending, TypeOK
<1>4. op[c] = Idle /\ v # Owner[c]
  BY <1>1 DEF MayBegin
<1>5. CASE RequestDmBegin(c, v)
  BY <1>2, <1>3, <1>4, <1>5
  DEF RequestDmBegin, BeginEffect, CanRequestDm, IsDmOpen, RelationshipState
<1>6. CASE AcceptDmBegin(c, v)
  BY <1>3, <1>4, <1>6 DEF AcceptDmBegin, BeginEffect
<1>7. CASE DeclineDmBegin(c, v)
  BY <1>3, <1>4, <1>7 DEF DeclineDmBegin, BeginEffect
<1>8. CASE BlockBegin(c, v)
  BY <1>3, <1>4, <1>8 DEF BlockBegin, BeginEffect
<1>9. CASE UnblockBegin(c, v)
  BY <1>3, <1>4, <1>9 DEF UnblockBegin, BeginEffect
<1>10. CASE InviteBegin(c, v)
  BY <1>3, <1>4, <1>10 DEF InviteBegin, BeginEffect
<1>11. CASE AcceptCallBegin(c, v)
  BY <1>3, <1>4, <1>11 DEF AcceptCallBegin, BeginEffect, CanAcceptCall
<1>12. CASE EndCallBegin(c, v)
  BY <1>3, <1>4, <1>12 DEF EndCallBegin, BeginEffect
<1> QED BY <1>5, <1>6, <1>7, <1>8, <1>9, <1>10, <1>11, <1>12 DEF Begin

LEMMA OtherFacts ==
    ASSUME TypeOK, Environment \/ UNCHANGED vars
    PROVE  OtherEffect
<1>1. CASE Tick
  BY <1>1 DEF OtherEffect, Tick, Row, Pending, Idle, KeepsTime
<1>2. CASE \E p \in Pair : ShareRoom(p)
  BY <1>2 DEF OtherEffect, ShareRoom
<1>3. CASE \E u \in User, s \in Standings : ChangeStanding(u, s)
  BY <1>3 DEF OtherEffect, ChangeStanding
<1>4. CASE \E p \in Pair, u \in User :
              JoinMedia(u, p) \/ LeaveMedia(u, p) \/ ExpireToken(u, p)
  BY <1>4 DEF OtherEffect, JoinMedia, LeaveMedia, ExpireToken
<1>5. CASE UNCHANGED vars
  BY <1>5 DEF OtherEffect, vars
<1> QED BY <1>1, <1>2, <1>3, <1>4, <1>5 DEF Environment

\* Every step is one of the three.
LEMMA StepFacts ==
    ASSUME TypeOK, [Next]_vars
    PROVE  \/ \E c \in Conn : ContinueEffect(c)
           \/ \E c \in Conn, v \in User : BeginEffect(c, v)
           \/ OtherEffect
BY ContinueFacts, BeginFacts, OtherFacts DEF Next

--------------------------------------------------------------------------------
(* The rows, for any number of connections per user. *)

\* The strengthening: what the rows say, and what the requests in flight may
\* still assume about them.
SafetyInv == TypeOK /\ ColumnsAgree /\ ContactNeedsSharedRoom /\ SnapshotsHold

LEMMA InitSafety == Init => SafetyInv
<1> SUFFICES ASSUME Init PROVE SafetyInv
  OBVIOUS
<1>1. TypeOK
  BY InitType
<1>2. ColumnsAgree /\ ContactNeedsSharedRoom
  BY DEF Init, ColumnsAgree, ContactNeedsSharedRoom, EmptyRelationship, Row
<1>3. SnapshotsHold
  BY DEF Init, SnapshotsHold, Idle, Pending
<1> QED BY <1>1, <1>2, <1>3 DEF SafetyInv

\* The rows after one operation's write.
LEMMA WriteKeepsRows ==
    ASSUME SafetyInv, NEW c \in Conn, ContinueEffect(c)
    PROVE  ColumnsAgree' /\ ContactNeedsSharedRoom'
<1> DEFINE p == PairOf(c)
<1>1. /\ p \in Pair /\ Owner[c] \in p /\ Owner[c] \in User /\ Owner[c] # NoUser
      /\ op[c].pc = "request" => p \in shared
  BY PairOfType, ConnAssumption DEF ContinueEffect, SafetyInv, SnapshotsHold, PairOf
<1>2. /\ shared' = shared
      /\ \A q \in Pair \ {p} : row'[q] = row[q]
      /\ row'[p] = row[p] \/ Wrote(c, row[p], row'[p])
  BY DEF ContinueEffect
<1>4. CASE row'[p] = row[p]
  BY <1>2, <1>4 DEF SafetyInv, ColumnsAgree, ContactNeedsSharedRoom
<1>5. CASE Wrote(c, row[p], row'[p])
  <2>1. /\ row'[p].requestedBy \in p \cup {NoUser}
        /\ row'[p].blockedBy \in p \cup {NoUser}
        /\ row'[p].requestedBy # NoUser => row'[p].state \in {"dm_requested", "call_open"}
        /\ row'[p].state = "dm_requested" => row'[p].requestedBy # NoUser
        /\ row'[p].blockedBy # NoUser <=> row'[p].state = "blocked"
    BY <1>1, <1>5 DEF Wrote, Row, EmptyRelationship
  <2>2. row'[p].state \in {"dm_requested", "dm_open", "call_open"} => p \in shared
    BY <1>1, <1>5 DEF Wrote, Row, EmptyRelationship, SafetyInv, ContactNeedsSharedRoom
  <2>3. ColumnsAgree'
    BY <1>2, <2>1 DEF SafetyInv, ColumnsAgree
  <2>4. ContactNeedsSharedRoom'
    BY <1>2, <2>2 DEF SafetyInv, ContactNeedsSharedRoom
  <2> QED BY <2>3, <2>4
<1> QED BY <1>2, <1>4, <1>5

LEMMA NextSafety == SafetyInv /\ [Next]_vars => SafetyInv'
<1> SUFFICES ASSUME SafetyInv, [Next]_vars PROVE SafetyInv'
  OBVIOUS
<1>1. TypeOK /\ TypeOK'
  BY NextType DEF SafetyInv
<1>2. ASSUME NEW c \in Conn, ContinueEffect(c)
      PROVE  ColumnsAgree' /\ ContactNeedsSharedRoom' /\ SnapshotsHold'
  <2>1. ColumnsAgree' /\ ContactNeedsSharedRoom'
    BY <1>2, WriteKeepsRows
  <2>2. SnapshotsHold'
    BY <1>2 DEF ContinueEffect, SafetyInv, SnapshotsHold, PairOf, Idle, Pending
  <2> QED BY <2>1, <2>2
<1>3. ASSUME NEW c \in Conn, NEW v \in User, BeginEffect(c, v)
      PROVE  ColumnsAgree' /\ ContactNeedsSharedRoom' /\ SnapshotsHold'
  <2>1. ColumnsAgree' /\ ContactNeedsSharedRoom'
    BY <1>3 DEF BeginEffect, SafetyInv, ColumnsAgree, ContactNeedsSharedRoom
  <2>2. SnapshotsHold'
    BY <1>3 DEF BeginEffect, SafetyInv, SnapshotsHold, PairOf
  <2> QED BY <2>1, <2>2
<1>4. ASSUME OtherEffect
      PROVE  ColumnsAgree' /\ ContactNeedsSharedRoom' /\ SnapshotsHold'
  <2>1. ColumnsAgree'
    BY <1>4 DEF OtherEffect, SafetyInv, ColumnsAgree
  <2>2. ContactNeedsSharedRoom'
    BY <1>4 DEF OtherEffect, SafetyInv, ContactNeedsSharedRoom
  <2>3. SnapshotsHold'
    BY <1>4 DEF OtherEffect, SafetyInv, SnapshotsHold, PairOf
  <2> QED BY <2>1, <2>2, <2>3
<1> QED BY <1>1, <1>2, <1>3, <1>4, StepFacts DEF SafetyInv

LEMMA Safety == Spec => []SafetyInv
BY InitSafety, NextSafety, PTL DEF Spec

\* The three columns of every row agree with its state in every reachable
\* state, however many requests overlap: Relationship.ts:31-48.
THEOREM ColumnsAlwaysAgree == Spec => []ColumnsAgree
<1>1. SafetyInv => ColumnsAgree
  BY DEF SafetyInv
<1> QED BY <1>1, Safety, PTL

\* Nobody reaches a rung above `none' with a person they never shared a room
\* with, whatever was in flight: trustLadder.ts:322-328.
THEOREM ContactStartsInARoom == Spec => []ContactNeedsSharedRoom
<1>1. SafetyInv => ContactNeedsSharedRoom
  BY DEF SafetyInv
<1> QED BY <1>1, Safety, PTL

\* What a request read before its write stays true where the write relies on
\* it without comparing it: RequestDm.ts:59-66, BlockUser.ts:46-66.
THEOREM SnapshotsAlwaysHold == Spec => []SnapshotsHold
<1>1. SafetyInv => SnapshotsHold
  BY DEF SafetyInv
<1> QED BY <1>1, Safety, PTL

\* What every step does to the state of a row, from the invariant.
LEMMA StepOnRow ==
    ASSUME SafetyInv, [Next]_vars, NEW p \in Pair
    PROVE  /\ LegalStep(p)
           /\ BlockHolds(p)
           /\ IsRinging(row[p]) /\ IsRinging(row'[p]) =>
                 row'[p].requestedBy = row[p].requestedBy
<1> DEFINE ring == IsRinging(row[p]) /\ IsRinging(row'[p]) =>
                      row'[p].requestedBy = row[p].requestedBy
<1>1. row[p].state \in RelationshipState
  BY DEF SafetyInv, TypeOK, Relationship
<1>2. ASSUME row'[p] = row[p] PROVE LegalStep(p) /\ BlockHolds(p) /\ ring
  BY <1>2 DEF LegalStep, BlockHolds
<1>3. ASSUME NEW c \in Conn, ContinueEffect(c)
      PROVE  LegalStep(p) /\ BlockHolds(p) /\ ring
  <2>1. CASE row'[p] = row[p]
    BY <1>2, <2>1
  <2>2. CASE p = PairOf(c) /\ Wrote(c, row[p], row'[p])
    <3>1. /\ op[c].pc = "request" => op[c].seen \in {"none", "dm_requested"}
          /\ op[c].pc = "block" => op[c].seen # "blocked"
          /\ op[c].pc = "unblock" => op'[c] = Idle
      BY <1>3 DEF SafetyInv, SnapshotsHold, ContinueEffect
    <3>2. LegalStep(p)
      BY <1>1, <2>2, <3>1 DEF Wrote, LegalStep, CanTransition, Transitions, Row,
         EmptyRelationship, RelationshipState
    <3>3. BlockHolds(p)
      BY <2>2, <3>1 DEF Wrote, BlockHolds, Row, EmptyRelationship
    <3>4. ring
      BY <2>2, <3>1 DEF Wrote, IsRinging, Row, EmptyRelationship
    <3> QED BY <3>2, <3>3, <3>4
  <2> QED BY <1>3, <2>1, <2>2 DEF ContinueEffect
<1>4. ASSUME NEW c \in Conn, NEW v \in User, BeginEffect(c, v)
      PROVE  row'[p] = row[p]
  BY <1>4 DEF BeginEffect
<1>5. ASSUME OtherEffect PROVE LegalStep(p) /\ BlockHolds(p) /\ ring
  BY <1>5 DEF OtherEffect, LegalStep, BlockHolds
<1> QED BY <1>2, <1>3, <1>4, <1>5, StepFacts DEF SafetyInv

\* Every change of a row's state is one the TRANSITIONS table allows, although
\* the repository never asks it: Relationship.ts:60-77.
THEOREM WritesAreLegal == Spec => EveryWriteIsLegal
<1>1. SafetyInv /\ [Next]_vars => [\A p \in Pair : LegalStep(p)]_vars
  BY StepOnRow
<1> QED BY <1>1, Safety, PTL DEF Spec, EveryWriteIsLegal

\* A block outlives every request that was in flight when it was written; only
\* an unblock ends it: BlockUser.ts:73-79.
THEOREM BlocksAreFinal == Spec => BlockIsFinal
<1>1. SafetyInv /\ [Next]_vars => [\A p \in Pair : BlockHolds(p)]_vars
  BY StepOnRow
<1> QED BY <1>1, Safety, PTL DEF Spec, BlockIsFinal

\* The state machine is the mutex: a ring never becomes the other party's ring
\* without the line having been free in between: CallUser.ts:27-32.
THEOREM RingsAreNotStolen == Spec => RingIsNotStolen
<1>1. SafetyInv /\ [Next]_vars =>
         [\A p \in Pair :
            IsRinging(row[p]) /\ IsRinging(row'[p]) =>
               row'[p].requestedBy = row[p].requestedBy]_vars
  BY StepOnRow
<1> QED BY <1>1, Safety, PTL DEF Spec, RingIsNotStolen

--------------------------------------------------------------------------------
(* Consent, when every user acts through one connection. *)

CurrentInv == SafetyInv /\ RequestsAreCurrent

\* Two operations in flight on one pair belong to its two sides.
LEMMA OtherSide ==
    ASSUME OneConnectionEach, TypeOK, NEW c \in Conn, NEW d \in Conn, c # d,
           op[c] # Idle, op[d] # Idle, PairOf(c) = PairOf(d)
    PROVE  Owner[d] = op[c].target /\ op[d].target = Owner[c]
<1>1. Owner[c] # Owner[d]
  BY DEF OneConnectionEach
<1> QED BY <1>1, PairOfType DEF PairOf

\* Another connection's write keeps what connection d read, or makes it
\* irrelevant.
LEMMA WriteKeepsRequests ==
    ASSUME OneConnectionEach, CurrentInv, NEW c \in Conn, ContinueEffect(c)
    PROVE  RequestsAreCurrent'
<1> SUFFICES ASSUME NEW d \in Conn PROVE RequestIsCurrent(d)'
  BY DEF RequestsAreCurrent
<1>1. CASE d = c
  BY <1>1 DEF ContinueEffect, RequestIsCurrent, Idle, Pending
<1>2. CASE d # c
  <2>1. op'[d] = op[d] /\ PairOf(d)' = PairOf(d)
    BY <1>2 DEF ContinueEffect, PairOf
  <2> DEFINE r == row[PairOf(d)]
  <2>2. RequestIsCurrent(d) /\ RequestIsCurrent(c)
    BY DEF CurrentInv, RequestsAreCurrent
  <2>3. CASE op[d] = Idle
    BY <2>1, <2>3 DEF Idle, Pending, RequestIsCurrent
  <2>4. CASE op[d] # Idle /\ row'[PairOf(d)] = row[PairOf(d)]
    BY <2>1, <2>2, <2>4 DEF RequestIsCurrent
  <2>5. CASE op[d] # Idle /\ PairOf(d) = PairOf(c) /\ Wrote(c, r, row'[PairOf(d)])
    <3>1. /\ Owner[c] = op[d].target /\ op[c].target = Owner[d]
          /\ op[d].target # Owner[d]
      BY <1>2, <2>5, OtherSide, PairOfType DEF ContinueEffect, CurrentInv, SafetyInv
    <3>2. /\ op[c].pc = "request" => op[c].seen \in {"none", "dm_requested"}
          /\ op[c].pc = "block" => op[c].seen # "blocked"
      BY DEF CurrentInv, SafetyInv, SnapshotsHold
    <3> QED BY <2>1, <2>2, <2>5, <3>1, <3>2
        DEF Wrote, Row, EmptyRelationship, RequestIsCurrent
  <2>6. PairOf(d) \in Pair \/ op[d] = Idle
    BY PairOfType DEF CurrentInv, SafetyInv
  <2> QED BY <2>3, <2>4, <2>5, <2>6 DEF ContinueEffect
<1> QED BY <1>1, <1>2

LEMMA NextCurrent ==
    ASSUME OneConnectionEach
    PROVE  CurrentInv /\ [Next]_vars => CurrentInv'
<1> SUFFICES ASSUME CurrentInv, [Next]_vars PROVE RequestsAreCurrent'
  BY NextSafety DEF CurrentInv
<1>1. ASSUME NEW c \in Conn, ContinueEffect(c) PROVE RequestsAreCurrent'
  BY <1>1, WriteKeepsRequests
<1>2. ASSUME NEW c \in Conn, NEW v \in User, BeginEffect(c, v)
      PROVE  RequestsAreCurrent'
  <2>1. {Owner[c], v} \in Pair
    BY <1>2, ConnAssumption, PairFact DEF BeginEffect
  <2>2. row[{Owner[c], v}].requestedBy \in {Owner[c], v, NoUser}
    BY <2>1 DEF CurrentInv, SafetyInv, ColumnsAgree
  <2>3. ASSUME NEW d \in Conn, d # c PROVE RequestIsCurrent(d)'
    BY <1>2, <2>3 DEF BeginEffect, CurrentInv, RequestsAreCurrent, RequestIsCurrent, PairOf
  <2>4. RequestIsCurrent(c)'
    BY <1>2, <2>2 DEF BeginEffect, RequestIsCurrent, PairOf
  <2> QED BY <2>3, <2>4 DEF RequestsAreCurrent
<1>3. ASSUME OtherEffect PROVE RequestsAreCurrent'
  <2>1. \A c \in Conn : op[c] = Idle \/ PairOf(c) \in Pair
    BY PairOfType DEF CurrentInv, SafetyInv
  <2> QED BY <1>3, <2>1
      DEF OtherEffect, CurrentInv, RequestsAreCurrent, RequestIsCurrent, PairOf, Idle,
          Pending, KeepsTime
<1> QED BY <1>1, <1>2, <1>3, StepFacts DEF CurrentInv, SafetyInv

LEMMA InitCurrent == Init => CurrentInv
<1>1. Init => RequestsAreCurrent
  BY DEF Init, RequestsAreCurrent, RequestIsCurrent, Idle, Pending
<1> QED BY <1>1, InitSafety DEF CurrentInv

LEMMA Current ==
    ASSUME OneConnectionEach
    PROVE  Spec => []CurrentInv
BY InitCurrent, NextCurrent, PTL DEF Spec

\* With one connection each, the request somebody is about to accept or
\* decline, the ring they are about to answer and the block they are about to
\* lift are still the ones they read, although the write compares the state
\* column only: PostgresRelationshipRepository.ts:76-122.
THEOREM RequestsStayCurrent ==
    ASSUME OneConnectionEach
    PROVE  Spec => []RequestsAreCurrent
<1>1. CurrentInv => RequestsAreCurrent
  BY DEF CurrentInv
<1> QED BY <1>1, Current, PTL

\* What an operation that commits under CurrentInv commits.
LEMMA ConsentFacts ==
    ASSUME CurrentInv, [Next]_vars, NEW c \in Conn
    PROVE  /\ op[c].pc = "answer" /\ op'[c].pc = "mint" =>
                 /\ row[PairOf(c)].requestedBy # Owner[c]
                 /\ IsRinging(row[PairOf(c)])
           /\ Commits(c, "acceptDm") => row[PairOf(c)].requestedBy # Owner[c]
           /\ Commits(c, "unblock") => row[PairOf(c)].blockedBy = Owner[c]
<1> DEFINE r == row[PairOf(c)]
           goal == /\ op[c].pc = "answer" /\ op'[c].pc = "mint" =>
                         r.requestedBy # Owner[c] /\ IsRinging(r)
                   /\ Commits(c, "acceptDm") => r.requestedBy # Owner[c]
                   /\ Commits(c, "unblock") => r.blockedBy = Owner[c]
<1>1. RequestIsCurrent(c)
  BY DEF CurrentInv, RequestsAreCurrent
<1>2. op[c] # Idle => op[c].target # Owner[c] /\ op[c].target # NoUser
  BY PairOfType, ConnAssumption DEF CurrentInv, SafetyInv
<1>3. op[c] = Idle => goal
  BY DEF Idle, Pending, Commits
<1>4. ASSUME ContinueEffect(c) PROVE goal
  BY <1>1, <1>2, <1>4 DEF ContinueEffect, RequestIsCurrent, Wrote, Commits, IsRinging
<1>5. ASSUME NEW d \in Conn, d # c, ContinueEffect(d) PROVE goal
  BY <1>5 DEF ContinueEffect, Commits
<1>6. ASSUME NEW d \in Conn, NEW v \in User, BeginEffect(d, v) PROVE goal
  BY <1>3, <1>6 DEF BeginEffect, Commits
<1>7. ASSUME OtherEffect PROVE goal
  BY <1>7 DEF OtherEffect, Commits, KeepsTime
<1> QED BY <1>4, <1>5, <1>6, <1>7, StepFacts DEF CurrentInv, SafetyInv

\* With one connection each, only the side being rung answers: CallUser.ts:191-193.
THEOREM RungSideAnswers ==
    ASSUME OneConnectionEach
    PROVE  Spec => OnlyTheRungSideAnswers
<1>1. CurrentInv /\ [Next]_vars =>
         [\A c \in Conn : op[c].pc = "answer" /\ op'[c].pc = "mint" =>
             row[PairOf(c)].requestedBy # Owner[c]]_vars
  BY ConsentFacts
<1> QED BY <1>1, Current, PTL DEF Spec, OnlyTheRungSideAnswers

\* With one connection each, a call is answered once: CallUser.ts:191-193.
THEOREM CallIsAnsweredOnce ==
    ASSUME OneConnectionEach
    PROVE  Spec => AnsweredOnce
<1>1. CurrentInv /\ [Next]_vars =>
         [\A c \in Conn : op[c].pc = "answer" /\ op'[c].pc = "mint" =>
             IsRinging(row[PairOf(c)])]_vars
  BY ConsentFacts
<1> QED BY <1>1, Current, PTL DEF Spec, AnsweredOnce

\* With one connection each, only the person who was asked opens the
\* conversation: RequestDm.ts:108-115.
THEOREM AskedSideOpens ==
    ASSUME OneConnectionEach
    PROVE  Spec => OnlyTheAskedSideOpens
<1>1. CurrentInv /\ [Next]_vars =>
         [\A c \in Conn :
             Commits(c, "acceptDm") => row[PairOf(c)].requestedBy # Owner[c]]_vars
  BY ConsentFacts
<1> QED BY <1>1, Current, PTL DEF Spec, OnlyTheAskedSideOpens

\* With one connection each, only the person who blocked lifts the block:
\* BlockUser.ts:89-90.
THEOREM BlockerUnblocks ==
    ASSUME OneConnectionEach
    PROVE  Spec => OnlyTheBlockerUnblocks
<1>1. CurrentInv /\ [Next]_vars =>
         [\A c \in Conn :
             Commits(c, "unblock") => row[PairOf(c)].blockedBy = Owner[c]]_vars
  BY ConsentFacts
<1> QED BY <1>1, Current, PTL DEF Spec, OnlyTheBlockerUnblocks

--------------------------------------------------------------------------------
(* Refinement: the protocol implements the ladder. *)

\* What the ladder sees of the rows.
AbstractRows == [p \in Pair |-> AbstractRung(p)]

LEMMA SamePairs == Abstract!Pair = Pair
BY DEF Pair, Abstract!Pair

LEMMA InitIsLadderInit == Init => Abstract!LadderInit
<1> SUFFICES ASSUME Init PROVE Abstract!LadderInit
  OBVIOUS
<1>1. \A p \in Pair : AbstractRung(p) = Abstract!Bottom
  BY DEF Init, AbstractRung, EmptyRelationship, Row, Abstract!Bottom, Abstract!Rung
<1> QED BY <1>1, SamePairs DEF Init, Abstract!LadderInit

\* A write to one row is a move of one rung.
LEMMA WriteIsMove ==
    ASSUME TypeOK, NEW c \in Conn, ContinueEffect(c), NEW state, NEW by, NEW blocker, NEW age,
           row'[PairOf(c)] = Row(state, by, blocker, age)
    PROVE  Abstract!Move(PairOf(c), Abstract!Rung(state, by, blocker))
<1>1. PICK p \in Pair : p = PairOf(c)
  BY PairOfType DEF ContinueEffect
<1>2. AbstractRung(p)' = Abstract!Rung(state, by, blocker)
  BY <1>1 DEF AbstractRung, Row, Abstract!Rung
<1>3. \A q \in Pair \ {p} : AbstractRung(q)' = AbstractRung(q)
  BY <1>1 DEF AbstractRung, ContinueEffect
<1> QED BY <1>1, <1>2, <1>3 DEF Abstract!Move, ContinueEffect

\* Every completed write is the ladder operation of the same name, by the user
\* who owns the connection; releasing a leftover is a hang-up.
LEMMA WriteIsLadderStep ==
    ASSUME CurrentInv, NEW c \in Conn, ContinueEffect(c),
           Wrote(c, row[PairOf(c)], row'[PairOf(c)])
    PROVE  Abstract!LadderNext
<1> DEFINE me == Owner[c]
           you == op[c].target
           p == PairOf(c)
           r == row[p]
<1>1. /\ me \in User /\ you \in User /\ me # you /\ p = {me, you} /\ p \in Pair
      /\ me # NoUser
  BY PairOfType, ConnAssumption DEF ContinueEffect, CurrentInv, SafetyInv, PairOf
<1>2. /\ r.requestedBy \in {me, you, NoUser}
      /\ r.requestedBy # NoUser => r.state \in {"dm_requested", "call_open"}
      /\ r.blockedBy # NoUser <=> r.state = "blocked"
  BY <1>1 DEF CurrentInv, SafetyInv, ColumnsAgree
<1>3. /\ op[c].pc = "request" => op[c].seen \in {"none", "dm_requested"} /\ p \in shared
      /\ op[c].pc = "block" => op[c].seen # "blocked"
      /\ RequestIsCurrent(c)
  BY DEF CurrentInv, SafetyInv, SnapshotsHold, RequestsAreCurrent
<1>4. AbstractRung(p) = Abstract!Rung(r.state, r.requestedBy, r.blockedBy)
  BY DEF AbstractRung, Abstract!Rung
<1>5. Abstract!Pair = Pair
  BY SamePairs
<1>6. \A state, by, blocker, age : row'[p] = Row(state, by, blocker, age) =>
         Abstract!Move(p, Abstract!Rung(state, by, blocker))
  BY WriteIsMove DEF CurrentInv, SafetyInv
<1>7. CASE op[c].pc = "request"
  <2>1. Abstract!Ask(me, you)
    BY <1>1, <1>3, <1>4, <1>6, <1>7 DEF Wrote, Abstract!Ask, AbstractRung
  <2> QED BY <1>1, <2>1 DEF Abstract!LadderNext
<1>8. CASE op[c].pc = "acceptDm"
  <2>1. r.state = "dm_requested" /\ row'[p] = Row("dm_open", NoUser, NoUser, 0)
    BY <1>8 DEF Wrote
  <2>2. AbstractRung(p) = Abstract!Rung("dm_requested", you, NoUser)
    BY <1>2, <1>3, <1>4, <1>8, <2>1 DEF RequestIsCurrent
  <2>3. Abstract!Open(me, you)
    BY <1>1, <1>6, <2>1, <2>2 DEF Abstract!Open
  <2> QED BY <1>1, <2>3 DEF Abstract!LadderNext
<1>9. CASE op[c].pc = "declineDm"
  <2>1. r.state = "dm_requested" /\ row'[p] = Row("none", NoUser, NoUser, 0)
    BY <1>9 DEF Wrote, EmptyRelationship
  <2>2. AbstractRung(p) = Abstract!Rung("dm_requested", you, NoUser)
    BY <1>2, <1>3, <1>4, <1>9, <2>1 DEF RequestIsCurrent
  <2>3. Abstract!Decline(me, you)
    BY <1>1, <1>6, <2>1, <2>2 DEF Abstract!Decline, Abstract!Bottom
  <2> QED BY <1>1, <2>3 DEF Abstract!LadderNext
<1>10. CASE op[c].pc = "block"
  <2>1. r.state # "blocked" /\ row'[p] = Row("blocked", NoUser, me, 0)
    BY <1>3, <1>10 DEF Wrote
  <2>2. Abstract!Block(me, you)
    BY <1>1, <1>6, <2>1 DEF Abstract!Block, AbstractRung
  <2> QED BY <1>1, <2>2 DEF Abstract!LadderNext
<1>11. CASE op[c].pc = "unblock"
  <2>1. r.state = "blocked" /\ row'[p] = Row("none", NoUser, NoUser, 0)
    BY <1>11 DEF Wrote, EmptyRelationship
  <2>2. AbstractRung(p) = Abstract!Rung("blocked", NoUser, me)
    BY <1>2, <1>3, <1>4, <1>11, <2>1 DEF RequestIsCurrent
  <2>3. Abstract!Unblock(me, you)
    BY <1>1, <1>6, <2>1, <2>2 DEF Abstract!Unblock, Abstract!Bottom
  <2> QED BY <1>1, <2>3 DEF Abstract!LadderNext
<1>12. CASE op[c].pc \in {"release", "hangUp"}
  <2>1. r.state = "call_open" /\ row'[p] = Row("dm_open", NoUser, NoUser, 0)
    BY <1>12 DEF Wrote
  <2>2. Abstract!HangUp(p)
    BY <1>1, <1>6, <2>1 DEF Abstract!HangUp, AbstractRung
  <2> QED BY <1>1, <1>5, <2>2 DEF Abstract!LadderNext
<1>13. CASE op[c].pc = "claim"
  <2>1. r.state = "dm_open" /\ row'[p] = Row("call_open", me, NoUser, op[c].lag)
    BY <1>13 DEF Wrote
  <2>2. Abstract!Dial(me, you)
    BY <1>1, <1>6, <2>1 DEF Abstract!Dial, AbstractRung
  <2> QED BY <1>1, <2>2 DEF Abstract!LadderNext
<1>14. CASE op[c].pc = "answer"
  <2>1. r.state = "call_open" /\ row'[p] = Row("call_open", NoUser, NoUser, op[c].lag)
    BY <1>14 DEF Wrote
  <2>2. AbstractRung(p) = Abstract!Rung("call_open", you, NoUser)
    BY <1>2, <1>3, <1>4, <1>14, <2>1 DEF RequestIsCurrent
  <2>3. Abstract!Answer(me, you)
    BY <1>1, <1>6, <2>1, <2>2 DEF Abstract!Answer
  <2> QED BY <1>1, <2>3 DEF Abstract!LadderNext
<1> QED BY <1>7, <1>8, <1>9, <1>10, <1>11, <1>12, <1>13, <1>14 DEF Wrote

LEMMA StepIsLadderStep ==
    ASSUME CurrentInv, [Next]_vars
    PROVE  [Abstract!LadderNext]_<<AbstractRows, shared>>
<1> DEFINE same == \A p \in Pair : AbstractRung(p)' = AbstractRung(p)
<1>1. same => AbstractRows' = AbstractRows
  BY DEF AbstractRows
<1>2. ASSUME NEW c \in Conn, ContinueEffect(c)
      PROVE  [Abstract!LadderNext]_<<AbstractRows, shared>>
  <2>1. CASE Wrote(c, row[PairOf(c)], row'[PairOf(c)])
    BY <1>2, <2>1, WriteIsLadderStep
  <2>2. CASE row'[PairOf(c)] = row[PairOf(c)]
    <3>1. same
      BY <1>2, <2>2 DEF ContinueEffect, AbstractRung
    <3> QED BY <1>1, <1>2, <3>1 DEF ContinueEffect
  <2> QED BY <1>2, <2>1, <2>2 DEF ContinueEffect
<1>3. ASSUME NEW c \in Conn, NEW v \in User, BeginEffect(c, v)
      PROVE  [Abstract!LadderNext]_<<AbstractRows, shared>>
  BY <1>1, <1>3 DEF BeginEffect, AbstractRung
<1>4. ASSUME OtherEffect PROVE [Abstract!LadderNext]_<<AbstractRows, shared>>
  <2>1. same
    BY <1>4 DEF OtherEffect, AbstractRung
  <2>2. CASE shared' = shared
    BY <1>1, <2>1, <2>2
  <2>3. ASSUME NEW p \in Pair, shared' = shared \cup {p} PROVE Abstract!Meet(p)
    BY <1>1, <2>1, <2>3, SamePairs DEF Abstract!Meet, AbstractRows
  <2> QED BY <1>4, <2>2, <2>3, SamePairs DEF OtherEffect, Abstract!LadderNext
<1> QED BY <1>2, <1>3, <1>4, StepFacts DEF CurrentInv, SafetyInv

\* With one connection each, a read and a later compare-and-set on the state
\* column behave like the atomic operations of the ladder: whoever opens,
\* answers or unblocks is the side entitled to, at the moment it happens.
THEOREM LadderIsImplemented ==
    ASSUME OneConnectionEach
    PROVE  Spec => ImplementsLadder
<1>1. CurrentInv /\ [Next]_vars => [Abstract!LadderNext]_<<AbstractRows, shared>>
  BY StepIsLadderStep
<1>2. Abstract!LadderSpec <=>
         Abstract!LadderInit /\ [][Abstract!LadderNext]_<<AbstractRows, shared>>
  BY DEF Abstract!LadderSpec, Abstract!ladderVars, AbstractRows
<1> QED BY <1>1, <1>2, InitIsLadderInit, Current, PTL DEF Spec, ImplementsLadder

================================================================================
