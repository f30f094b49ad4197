------------------------------ MODULE Connections ------------------------------
(***************************************************************************)
(* The contact protocol between pairs of people: asking for a              *)
(* conversation, answering, blocking, dialling, picking up and hanging up  *)
(* (app/connections/*, app/safety/BlockUser.ts), over the one              *)
(* relationships row a pair shares (adapters/postgres/                     *)
(* PostgresRelationshipRepository.ts).                                     *)
(*                                                                         *)
(* A use case READS the row, decides, and later WRITES it with a           *)
(* compare-and-set; other requests run between the two.  So an operation   *)
(* is a Begin action (the reads and every check that follows them) and one *)
(* action per later write.  The compare-and-set compares the state column  *)
(* and nothing else: not who asked, not when.  A Begin whose checks fail   *)
(* changes nothing and is not a step.                                      *)
(*                                                                         *)
(* A connection is something that runs its user's requests one after the   *)
(* other: a socket with its queue, or one HTTP request at a time.  A user  *)
(* with two tabs, or whose client sends a hang-up over both the socket and *)
(* HTTP, has two connections.                                              *)
(***************************************************************************)
EXTENDS TrustLadder, FiniteSets

CONSTANTS
    User,
    Conn,       \* connections
    Owner,      \* [Conn -> User]
    Kinds,      \* bound: the operations this instance may begin
    Standings   \* bound: the standings an account may be given

OperationKind == {"requestDm", "acceptDm", "declineDm", "block", "unblock",
                  "invite", "acceptCall", "endCall"}

ASSUME ConnAssumption ==
    /\ Owner \in [Conn -> User]
    /\ NoUser \notin User
    /\ Kinds \subseteq OperationKind
    /\ Standings \subseteq Standing

VARIABLES
    row,       \* [Pair -> relationship]; the relationships table
    shared,    \* pairs whose time in a room overlapped, from room_members
    standing,  \* [User -> Standing]; status and trust score of each account
    op,        \* [Conn -> the operation in flight on it]
    tokens,    \* [Pair -> who holds an unexpired token for the pair's room]
    inRoom     \* [Pair -> who is connected to the pair's media room]

vars == <<row, shared, standing, op, tokens, inRoom>>

\* orderedPair: one row per unordered pair.
Pair == {p \in SUBSET User : \E u, v \in User : u # v /\ p = {u, v}}

Relationship ==
    [state: RelationshipState, requestedBy: User \cup {NoUser},
     blockedBy: User \cup {NoUser}, age: 0..MaxCall]

\* The write an operation in flight will try next.
PendingWrite == {"request", "acceptDm", "declineDm", "block", "unblock",
                 "release", "claim", "answer", "mint", "hangUp", "close"}

\* `seen' is the state it read, where the write expects that state; `lag' is
\* how long ago it read the clock, where the write stores that time.
Operation ==
    [pc: PendingWrite \cup {"idle"}, target: User \cup {NoUser},
     seen: RelationshipState, lag: 0..MaxCall]

Pending(pc, target, seen, lag) ==
    [pc |-> pc, target |-> target, seen |-> seen, lag |-> lag]

Idle == Pending("idle", NoUser, "none", 0)

PairOf(c) == {Owner[c], op[c].target}

Init ==
    /\ row = [p \in Pair |-> EmptyRelationship]
    /\ shared = {}
    /\ standing = [u \in User |-> "ok"]
    /\ op = [c \in Conn |-> Idle]
    /\ tokens = [p \in Pair |-> {}]
    /\ inRoom = [p \in Pair |-> {}]

--------------------------------------------------------------------------------
(* Beginning an operation: who may, and what is left in flight. *)

\* The edge re-reads the account for every event and refuses one that is not
\* active; a connection runs one request at a time.
MayBegin(c, v, kind) ==
    /\ kind \in Kinds
    /\ op[c] = Idle
    /\ v \in User \ {Owner[c]}
    /\ IsActive(standing[Owner[c]])

Start(c, v, pc, seen) ==
    /\ op' = [op EXCEPT ![c] = Pending(pc, v, seen, 0)]
    /\ UNCHANGED <<row, shared, standing, tokens, inRoom>>

\* Mutant of RequestDmBegin: the rule is left to the write.
RequestDmBeginUnchecked(c, v) ==
    /\ MayBegin(c, v, "requestDm")
    /\ Start(c, v, "request", row[{Owner[c], v}].state)

RequestDmBegin(c, v) ==
    LET p == {Owner[c], v} IN
    /\ MayBegin(c, v, "requestDm")
    /\ CanRequestDm(standing[Owner[c]], standing[v], row[p], p \in shared)
    /\ Start(c, v, "request", row[p].state)

\* Mutant of AcceptDmBegin: whoever asked may accept too.
AcceptDmBeginByAnyone(c, v) ==
    LET p == {Owner[c], v} IN
    /\ MayBegin(c, v, "acceptDm")
    /\ row[p].state = "dm_requested"
    /\ Start(c, v, "acceptDm", "none")

\* The asked party's answer.  Neither standing is asked about here.
AcceptDmBegin(c, v) ==
    LET p == {Owner[c], v} IN
    /\ MayBegin(c, v, "acceptDm")
    /\ row[p].state = "dm_requested"
    /\ row[p].requestedBy = v
    /\ Start(c, v, "acceptDm", "none")

\* Mutant of DeclineDmBegin: whoever asked may decline too.
DeclineDmBeginByAnyone(c, v) ==
    LET p == {Owner[c], v} IN
    /\ MayBegin(c, v, "declineDm")
    /\ row[p].state = "dm_requested"
    /\ Start(c, v, "declineDm", "none")

DeclineDmBegin(c, v) ==
    LET p == {Owner[c], v} IN
    /\ MayBegin(c, v, "declineDm")
    /\ row[p].state = "dm_requested"
    /\ row[p].requestedBy = v
    /\ Start(c, v, "declineDm", "none")

BlockBegin(c, v) ==
    LET p == {Owner[c], v} IN
    /\ MayBegin(c, v, "block")
    /\ row[p].state # "blocked"
    /\ CanTransition(row[p].state, "blocked")
    /\ Start(c, v, "block", row[p].state)

\* Mutant of UnblockBegin: either side may lift the block.
UnblockBeginByAnyone(c, v) ==
    LET p == {Owner[c], v} IN
    /\ MayBegin(c, v, "unblock")
    /\ row[p].state = "blocked"
    /\ Start(c, v, "unblock", "none")

UnblockBegin(c, v) ==
    LET p == {Owner[c], v} IN
    /\ MayBegin(c, v, "unblock")
    /\ row[p].state = "blocked"
    /\ row[p].blockedBy = Owner[c]
    /\ Start(c, v, "unblock", "none")

\* A leftover call is released first; otherwise the line is claimed at once.
InviteBegin(c, v) ==
    LET p == {Owner[c], v} IN
    /\ MayBegin(c, v, "invite")
    /\ CanInviteToCall(standing[Owner[c]], standing[v], row[p])
    /\ CanStartRinging(row[p])
    /\ Start(c, v, IF row[p].state = "call_open" THEN "release" ELSE "claim", "none")

AcceptCallBegin(c, v) ==
    LET p == {Owner[c], v} IN
    /\ MayBegin(c, v, "acceptCall")
    /\ CanInviteToCall(standing[Owner[c]], standing[v], row[p])
    /\ CanAcceptCall(row[p], Owner[c])
    /\ Start(c, v, "answer", "none")

EndCallBegin(c, v) ==
    LET p == {Owner[c], v} IN
    /\ MayBegin(c, v, "endCall")
    /\ row[p].state = "call_open"
    /\ Start(c, v, "hangUp", "none")

--------------------------------------------------------------------------------
(* The writes. *)

\* Mutant of Finish: the target and what was read about it stay behind.
FinishKeepsTarget(c) == op' = [op EXCEPT ![c].pc = "idle"]

Finish(c) == op' = [op EXCEPT ![c] = Idle]

Then(c, pc, lag) ==
    op' = [op EXCEPT ![c] = Pending(pc, op[c].target, op[c].seen, lag)]

\* Mutant of Transition: a plain UPDATE, with no compare.
TransitionUnguarded(p, from, to, requestedBy, blockedBy, age) ==
    row' = [row EXCEPT ![p] = Row(to, requestedBy, blockedBy,
                                  IF to = "call_open" THEN age ELSE 0)]

\* relationships.transition when it succeeds: one statement that compares the
\* state and sets every column.  The age matters in call_open only.
Transition(p, from, to, requestedBy, blockedBy, age) ==
    /\ row[p].state = from
    /\ row' = [row EXCEPT ![p] = Row(to, requestedBy, blockedBy,
                                     IF to = "call_open" THEN age ELSE 0)]

\* relationships.transition when it returns null: the operation stops there.
LostRace(c, from) ==
    /\ row[PairOf(c)].state # from
    /\ Finish(c)
    /\ UNCHANGED row

RequestDm(c) ==
    /\ op[c].pc = "request"
    /\ \/ /\ Transition(PairOf(c), op[c].seen, "dm_requested", Owner[c], NoUser, 0)
          /\ Finish(c)
       \/ LostRace(c, op[c].seen)
    /\ UNCHANGED <<shared, standing, tokens, inRoom>>

AcceptDm(c) ==
    /\ op[c].pc = "acceptDm"
    /\ \/ /\ Transition(PairOf(c), "dm_requested", "dm_open", NoUser, NoUser, 0)
          /\ Finish(c)
       \/ LostRace(c, "dm_requested")
    /\ UNCHANGED <<shared, standing, tokens, inRoom>>

\* Mutant of DeclineDm: requested_by is not cleared.
DeclineDmKeepsAsker(c) ==
    /\ op[c].pc = "declineDm"
    /\ \/ /\ Transition(PairOf(c), "dm_requested", "none",
                         row[PairOf(c)].requestedBy, NoUser, 0)
          /\ Finish(c)
       \/ LostRace(c, "dm_requested")
    /\ UNCHANGED <<shared, standing, tokens, inRoom>>

DeclineDm(c) ==
    /\ op[c].pc = "declineDm"
    /\ \/ /\ Transition(PairOf(c), "dm_requested", "none", NoUser, NoUser, 0)
          /\ Finish(c)
       \/ LostRace(c, "dm_requested")
    /\ UNCHANGED <<shared, standing, tokens, inRoom>>

\* After a lost race the code reads once more, but only to choose its reply.
Block(c) ==
    /\ op[c].pc = "block"
    /\ \/ /\ Transition(PairOf(c), op[c].seen, "blocked", NoUser, Owner[c], 0)
          /\ Finish(c)
       \/ LostRace(c, op[c].seen)
    /\ UNCHANGED <<shared, standing, tokens, inRoom>>

Unblock(c) ==
    /\ op[c].pc = "unblock"
    /\ \/ /\ Transition(PairOf(c), "blocked", "none", NoUser, NoUser, 0)
          /\ Finish(c)
       \/ LostRace(c, "blocked")
    /\ UNCHANGED <<shared, standing, tokens, inRoom>>

\* Dialling over a leftover, first half.
Release(c) ==
    /\ op[c].pc = "release"
    /\ \/ /\ Transition(PairOf(c), "call_open", "dm_open", NoUser, NoUser, 0)
          /\ Then(c, "claim", op[c].lag)
       \/ LostRace(c, "call_open")
    /\ UNCHANGED <<shared, standing, tokens, inRoom>>

\* The mutex.  updatedAt is the time the dialler read before deciding.
Claim(c) ==
    /\ op[c].pc = "claim"
    /\ \/ /\ Transition(PairOf(c), "dm_open", "call_open", Owner[c], NoUser, op[c].lag)
          /\ Finish(c)
       \/ LostRace(c, "dm_open")
    /\ UNCHANGED <<shared, standing, tokens, inRoom>>

Answer(c) ==
    /\ op[c].pc = "answer"
    /\ \/ /\ Transition(PairOf(c), "call_open", "call_open", NoUser, NoUser, op[c].lag)
          /\ Then(c, "mint", 0)
       \/ LostRace(c, "call_open")
    /\ UNCHANGED <<shared, standing, tokens, inRoom>>

\* Both tokens, signed and handed out after the row says connected.
Mint(c) ==
    /\ op[c].pc = "mint"
    /\ tokens' = [tokens EXCEPT ![PairOf(c)] = PairOf(c)]
    /\ Finish(c)
    /\ UNCHANGED <<row, shared, standing, inRoom>>

HangUp(c) ==
    /\ op[c].pc = "hangUp"
    /\ \/ /\ Transition(PairOf(c), "call_open", "dm_open", NoUser, NoUser, 0)
          /\ Then(c, "close", 0)
       \/ LostRace(c, "call_open")
    /\ UNCHANGED <<shared, standing, tokens, inRoom>>

\* closeRoom ejects whoever is in the pair's room; its failure is swallowed.
Close(c) ==
    /\ op[c].pc = "close"
    /\ \/ inRoom' = [inRoom EXCEPT ![PairOf(c)] = {}]
       \/ UNCHANGED inRoom
    /\ Finish(c)
    /\ UNCHANGED <<row, shared, standing, tokens>>

Continue(c) ==
    \/ RequestDm(c) \/ AcceptDm(c) \/ DeclineDm(c) \/ Block(c)  \/ Unblock(c)
    \/ Release(c)   \/ Claim(c)    \/ Answer(c)    \/ Mint(c)
    \/ HangUp(c)    \/ Close(c)

\* A port throws, or the process dies: what is written stays written.
Abort(c) ==
    /\ op[c] # Idle
    /\ Finish(c)
    /\ UNCHANGED <<row, shared, standing, tokens, inRoom>>

--------------------------------------------------------------------------------
(* Around the protocol. *)

\* Two people's time in a room overlaps; the evidence is durable.
ShareRoom(p) ==
    /\ p \in Pair \ shared
    /\ shared' = shared \cup {p}
    /\ UNCHANGED <<row, standing, op, tokens, inRoom>>

\* A ban, its end, or a report that moves the trust score.
ChangeStanding(u, s) ==
    /\ u \in User
    /\ s \in Standings
    /\ standing' = [standing EXCEPT ![u] = s]
    /\ UNCHANGED <<row, shared, op, tokens, inRoom>>

JoinMedia(u, p) ==
    /\ p \in Pair
    /\ u \in tokens[p] \ inRoom[p]
    /\ inRoom' = [inRoom EXCEPT ![p] = @ \cup {u}]
    /\ UNCHANGED <<row, shared, standing, op, tokens>>

LeaveMedia(u, p) ==
    /\ p \in Pair
    /\ u \in inRoom[p]
    /\ inRoom' = [inRoom EXCEPT ![p] = @ \ {u}]
    /\ UNCHANGED <<row, shared, standing, op, tokens>>

ExpireToken(u, p) ==
    /\ p \in Pair
    /\ u \in tokens[p]
    /\ tokens' = [tokens EXCEPT ![p] = @ \ {u}]
    /\ UNCHANGED <<row, shared, standing, op, inRoom>>

Older(n) == IF n < MaxCall THEN n + 1 ELSE n

\* The writes that store the time the operation read earlier.
KeepsTime == {"release", "claim", "answer"}

Tick ==
    /\ row' = [p \in Pair |->
                 IF row[p].state = "call_open"
                 THEN Row(row[p].state, row[p].requestedBy, row[p].blockedBy,
                          Older(row[p].age))
                 ELSE row[p]]
    /\ op' = [c \in Conn |->
                 IF op[c].pc \in KeepsTime
                 THEN Pending(op[c].pc, op[c].target, op[c].seen, Older(op[c].lag))
                 ELSE op[c]]
    /\ UNCHANGED <<shared, standing, tokens, inRoom>>

Begin(c, v) ==
    \/ RequestDmBegin(c, v) \/ AcceptDmBegin(c, v)   \/ DeclineDmBegin(c, v)
    \/ BlockBegin(c, v)     \/ UnblockBegin(c, v)
    \/ InviteBegin(c, v)    \/ AcceptCallBegin(c, v) \/ EndCallBegin(c, v)

Environment ==
    \/ Tick
    \/ \E p \in Pair : ShareRoom(p)
    \/ \E u \in User, s \in Standings : ChangeStanding(u, s)
    \/ \E p \in Pair, u \in User :
          JoinMedia(u, p) \/ LeaveMedia(u, p) \/ ExpireToken(u, p)

Next ==
    \/ \E c \in Conn, v \in User : Begin(c, v)
    \/ \E c \in Conn : Continue(c) \/ Abort(c)
    \/ Environment

Spec == Init /\ [][Next]_vars

--------------------------------------------------------------------------------
(* Properties. *)

\* Every variable has its type: the rows are relationships of the pair that
\* owns them and no request in flight is addressed to its sender.
TypeOK ==
    /\ row \in [Pair -> Relationship]
    /\ shared \subseteq Pair
    /\ standing \in [User -> Standing]
    /\ op \in [Conn -> Operation]
    /\ \A c \in Conn :
          op[c] # Idle => op[c].pc # "idle" /\ op[c].target \in User \ {Owner[c]}
    /\ tokens \in [Pair -> SUBSET User]
    /\ inRoom \in [Pair -> SUBSET User]

\* The columns agree with the state (Relationship.ts:31-48): someone is
\* recorded as asking only while a request or a ring is pending, a request
\* always says who asked, a blocker is recorded exactly while the pair is
\* blocked, and whoever is recorded is one of the two.  Every write sets all
\* three columns from what its request decided earlier, so this is about the
\* writes of all requests agreeing with each other.
ColumnsAgree ==
    \A p \in Pair :
        /\ row[p].requestedBy \in p \cup {NoUser}
        /\ row[p].blockedBy \in p \cup {NoUser}
        /\ row[p].requestedBy # NoUser => row[p].state \in {"dm_requested", "call_open"}
        /\ row[p].state = "dm_requested" => row[p].requestedBy # NoUser
        /\ row[p].blockedBy # NoUser <=> row[p].state = "blocked"

\* The ladder starts in a shared room (trustLadder.ts:322-328, "this single
\* check transitively enforces the whole ladder"): only RequestDm asks for
\* haveSharedRoomSession, and still no interleaving puts a pair on any rung
\* above `none' that never shared one.
ContactNeedsSharedRoom ==
    \A p \in Pair :
        row[p].state \in {"dm_requested", "dm_open", "call_open"} => p \in shared

\* transition() never consults the TRANSITIONS table (only BlockUser does) and
\* the state it expects may be long out of date; every write is nevertheless
\* one the table allows.  (A second request over a pending one is not a change
\* of state; it makes the other party the one who asks.)
LegalStep(p) ==
    row'[p].state # row[p].state => CanTransition(row[p].state, row'[p].state)

EveryWriteIsLegal == [][\A p \in Pair : LegalStep(p)]_vars

\* A block ends only by an unblock, and only at `none' (BlockUser.ts:73-79):
\* no request that was already in flight when the block was written, whatever
\* it read, moves the pair or overwrites who blocked.
BlockHolds(p) ==
    row[p].state = "blocked" /\ row'[p] # row[p] =>
        /\ row'[p] = EmptyRelationship
        /\ \E c \in Conn : op[c].pc = "unblock" /\ PairOf(c) = p /\ op'[c] = Idle

BlockIsFinal == [][\A p \in Pair : BlockHolds(p)]_vars

\* What a request in flight may still assume when it writes, whatever other
\* requests did in the meantime: RequestDm expects a state below dm_open and the
\* pair shared a room; BlockUser never expects `blocked'.  Without it the
\* properties above are not inductive.
SnapshotsHold ==
    \A c \in Conn :
        /\ op[c].pc = "request" =>
              op[c].seen \in {"none", "dm_requested"} /\ PairOf(c) \in shared
        /\ op[c].pc = "block" => op[c].seen # "blocked"

\* Two people who dial each other end up with one ring (CallUser.ts:27-32,
\* docs/adr/0007): no write turns a ring by one into a ring by the other, so
\* a line changes hands only through dm_open.
RingIsNotStolen ==
    [][\A p \in Pair :
          IsRinging(row[p]) /\ IsRinging(row'[p]) =>
              row'[p].requestedBy = row[p].requestedBy]_vars

\* The step in which connection c commits the write it had pending.
Commits(c, pc) ==
    op[c].pc = pc /\ op'[c] # op[c] /\ row'[PairOf(c)] # row[PairOf(c)]

\* Only the side being rung answers (trustLadder.ts:389-396, CallUser.ts:
\* 191-193): when an acceptance is written, the acceptor is not who dialled.
OnlyTheRungSideAnswers ==
    [][\A c \in Conn :
          op[c].pc = "answer" /\ op'[c].pc = "mint" =>
              row[PairOf(c)].requestedBy # Owner[c]]_vars

\* A call is answered once (CallUser.ts:191-193, "that the call is not already
\* connected"): when an acceptance is written, the row is still ringing.
AnsweredOnce ==
    [][\A c \in Conn :
          op[c].pc = "answer" /\ op'[c].pc = "mint" => IsRinging(row[PairOf(c)])]_vars

\* Only the person who was asked opens the conversation (RequestDm.ts:108-115):
\* when an acceptance is written, the pending request is not the acceptor's own.
OnlyTheAskedSideOpens ==
    [][\A c \in Conn :
          Commits(c, "acceptDm") => row[PairOf(c)].requestedBy # Owner[c]]_vars

\* Only the person who applied the block lifts it (BlockUser.ts:89-90).
OnlyTheBlockerUnblocks ==
    [][\A c \in Conn :
          Commits(c, "unblock") => row[PairOf(c)].blockedBy = Owner[c]]_vars

\* With one connection each, what a consenting request read about the other
\* side is still so when it writes, although the row may have changed: a pending
\* request it accepts or declines is the other side's, a ring it answers is the
\* other side's, and a block it lifts is its own (RequestDm.ts:126-129,
\* trustLadder.ts:408-412, BlockUser.ts:89-93).  This is what makes a
\* compare-and-set on the state alone enough.
RequestIsCurrent(c) ==
    LET r == row[PairOf(c)] IN
    /\ op[c].pc \in {"acceptDm", "declineDm"} /\ r.state = "dm_requested" =>
          r.requestedBy = op[c].target
    /\ op[c].pc = "answer" /\ r.state = "call_open" =>
          r.requestedBy = op[c].target
    /\ op[c].pc = "unblock" =>
          r.state = "blocked" /\ r.blockedBy = Owner[c]

RequestsAreCurrent == \A c \in Conn : RequestIsCurrent(c)

--------------------------------------------------------------------------------
(* The ladder as a whole. *)

AbstractRung(p) ==
    [state       |-> row[p].state,
     requestedBy |-> row[p].requestedBy,
     blockedBy   |-> row[p].blockedBy]

Abstract == INSTANCE Ladder WITH
    rung <- [p \in Pair |-> AbstractRung(p)],
    met  <- shared

\* The protocol implements the ladder with consent at every rung.  It does so
\* when every user acts through one connection (OneConnectionEach).
ImplementsLadder == Abstract!LadderSpec

\* The condition a socket's queue provides for one socket: no two requests of
\* the same user are in flight together.
OneConnectionEach == \A c, d \in Conn : Owner[c] = Owner[d] => c = d

--------------------------------------------------------------------------------
(* Liveness. *)

\* The server finishes what it began unless a port fails, a port does not fail
\* at the same point for ever, time passes, and a user who may call keeps
\* trying.  The last one is the user's habit, not the code's; it is what "the
\* next call simply overwrites the stale row" (Relationship.ts:115-119) needs.
Fairness ==
    /\ WF_vars(Tick)
    /\ \A c \in Conn : WF_vars(Continue(c)) /\ SF_vars(Release(c))
    /\ \A u, v \in User : SF_vars(\E c \in Conn : Owner[c] = u /\ InviteBegin(c, v))

FairSpec == Spec /\ Fairness

\* No pair in good standing is locked out of calling each other
\* (Relationship.ts:155-167): the line becomes free again and again even if
\* nobody ever hangs up, requests fail half way and no cleanup job runs.
LineFreesUp ==
    \A p \in Pair :
        []<>(row[p].state # "call_open" \/ \E u \in p : standing[u] # "ok")

================================================================================
