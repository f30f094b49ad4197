------------------------------- MODULE Surprises -------------------------------
(***************************************************************************)
(* Surprises: a message handed over as a code and opened once, with the    *)
(* mood of whoever opens it.                                               *)
(*                                                                         *)
(* A request runs one step per call to Postgres, so the read of a code and *)
(* the compare-and-set that claims it are two steps; a request may die, or *)
(* its answer be lost, at any of them.  A page holds one request per       *)
(* button; it forgets the request when its tab is left, the server does    *)
(* not.  Texts and themes are left out; the mood stays, since it chooses   *)
(* the message.                                                            *)
(***************************************************************************)
EXTENDS Naturals, FiniteSets

CONSTANTS
    People,         \* accounts
    Restricted,     \* the accounts canAct refuses
    Surprises,      \* ids to mint
    Codes,          \* the keyspace, small enough to collide
    Moods,          \* SURPRISE_MOODS
    Tasks,          \* the indexes of a surprise's tasks
    Requests,       \* requests in progress at once
    Ttl,            \* SURPRISE_TTL_DAYS
    MaxTime,        \* bound on the clock
    MaxAttempts,    \* MAX_CODE_ATTEMPTS
    MaxRedeems,     \* LIMITS.surpriseRedeem.limit
    Nobody, NoMood, NoSurprise

VARIABLES
    now,        \* the day
    row,        \* surprises
    request,    \* the requests the server works on
    page,       \* what each person's page shows, and whether it is busy
    redeems,    \* the limiter's count of each person's attempts
    credit      \* trust events of the reason surprise_redeemed, by surprise

vars == <<now, row, request, page, redeems, credit>>

Minted == {s \in Surprises : row[s].code \in Codes}
Unminted == [code |-> NoSurprise, sender |-> Nobody, recipient |-> Nobody,
             mood |-> NoMood, opened |-> 0, expires |-> 0, done |-> {}]

Idle == [step |-> "none", by |-> Nobody, heard |-> FALSE, at |-> 0, code |-> NoSurprise,
         mood |-> NoMood, tries |-> 0, surprise |-> NoSurprise, task |-> 0, on |-> FALSE, ticks |-> {}]

\* What OpenSurprise, SendSurprise and Reveal show of a surprise.
Blank == [busy |-> FALSE, shows |-> "form", surprise |-> NoSurprise, mood |-> NoMood,
          done |-> {}, busyTask |-> 0]

TypeOK ==
    /\ now \in 0..MaxTime
    /\ row \in [Surprises ->
           [code : Codes \cup {NoSurprise}, sender : People \cup {Nobody},
            recipient : People \cup {Nobody}, mood : Moods \cup {NoMood},
            opened : 0..MaxTime, expires : 0..(MaxTime + Ttl), done : SUBSET Tasks]]
    /\ request \in [Requests ->
           [step : {"none", "mint", "minted", "look", "claim", "reward", "answer",
                    "read", "tick", "ticked"},
            by : People \cup {Nobody}, heard : BOOLEAN, at : 0..MaxTime,
            code : Codes \cup {NoSurprise}, mood : Moods \cup {NoMood},
            tries : 0..MaxAttempts, surprise : Surprises \cup {NoSurprise},
            task : Tasks \cup {0}, on : BOOLEAN, ticks : SUBSET Tasks]]
    /\ page \in [People ->
           [busy : BOOLEAN, shows : {"form", "code", "reveal", "opened", "unknown"},
            surprise : Surprises \cup {NoSurprise}, mood : Moods \cup {NoMood},
            done : SUBSET Tasks, busyTask : Tasks \cup {0}]]
    /\ redeems \in [People -> 0..MaxRedeems]
    /\ credit \in [Surprises -> 0..2]

Init ==
    /\ now = 0
    /\ row = [s \in Surprises |-> Unminted]
    /\ request = [q \in Requests |-> Idle]
    /\ page = [p \in People |-> Blank]
    /\ redeems = [p \in People |-> 0]
    /\ credit = [s \in Surprises |-> 0]

\* A code names the row that was minted with it, opened or expired ones included.
FindByCode(code) == {s \in Surprises : row[s].code = code}

Expired(s, at) == row[s].expires <= at

\* ListMySurprises: the sender learns that a surprise was opened and keeps its code; the
\* recipient keeps the mood and the tasks, never the code.
Sent(p) == {[id |-> s, code |-> row[s].code, opened |-> row[s].recipient # Nobody] :
                s \in {t \in Minted : row[t].sender = p}}
Received(p) == {[id |-> s, mood |-> row[s].mood, done |-> row[s].done] :
                    s \in {t \in Minted : row[t].recipient = p}}

--------------------------------------------------------------------------------
(***************************************************************************)
(* The page.                                                               *)
(***************************************************************************)

\* The page that waits for q gets what the request brought.
Answer(q, shown) ==
    /\ page' = IF request[q].heard THEN [page EXCEPT ![request[q].by] = shown] ELSE page
    /\ request' = [request EXCEPT ![q] = Idle]

Refuse(q, shows) == Answer(q, [Blank EXCEPT !.shows = shows])

Ask(q, r) ==
    /\ request[q] = Idle
    /\ request' = [request EXCEPT ![q] = r]
    /\ page' = [page EXCEPT ![r.by].busy = TRUE]

\* "Open it": one request at a time, and the limiter counts it before anything else.
Open(q, p, code, mood) ==
    /\ ~page[p].busy
    /\ page[p].shows \notin {"reveal", "code"}
    /\ redeems[p] < MaxRedeems
    /\ redeems' = [redeems EXCEPT ![p] = @ + 1]
    /\ Ask(q, [Idle EXCEPT !.step = "look", !.by = p, !.heard = TRUE, !.at = now,
                           !.code = code, !.mood = mood])
    /\ UNCHANGED <<now, row, credit>>

\* "Make the code": refused to a restricted account.
Send(q, p) ==
    /\ ~page[p].busy
    /\ page[p].shows \notin {"reveal", "code"}
    /\ p \notin Restricted
    /\ Ask(q, [Idle EXCEPT !.step = "mint", !.by = p, !.heard = TRUE, !.at = now])
    /\ UNCHANGED <<now, row, redeems, credit>>

\* A box of the revealed surprise is ticked.  Only the box last ticked is disabled
\* meanwhile, and the first answer to come enables it.
Toggle(q, p, t) ==
    /\ page[p].shows = "reveal"
    /\ page[p].busyTask # t
    /\ request[q] = Idle
    /\ page' = [page EXCEPT ![p].busyTask = t]
    /\ request' = [request EXCEPT ![q] =
           [Idle EXCEPT !.step = "read", !.by = p, !.heard = TRUE, !.at = now, !.task = t,
                        !.surprise = page[p].surprise, !.on = t \notin page[p].done]]
    /\ UNCHANGED <<now, row, redeems, credit>>

\* Another tab, "Done", "Send another": the component unmounts and its answer is dropped.
Leave(p) ==
    /\ page[p] # Blank
    /\ page' = [page EXCEPT ![p] = Blank]
    /\ request' = [q \in Requests |->
                       IF request[q].by = p THEN [request[q] EXCEPT !.heard = FALSE]
                       ELSE request[q]]
    /\ UNCHANGED <<now, row, redeems, credit>>

\* The process dies, or the answer is lost: the page falls back to its form.
Lose(q) ==
    /\ request[q].step # "none"
    /\ IF request[q].task # 0
       THEN Answer(q, [page[request[q].by] EXCEPT !.busyTask = 0])
       ELSE Refuse(q, "unknown")
    /\ UNCHANGED <<now, row, redeems, credit>>

--------------------------------------------------------------------------------
(***************************************************************************)
(* The server.                                                             *)
(***************************************************************************)

\* Mutant of Create: the index is not unique.
CreateUnindexed(q, s, code) ==
    /\ s \in Surprises \ Minted
    /\ row' = [row EXCEPT ![s] = [Unminted EXCEPT
                   !.code = code, !.sender = request[q].by, !.expires = request[q].at + Ttl]]

\* INSERT under the unique index on the code.
Create(q, s, code) ==
    /\ s \in Surprises \ Minted
    /\ FindByCode(code) = {}
    /\ row' = [row EXCEPT ![s] = [Unminted EXCEPT
                   !.code = code, !.sender = request[q].by, !.expires = request[q].at + Ttl]]

\* createWithUniqueCode: a collision is retried, the last one is an error.
CreateSurprise(q) ==
    /\ request[q].step = "mint"
    /\ \E code \in Codes :
           \/ \E s \in Surprises :
                  /\ Create(q, s, code)
                  /\ request' = [request EXCEPT ![q].step = "minted", ![q].surprise = s]
                  /\ UNCHANGED page
           \/ /\ FindByCode(code) # {}
              /\ IF request[q].tries = MaxAttempts - 1
                 THEN Refuse(q, "unknown")
                 ELSE request' = [request EXCEPT ![q].tries = @ + 1] /\ UNCHANGED page
              /\ UNCHANGED row
    /\ UNCHANGED <<now, redeems, credit>>

\* The sender gets the code to hand over; a sender who does not may mint another.
HandOver(q) ==
    /\ request[q].step = "minted"
    /\ Answer(q, [Blank EXCEPT !.shows = "code", !.surprise = request[q].surprise])
    /\ UNCHANGED <<now, row, redeems, credit>>

\* findByCode: unknown and expired codes are one answer, the sender's own another.
Look(q) ==
    /\ request[q].step = "look"
    /\ LET found == FindByCode(request[q].code)
       IN IF \E s \in found : ~Expired(s, now) /\ row[s].sender # request[q].by
          THEN /\ request' = [request EXCEPT ![q].step = "claim", ![q].at = now]
               /\ UNCHANGED page
          ELSE Refuse(q, "unknown")
    /\ UNCHANGED <<now, row, redeems, credit>>

\* Mutant of Opened: the mood is not stored.
OpenedMoodless(r, by, mood, at) == [r EXCEPT !.recipient = by, !.opened = at]

\* The columns one claim writes.
Opened(r, by, mood, at) ==
    [r EXCEPT !.recipient = by, !.mood = mood, !.opened = at]

\* Mutant of MayRedeem: "opened_at IS NULL" is missing.
MayRedeemTwice(s, at) == row[s].expires > at

\* redeem: unopened and unexpired at the time the request read.
MayRedeem(s, at) == row[s].recipient = Nobody /\ row[s].expires > at

\* The claim is one UPDATE that tests the row again.
RedeemSurprise(q) ==
    /\ request[q].step = "claim"
    /\ \E s \in FindByCode(request[q].code) :
           IF MayRedeem(s, request[q].at)
           THEN /\ row' = [row EXCEPT ![s] =
                               Opened(@, request[q].by, request[q].mood, request[q].at)]
                /\ request' = [request EXCEPT ![q].step = "reward", ![q].surprise = s]
                /\ UNCHANGED page
           ELSE /\ Refuse(q, "opened")
                /\ UNCHANGED row
    /\ UNCHANGED <<now, redeems, credit>>

\* Best effort, after the claim: the recipient's trust event and the sender's notice.
Reward(q) ==
    /\ request[q].step = "reward"
    /\ \/ credit' = [credit EXCEPT ![request[q].surprise] = @ + 1]
       \/ UNCHANGED credit
    /\ request' = [request EXCEPT ![q].step = "answer"]
    /\ UNCHANGED <<now, row, page, redeems>>

Reveal(q) ==
    /\ request[q].step = "answer"
    /\ Answer(q, [Blank EXCEPT !.shows = "reveal", !.surprise = request[q].surprise,
                               !.mood = request[q].mood])
    /\ UNCHANGED <<now, row, redeems, credit>>

\* Only the recipient ticks.
MayToggle(p, s) == row[s].recipient = p

ToggleSurpriseTask(q) ==
    /\ request[q].step = "read"
    /\ IF MayToggle(request[q].by, request[q].surprise)
       THEN /\ request' = [request EXCEPT ![q].step = "tick"]
            /\ UNCHANGED page
       ELSE Answer(q, [page[request[q].by] EXCEPT !.busyTask = 0])
    /\ UNCHANGED <<now, row, redeems, credit>>

\* jsonb_set of one index: the other ticks of the row are kept.
Ticked(done, t, on) == IF on THEN done \cup {t} ELSE done \ {t}

SetTaskDone(q) ==
    /\ request[q].step = "tick"
    /\ LET s == request[q].surprise
           done == Ticked(row[s].done, request[q].task, request[q].on)
       IN /\ row' = [row EXCEPT ![s].done = done]
          /\ request' = [request EXCEPT ![q].step = "ticked", ![q].ticks = done]
    /\ UNCHANGED <<now, page, redeems, credit>>

\* setTasks of the whole list the answer brought, in the order the answers come.
ShowTicks(q) ==
    /\ request[q].step = "ticked"
    /\ Answer(q, [page[request[q].by] EXCEPT !.done = request[q].ticks, !.busyTask = 0])
    /\ UNCHANGED <<now, row, redeems, credit>>

\* A day passes; the limiter's window is shorter.
Tick ==
    /\ now < MaxTime
    /\ now' = now + 1
    /\ redeems' = [p \in People |-> 0]
    /\ UNCHANGED <<row, request, page, credit>>

Next ==
    \/ \E q \in Requests :
           \/ \E p \in People : Send(q, p)
           \/ \E p \in People, code \in Codes, mood \in Moods : Open(q, p, code, mood)
           \/ \E p \in People, t \in Tasks : Toggle(q, p, t)
           \/ Lose(q)
           \/ CreateSurprise(q)
           \/ HandOver(q)
           \/ Look(q)
           \/ RedeemSurprise(q)
           \/ Reward(q)
           \/ Reveal(q)
           \/ ToggleSurpriseTask(q)
           \/ SetTaskDone(q)
           \/ ShowTicks(q)
    \/ \E p \in People : Leave(p)
    \/ Tick

Spec == Init /\ [][Next]_vars

--------------------------------------------------------------------------------

\* Whoever the page shows a surprise to is its recipient, in the mood they named,
\* and never its sender (Surprise.ts:21-25, RedeemSurprise.ts:104-117): of two people
\* who claim one code at once, one sees it.
RevealedToOne ==
    \A p \in People : page[p].shows = "reveal" =>
        LET s == page[p].surprise
        IN /\ \E mine \in Received(p) : mine.id = s /\ mine.mood = page[p].mood
           /\ \A other \in People \ {p} : \A its \in Received(other) : its.id # s
           /\ \A handed \in Sent(p) : handed.id # s

\* A code finds one surprise, for as long as the row exists (PostgresSurpriseRepository
\* 129-137), so the code a sender reads out opens their own surprise.
CodesFindOne == \A code \in Codes : Cardinality(FindByCode(code)) <= 1

\* Nobody is credited twice for one surprise, or for one nobody opened
\* (RedeemSurprise.ts:122-134).
CreditedOnce ==
    \A s \in Surprises : credit[s] <= IF row[s].recipient = Nobody THEN 0 ELSE 1

\* A surprise is opened before it expires, by the clock of the request that opened it
\* (Surprise.ts:119-121).
OpenedInTime ==
    \A s \in Surprises : row[s].recipient # Nobody => row[s].opened < row[s].expires

================================================================================
