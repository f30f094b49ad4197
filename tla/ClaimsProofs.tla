------------------------------- MODULE ClaimsProofs ----------------------------
(***************************************************************************)
(* The theorems about what is claimed, for any people, surprises, codes,   *)
(* moods, tasks, keys and endpoints: the invariant of Surprises, that of   *)
(* Devices, and the parts put together.                                    *)
(***************************************************************************)
EXTENDS MCClaims, FiniteSetTheorems, TLAPS

--------------------------------------------------------------------------------
(* Surprises: Gift is Surprises with the names of MCClaims. *)

Steps == {"none", "mint", "minted", "look", "claim", "reward", "answer", "read", "tick", "ticked"}

Row == [code : Codes \cup {NoSurprise}, sender : People \cup {Nobody},
        recipient : People \cup {Nobody}, mood : Moods \cup {NoMood},
        opened : 0..MaxTime, expires : 0..(MaxTime + Ttl), done : SUBSET TaskIndexes]

Request == [step : Steps, by : People \cup {Nobody}, heard : BOOLEAN, at : 0..MaxTime,
            code : Codes \cup {NoSurprise}, mood : Moods \cup {NoMood},
            tries : 0..(MaxAttempts - 1), surprise : Surprises \cup {NoSurprise},
            task : TaskIndexes \cup {0}, on : BOOLEAN, ticks : SUBSET TaskIndexes]

Page == [busy : BOOLEAN, shows : {"form", "code", "reveal", "opened", "unknown"},
         surprise : Surprises \cup {NoSurprise}, mood : Moods \cup {NoMood},
         done : SUBSET TaskIndexes, busyTask : TaskIndexes \cup {0}]

Shape ==
    /\ now \in 0..MaxTime
    /\ row \in [Surprises -> Row]
    /\ request \in [Requests -> Request]
    /\ page \in [People -> Page]
    /\ redeems \in [People -> 0..MaxRedeems]
    /\ credit \in [Surprises -> 0..1]

\* A request is somebody's, and names what its step is about.
Fits(r) ==
    /\ r.step # "none" => r.by \in People
    /\ r.step = "none" => ~r.heard
    /\ r.step \in {"look", "claim"} => r.code \in Codes /\ r.mood \in Moods
    /\ r.step \in {"reward", "answer", "read", "tick"} => r.surprise \in Surprises
    /\ r.step \in {"read", "tick"} => r.task \in TaskIndexes

\* A code names one row, and a row without a code is blank.
Distinct ==
    /\ \A s, t \in Surprises : row[s].code = row[t].code /\ row[s].code \in Codes => s = t
    /\ \A s \in Surprises : row[s].code = NoSurprise => row[s].recipient = Nobody

\* s was opened by p, in that mood, and is not p's own.
Won(s, p, mood) ==
    /\ s \in Surprises /\ row[s].code \in Codes
    /\ row[s].recipient = p /\ row[s].mood = mood /\ row[s].sender # p

\* Who claims found a row by the code and is not its sender; who is past the claim is
\* the recipient ...
Due(r) ==
    /\ r.step = "claim" => /\ Gift!FindByCode(r.code) # {}
                           /\ \A s \in Gift!FindByCode(r.code) : row[s].sender # r.by
    /\ r.step \in {"reward", "answer"} => Won(r.surprise, r.by, r.mood)

\* ... and so is whoever is shown it.
Shown(p, g) == g.shows = "reveal" => Won(g.surprise, p, g.mood)

Entitled ==
    /\ \A q \in Requests : Fits(request[q]) /\ Due(request[q])
    /\ \A p \in People : Shown(p, page[p])

\* The reward of a surprise is in one place: not due, due to one request, or paid.
Rewarding(q, s) == request[q].step = "reward" /\ request[q].surprise = s

PaidOnce ==
    \A s \in Surprises :
        /\ row[s].recipient = Nobody => credit[s] = 0
        /\ \A q \in Requests : Rewarding(q, s) => credit[s] = 0
        /\ \A q, r \in Requests : Rewarding(q, s) /\ Rewarding(r, s) => q = r

GiftInv == Shape /\ Distinct /\ Entitled /\ PaidOnce /\ Gift!OpenedInTime

--------------------------------------------------------------------------------
LEMMA Blanks ==
    /\ Gift!Idle \in Request /\ Gift!Idle.step = "none" /\ ~Gift!Idle.heard
    /\ Gift!Blank \in Page /\ Gift!Blank.shows = "form"
    /\ Gift!Unminted \in Row /\ Gift!Unminted.code = NoSurprise /\ Gift!Unminted.recipient = Nobody
    /\ Gift!Unminted.opened = 0 /\ Gift!Unminted.expires = 0
<1>1. 0 \in 0..MaxTime /\ 0 \in 0..(MaxTime + Ttl) /\ 0 \in 0..(MaxAttempts - 1)
  BY ClaimsAssumption
<1>2. Gift!Idle \in Request /\ Gift!Idle.step = "none" /\ ~Gift!Idle.heard
  BY <1>1 DEF Gift!Idle, Request, Steps
<1>3. Gift!Blank \in Page /\ Gift!Blank.shows = "form"
  BY DEF Gift!Blank, Page
<1>4. Gift!Unminted \in Row
  BY <1>1 DEF Gift!Unminted, Row
<1> QED BY <1>2, <1>3, <1>4 DEF Gift!Unminted

LEMMA RequestMoves ==
    ASSUME GiftInv, NEW q \in Requests, NEW next \in Request,
           request' = [request EXCEPT ![q] = next]
    PROVE  /\ request' \in [Requests -> Request] /\ request'[q] = next
           /\ \A r \in Requests \ {q} : request'[r] = request[r]
BY DEF GiftInv, Shape

LEMMA RowMoves ==
    ASSUME GiftInv, NEW s \in Surprises, NEW next \in Row, row' = [row EXCEPT ![s] = next]
    PROVE  /\ row' \in [Surprises -> Row] /\ row'[s] = next
           /\ \A t \in Surprises \ {s} : row'[t] = row[t]
BY DEF GiftInv, Shape

LEMMA GiftInit == Gift!Init => GiftInv
<1> SUFFICES ASSUME Gift!Init
             PROVE  GiftInv
  OBVIOUS
<1>1. Shape
  BY Blanks, ClaimsAssumption DEF Gift!Init, Shape
<1>2. \A s \in Surprises : row[s].code = NoSurprise /\ row[s].recipient = Nobody /\ credit[s] = 0
  BY Blanks DEF Gift!Init
<1>3. \A q \in Requests : request[q].step = "none" /\ ~request[q].heard
  BY Blanks DEF Gift!Init
<1>4. \A p \in People : page[p].shows = "form"
  BY Blanks DEF Gift!Init
<1>5. Distinct /\ Gift!OpenedInTime /\ PaidOnce
  BY <1>2, <1>3, ClaimsAssumption DEF Distinct, Gift!OpenedInTime, PaidOnce, Rewarding
<1>6. Entitled
  BY <1>3, <1>4 DEF Entitled, Fits, Due, Shown
<1> QED BY <1>1, <1>5, <1>6 DEF GiftInv

\* What the rows say of who sent, who opened and when stays.
RowsKept ==
    \A s \in Surprises :
        /\ row'[s].code = row[s].code /\ row'[s].sender = row[s].sender
        /\ row'[s].recipient = row[s].recipient /\ row'[s].mood = row[s].mood
        /\ row'[s].opened = row[s].opened /\ row'[s].expires = row[s].expires

LEMMA KeptRows ==
    ASSUME RowsKept
    PROVE  /\ Distinct => Distinct'
           /\ Gift!OpenedInTime => Gift!OpenedInTime'
           /\ \A r : Due(r) => Due(r)'
           /\ \A p, g : Shown(p, g) => Shown(p, g)'
BY DEF RowsKept, Distinct, Gift!OpenedInTime, Due, Shown, Won, Gift!FindByCode

\* A request goes on, and shows its page nothing that is not for that person.
LEMMA GoesOn ==
    ASSUME GiftInv, NEW q \in Requests, NEW next \in Request,
           request' = [request EXCEPT ![q] = next],
           Fits(next), Due(next), next.step # "reward",
           page' \in [People -> Page],
           \A p \in People : Shown(p, page'[p]),
           row' \in [Surprises -> Row], RowsKept,
           redeems' \in [People -> 0..MaxRedeems], UNCHANGED <<now, credit>>
    PROVE  GiftInv'
<1>1. /\ request' \in [Requests -> Request] /\ request'[q] = next
      /\ \A r \in Requests \ {q} : request'[r] = request[r]
  BY DEF GiftInv, Shape
<1>2. Shape'
  BY <1>1 DEF GiftInv, Shape
<1>3. Distinct' /\ Gift!OpenedInTime'
  BY KeptRows DEF GiftInv
<1>4. \A r \in Requests : Fits(request'[r]) /\ Due(request'[r])
  BY <1>1 DEF GiftInv, Entitled
<1>5. Entitled'
  <2>1. \A r \in Requests : Fits(request[r])' /\ Due(request[r])'
    BY <1>4 DEF Fits, Due, Won, Gift!FindByCode, RowsKept
  <2>2. \A p \in People : Shown(p, page[p])'
    BY DEF Shown, Won, RowsKept
  <2> QED BY <2>1, <2>2 DEF Entitled
<1>6. \A r \in Requests, s \in Surprises : Rewarding(r, s)' => Rewarding(r, s)
  BY <1>1 DEF Rewarding
<1>7. PaidOnce'
  BY <1>6 DEF GiftInv, PaidOnce, RowsKept
<1> QED BY <1>2, <1>3, <1>5, <1>7 DEF GiftInv

\* The end of a request: the page that still waits for it gets what it brought.
LEMMA Answers ==
    ASSUME GiftInv, NEW q \in Requests, request[q].step # "none",
           NEW shown \in Page, Gift!Answer(q, shown), Shown(request[q].by, shown),
           row' \in [Surprises -> Row], RowsKept, UNCHANGED <<now, redeems, credit>>
    PROVE  GiftInv'
<1>1. request[q].by \in People
  BY DEF GiftInv, Entitled, Fits
<1>2. page' \in [People -> Page] /\ \A p \in People : Shown(p, page'[p])
  BY <1>1 DEF Gift!Answer, GiftInv, Shape, Entitled
<1>3. Gift!Idle \in Request /\ Fits(Gift!Idle) /\ Due(Gift!Idle) /\ Gift!Idle.step # "reward"
  BY Blanks DEF Fits, Due
<1> QED BY <1>2, <1>3, GoesOn DEF Gift!Answer, GiftInv, Shape

LEMMA Refuses ==
    ASSUME GiftInv, NEW q \in Requests, request[q].step # "none",
           NEW shows \in {"opened", "unknown"}, Gift!Refuse(q, shows),
           UNCHANGED <<now, row, redeems, credit>>
    PROVE  GiftInv'
<1> DEFINE shown == [Gift!Blank EXCEPT !.shows = shows]
<1>1. shown \in Page /\ shown.shows = shows
  BY DEF Gift!Blank, Page
<1>2. Gift!Answer(q, shown)
  BY DEF Gift!Refuse
<1> HIDE DEF shown
<1>3. Shown(request[q].by, shown)
  BY <1>1 DEF Shown
<1> QED BY <1>1, <1>2, <1>3, Answers DEF RowsKept, GiftInv, Shape

--------------------------------------------------------------------------------
(* The page. *)

\* A new request, from a person whose page goes on showing what it showed.
LEMMA Begins ==
    ASSUME GiftInv, NEW q \in Requests, NEW next \in Request,
           request' = [request EXCEPT ![q] = next],
           next.step \in {"mint", "look", "read"}, Fits(next),
           page' \in [People -> Page],
           \A p \in People : page'[p].shows = page[p].shows /\ page'[p].mood = page[p].mood
                             /\ page'[p].surprise = page[p].surprise,
           redeems' \in [People -> 0..MaxRedeems], UNCHANGED <<now, row, credit>>
    PROVE  GiftInv'
<1>1. Due(next) /\ next.step # "reward"
  BY DEF Due
<1>2. \A p \in People : Shown(p, page'[p])
  BY DEF GiftInv, Entitled, Shown
<1> QED BY <1>1, <1>2, GoesOn DEF RowsKept, GiftInv, Shape

LEMMA OpenKeeps ==
    ASSUME GiftInv, NEW q \in Requests, NEW p \in People, NEW code \in Codes,
           NEW mood \in Moods, Gift!Open(q, p, code, mood)
    PROVE  GiftInv'
<1> DEFINE next == [Gift!Idle EXCEPT !.step = "look", !.by = p, !.heard = TRUE, !.at = now,
                                !.code = code, !.mood = mood]
<1>1. next \in Request /\ next.step = "look" /\ next.by = p /\ next.code = code /\ next.mood = mood
  BY Blanks DEF GiftInv, Shape, Request, Steps
<1>2. /\ request' = [request EXCEPT ![q] = next]
      /\ page' = [page EXCEPT ![p].busy = TRUE]
  BY <1>1 DEF Gift!Open, Gift!Ask
<1>3. Fits(next)
  BY <1>1 DEF Fits
<1> HIDE DEF next
<1>4. redeems' \in [People -> 0..MaxRedeems]
  BY ClaimsAssumption DEF Gift!Open, GiftInv, Shape
<1>5. /\ page' \in [People -> Page]
      /\ \A u \in People : page'[u].shows = page[u].shows /\ page'[u].mood = page[u].mood
                           /\ page'[u].surprise = page[u].surprise
  BY ZenonT(30), <1>2 DEF GiftInv, Shape, Page
<1> QED BY <1>1, <1>2, <1>3, <1>4, <1>5, Begins DEF Gift!Open

LEMMA SendKeeps ==
    ASSUME GiftInv, NEW q \in Requests, NEW p \in People, Gift!Send(q, p)
    PROVE  GiftInv'
<1> DEFINE next == [Gift!Idle EXCEPT !.step = "mint", !.by = p, !.heard = TRUE, !.at = now]
<1>1. next \in Request /\ next.step = "mint" /\ next.by = p
  BY Blanks DEF GiftInv, Shape, Request, Steps
<1>2. /\ request' = [request EXCEPT ![q] = next]
      /\ page' = [page EXCEPT ![p].busy = TRUE]
  BY <1>1 DEF Gift!Send, Gift!Ask
<1>3. Fits(next)
  BY <1>1 DEF Fits
<1> HIDE DEF next
<1>4. /\ page' \in [People -> Page]
      /\ \A u \in People : page'[u].shows = page[u].shows /\ page'[u].mood = page[u].mood
                           /\ page'[u].surprise = page[u].surprise
  BY ZenonT(30), <1>2 DEF GiftInv, Shape, Page
<1> QED BY <1>1, <1>2, <1>3, <1>4, Begins DEF Gift!Send, GiftInv, Shape

LEMMA ToggleKeeps ==
    ASSUME GiftInv, NEW q \in Requests, NEW p \in People, NEW t \in TaskIndexes,
           Gift!Toggle(q, p, t)
    PROVE  GiftInv'
<1> DEFINE next == [Gift!Idle EXCEPT !.step = "read", !.by = p, !.heard = TRUE, !.at = now,
                                     !.task = t, !.surprise = page[p].surprise,
                                     !.on = t \notin page[p].done]
<1>1. page[p] \in Page /\ page[p].surprise \in Surprises
  BY DEF Gift!Toggle, GiftInv, Shape, Entitled, Shown, Won
<1>2. /\ next \in Request /\ next.step = "read" /\ next.by = p
      /\ next.surprise \in Surprises /\ next.task \in TaskIndexes
  <2> DEFINE s == page[p].surprise
             o == t \notin page[p].done
  <2>1. Gift!Idle \in Request /\ now \in 0..MaxTime /\ s \in Surprises /\ o \in BOOLEAN
    BY <1>1, Blanks DEF GiftInv, Shape
  <2>2. next = [Gift!Idle EXCEPT !.step = "read", !.by = p, !.heard = TRUE, !.at = now,
                                 !.task = t, !.surprise = s, !.on = o]
    OBVIOUS
  <2> HIDE DEF next, s, o
  <2>3. next \in Request
    BY <2>1, <2>2 DEF Request, Steps
  <2>4. /\ next.step = "read" /\ next.by = p /\ next.surprise = s /\ next.task = t
    BY <2>1, <2>2 DEF Request
  <2> QED BY <2>1, <2>3, <2>4
<1>3. /\ request' = [request EXCEPT ![q] = next]
      /\ page' = [page EXCEPT ![p].busyTask = t]
  BY DEF Gift!Toggle
<1>4. Fits(next)
  BY <1>2 DEF Fits
<1> HIDE DEF next
<1>5. /\ page' \in [People -> Page]
      /\ \A u \in People : page'[u].shows = page[u].shows /\ page'[u].mood = page[u].mood
                           /\ page'[u].surprise = page[u].surprise
  BY <1>3 DEF GiftInv, Shape, Page
<1> QED BY <1>2, <1>3, <1>4, <1>5, Begins DEF Gift!Toggle, GiftInv, Shape

\* The requests of who leaves go on unheard.
LEMMA LeaveKeeps ==
    ASSUME GiftInv, NEW p \in People, Gift!Leave(p)
    PROVE  GiftInv'
<1>1. /\ page' \in [People -> Page] /\ \A u \in People : Shown(u, page'[u])
      /\ UNCHANGED <<now, row, redeems, credit>>
  BY Blanks DEF Gift!Leave, GiftInv, Shape, Entitled, Shown
<1>2. ASSUME NEW r \in Requests
      PROVE  /\ request'[r] \in Request /\ request'[r].step = request[r].step
             /\ request'[r].by = request[r].by /\ request'[r].code = request[r].code
             /\ request'[r].mood = request[r].mood
             /\ request'[r].surprise = request[r].surprise
             /\ request'[r].task = request[r].task
             /\ request'[r].heard => request[r].heard
  BY ZenonT(30) DEF Gift!Leave, GiftInv, Shape, Request
<1>3. request' \in [Requests -> Request]
  BY <1>2 DEF Gift!Leave
<1>4. Shape'
  BY <1>1, <1>3 DEF GiftInv, Shape
<1>5. Distinct' /\ Gift!OpenedInTime' /\ PaidOnce'
  BY <1>1, <1>2, KeptRows DEF RowsKept, GiftInv, PaidOnce, Rewarding
<1>6. \A r \in Requests : Fits(request[r])' /\ Due(request[r])'
  BY <1>1, <1>2 DEF GiftInv, Entitled, Fits, Due, Won, Gift!FindByCode
<1>7. \A u \in People : Shown(u, page[u])'
  BY <1>1 DEF Shown, Won
<1> QED BY <1>4, <1>5, <1>6, <1>7 DEF GiftInv, Entitled

LEMMA LoseKeeps ==
    ASSUME GiftInv, NEW q \in Requests, Gift!Lose(q)
    PROVE  GiftInv'
<1> DEFINE shown == [page[request[q].by] EXCEPT !.busyTask = 0]
<1>1. request[q].step # "none" /\ UNCHANGED <<now, row, redeems, credit>>
  BY DEF Gift!Lose
<1>2. request[q].by \in People
  BY <1>1 DEF GiftInv, Entitled, Fits
<1>3. shown \in Page /\ Shown(request[q].by, shown)
  BY <1>2 DEF GiftInv, Shape, Entitled, Shown, Page
<1>4. CASE Gift!Answer(q, shown)
  <2> HIDE DEF shown
  <2> QED BY <1>1, <1>3, <1>4, Answers DEF RowsKept, GiftInv, Shape
<1>5. CASE Gift!Refuse(q, "unknown")
  BY <1>1, <1>5, Refuses
<1> QED BY <1>4, <1>5 DEF Gift!Lose

--------------------------------------------------------------------------------
(* Making a surprise. *)

LEMMA CreateKeeps ==
    ASSUME GiftInv, NEW q \in Requests, NEW s \in Surprises, NEW code \in Codes,
           request[q].step = "mint", Gift!Create(q, s, code),
           request' = [request EXCEPT ![q].step = "minted", ![q].surprise = s],
           UNCHANGED <<now, page, redeems, credit>>
    PROVE  GiftInv'
<1> DEFINE next == [request[q] EXCEPT !.step = "minted", !.surprise = s]
           made == [Gift!Unminted EXCEPT !.code = code, !.sender = request[q].by,
                                    !.expires = request[q].at + Ttl]
<1>1. /\ request[q] \in Request /\ request[q].by \in People
      /\ \A t \in Surprises : row[t] \in Row
  BY DEF GiftInv, Shape, Entitled, Fits
<1>2. next \in Request /\ next.step = "minted" /\ next.by \in People
  BY <1>1 DEF Request, Steps
<1>3. /\ request' \in [Requests -> Request] /\ request'[q] = next
      /\ \A r \in Requests \ {q} : request'[r] = request[r]
  <2>1. request' = [request EXCEPT ![q] = next]
    OBVIOUS
  <2> HIDE DEF next
  <2> QED BY <1>2, <2>1, RequestMoves
<1> HIDE DEF next
<1>4. made \in Row /\ made.code = code /\ made.recipient = Nobody
  <2>1. request[q].at + Ttl \in 0..(MaxTime + Ttl)
    BY <1>1, ClaimsAssumption DEF Request
  <2> QED BY <1>1, <2>1, Blanks DEF Row
<1>5. row' = [row EXCEPT ![s] = made] /\ s \notin Gift!Minted /\ Gift!FindByCode(code) = {}
  BY DEF Gift!Create
<1> HIDE DEF made
<1>6. /\ row' \in [Surprises -> Row] /\ row'[s] = made
      /\ \A t \in Surprises \ {s} : row'[t] = row[t]
  BY <1>4, <1>5, RowMoves
<1>7. row[s].code \notin Codes /\ row[s].code = NoSurprise /\ row[s].recipient = Nobody
  BY <1>1, <1>5 DEF Gift!Minted, Row, GiftInv, Distinct
<1>8. Shape'
  BY <1>3, <1>6 DEF GiftInv, Shape
<1>9. Distinct'
  <2>1. \A t \in Surprises \ {s} : row[t].code # code
    BY <1>5 DEF Gift!FindByCode
  <2>2. code # NoSurprise
    BY ClaimsAssumption
  <2> QED BY <1>4, <1>6, <2>1, <2>2 DEF GiftInv, Distinct
<1>10. \A t \in Surprises : \A p, mood : Won(t, p, mood) => t # s /\ Won(t, p, mood)'
  BY <1>6, <1>7 DEF Won
<1>11. Entitled'
  <2>1. ASSUME NEW r \in Requests
        PROVE  Fits(request[r])' /\ Due(request[r])'
    <3>1. CASE r = q
      BY <1>2, <1>3, <3>1 DEF Fits, Due
    <3>2. CASE r # q
      <4>1. Fits(request[r]) /\ Due(request[r]) /\ request'[r] = request[r]
        BY <1>3, <3>2 DEF GiftInv, Entitled
      <4>2. request[r].step = "claim" =>
                Gift!FindByCode(request[r].code)' = Gift!FindByCode(request[r].code)
        <5>1. request[r].step = "claim" => request[r].code # code /\ request[r].code \in Codes
          BY <1>5, <4>1 DEF Due, Fits
        <5> QED BY <1>4, <1>6, <1>7, <4>1, <5>1 DEF Gift!FindByCode
      <4>3. request[r].step = "claim" =>
                \A t \in Gift!FindByCode(request[r].code) : row'[t].sender = row[t].sender
        <5>1. request[r].step = "claim" => request[r].code \in Codes
          BY <4>1 DEF Fits
        <5> QED BY <1>6, <1>7, <5>1 DEF Gift!FindByCode
      <4>4. Fits(request[r])'
        BY <4>1 DEF Fits
      <4>5. request'[r].step = "claim" =>
                /\ Gift!FindByCode(request[r].code)' # {}
                /\ \A t \in Gift!FindByCode(request[r].code)' : row'[t].sender # request'[r].by
        BY <4>1, <4>2, <4>3 DEF Due
      <4>6. request'[r].step \in {"reward", "answer"} =>
                Won(request[r].surprise, request[r].by, request[r].mood)'
        BY <1>10, <4>1 DEF Due, Won
      <4> QED BY <4>4, <4>5, <4>6 DEF Due
    <3> QED BY <3>1, <3>2
  <2>2. \A p \in People : Shown(p, page[p])'
    BY <1>10 DEF GiftInv, Entitled, Shown, Won
  <2> QED BY <2>1, <2>2 DEF Entitled
<1>12. \A r \in Requests, t \in Surprises : Rewarding(r, t)' => Rewarding(r, t)
  BY <1>2, <1>3 DEF Rewarding
<1>13. PaidOnce'
  BY <1>4, <1>6, <1>7, <1>12 DEF GiftInv, PaidOnce
<1>14. Gift!OpenedInTime'
  BY <1>4, <1>6 DEF GiftInv, Gift!OpenedInTime
<1> QED BY <1>8, <1>9, <1>11, <1>13, <1>14 DEF GiftInv

LEMMA MintKeeps ==
    ASSUME GiftInv, NEW q \in Requests, Gift!CreateSurprise(q)
    PROVE  GiftInv'
<1>1. request[q].step = "mint" /\ UNCHANGED <<now, redeems, credit>>
  BY DEF Gift!CreateSurprise
<1>2. ASSUME NEW code \in Codes, NEW s \in Surprises, Gift!Create(q, s, code), UNCHANGED page,
             request' = [request EXCEPT ![q].step = "minted", ![q].surprise = s]
      PROVE  GiftInv'
  BY <1>1, <1>2, CreateKeeps
<1>3. ASSUME Gift!Refuse(q, "unknown"), UNCHANGED row
      PROVE  GiftInv'
  BY <1>1, <1>3, Refuses
<1>4. ASSUME request[q].tries # MaxAttempts - 1, request' = [request EXCEPT ![q].tries = @ + 1],
             UNCHANGED <<page, row>>
      PROVE  GiftInv'
  <2> DEFINE next == [request[q] EXCEPT !.tries = @ + 1]
  <2>1. request[q] \in Request /\ request[q].by \in People
    BY <1>1 DEF GiftInv, Shape, Entitled, Fits
  <2>2. request[q].tries + 1 \in 0..(MaxAttempts - 1)
    BY <1>4, <2>1, ClaimsAssumption DEF Request
  <2>3. next \in Request /\ next.step = "mint" /\ next.by \in People
    BY <1>1, <2>1, <2>2 DEF Request
  <2>4. request' = [request EXCEPT ![q] = next]
    BY <1>4
  <2> HIDE DEF next
  <2>5. Fits(next) /\ Due(next) /\ next.step # "reward"
    BY <2>3 DEF Fits, Due
  <2> QED BY <1>1, <1>4, <2>3, <2>4, <2>5, GoesOn DEF RowsKept, GiftInv, Shape, Entitled
<1> QED BY <1>1, <1>2, <1>3, <1>4 DEF Gift!CreateSurprise

LEMMA HandOverKeeps ==
    ASSUME GiftInv, NEW q \in Requests, Gift!HandOver(q)
    PROVE  GiftInv'
<1> DEFINE shown == [Gift!Blank EXCEPT !.shows = "code", !.surprise = request[q].surprise]
<1>1. request[q].step = "minted" /\ Gift!Answer(q, shown) /\ UNCHANGED <<now, row, redeems, credit>>
  BY DEF Gift!HandOver
<1>2. shown \in Page /\ Shown(request[q].by, shown)
  BY Blanks DEF GiftInv, Shape, Request, Page, Shown
<1> HIDE DEF shown
<1> QED BY <1>1, <1>2, Answers DEF RowsKept, GiftInv, Shape

--------------------------------------------------------------------------------
(* Opening a surprise. *)

LEMMA LookKeeps ==
    ASSUME GiftInv, NEW q \in Requests, Gift!Look(q)
    PROVE  GiftInv'
<1>1. request[q].step = "look" /\ UNCHANGED <<now, row, redeems, credit>>
  BY DEF Gift!Look
<1>2. CASE Gift!Refuse(q, "unknown")
  BY <1>1, <1>2, Refuses
<1>3. ASSUME NEW s \in Gift!FindByCode(request[q].code), row[s].sender # request[q].by,
             request' = [request EXCEPT ![q].step = "claim", ![q].at = now], UNCHANGED page
      PROVE  GiftInv'
  <2> DEFINE next == [request[q] EXCEPT !.step = "claim", !.at = now]
  <2>1. request[q] \in Request /\ Fits(request[q])
    BY DEF GiftInv, Shape, Entitled
  <2>2. /\ next \in Request /\ next.step = "claim" /\ next.by = request[q].by
        /\ next.code = request[q].code /\ next.mood = request[q].mood
    BY <2>1 DEF GiftInv, Shape, Request, Steps
  <2>3. request' = [request EXCEPT ![q] = next]
    BY <1>3
  <2> HIDE DEF next
  <2>4. Fits(next) /\ next.step # "reward"
    BY <1>1, <2>1, <2>2 DEF Fits
  <2>5. \A t \in Gift!FindByCode(next.code) : t = s
    BY <1>1, <1>3, <2>1, <2>2 DEF GiftInv, Distinct, Gift!FindByCode, Fits
  <2>6. Due(next)
    BY <1>3, <2>2, <2>5 DEF Due
  <2> QED BY <1>1, <1>3, <2>2, <2>3, <2>4, <2>6, GoesOn DEF RowsKept, GiftInv, Shape, Entitled
<1> QED BY <1>2, <1>3 DEF Gift!Look

\* One claim of a surprise that nobody has opened: nobody was due a reward for it.
LEMMA ClaimKeeps ==
    ASSUME GiftInv, NEW q \in Requests, NEW s \in Gift!FindByCode(request[q].code),
           request[q].step = "claim", Gift!MayRedeem(s, request[q].at),
           row' = [row EXCEPT ![s] = Gift!Opened(@, request[q].by, request[q].mood, request[q].at)],
           request' = [request EXCEPT ![q].step = "reward", ![q].surprise = s],
           UNCHANGED <<now, page, redeems, credit>>
    PROVE  GiftInv'
<1> DEFINE next == [request[q] EXCEPT !.step = "reward", !.surprise = s]
           won == Gift!Opened(row[s], request[q].by, request[q].mood, request[q].at)
<1>1. /\ request[q] \in Request /\ request[q].by \in People /\ request[q].code \in Codes
      /\ request[q].mood \in Moods /\ row[s].sender # request[q].by
      /\ s \in Surprises /\ row[s] \in Row /\ row[s].code = request[q].code
      /\ row[s].recipient = Nobody /\ row[s].expires > request[q].at
  <2>1. request[q] \in Request /\ Fits(request[q]) /\ Due(request[q])
    BY DEF GiftInv, Shape, Entitled
  <2>2. s \in Surprises /\ row[s].code = request[q].code
    BY DEF Gift!FindByCode
  <2>3. row[s].recipient = Nobody /\ row[s].expires > request[q].at
    BY DEF Gift!MayRedeem
  <2> QED BY <2>1, <2>2, <2>3 DEF Fits, Due, GiftInv, Shape
<1>2. /\ next \in Request /\ next.step = "reward" /\ next.surprise = s
      /\ next.by = request[q].by /\ next.mood = request[q].mood
  BY <1>1 DEF Request, Steps
<1>3. /\ won \in Row /\ won.code = row[s].code /\ won.sender = row[s].sender
      /\ won.recipient = request[q].by /\ won.mood = request[q].mood
      /\ won.opened = request[q].at /\ won.expires = row[s].expires
  <2>1. request[q].at \in 0..MaxTime
    BY <1>1 DEF Request
  <2>2. won = [row[s] EXCEPT !.recipient = request[q].by, !.mood = request[q].mood,
                             !.opened = request[q].at]
    BY DEF Gift!Opened
  <2> HIDE DEF won
  <2> QED BY <1>1, <2>1, <2>2 DEF Row
<1>4. row' = [row EXCEPT ![s] = won] /\ request' = [request EXCEPT ![q] = next]
  OBVIOUS
<1> HIDE DEF next, won
<1>5. /\ request' \in [Requests -> Request] /\ request'[q] = next
      /\ \A r \in Requests \ {q} : request'[r] = request[r]
  BY <1>2, <1>4, RequestMoves
<1>6. /\ row' \in [Surprises -> Row] /\ row'[s] = won
      /\ \A t \in Surprises \ {s} : row'[t] = row[t]
  BY <1>1, <1>3, <1>4, RowMoves
<1>7. Shape'
  BY <1>5, <1>6 DEF GiftInv, Shape
<1>8. /\ \A t \in Surprises : row'[t].code = row[t].code /\ row'[t].sender = row[t].sender
      /\ \A code : Gift!FindByCode(code)' = Gift!FindByCode(code)
  BY <1>3, <1>6 DEF Gift!FindByCode
<1>9. Distinct'
  <2>1. row[s].code # NoSurprise
    BY <1>1, ClaimsAssumption
  <2> QED BY <1>3, <1>6, <1>8, <2>1 DEF GiftInv, Distinct
<1>10. \A t, mood : \A p \in People : Won(t, p, mood) => t # s /\ Won(t, p, mood)'
  BY <1>1, <1>6, ClaimsAssumption DEF Won
<1>11. Won(s, request[q].by, request[q].mood)'
  BY <1>1, <1>2, <1>3, <1>5, <1>6 DEF Won
<1>12. ASSUME NEW r \in Requests
       PROVE  Fits(request[r])' /\ Due(request[r])'
  <2>1. CASE r = q
    BY <1>1, <1>2, <1>5, <1>11, <2>1 DEF Fits, Due
  <2>2. CASE r # q
    <3>1. Fits(request[r]) /\ Due(request[r]) /\ request'[r] = request[r]
      BY <1>5, <2>2 DEF GiftInv, Entitled
    <3>2. request'[r].step = "claim" =>
              /\ Gift!FindByCode(request[r].code)' # {}
              /\ \A t \in Gift!FindByCode(request[r].code)' : row'[t].sender # request'[r].by
      BY ZenonT(30), <1>8, <3>1 DEF Due, Gift!FindByCode
    <3>3. request'[r].step \in {"reward", "answer"} =>
              Won(request[r].surprise, request[r].by, request[r].mood)'
      <4>1. PICK t, p, mood :
                t = request[r].surprise /\ p = request[r].by /\ mood = request[r].mood
        OBVIOUS
      <4>2. request[r].step \in {"reward", "answer"} => p \in People /\ Won(t, p, mood)
        BY <3>1, <4>1 DEF Due, Fits
      <4>3. request[r].step \in {"reward", "answer"} => Won(t, p, mood)'
        BY <1>10, <4>2
      <4> QED BY <3>1, <4>1, <4>3 DEF Won
    <3> QED BY <3>1, <3>2, <3>3 DEF Due, Fits
  <2> QED BY <2>1, <2>2
<1>13. \A p \in People : Shown(p, page[p])'
  BY <1>10 DEF GiftInv, Entitled, Shown, Won
<1>14. /\ \A r \in Requests : ~Rewarding(r, s)
       /\ \A r \in Requests, t \in Surprises :
              Rewarding(r, t)' => Rewarding(r, t) \/ (r = q /\ t = s)
  <2>1. \A r \in Requests : request[r].step = "reward" =>
            Won(request[r].surprise, request[r].by, request[r].mood) /\ request[r].by \in People
    BY DEF GiftInv, Entitled, Due, Fits
  <2>2. \A r \in Requests : ~Rewarding(r, s)
    BY <1>10, <2>1 DEF Rewarding
  <2> QED BY <1>2, <1>5, <2>2 DEF Rewarding
<1>15. PaidOnce'
  BY <1>1, <1>3, <1>6, <1>14, ClaimsAssumption DEF GiftInv, PaidOnce
<1>16. Gift!OpenedInTime'
  <2>1. request[q].at < row[s].expires
    BY <1>1, ClaimsAssumption DEF Request, Row
  <2> QED BY <1>3, <1>6, <2>1 DEF GiftInv, Gift!OpenedInTime
<1> QED BY <1>7, <1>9, <1>12, <1>13, <1>15, <1>16 DEF GiftInv, Entitled

LEMMA RedeemKeeps ==
    ASSUME GiftInv, NEW q \in Requests, Gift!RedeemSurprise(q)
    PROVE  GiftInv'
<1>1. request[q].step = "claim" /\ UNCHANGED <<now, redeems, credit>>
  BY DEF Gift!RedeemSurprise
<1>2. PICK s \in Gift!FindByCode(request[q].code) :
          IF Gift!MayRedeem(s, request[q].at)
          THEN /\ row' = [row EXCEPT ![s] =
                              Gift!Opened(@, request[q].by, request[q].mood, request[q].at)]
               /\ request' = [request EXCEPT ![q].step = "reward", ![q].surprise = s]
               /\ UNCHANGED page
          ELSE /\ Gift!Refuse(q, "opened")
               /\ UNCHANGED row
  BY DEF Gift!RedeemSurprise
<1>3. CASE Gift!MayRedeem(s, request[q].at)
  BY <1>1, <1>2, <1>3, ClaimKeeps
<1>4. CASE ~Gift!MayRedeem(s, request[q].at)
  BY <1>1, <1>2, <1>4, Refuses
<1> QED BY <1>3, <1>4

\* What was due is paid, or lost.
LEMMA RewardKeeps ==
    ASSUME GiftInv, NEW q \in Requests, Gift!Reward(q)
    PROVE  GiftInv'
<1> DEFINE s == request[q].surprise
           next == [request[q] EXCEPT !.step = "answer"]
<1>1. /\ request[q].step = "reward" /\ UNCHANGED <<now, row, page, redeems>>
      /\ credit' = [credit EXCEPT ![s] = @ + 1] \/ credit' = credit
  BY DEF Gift!Reward
<1>2. /\ request[q] \in Request /\ request[q].by \in People /\ s \in Surprises
      /\ Won(s, request[q].by, request[q].mood)
  BY <1>1 DEF GiftInv, Shape, Entitled, Fits, Due
<1>3. /\ next \in Request /\ next.step = "answer" /\ next.by = request[q].by
      /\ next.surprise = s /\ next.mood = request[q].mood
  BY <1>2 DEF Request, Steps
<1>4. request' = [request EXCEPT ![q] = next]
  BY DEF Gift!Reward
<1> HIDE DEF next
<1>5. /\ request' \in [Requests -> Request] /\ request'[q] = next
      /\ \A r \in Requests \ {q} : request'[r] = request[r]
  BY <1>3, <1>4, RequestMoves
<1>6. Rewarding(q, s)
  BY <1>1 DEF Rewarding
<1> HIDE DEF s
<1>7. credit[s] = 0 /\ row[s].recipient # Nobody
  BY <1>2, <1>6, ClaimsAssumption DEF GiftInv, PaidOnce, Won
<1>8. /\ credit' \in [Surprises -> 0..1]
      /\ \A t \in Surprises \ {s} : credit'[t] = credit[t]
  BY <1>1, <1>2, <1>7 DEF GiftInv, Shape
<1>9. Shape'
  BY <1>1, <1>5, <1>8 DEF GiftInv, Shape
<1>10. Distinct' /\ Gift!OpenedInTime'
  BY <1>1, KeptRows DEF RowsKept, GiftInv
<1>11. Entitled'
  <2>1. \A r \in Requests : Fits(request'[r]) /\ Due(request'[r])
    <3>1. Fits(next) /\ Due(next)
      BY <1>2, <1>3 DEF Fits, Due
    <3> QED BY <1>5, <3>1 DEF GiftInv, Entitled
  <2>2. \A r \in Requests : Fits(request[r])' /\ Due(request[r])'
    BY <1>1, <2>1 DEF Fits, Due, Won, Gift!FindByCode
  <2>3. \A p \in People : Shown(p, page[p])'
    BY <1>1 DEF GiftInv, Entitled, Shown, Won
  <2> QED BY <2>2, <2>3 DEF Entitled
<1>12. /\ \A r \in Requests, t \in Surprises : Rewarding(r, t)' => Rewarding(r, t) /\ r # q
       /\ \A r \in Requests : Rewarding(r, s) => r = q
  <2>1. \A r \in Requests : Rewarding(r, s) => r = q
    BY <1>2, <1>6 DEF GiftInv, PaidOnce
  <2> QED BY <1>3, <1>5, <2>1 DEF Rewarding
<1>13. PaidOnce'
  BY <1>1, <1>2, <1>7, <1>8, <1>12 DEF GiftInv, PaidOnce
<1> QED BY <1>9, <1>10, <1>11, <1>13 DEF GiftInv

LEMMA RevealKeeps ==
    ASSUME GiftInv, NEW q \in Requests, Gift!Reveal(q)
    PROVE  GiftInv'
<1> DEFINE shown == [Gift!Blank EXCEPT !.shows = "reveal", !.surprise = request[q].surprise,
                                  !.mood = request[q].mood]
<1>1. request[q].step = "answer" /\ Gift!Answer(q, shown) /\ UNCHANGED <<now, row, redeems, credit>>
  BY DEF Gift!Reveal
<1>2. request[q] \in Request /\ Won(request[q].surprise, request[q].by, request[q].mood)
  BY <1>1 DEF GiftInv, Shape, Entitled, Due
<1>3. shown \in Page /\ Shown(request[q].by, shown)
  BY <1>2, Blanks DEF Request, Page, Shown
<1> HIDE DEF shown
<1> QED BY <1>1, <1>3, Answers DEF RowsKept, GiftInv, Shape

--------------------------------------------------------------------------------
(* The tasks of a surprise. *)

LEMMA TicksKeep ==
    ASSUME GiftInv, NEW q \in Requests,
           Gift!ToggleSurpriseTask(q) \/ Gift!SetTaskDone(q) \/ Gift!ShowTicks(q)
    PROVE  GiftInv'
<1>1. request[q] \in Request /\ Fits(request[q])
  BY DEF GiftInv, Shape, Entitled
<1>2. CASE Gift!ToggleSurpriseTask(q)
  <2> DEFINE next == [request[q] EXCEPT !.step = "tick"]
             shown == [page[request[q].by] EXCEPT !.busyTask = 0]
  <2>1. request[q].step = "read" /\ UNCHANGED <<now, row, redeems, credit>>
    BY <1>2 DEF Gift!ToggleSurpriseTask
  <2>2. /\ next \in Request /\ next.step = "tick" /\ next.by = request[q].by
        /\ next.surprise = request[q].surprise /\ next.task = request[q].task
    BY <1>1 DEF Request, Steps
  <2>3. shown \in Page /\ Shown(request[q].by, shown)
    BY <1>1, <2>1 DEF GiftInv, Shape, Entitled, Shown, Page, Fits
  <2>4. \/ request' = [request EXCEPT ![q] = next] /\ page' = page
        \/ Gift!Answer(q, shown)
    BY <1>2 DEF Gift!ToggleSurpriseTask
  <2> HIDE DEF next, shown
  <2>5. Fits(next) /\ Due(next) /\ next.step # "reward"
    BY <1>1, <2>1, <2>2 DEF Fits, Due
  <2>6. CASE request' = [request EXCEPT ![q] = next] /\ page' = page
    BY <2>1, <2>2, <2>5, <2>6, GoesOn DEF RowsKept, GiftInv, Shape, Entitled
  <2>7. CASE Gift!Answer(q, shown)
    BY <2>1, <2>3, <2>7, Answers DEF RowsKept, GiftInv, Shape
  <2> QED BY <2>4, <2>6, <2>7
<1>3. CASE Gift!SetTaskDone(q)
  <2> DEFINE s == request[q].surprise
             done == Gift!Ticked(row[s].done, request[q].task, request[q].on)
             next == [request[q] EXCEPT !.step = "ticked", !.ticks = done]
             ticked == [row[s] EXCEPT !.done = done]
  <2>1. /\ request[q].step = "tick" /\ UNCHANGED <<now, page, redeems, credit>>
        /\ row' = [row EXCEPT ![s] = ticked] /\ request' = [request EXCEPT ![q] = next]
    BY <1>3 DEF Gift!SetTaskDone
  <2>2. s \in Surprises /\ row[s] \in Row
    BY <1>1, <2>1 DEF Fits, GiftInv, Shape
  <2>3. done \in SUBSET TaskIndexes
    BY <1>1, <2>1, <2>2 DEF Fits, Row, Gift!Ticked
  <2> HIDE DEF done
  <2>4. next \in Request /\ next.step = "ticked" /\ next.by = request[q].by
    BY <1>1, <2>3 DEF Request, Steps
  <2>5. /\ ticked \in Row /\ ticked.code = row[s].code /\ ticked.sender = row[s].sender
        /\ ticked.recipient = row[s].recipient /\ ticked.mood = row[s].mood
        /\ ticked.opened = row[s].opened /\ ticked.expires = row[s].expires
    BY <2>2, <2>3 DEF Row
  <2>6. Fits(next) /\ Due(next) /\ next.step # "reward"
    BY <1>1, <2>1, <2>4 DEF Fits, Due
  <2> HIDE DEF next, ticked, s
  <2>7. row' \in [Surprises -> Row] /\ RowsKept
    BY <2>1, <2>2, <2>5, RowMoves DEF RowsKept
  <2> QED BY <2>1, <2>4, <2>6, <2>7, GoesOn DEF GiftInv, Shape, Entitled
<1>4. CASE Gift!ShowTicks(q)
  <2> DEFINE shown == [page[request[q].by] EXCEPT !.done = request[q].ticks, !.busyTask = 0]
  <2>1. /\ request[q].step = "ticked" /\ Gift!Answer(q, shown)
        /\ UNCHANGED <<now, row, redeems, credit>>
    BY <1>4 DEF Gift!ShowTicks
  <2>2. request[q].by \in People /\ request[q].ticks \in SUBSET TaskIndexes
    BY <1>1, <2>1 DEF Fits, Request
  <2>3. page[request[q].by] \in Page /\ Shown(request[q].by, page[request[q].by])
    BY <2>2 DEF GiftInv, Shape, Entitled
  <2>4. /\ shown \in Page /\ shown.shows = page[request[q].by].shows
        /\ shown.surprise = page[request[q].by].surprise
        /\ shown.mood = page[request[q].by].mood
    BY <2>2, <2>3 DEF Page
  <2>5. Shown(request[q].by, shown)
    BY <2>3, <2>4 DEF Shown
  <2> HIDE DEF shown
  <2> QED BY <2>1, <2>4, <2>5, Answers DEF RowsKept, GiftInv, Shape
<1> QED BY <1>2, <1>3, <1>4

LEMMA TickKeeps ==
    ASSUME GiftInv, Gift!Tick
    PROVE  GiftInv'
<1>1. /\ now' \in 0..MaxTime /\ redeems' \in [People -> 0..MaxRedeems]
      /\ UNCHANGED <<row, request, page, credit>>
  BY ClaimsAssumption DEF Gift!Tick, GiftInv, Shape
<1>2. Shape' /\ Distinct' /\ Gift!OpenedInTime'
  BY <1>1, KeptRows DEF RowsKept, GiftInv, Shape
<1>3. Entitled'
  BY <1>1 DEF GiftInv, Entitled, Fits, Due, Shown, Won, Gift!FindByCode
<1>4. PaidOnce'
  BY <1>1 DEF GiftInv, PaidOnce, Rewarding
<1> QED BY <1>2, <1>3, <1>4 DEF GiftInv

--------------------------------------------------------------------------------
\* However requests interleave and wherever they die.
LEMMA GiftStep ==
    GiftInv /\ [Gift!Next]_(Gift!vars) => GiftInv'
<1> SUFFICES ASSUME GiftInv, [Gift!Next]_(Gift!vars)
             PROVE  GiftInv'
  OBVIOUS
<1>1. CASE UNCHANGED Gift!vars
  <2>1. UNCHANGED <<now, row, request, page, redeems, credit>>
    BY <1>1 DEF Gift!vars
  <2>2. Shape' /\ Distinct' /\ Gift!OpenedInTime'
    BY <2>1, KeptRows DEF RowsKept, GiftInv, Shape
  <2>3. Entitled'
    BY <2>1 DEF GiftInv, Entitled, Fits, Due, Shown, Won, Gift!FindByCode
  <2>4. PaidOnce'
    BY <2>1 DEF GiftInv, PaidOnce, Rewarding
  <2> QED BY <2>2, <2>3, <2>4 DEF GiftInv
<1>2. CASE Gift!Next
  BY <1>2, SendKeeps, OpenKeeps, ToggleKeeps, LoseKeeps, MintKeeps, HandOverKeeps,
     LookKeeps, RedeemKeeps, RewardKeeps, RevealKeeps, TicksKeep, LeaveKeeps, TickKeeps
     DEF Gift!Next
<1> QED BY <1>1, <1>2

LEMMA GiftHolds ==
    GiftInv => /\ Gift!TypeOK /\ Gift!RevealedToOne /\ Gift!CodesFindOne
               /\ Gift!CreditedOnce /\ Gift!OpenedInTime
<1> SUFFICES ASSUME GiftInv
             PROVE  Gift!TypeOK /\ Gift!RevealedToOne /\ Gift!CodesFindOne /\ Gift!CreditedOnce
  BY DEF GiftInv
<1>1. Gift!TypeOK
  <2>1. 0..(MaxAttempts - 1) \subseteq 0..MaxAttempts /\ 0..1 \subseteq 0..2
    BY ClaimsAssumption
  <2>2. \A q \in Requests : request[q].tries \in 0..MaxAttempts
    BY <2>1 DEF GiftInv, Shape, Request
  <2>3. credit \in [Surprises -> 0..2]
    BY <2>1 DEF GiftInv, Shape
  <2>4. request \in [Requests ->
           [step : Steps, by : People \cup {Nobody}, heard : BOOLEAN, at : 0..MaxTime,
            code : Codes \cup {NoSurprise}, mood : Moods \cup {NoMood},
            tries : 0..MaxAttempts, surprise : Surprises \cup {NoSurprise},
            task : TaskIndexes \cup {0}, on : BOOLEAN, ticks : SUBSET TaskIndexes]]
    BY <2>2 DEF GiftInv, Shape, Request
  <2> QED BY <2>3, <2>4 DEF GiftInv, Shape, Gift!TypeOK, Row, Page, Steps
<1>2. Gift!RevealedToOne
  <2>1. SUFFICES ASSUME NEW p \in People, page[p].shows = "reveal"
                 PROVE  LET s == page[p].surprise
                        IN /\ \E mine \in Gift!Received(p) :
                                  mine.id = s /\ mine.mood = page[p].mood
                           /\ \A other \in People \ {p} :
                                  \A its \in Gift!Received(other) : its.id # s
                           /\ \A handed \in Gift!Sent(p) : handed.id # s
    BY DEF Gift!RevealedToOne
  <2> DEFINE s == page[p].surprise
  <2>2. /\ s \in Surprises /\ row[s].code \in Codes /\ row[s].recipient = p
        /\ row[s].mood = page[p].mood /\ row[s].sender # p
    BY <2>1 DEF GiftInv, Entitled, Shown, Won
  <2> HIDE DEF s
  <2>3. \E mine \in Gift!Received(p) : mine.id = s /\ mine.mood = page[p].mood
    <3> DEFINE mine == [id |-> s, mood |-> row[s].mood, done |-> row[s].done]
    <3>1. mine \in Gift!Received(p)
      BY <2>2 DEF Gift!Received, Gift!Minted
    <3>2. mine.id = s /\ mine.mood = page[p].mood
      BY <2>2
    <3> QED BY <3>1, <3>2
  <2>4. \A other \in People \ {p} : \A its \in Gift!Received(other) : its.id # s
    BY <2>2 DEF Gift!Received
  <2>5. \A handed \in Gift!Sent(p) : handed.id # s
    BY <2>2 DEF Gift!Sent
  <2> QED BY <2>3, <2>4, <2>5 DEF s
<1>3. Gift!CodesFindOne
  <2>1. SUFFICES ASSUME NEW code \in Codes
                 PROVE  Cardinality(Gift!FindByCode(code)) <= 1
    BY DEF Gift!CodesFindOne, Gift!Cardinality, Cardinality
  <2>2. \A s, t \in Gift!FindByCode(code) : s = t
    BY DEF GiftInv, Distinct, Gift!FindByCode
  <2>3. CASE Gift!FindByCode(code) = {}
    BY <2>3, FS_EmptySet
  <2>4. CASE Gift!FindByCode(code) # {}
    <3>1. PICK s : Gift!FindByCode(code) = {s}
      BY <2>2, <2>4
    <3> QED BY <3>1, FS_Singleton
  <2> QED BY <2>3, <2>4
<1>4. Gift!CreditedOnce
  BY DEF GiftInv, Shape, PaidOnce, Gift!CreditedOnce
<1> QED BY <1>1, <1>2, <1>3, <1>4

--------------------------------------------------------------------------------
(* Devices. *)

Task == [step : {"none", "key", "subscribe", "register", "forget", "drop"},
         by : Owners \cup {Nobody}, key : VapidKeys \cup {NoEndpoint},
         endpoint : Endpoints \cup {NoEndpoint}]

\* A task that is about an endpoint has one.
Addressed ==
    \A t \in Push!Tasks :
        task[t].step \in {"register", "forget", "drop"} => task[t].endpoint \in Endpoints

\* The row of an address that is being dropped is gone, or stays for a reason.
Forgotten == devices[task["tap"].endpoint] = Nobody \/ task["tap"].endpoint \in excused

Dropped == task["tap"].step = "drop" => Forgotten

DevicesInv == Push!TypeOK /\ Addressed /\ Dropped /\ Push!AddressesAreLive

LEMMA Resting ==
    /\ Push!Resting \in Task /\ Push!Resting.step = "none"
    /\ Push!NoSubscription \in [endpoint : Endpoints \cup {NoEndpoint},
                                key : VapidKeys \cup {NoEndpoint}]
    /\ Push!NoSubscription.endpoint = NoEndpoint
BY DEF Push!Resting, Push!NoSubscription, Task

LEMMA DevicesInit == Push!Init => DevicesInv
BY Resting DEF Push!Init, DevicesInv, Push!TypeOK, Addressed, Dropped, Push!AddressesAreLive,
    Push!Tasks, Task

LEMMA TaskMoves ==
    ASSUME Push!TypeOK, NEW t \in Push!Tasks, NEW next \in Task, task' = [task EXCEPT ![t] = next]
    PROVE  /\ task' \in [Push!Tasks -> Task] /\ task'[t] = next
           /\ \A u \in Push!Tasks \ {t} : task'[u] = task[u]
BY DEF Push!TypeOK, Task

\* A task goes on while no row changes.  An address stays the browser's, or is excused.
LEMMA TaskKeeps ==
    ASSUME DevicesInv, NEW t \in Push!Tasks, NEW next \in Task,
           task' = [task EXCEPT ![t] = next],
           next.step \in {"register", "forget", "drop"} => next.endpoint \in Endpoints,
           next.step # "drop",
           signedIn' \in Owners \cup {Nobody}, permission' \in {"default", "granted", "denied"},
           setting' \in {"default", "granted", "denied"},
           subscription' \in [endpoint : Endpoints \cup {NoEndpoint},
                              key : VapidKeys \cup {NoEndpoint}],
           minted' \subseteq Endpoints, vapid' \in VapidKeys,
           excused \subseteq excused', excused' \subseteq Endpoints,
           subscription'.endpoint = subscription.endpoint
               \/ subscription.endpoint \in excused' \cup {NoEndpoint}
               \/ devices[subscription.endpoint] = Nobody,
           UNCHANGED devices
    PROVE  DevicesInv'
<1>1. /\ task' \in [Push!Tasks -> Task] /\ task'[t] = next
      /\ \A u \in Push!Tasks \ {t} : task'[u] = task[u]
  BY TaskMoves DEF DevicesInv
<1>2. Push!TypeOK'
  BY <1>1 DEF DevicesInv, Push!TypeOK, Task
<1>3. Addressed'
  BY <1>1 DEF DevicesInv, Addressed
<1>4. Dropped'
  BY <1>1 DEF DevicesInv, Dropped, Forgotten, Push!Tasks
<1>5. Push!AddressesAreLive'
  BY ClaimsAssumption DEF DevicesInv, Push!AddressesAreLive
<1> QED BY <1>2, <1>3, <1>4, <1>5 DEF DevicesInv

LEMMA TurnOnKeeps == DevicesInv /\ Push!TurnOn => DevicesInv'
<1> SUFFICES ASSUME DevicesInv, Push!TurnOn
             PROVE  DevicesInv'
  OBVIOUS
<1> DEFINE next == [Push!Resting EXCEPT !.step = "key", !.by = signedIn]
<1>1. /\ UNCHANGED <<signedIn, subscription, minted, vapid, devices, excused>>
      /\ permission' \in {"denied", "granted"} /\ setting' \in {setting, "denied"}
      /\ task' = task \/ task' = [task EXCEPT !["tap"] = next]
  BY DEF Push!TurnOn
<1>2. next \in Task /\ next.step = "key"
  BY Resting DEF DevicesInv, Push!TypeOK, Task
<1> HIDE DEF next
<1>3. CASE task' = task
  BY <1>1, <1>3 DEF DevicesInv, Push!TypeOK, Addressed, Dropped, Forgotten, Push!AddressesAreLive
<1>4. CASE task' = [task EXCEPT !["tap"] = next]
  BY <1>1, <1>2, <1>4, TaskKeeps DEF DevicesInv, Push!TypeOK, Push!Tasks
<1> QED BY <1>1, <1>3, <1>4

LEMMA FetchKeyKeeps ==
    ASSUME DevicesInv, NEW t \in Push!Tasks, Push!FetchKey(t)
    PROVE  DevicesInv'
<1> DEFINE next == [task[t] EXCEPT !.step = "subscribe", !.key = vapid]
<1>1. task' = [task EXCEPT ![t] = next]
      /\ UNCHANGED <<signedIn, permission, setting, subscription, minted, vapid, devices, excused>>
  BY DEF Push!FetchKey
<1>2. next \in Task /\ next.step = "subscribe"
  BY DEF DevicesInv, Push!TypeOK, Task
<1> HIDE DEF next
<1> QED BY <1>1, <1>2, TaskKeeps DEF DevicesInv, Push!TypeOK

LEMMA SubscribeKeeps ==
    ASSUME DevicesInv, NEW t \in Push!Tasks, Push!Subscribe(t)
    PROVE  DevicesInv'
<1>1. task[t] \in Task /\ task[t].step = "subscribe"
      /\ UNCHANGED <<signedIn, permission, setting, vapid, devices>>
  BY DEF Push!Subscribe, DevicesInv, Push!TypeOK, Task
<1>2. CASE subscription.endpoint # NoEndpoint /\ subscription.key = task[t].key
  <2> DEFINE next == [task[t] EXCEPT !.step = "register", !.endpoint = subscription.endpoint]
  <2>1. task' = [task EXCEPT ![t] = next] /\ UNCHANGED <<subscription, minted, excused>>
    BY <1>2 DEF Push!Subscribe
  <2>2. next \in Task /\ next.step = "register" /\ next.endpoint \in Endpoints
    BY <1>1, <1>2 DEF DevicesInv, Push!TypeOK, Task
  <2> HIDE DEF next
  <2> QED BY <1>1, <2>1, <2>2, TaskKeeps DEF DevicesInv, Push!TypeOK
<1>3. CASE ~(subscription.endpoint # NoEndpoint /\ subscription.key = task[t].key)
  <2>1. PICK e \in Endpoints \ minted :
            /\ Push!Excuse(subscription.endpoint)
            /\ subscription' = [endpoint |-> e, key |-> task[t].key]
            /\ minted' = minted \cup {e}
            /\ task' = [task EXCEPT ![t].step = "register", ![t].endpoint = e]
    BY <1>3 DEF Push!Subscribe
  <2> DEFINE next == [task[t] EXCEPT !.step = "register", !.endpoint = e]
  <2>2. task' = [task EXCEPT ![t] = next]
    BY <2>1
  <2>3. next \in Task /\ next.step = "register" /\ next.endpoint \in Endpoints
    BY <1>1 DEF Task
  <2> HIDE DEF next
  <2>4. /\ excused \subseteq excused' /\ excused' \subseteq Endpoints
        /\ subscription.endpoint \in excused' \cup {NoEndpoint}
    BY <2>1 DEF Push!Excuse, DevicesInv, Push!TypeOK
  <2>5. /\ subscription' \in [endpoint : Endpoints \cup {NoEndpoint},
                              key : VapidKeys \cup {NoEndpoint}]
        /\ minted' \subseteq Endpoints
    BY <1>1, <2>1 DEF Task, DevicesInv, Push!TypeOK
  <2> QED BY <1>1, <2>2, <2>3, <2>4, <2>5, TaskKeeps DEF DevicesInv, Push!TypeOK
<1> QED BY <1>2, <1>3

\* A row is written for the browser's own address, or excused.
LEMMA RegisterKeeps ==
    ASSUME DevicesInv, NEW t \in Push!Tasks, Push!Register(t)
    PROVE  DevicesInv'
<1> DEFINE e == task[t].endpoint
<1>1. /\ task[t].step = "register" /\ signedIn # Nobody
      /\ devices' = [devices EXCEPT ![e] = signedIn]
      /\ task' = [task EXCEPT ![t] = Push!Resting]
      /\ UNCHANGED <<signedIn, permission, subscription, minted, vapid>>
      /\ setting' \in {setting, permission}
      /\ IF e # subscription.endpoint \/ (t = "rotation" /\ task["tap"].step = "drop")
         THEN Push!Excuse(e) ELSE UNCHANGED excused
  BY DEF Push!Register, Push!Save, Push!Rest
<1>2. e \in Endpoints /\ e # NoEndpoint
  BY <1>1, ClaimsAssumption DEF DevicesInv, Addressed
<1>3. /\ task' \in [Push!Tasks -> Task] /\ task'[t].step = "none"
      /\ \A u \in Push!Tasks \ {t} : task'[u] = task[u]
  BY <1>1, Resting, TaskMoves DEF DevicesInv
<1>4. /\ devices' \in [Endpoints -> Owners \cup {Nobody}]
      /\ \A d \in Endpoints \ {e} : devices'[d] = devices[d]
  BY <1>1, <1>2 DEF DevicesInv, Push!TypeOK
<1>5. /\ excused \subseteq excused' /\ excused' \subseteq Endpoints
      /\ e = subscription.endpoint \/ e \in excused'
      /\ t = "rotation" /\ task["tap"].step = "drop" => e \in excused'
  BY <1>1, <1>2 DEF Push!Excuse, DevicesInv, Push!TypeOK
<1>6. Push!TypeOK'
  BY <1>1, <1>3, <1>4, <1>5 DEF DevicesInv, Push!TypeOK, Task
<1>7. Addressed'
  BY <1>3 DEF DevicesInv, Addressed
<1>8. Dropped'
  <2>1. CASE t = "tap"
    BY <1>3, <2>1 DEF Dropped
  <2>2. CASE t # "tap"
    <3>1. t = "rotation" /\ "tap" \in Push!Tasks \ {t}
      BY <2>2 DEF Push!Tasks
    <3>2. SUFFICES ASSUME task["tap"].step = "drop"
                   PROVE  Forgotten'
      BY <1>3, <3>1 DEF Dropped
    <3>3. Forgotten /\ e \in excused' /\ task["tap"].endpoint \in Endpoints
      BY <1>5, <3>1, <3>2 DEF DevicesInv, Dropped, Addressed
    <3>4. CASE task["tap"].endpoint = e
      BY <1>3, <3>1, <3>3, <3>4 DEF Forgotten
    <3>5. CASE task["tap"].endpoint # e
      BY <1>3, <1>4, <1>5, <3>1, <3>3, <3>5 DEF Forgotten
    <3> QED BY <3>4, <3>5
  <2> QED BY <2>1, <2>2
<1>9. Push!AddressesAreLive'
  BY <1>1, <1>4, <1>5 DEF DevicesInv, Push!AddressesAreLive
<1> QED BY <1>6, <1>7, <1>8, <1>9 DEF DevicesInv

LEMMA FailKeeps ==
    ASSUME DevicesInv, NEW t \in Push!Tasks, Push!Fail(t)
    PROVE  DevicesInv'
BY Resting, TaskKeeps DEF Push!Fail, Push!Rest, DevicesInv, Push!TypeOK

LEMMA TurnOffKeeps == DevicesInv /\ Push!TurnOff => DevicesInv'
<1> SUFFICES ASSUME DevicesInv, Push!TurnOff
             PROVE  DevicesInv'
  OBVIOUS
<1> DEFINE next == [Push!Resting EXCEPT !.step = "forget", !.by = signedIn,
                                        !.endpoint = subscription.endpoint]
<1>1. /\ task' = [task EXCEPT !["tap"] = next] /\ subscription.endpoint # NoEndpoint
      /\ UNCHANGED <<signedIn, permission, setting, subscription, minted, vapid, devices, excused>>
  BY DEF Push!TurnOff
<1>2. next \in Task /\ next.step = "forget" /\ next.endpoint \in Endpoints
  BY <1>1, Resting DEF DevicesInv, Push!TypeOK, Task
<1> HIDE DEF next
<1> QED BY <1>1, <1>2, TaskKeeps DEF DevicesInv, Push!TypeOK, Push!Tasks

LEMMA ForgetKeeps == DevicesInv /\ Push!Forget => DevicesInv'
<1> SUFFICES ASSUME DevicesInv, Push!Forget
             PROVE  DevicesInv'
  OBVIOUS
<1> DEFINE e == task["tap"].endpoint
           next == [task["tap"] EXCEPT !.step = "drop"]
<1>1. /\ task["tap"].step = "forget" /\ task' = [task EXCEPT !["tap"] = next]
      /\ UNCHANGED <<signedIn, permission, setting, subscription, minted, vapid>>
      /\ \/ devices' = [devices EXCEPT ![e] = Nobody] /\ UNCHANGED excused
         \/ UNCHANGED devices /\ Push!Excuse(e)
  BY DEF Push!Forget, Push!Removed
<1>2. e \in Endpoints /\ e # NoEndpoint /\ "tap" \in Push!Tasks
  BY <1>1, ClaimsAssumption DEF DevicesInv, Addressed, Push!Tasks
<1>3. next \in Task /\ next.step = "drop" /\ next.endpoint = e
  BY <1>2 DEF DevicesInv, Push!TypeOK, Task
<1> HIDE DEF next
<1>4. /\ task' \in [Push!Tasks -> Task] /\ task'["tap"] = next
      /\ \A u \in Push!Tasks \ {"tap"} : task'[u] = task[u]
  BY <1>1, <1>2, <1>3, TaskMoves DEF DevicesInv
<1>5. /\ devices' \in [Endpoints -> Owners \cup {Nobody}]
      /\ \A d \in Endpoints : devices'[d] # Nobody => devices[d] # Nobody
      /\ excused \subseteq excused' /\ excused' \subseteq Endpoints
      /\ devices'[e] = Nobody \/ e \in excused'
  BY <1>1, <1>2 DEF Push!Excuse, DevicesInv, Push!TypeOK
<1>6. Push!TypeOK'
  BY <1>1, <1>4, <1>5 DEF DevicesInv, Push!TypeOK, Task
<1>7. Addressed' /\ Dropped'
  BY <1>2, <1>3, <1>4, <1>5 DEF DevicesInv, Addressed, Dropped, Forgotten
<1>8. Push!AddressesAreLive'
  BY <1>1, <1>5 DEF DevicesInv, Push!AddressesAreLive
<1> QED BY <1>6, <1>7, <1>8 DEF DevicesInv

LEMMA UnsubscribeKeeps == DevicesInv /\ Push!Unsubscribe => DevicesInv'
<1> SUFFICES ASSUME DevicesInv, Push!Unsubscribe
             PROVE  DevicesInv'
  OBVIOUS
<1>1. /\ task["tap"].step = "drop" /\ task' = [task EXCEPT !["tap"] = Push!Resting]
      /\ subscription' = subscription
         \/ (subscription.endpoint = task["tap"].endpoint /\ subscription' = Push!NoSubscription)
      /\ setting' = permission
      /\ UNCHANGED <<signedIn, permission, minted, vapid, devices, excused>>
  BY DEF Push!Unsubscribe, Push!Rest
<1>2. subscription'.endpoint = subscription.endpoint
          \/ subscription.endpoint \in excused' \cup {NoEndpoint}
          \/ devices[subscription.endpoint] = Nobody
  BY <1>1 DEF DevicesInv, Dropped, Forgotten
<1> QED BY <1>1, <1>2, Resting, TaskKeeps DEF DevicesInv, Push!TypeOK, Push!Tasks

LEMMA RotateKeeps == DevicesInv /\ Push!RotateSubscription => DevicesInv'
<1> SUFFICES ASSUME DevicesInv, Push!RotateSubscription
             PROVE  DevicesInv'
  OBVIOUS
<1> DEFINE next == [Push!Resting EXCEPT !.step = "key", !.by = signedIn]
<1>1. /\ subscription' = Push!NoSubscription /\ Push!Excuse(subscription.endpoint)
      /\ task' = task \/ task' = [task EXCEPT !["rotation"] = next]
      /\ UNCHANGED <<signedIn, permission, setting, minted, vapid, devices>>
  BY DEF Push!RotateSubscription
<1>2. next \in Task /\ next.step = "key"
  BY Resting DEF DevicesInv, Push!TypeOK, Task
<1> HIDE DEF next
<1>3. /\ excused \subseteq excused' /\ excused' \subseteq Endpoints
      /\ subscription.endpoint \in excused' \cup {NoEndpoint}
  BY <1>1 DEF Push!Excuse, DevicesInv, Push!TypeOK
<1>4. CASE task' = task
  <2>1. Push!TypeOK'
    BY <1>1, <1>3, <1>4, Resting DEF DevicesInv, Push!TypeOK
  <2>2. Addressed' /\ Dropped'
    BY <1>1, <1>3, <1>4 DEF DevicesInv, Addressed, Dropped, Forgotten
  <2>3. Push!AddressesAreLive'
    BY <1>1, <1>3, ClaimsAssumption DEF DevicesInv, Push!AddressesAreLive
  <2> QED BY <2>1, <2>2, <2>3 DEF DevicesInv
<1>5. CASE task' = [task EXCEPT !["rotation"] = next]
  BY <1>1, <1>2, <1>3, <1>5, Resting, TaskKeeps DEF DevicesInv, Push!TypeOK, Push!Tasks
<1> QED BY <1>1, <1>4, <1>5

\* Whatever the page, the browser, the deployment and the people do.
LEMMA DevicesStep == DevicesInv /\ [Push!Next]_(Push!vars) => DevicesInv'
<1> SUFFICES ASSUME DevicesInv, [Push!Next]_(Push!vars)
             PROVE  DevicesInv'
  OBVIOUS
<1>1. CASE UNCHANGED Push!vars
  BY <1>1 DEF Push!vars, DevicesInv, Push!TypeOK, Addressed, Dropped, Forgotten,
              Push!AddressesAreLive
<1>2. ASSUME NEW k \in VapidKeys, Push!RotateKey(k)
      PROVE  DevicesInv'
  BY <1>2 DEF Push!RotateKey, DevicesInv, Push!TypeOK, Addressed, Dropped, Forgotten,
              Push!AddressesAreLive
<1>3. ASSUME (\E p \in Owners : Push!SignIn(p)) \/ Push!SignOut
      PROVE  DevicesInv'
  BY <1>3 DEF Push!SignIn, Push!SignOut, DevicesInv, Push!TypeOK, Addressed, Dropped,
              Forgotten, Push!AddressesAreLive
<1>4. CASE Push!Next
  BY <1>2, <1>3, <1>4, TurnOnKeeps, TurnOffKeeps, ForgetKeeps, UnsubscribeKeeps, RotateKeeps,
     FetchKeyKeeps, SubscribeKeeps, RegisterKeeps, FailKeeps DEF Push!Next
<1> QED BY <1>1, <1>4

--------------------------------------------------------------------------------
(* The parts put together. *)

Inv == GiftInv /\ DevicesInv

LEMMA InitInv == Init => Inv
BY GiftInit, DevicesInit DEF Init, Inv

\* Every part steps or lies still.
LEMMA StepInv == Inv /\ [Next]_vars => Inv'
<1> SUFFICES ASSUME Inv, [Next]_vars
             PROVE  Inv'
  OBVIOUS
<1>1. /\ UNCHANGED deviceVars => UNCHANGED Push!vars
      /\ UNCHANGED surpriseVars => UNCHANGED Gift!vars
  BY DEF deviceVars, surpriseVars, Push!vars, Gift!vars
<1>2. [Gift!Next]_(Gift!vars) /\ [Push!Next]_(Push!vars)
  BY <1>1 DEF Next, vars
<1> QED BY <1>2, GiftStep, DevicesStep DEF Inv

LEMMA Always == Spec => []Inv
<1>1. Init => Inv
  BY InitInv
<1>2. Inv /\ [Next]_vars => Inv'
  BY StepInv
<1> QED BY <1>1, <1>2, PTL DEF Spec

--------------------------------------------------------------------------------
(* The theorems. *)

\* Of the people who open one code at once, one sees the surprise, in the mood
\* they named and never the sender; a code finds one surprise, and its opening is
\* rewarded once and in time (Surprise.ts:21-25, RedeemSurprise.ts:104-134).
THEOREM SurprisesGoToOne == Spec => []SurprisesHold
<1>1. Inv => SurprisesHold
  BY GiftHolds DEF Inv, SurprisesHold
<1> QED BY <1>1, Always, PTL

\* Turning notifications off leaves no address behind without a cause, whoever
\* signs out, whatever the browser rotates and whichever request is lost between
\* two of its steps (pwa.ts:221-235).
THEOREM NoAddressIsLeft == Spec => []AddressesAreLive
<1>1. Inv => AddressesAreLive
  BY DEF Inv, DevicesInv, AddressesAreLive
<1> QED BY <1>1, Always, PTL

================================================================================
