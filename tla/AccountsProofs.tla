------------------------------ MODULE AccountsProofs ---------------------------
(***************************************************************************)
(* The theorems about an account from outside its rooms, for any pages,    *)
(* tabs, sessions, moderators, reports and bans.  The inductive invariant  *)
(* of sessions is in SessionsProofs; those of signing in and of moderation *)
(* are here, with the theorems that put the parts together.                *)
(***************************************************************************)
EXTENDS MCAccounts, TLAPS

TwoTabsP == INSTANCE SessionsProofs
    WITH call <- request, SessionIds <- {SessionId}, Moderator <- "moderator",
         Browser <- [t \in Tabs |-> ABrowser]

OneTabP == INSTANCE SessionsProofs
    WITH call <- request, Tabs <- {Tab}, Moderator <- "moderator",
         Browser <- [t \in {Tab} |-> ABrowser]

--------------------------------------------------------------------------------
(* Signing in and up: Door is SignIn with the names of MCAccounts. *)

AnyCode == {Door!Typo} \cup Door!Codes

DoorStages == {"identify", "verify", "register"}
RequestSteps == {"idle", "issue", "send", "consume", "find", "reissue", "create", "tokens"}

Page == [stage : DoorStages, code : AnyCode]
Call == [at : RequestSteps, code : AnyCode, details : Door!Details]

DoorShape ==
    /\ challenge \in [code : AnyCode, attempts : 0..(MaxAttempts - 1)]
    /\ account \in {"none", "active", "banned"}
    /\ page \in [Pages -> Page]
    /\ call \in [Pages -> Call]
    /\ sent \subseteq Door!Codes
    /\ requests \in 0..MaxRequests
    /\ admitted \in [Door!Codes -> Nat]
    /\ spoiled \in BOOLEAN

\* The steps at which a request has a code to itself: it is not in the store
\* yet, or was taken out of it.
Holding == {"issue", "find", "reissue", "create", "tokens"}
Holds(p, c) == call[p].at \in Holding /\ call[p].code = c

\* A code that was not requested yet is nowhere.
Unheard(c) ==
    /\ c \notin sent
    /\ \A p \in Pages : call[p].code # c /\ page[p].code # c

\* A code is in one place: the store, one request, or used.
OnePlace ==
    /\ \A c \in Door!Codes :
        /\ admitted[c] <= 1
        /\ challenge.code = c => admitted[c] = 0
        /\ \A p \in Pages : Holds(p, c) => admitted[c] = 0 /\ challenge.code # c
        /\ \A p, q \in Pages : Holds(p, c) /\ Holds(q, c) => p = q
        /\ c > requests => admitted[c] = 0 /\ challenge.code # c /\ Unheard(c)
    /\ challenge # Door!NoCode => challenge.code # Door!Typo
    /\ \A p \in Pages : call[p].at \in Holding \cup {"send"} => call[p].code # Door!Typo

\* What a page shows while its request is under way.
PagesWait ==
    \A p \in Pages :
        /\ call[p].at \in {"consume", "find", "reissue"} => call[p].code = page[p].code
        /\ call[p].at \in {"issue", "send"} => page[p].stage = "identify"
        /\ call[p].at \in {"consume", "find"} /\ call[p].details = "none" =>
               page[p].stage = "verify"
        /\ call[p].at = "reissue" => page[p].stage = "verify"

DoorInv == DoorShape /\ OnePlace /\ PagesWait /\ Door!RegistrationCanFinish

\* What a request does to the pages and to the requests of the others: nothing.
OthersStay(p) ==
    \A q \in Pages \ {p} : call'[q] = call[q] /\ page'[q] = page[q]

LEMMA CallMoves ==
    ASSUME DoorShape, NEW p \in Pages, NEW next \in Call, call' = [call EXCEPT ![p] = next]
    PROVE  /\ call' \in [Pages -> Call] /\ call'[p] = next
           /\ \A q \in Pages \ {p} : call'[q] = call[q]
BY DEF DoorShape

LEMMA PageMoves ==
    ASSUME DoorShape, NEW p \in Pages, NEW next \in Page, page' = [page EXCEPT ![p] = next]
    PROVE  /\ page' \in [Pages -> Page] /\ page'[p] = next
           /\ \A q \in Pages \ {p} : page'[q] = page[q]
BY DEF DoorShape

LEMMA GoMoves ==
    ASSUME DoorShape, NEW p \in Pages, NEW at \in RequestSteps, Door!Go(p, at)
    PROVE  /\ call' \in [Pages -> Call]
           /\ call'[p].at = at /\ call'[p].code = call[p].code
           /\ call'[p].details = call[p].details
           /\ \A q \in Pages \ {p} : call'[q] = call[q]
BY DEF DoorShape, Door!Go, Call

LEMMA HangsMoves ==
    ASSUME DoorShape, NEW p \in Pages, Door!Hangs(p)
    PROVE  /\ call' \in [Pages -> Call]
           /\ call'[p] = Door!NoCall
           /\ \A q \in Pages \ {p} : call'[q] = call[q]
BY DEF DoorShape, Door!Hangs, Call, Door!NoCall, RequestSteps, AnyCode, Door!Details

LEMMA ShowsMoves ==
    ASSUME DoorShape, NEW p \in Pages, NEW stage \in DoorStages, Door!Shows(p, stage)
    PROVE  /\ page' \in [Pages -> Page]
           /\ page'[p].stage = stage /\ page'[p].code = page[p].code
           /\ \A q \in Pages \ {p} : page'[q] = page[q]
BY DEF DoorShape, Door!Shows, Page

LEMMA FailsMoves ==
    ASSUME DoorShape, NEW p \in Pages, NEW error, Door!Fails(p, error)
    PROVE  /\ call' \in [Pages -> Call] /\ page' \in [Pages -> Page]
           /\ call'[p] = Door!NoCall
           /\ page'[p] = page[p] \/ page'[p] = [stage |-> "identify", code |-> Door!Typo]
           /\ page'[p].stage = "register" => page[p].stage = "register" /\ error = "UNDERAGE"
           /\ OthersStay(p)
<1>1. /\ call' \in [Pages -> Call] /\ call'[p] = Door!NoCall
      /\ \A q \in Pages \ {p} : call'[q] = call[q]
  BY HangsMoves DEF Door!Fails
<1>2. CASE page[p].stage = "register" /\ error # "UNDERAGE"
  <2> DEFINE next == [stage |-> "identify", code |-> Door!Typo]
  <2>1. next \in Page /\ next.stage = "identify"
    BY DEF Page, DoorStages, AnyCode
  <2>2. page' = [page EXCEPT ![p] = next]
    BY <1>2 DEF Door!Fails
  <2>3. page' \in [Pages -> Page] /\ page'[p] = next
        /\ \A q \in Pages \ {p} : page'[q] = page[q]
    <3> HIDE DEF next
    <3> QED BY <2>1, <2>2, PageMoves
  <2> QED BY <1>1, <2>1, <2>3 DEF OthersStay
<1>3. CASE ~(page[p].stage = "register" /\ error # "UNDERAGE")
  <2>1. page' = page
    BY <1>3 DEF Door!Fails
  <2> QED BY <1>1, <1>3, <2>1 DEF OthersStay, DoorShape
<1> QED BY <1>2, <1>3

LEMMA DoorInit == Door!Init => DoorInv
<1> SUFFICES ASSUME Door!Init PROVE DoorInv
  OBVIOUS
<1>1. DoorShape
  <2>1. Door!NoCode \in [code : AnyCode, attempts : 0..(MaxAttempts - 1)]
    BY AccountsAssumption DEF Door!NoCode, AnyCode
  <2>2. [stage |-> "identify", code |-> Door!Typo] \in Page /\ Door!NoCall \in Call
    BY DEF Door!NoCall, AnyCode, Door!Typo, Page, Call, DoorStages, RequestSteps, Door!Details
  <2>3. page \in [Pages -> Page] /\ call \in [Pages -> Call]
    BY <2>2 DEF Door!Init
  <2>4. requests \in 0..MaxRequests /\ admitted \in [Door!Codes -> Nat]
    BY AccountsAssumption DEF Door!Init
  <2> QED BY <2>1, <2>3, <2>4 DEF Door!Init, DoorShape
<1>2. OnePlace
  BY AccountsAssumption DEF Door!Init, OnePlace, Holds, Holding, Unheard, Door!NoCode,
     Door!NoCall, Door!Codes, Door!Typo
<1>3. PagesWait /\ Door!RegistrationCanFinish
  BY DEF Door!Init, PagesWait, Door!RegistrationCanFinish, Door!NoCall
<1> QED BY <1>1, <1>2, <1>3 DEF DoorInv

LEMMA DoorHolds ==
    DoorInv => Door!TypeOK /\ Door!CodesAdmitOnce /\ Door!RegistrationCanFinish
BY AccountsAssumption DEF DoorInv, DoorShape, OnePlace, Door!TypeOK, Door!CodesAdmitOnce,
   AnyCode, Page, Call, DoorStages, RequestSteps

LEMMA OutsideKeeps ==
    ASSUME DoorInv, Door!Expire \/ Door!Ban
    PROVE  DoorInv'
<1>1. CASE Door!Expire
  <2>1. DoorShape'
    BY <1>1, AccountsAssumption DEF Door!Expire, DoorInv, DoorShape, Door!NoCode, AnyCode
  <2>2. OnePlace'
    BY <1>1 DEF Door!Expire, DoorInv, OnePlace, Holds, Unheard, Door!NoCode,
       Door!Codes, Door!Typo
  <2> QED BY <1>1, <2>1, <2>2 DEF Door!Expire, DoorInv, PagesWait, Door!RegistrationCanFinish
<1>2. CASE Door!Ban
  BY <1>2 DEF Door!Ban, DoorInv, DoorShape, OnePlace, Holds, Unheard, PagesWait,
     Door!RegistrationCanFinish
<1> QED BY <1>1, <1>2

\* A request that has not touched the store yet.
LEMMA SubmitKeeps ==
    ASSUME DoorInv, NEW p \in Pages,
           Door!submitIdentifier(p) \/ Door!submitCode(p) \/ Door!submitRegistration(p)
    PROVE  DoorInv'
<1>0. DoorShape /\ OnePlace /\ PagesWait /\ Door!RegistrationCanFinish
  BY DEF DoorInv
<1>1. CASE Door!submitIdentifier(p)
  <2> DEFINE c == requests + 1
             next == [at |-> "issue", code |-> c, details |-> "none"]
  <2>1. c \in Door!Codes /\ c \in Nat /\ c # Door!Typo /\ requests \in Nat /\ requests' = c
        /\ requests' \in 0..MaxRequests
    BY <1>0, <1>1, AccountsAssumption DEF Door!submitIdentifier, DoorShape,
       Door!Codes, Door!Typo
  <2>2. next \in Call /\ next.at = "issue" /\ next.code = c
    BY <2>1 DEF Call, RequestSteps, AnyCode, Door!Details
  <2>3. /\ call' = [call EXCEPT ![p] = next]
        /\ call[p] = Door!NoCall /\ page[p].stage = "identify"
        /\ UNCHANGED <<challenge, account, page, sent, admitted>>
        /\ spoiled' = (spoiled \/ ~Door!OnlyOneBusy(p))
    BY <1>1 DEF Door!submitIdentifier, Door!Submit
  <2> HIDE DEF next
  <2>4. /\ call' \in [Pages -> Call] /\ call'[p] = next
        /\ \A q \in Pages \ {p} : call'[q] = call[q]
    BY <1>0, <2>2, <2>3, CallMoves
  <2>5. DoorShape'
    BY <1>0, <2>1, <2>3, <2>4 DEF DoorShape
  <2>6. admitted[c] = 0 /\ challenge.code # c /\ Unheard(c)
    BY <1>0, <2>1 DEF OnePlace
  <2> HIDE DEF c
  <2>7. ASSUME NEW d \in Door!Codes
        PROVE  /\ admitted'[d] <= 1
               /\ challenge'.code = d => admitted'[d] = 0
               /\ \A q \in Pages : Holds(q, d)' => admitted'[d] = 0 /\ challenge'.code # d
               /\ \A q, r \in Pages : Holds(q, d)' /\ Holds(r, d)' => q = r
    BY <1>0, <2>1, <2>2, <2>3, <2>4, <2>6 DEF OnePlace, Holds, Unheard
  <2>8. ASSUME NEW d \in Door!Codes, d > requests'
        PROVE  admitted'[d] = 0 /\ challenge'.code # d /\ Unheard(d)'
    <3>1. d > requests /\ d # c
      BY <2>1, <2>8 DEF Door!Codes, c
    <3> QED BY <1>0, <2>2, <2>3, <2>4, <3>1 DEF OnePlace, Unheard
  <2>9. OnePlace'
    BY <1>0, <2>1, <2>2, <2>3, <2>4, <2>7, <2>8 DEF OnePlace
  <2>10. PagesWait' /\ Door!RegistrationCanFinish'
    BY <1>0, <2>2, <2>3, <2>4 DEF PagesWait, Door!RegistrationCanFinish
  <2> QED BY <2>5, <2>9, <2>10 DEF DoorInv
<1>a. ASSUME NEW c \in AnyCode, NEW details \in Door!Details, NEW stage \in DoorStages,
             page' \in [Pages -> Page], page'[p].code = c, page'[p].stage = page[p].stage,
             \A q \in Pages \ {p} : page'[q] = page[q],
             c \in Door!Codes => c <= requests,
             details = "none" => page[p].stage = "verify",
             page[p].stage # "identify",
             Door!Submit(p, "consume", c, details), requests' = requests
      PROVE  DoorInv'
  <2> DEFINE next == [at |-> "consume", code |-> c, details |-> details]
  <2>2. /\ next \in Call /\ next.at = "consume" /\ next.code = c
        /\ next.details = details
    BY DEF Call, RequestSteps
  <2>3. /\ call' = [call EXCEPT ![p] = next] /\ call[p] = Door!NoCall
        /\ UNCHANGED <<challenge, account, sent, admitted>>
        /\ spoiled' = (spoiled \/ ~Door!OnlyOneBusy(p))
    BY <1>a DEF Door!Submit
  <2> HIDE DEF next
  <2>4. /\ call' \in [Pages -> Call] /\ call'[p] = next
        /\ \A q \in Pages \ {p} : call'[q] = call[q]
    BY <1>0, <2>2, <2>3, CallMoves
  <2>5. DoorShape'
    BY <1>0, <1>a, <2>3, <2>4 DEF DoorShape
  <2>6. \A q \in Pages, d \in Door!Codes : Holds(q, d)' => Holds(q, d)
    BY <2>2, <2>4 DEF Holds, Holding
  <2>7. ASSUME NEW d \in Door!Codes, d > requests
        PROVE  Unheard(d)'
    <3>1. d # c
      BY <1>0, <1>a, <2>7, AccountsAssumption DEF DoorShape, Door!Codes
    <3> QED BY <1>0, <1>a, <2>2, <2>3, <2>4, <2>7, <3>1 DEF OnePlace, Unheard
  <2>8. OnePlace'
    BY <1>0, <1>a, <2>2, <2>3, <2>4, <2>6, <2>7 DEF OnePlace, Holding
  <2>9. PagesWait' /\ Door!RegistrationCanFinish'
    <3>1. next # Door!NoCall
      BY <2>2 DEF Door!NoCall
    <3>2. /\ next.details = "none" => page'[p].stage = "verify"
          /\ page'[p].code = next.code /\ next.at = "consume"
      BY <1>a, <2>2
    <3>3. PagesWait'
      BY <1>0, <1>a, <2>4, <3>2 DEF PagesWait
    <3>4. \A q \in Pages : page'[q].stage = "register" /\ call'[q] = Door!NoCall =>
              /\ q # p /\ page[q].stage = "register" /\ call[q] = Door!NoCall
              /\ page'[q].code = page[q].code
      BY <1>a, <2>4, <3>1
    <3>5. Door!RegistrationCanFinish'
      BY <1>0, <2>3, <3>4 DEF Door!RegistrationCanFinish
    <3> QED BY <3>3, <3>5
  <2> QED BY <2>5, <2>8, <2>9 DEF DoorInv
<1>2. CASE Door!submitCode(p)
  <2>1. PICK c \in sent \cup {Door!Typo} :
            page' = [page EXCEPT ![p].code = c] /\ Door!Submit(p, "consume", c, "none")
    BY <1>2 DEF Door!submitCode
  <2>2. c \in AnyCode /\ (c \in Door!Codes => c <= requests)
    BY <1>0, <2>1, AccountsAssumption DEF DoorShape, AnyCode, OnePlace, Unheard,
       Door!Codes, Door!Typo
  <2>3. /\ page' \in [Pages -> Page] /\ page'[p].code = c /\ page'[p].stage = page[p].stage
        /\ \A q \in Pages \ {p} : page'[q] = page[q]
    BY <1>0, <2>1, <2>2 DEF DoorShape, Page
  <2> QED BY <1>2, <1>a, <2>1, <2>2, <2>3 DEF Door!submitCode, DoorStages, Door!Details
<1>3. CASE Door!submitRegistration(p)
  <2>1. PICK d \in Door!Details \ {"none"} : Door!Submit(p, "consume", page[p].code, d)
    BY <1>3 DEF Door!submitRegistration
  <2>2. /\ page[p].code \in AnyCode
        /\ page[p].code \in Door!Codes => page[p].code <= requests
    BY <1>0, AccountsAssumption DEF DoorShape, Page, OnePlace, Unheard, Door!Codes
  <2>3. UNCHANGED <<page, requests>> /\ page[p].stage = "register"
    BY <1>3 DEF Door!submitRegistration
  <2> QED BY <1>0, <1>a, <2>1, <2>2, <2>3 DEF DoorStages, DoorShape
<1> QED BY <1>1, <1>2, <1>3

\* RequestLoginCode stores the code and sends it.
LEMMA RequestKeeps ==
    ASSUME DoorInv, NEW p \in Pages, Door!RequestLoginCode(p) \/ Door!SendLoginCode(p)
    PROVE  DoorInv'
<1>0. DoorShape /\ OnePlace /\ PagesWait /\ Door!RegistrationCanFinish
  BY DEF DoorInv
<1>1. CASE Door!RequestLoginCode(p)
  <2> DEFINE c == call[p].code
  <2>1. /\ call[p].at = "issue" /\ challenge' = [code |-> c, attempts |-> 0]
        /\ UNCHANGED <<account, page, sent, requests, admitted>>
        /\ spoiled' = (spoiled \/ \E q \in Pages : page[q].stage = "register")
    BY <1>1 DEF Door!RequestLoginCode, Door!Issue
  <2>2. /\ call' \in [Pages -> Call] /\ call'[p].at = "send" /\ call'[p].code = c
        /\ \A q \in Pages \ {p} : call'[q] = call[q]
    BY <1>0, <1>1, GoMoves DEF Door!RequestLoginCode, RequestSteps
  <2>3. c \in Door!Codes /\ c # Door!Typo /\ c <= requests
    BY <1>0, <2>1, AccountsAssumption DEF DoorShape, Call, AnyCode, OnePlace, Holding,
       Unheard, Door!Codes, Door!Typo
  <2>4. Holds(p, c)
    BY <2>1 DEF Holds, Holding
  <2>5. challenge'.code = c /\ challenge' \in [code : AnyCode, attempts : 0..(MaxAttempts - 1)]
    BY <2>1, <2>3, AccountsAssumption DEF AnyCode
  <2>6. DoorShape'
    BY <1>0, <2>1, <2>2, <2>5 DEF DoorShape
  <2>7. \A q \in Pages, d \in Door!Codes : Holds(q, d)' => Holds(q, d) /\ q # p
    BY <2>2 DEF Holds, Holding
  <2>8. \A q \in Pages : Holds(q, c) => q = p
    BY <1>0, <2>3, <2>4 DEF OnePlace
  <2>9. admitted[c] = 0
    BY <1>0, <2>3, <2>4 DEF OnePlace
  <2> HIDE DEF c
  <2>10. ASSUME NEW d \in Door!Codes
         PROVE  /\ admitted'[d] <= 1
                /\ challenge'.code = d => admitted'[d] = 0
                /\ \A q \in Pages : Holds(q, d)' => admitted'[d] = 0 /\ challenge'.code # d
                /\ \A q, r \in Pages : Holds(q, d)' /\ Holds(r, d)' => q = r
    BY <1>0, <2>1, <2>5, <2>7, <2>8, <2>9 DEF OnePlace
  <2>11. ASSUME NEW d \in Door!Codes, d > requests
         PROVE  admitted'[d] = 0 /\ challenge'.code # d /\ Unheard(d)'
    <3>1. d # c
      BY <1>0, <2>3, <2>11, AccountsAssumption DEF DoorShape, Door!Codes
    <3> QED BY <1>0, <2>1, <2>2, <2>5, <2>11, <3>1 DEF OnePlace, Unheard
  <2>12. \A q \in Pages : call'[q].at \in Holding \cup {"send"} => call'[q].code # Door!Typo
    BY <1>0, <2>2, <2>3 DEF OnePlace, Holding
  <2>13. OnePlace'
    BY <2>1, <2>3, <2>5, <2>10, <2>11, <2>12 DEF OnePlace
  <2>14. PagesWait' /\ Door!RegistrationCanFinish'
    BY <1>0, <2>1, <2>2 DEF PagesWait, Door!RegistrationCanFinish
  <2> QED BY <2>6, <2>13, <2>14 DEF DoorInv
<1>2. CASE Door!SendLoginCode(p)
  <2>1. /\ call[p].at = "send" /\ sent' \in {sent, sent \cup {call[p].code}}
        /\ UNCHANGED <<challenge, account, requests, admitted, spoiled>>
    BY <1>2 DEF Door!SendLoginCode
  <2>2. /\ call' \in [Pages -> Call] /\ call'[p] = Door!NoCall
        /\ \A q \in Pages \ {p} : call'[q] = call[q]
    BY <1>0, <1>2, HangsMoves DEF Door!SendLoginCode
  <2>3. /\ page' \in [Pages -> Page] /\ page'[p].stage = "verify"
        /\ page'[p].code = page[p].code /\ \A q \in Pages \ {p} : page'[q] = page[q]
    BY <1>0, <1>2, ShowsMoves DEF Door!SendLoginCode, DoorStages
  <2>4. call[p].code \in Door!Codes
    BY <1>0, <2>1 DEF DoorShape, Call, AnyCode, OnePlace
  <2>5. DoorShape'
    BY <1>0, <2>1, <2>2, <2>3, <2>4 DEF DoorShape
  <2>6. \A q \in Pages, d \in Door!Codes : Holds(q, d)' => Holds(q, d)
    BY <2>2 DEF Holds, Holding, Door!NoCall
  <2>7. \A d \in Door!Codes : Unheard(d) => Unheard(d)'
    BY <2>1, <2>2, <2>3, AccountsAssumption DEF Unheard, Door!NoCall, Door!Codes, Door!Typo
  <2>8. OnePlace'
    BY <1>0, <2>1, <2>2, <2>6, <2>7 DEF OnePlace, Holding, Door!NoCall
  <2>9. PagesWait' /\ Door!RegistrationCanFinish'
    BY <1>0, <2>1, <2>2, <2>3 DEF PagesWait, Door!RegistrationCanFinish, Door!NoCall
  <2> QED BY <2>5, <2>8, <2>9 DEF DoorInv
<1> QED BY <1>1, <1>2

\* A request that holds no code ends, or one gives up the code it holds.
LEMMA EndKeepsPlaces ==
    ASSUME DoorShape, OnePlace, NEW p \in Pages,
           call'[p] = Door!NoCall, OthersStay(p),
           page'[p].code \in {page[p].code, Door!Typo},
           challenge'.code \in {challenge.code, Door!Typo},
           challenge' # Door!NoCode => challenge'.code # Door!Typo,
           UNCHANGED <<sent, requests, admitted>>
    PROVE  OnePlace'
<1>1. \A q \in Pages, d \in Door!Codes : Holds(q, d)' => Holds(q, d)
  BY DEF Holds, Holding, OthersStay, Door!NoCall
<1>2. ASSUME NEW d \in Door!Codes
      PROVE  d # Door!Typo /\ (Unheard(d) => Unheard(d)')
  BY AccountsAssumption DEF Unheard, OthersStay, Door!NoCall, Door!Codes, Door!Typo
<1>3. \A q \in Pages : call'[q].at \in Holding \cup {"send"} => call'[q].code # Door!Typo
  BY DEF OnePlace, OthersStay, Door!NoCall, Holding
<1> QED BY <1>1, <1>2, <1>3 DEF OnePlace

\* ConsumeCode takes the code out of the store, or leaves it to somebody else.
LEMMA ConsumeKeeps ==
    ASSUME DoorInv, NEW p \in Pages, Door!ConsumeCode(p)
    PROVE  DoorInv'
<1>0. DoorShape /\ OnePlace /\ PagesWait /\ Door!RegistrationCanFinish
  BY DEF DoorInv
<1> DEFINE c == call[p].code
<1>1. /\ call[p].at = "consume" /\ UNCHANGED <<account, sent, requests, admitted>>
      /\ spoiled' = (spoiled \/ \E q \in Pages \ {p} : page[q].stage = "register")
  BY DEF Door!ConsumeCode
<1>2. PICK outcome \in {"ok", "expired", "wrong"} :
        /\ Door!Consume(c, outcome)
        /\ IF outcome = "ok" THEN Door!Go(p, "find") /\ UNCHANGED page
           ELSE Door!Fails(p, "VALIDATION")
  BY DEF Door!ConsumeCode
<1>3. c \in AnyCode /\ spoiled' \in BOOLEAN /\ page[p].code = c
  BY <1>0, <1>1 DEF DoorShape, Call, PagesWait
<1>4. /\ Door!NoCode \in [code : AnyCode, attempts : 0..(MaxAttempts - 1)]
      /\ Door!NoCode.code = Door!Typo
  BY AccountsAssumption DEF Door!NoCode, AnyCode
<1>5. CASE outcome = "ok"
  <2>1. challenge # Door!NoCode /\ challenge.code = c /\ challenge' = Door!NoCode
    BY <1>2, <1>5 DEF Door!Consume
  <2>2. /\ call' \in [Pages -> Call] /\ call'[p].at = "find" /\ call'[p].code = c
        /\ call'[p].details = call[p].details
        /\ \A q \in Pages \ {p} : call'[q] = call[q]
    BY <1>0, <1>2, <1>5, GoMoves DEF RequestSteps
  <2>3. c \in Door!Codes /\ c # Door!Typo /\ admitted[c] = 0 /\ page' = page
    BY <1>0, <1>2, <1>3, <1>5, <2>1 DEF OnePlace, AnyCode
  <2>4. ~(c > requests)
    BY <1>0, <2>1, <2>3 DEF OnePlace
  <2>5. DoorShape'
    BY <1>0, <1>1, <1>3, <1>4, <2>1, <2>2, <2>3 DEF DoorShape
  <2> HIDE DEF c
  <2>6. \A q \in Pages : ~Holds(q, c)
    BY <1>0, <2>1, <2>3 DEF OnePlace
  <2>7. \A q \in Pages, d \in Door!Codes : Holds(q, d)' => (q = p /\ d = c) \/ Holds(q, d)
    BY <2>2 DEF Holds
  <2>8. ASSUME NEW d \in Door!Codes
        PROVE  /\ admitted'[d] <= 1
               /\ challenge'.code = d => admitted'[d] = 0
               /\ \A q \in Pages : Holds(q, d)' => admitted'[d] = 0 /\ challenge'.code # d
               /\ \A q, r \in Pages : Holds(q, d)' /\ Holds(r, d)' => q = r
    <3>1. d # Door!Typo
      BY AccountsAssumption DEF Door!Codes, Door!Typo
    <3> QED BY <1>0, <1>1, <1>4, <2>1, <2>3, <2>6, <2>7, <3>1 DEF OnePlace
  <2>9. ASSUME NEW d \in Door!Codes, d > requests
        PROVE  admitted'[d] = 0 /\ challenge'.code # d /\ Unheard(d)'
    <3>1. d # c /\ d # Door!Typo
      BY <2>4, <2>9, AccountsAssumption DEF Door!Codes, Door!Typo
    <3> QED BY <1>0, <1>1, <1>4, <2>1, <2>2, <2>3, <2>9, <3>1 DEF OnePlace, Unheard
  <2>10. \A q \in Pages : call'[q].at \in Holding \cup {"send"} => call'[q].code # Door!Typo
    BY <1>0, <2>2, <2>3 DEF OnePlace
  <2>11. OnePlace'
    BY <1>1, <2>1, <2>8, <2>9, <2>10 DEF OnePlace
  <2>12. PagesWait' /\ Door!RegistrationCanFinish'
    <3>1. call'[p] # Door!NoCall
      BY <2>2 DEF Door!NoCall
    <3> QED BY <1>0, <1>1, <1>3, <2>2, <2>3, <3>1 DEF PagesWait, Door!RegistrationCanFinish
  <2> QED BY <2>5, <2>11, <2>12 DEF DoorInv
<1>6. CASE outcome # "ok"
  <2>1. /\ call' \in [Pages -> Call] /\ page' \in [Pages -> Page] /\ call'[p] = Door!NoCall
        /\ page'[p] = page[p] \/ page'[p] = [stage |-> "identify", code |-> Door!Typo]
        /\ page'[p].stage # "register" /\ OthersStay(p)
    BY <1>0, <1>2, <1>6, FailsMoves
  <2>2. /\ challenge' \in [code : AnyCode, attempts : 0..(MaxAttempts - 1)]
        /\ challenge'.code \in {challenge.code, Door!Typo}
        /\ challenge' # Door!NoCode => challenge'.code # Door!Typo
    <3> DEFINE tried == challenge.attempts + 1
               more == [challenge EXCEPT !.attempts = tried]
    <3>0. challenge \in [code : AnyCode, attempts : 0..(MaxAttempts - 1)]
      BY <1>0 DEF DoorShape
    <3>1. CASE outcome = "expired"
      BY <1>0, <1>2, <3>0, <3>1 DEF Door!Consume, OnePlace
    <3>2. CASE outcome = "wrong"
      <4>1. /\ challenge # Door!NoCode
            /\ challenge' = IF tried >= MaxAttempts THEN Door!NoCode ELSE more
        BY <1>2, <3>2 DEF Door!Consume
      <4>2. more.code = challenge.code /\ challenge.code # Door!Typo
        BY <1>0, <3>0, <4>1 DEF OnePlace
      <4>3. CASE tried >= MaxAttempts
        BY <1>4, <4>1, <4>3
      <4>4. CASE ~(tried >= MaxAttempts)
        <5>1. more \in [code : AnyCode, attempts : 0..(MaxAttempts - 1)]
          BY <3>0, <4>4, AccountsAssumption
        <5> HIDE DEF more
        <5> QED BY <4>1, <4>2, <4>4, <5>1
      <4> QED BY <4>3, <4>4
    <3> QED BY <1>6, <3>1, <3>2
  <2>3. DoorShape'
    BY <1>0, <1>1, <1>3, <2>1, <2>2 DEF DoorShape
  <2>4. page'[p].code \in {page[p].code, Door!Typo}
    BY <2>1
  <2>5. OnePlace'
    BY <1>0, <1>1, <2>1, <2>2, <2>4, EndKeepsPlaces
  <2>6. PagesWait'
    BY <1>0, <2>1 DEF PagesWait, Door!NoCall, OthersStay
  <2>7. ASSUME NEW q \in Pages, page'[q].stage = "register" PROVE spoiled'
    BY <1>1, <2>1, <2>7 DEF OthersStay
  <2> QED BY <2>3, <2>5, <2>6, <2>7 DEF DoorInv, Door!RegistrationCanFinish
<1> QED BY <1>5, <1>6

\* A request with a code in hand goes on, and keeps it.
LEMMA CarriedOn ==
    ASSUME OnePlace, NEW p \in Pages,
           call[p].at \in Holding, call'[p].at \in Holding, call'[p].code = call[p].code,
           \A q \in Pages \ {p} : call'[q] = call[q],
           UNCHANGED <<challenge, page, sent, requests, admitted>>
    PROVE  OnePlace'
<1>1. \A q \in Pages, d \in Door!Codes : Holds(q, d)' <=> Holds(q, d)
  BY DEF Holds
<1>2. \A d \in Door!Codes : Unheard(d) => Unheard(d)'
  BY DEF Unheard
<1>3. \A q \in Pages : call'[q].at \in Holding \cup {"send"} => call'[q].code # Door!Typo
  BY DEF OnePlace
<1> QED BY <1>1, <1>2, <1>3 DEF OnePlace

LEMMA FindKeeps ==
    ASSUME DoorInv, NEW p \in Pages, Door!FindAccount(p)
    PROVE  DoorInv'
<1>0. DoorShape /\ OnePlace /\ PagesWait /\ Door!RegistrationCanFinish
  BY DEF DoorInv
<1>1. call[p].at = "find" /\ UNCHANGED <<challenge, account, sent, requests, admitted, spoiled>>
  BY DEF Door!FindAccount
<1>a. ASSUME NEW at \in {"tokens", "reissue", "create"}, Door!Go(p, at), UNCHANGED page,
             at = "reissue" => call[p].details = "none"
      PROVE  DoorInv'
  <2>1. /\ call' \in [Pages -> Call] /\ call'[p].at = at /\ call'[p].code = call[p].code
        /\ call'[p].details = call[p].details
        /\ \A q \in Pages \ {p} : call'[q] = call[q]
    BY <1>0, <1>a, GoMoves DEF RequestSteps
  <2>2. DoorShape'
    BY <1>0, <1>1, <1>a, <2>1 DEF DoorShape
  <2>3. OnePlace'
    BY <1>0, <1>1, <1>a, <2>1, CarriedOn DEF Holding
  <2>4. PagesWait' /\ Door!RegistrationCanFinish'
    <3>1. call'[p] # Door!NoCall
      BY <2>1 DEF Door!NoCall
    <3> QED BY <1>0, <1>1, <1>a, <2>1, <3>1 DEF PagesWait, Door!RegistrationCanFinish
  <2> QED BY <2>2, <2>3, <2>4 DEF DoorInv
<1>b. ASSUME Door!Fails(p, "BANNED") PROVE DoorInv'
  <2>1. /\ call' \in [Pages -> Call] /\ page' \in [Pages -> Page] /\ call'[p] = Door!NoCall
        /\ page'[p] = page[p] \/ page'[p] = [stage |-> "identify", code |-> Door!Typo]
        /\ page'[p].stage # "register" /\ OthersStay(p)
    BY <1>0, <1>b, FailsMoves
  <2>2. DoorShape'
    BY <1>0, <1>1, <2>1 DEF DoorShape
  <2>3. /\ page'[p].code \in {page[p].code, Door!Typo}
        /\ challenge' # Door!NoCode => challenge'.code # Door!Typo
    BY <1>0, <1>1, <2>1 DEF OnePlace
  <2>4. OnePlace'
    BY <1>0, <1>1, <2>1, <2>3, EndKeepsPlaces
  <2>5. PagesWait' /\ Door!RegistrationCanFinish'
    BY <1>0, <1>1, <2>1 DEF PagesWait, Door!RegistrationCanFinish, Door!NoCall, OthersStay
  <2> QED BY <2>2, <2>4, <2>5 DEF DoorInv
<1> QED BY <1>a, <1>b DEF Door!FindAccount

LEMMA GiveBackKeeps ==
    ASSUME DoorInv, NEW p \in Pages, Door!GiveTheCodeBack(p)
    PROVE  DoorInv'
<1>0. DoorShape /\ OnePlace /\ PagesWait /\ Door!RegistrationCanFinish
  BY DEF DoorInv
<1> DEFINE c == call[p].code
<1>1. /\ call[p].at = "reissue" /\ challenge' = [code |-> c, attempts |-> 0]
      /\ UNCHANGED <<account, sent, requests, admitted>>
      /\ spoiled' = (spoiled \/ \E q \in Pages \ {p} : page[q].stage = "register")
  BY DEF Door!GiveTheCodeBack, Door!Issue
<1>2. /\ call' \in [Pages -> Call] /\ call'[p] = Door!NoCall
      /\ \A q \in Pages \ {p} : call'[q] = call[q]
  BY <1>0, HangsMoves DEF Door!GiveTheCodeBack
<1>3. /\ page' \in [Pages -> Page] /\ page'[p].stage = "register"
      /\ page'[p].code = page[p].code /\ \A q \in Pages \ {p} : page'[q] = page[q]
  BY <1>0, ShowsMoves DEF Door!GiveTheCodeBack, DoorStages
<1>4. c \in Door!Codes /\ c # Door!Typo /\ page[p].code = c /\ spoiled' \in BOOLEAN
  BY <1>0, <1>1 DEF DoorShape, Call, AnyCode, OnePlace, Holding, PagesWait
<1>5. challenge'.code = c /\ challenge' \in [code : AnyCode, attempts : 0..(MaxAttempts - 1)]
  BY <1>1, <1>4, AccountsAssumption DEF AnyCode
<1>6. DoorShape'
  BY <1>0, <1>1, <1>2, <1>3, <1>4, <1>5 DEF DoorShape
<1>7. Holds(p, c)
  BY <1>1 DEF Holds, Holding
<1>8. admitted[c] = 0 /\ ~(c > requests) /\ \A q \in Pages : Holds(q, c) => q = p
  BY <1>0, <1>4, <1>7 DEF OnePlace, Unheard
<1>9. \A q \in Pages, d \in Door!Codes : Holds(q, d)' => Holds(q, d) /\ q # p
  BY <1>2 DEF Holds, Holding, Door!NoCall
<1> HIDE DEF c
<1>10. ASSUME NEW d \in Door!Codes
       PROVE  /\ admitted'[d] <= 1
              /\ challenge'.code = d => admitted'[d] = 0
              /\ \A q \in Pages : Holds(q, d)' => admitted'[d] = 0 /\ challenge'.code # d
              /\ \A q, r \in Pages : Holds(q, d)' /\ Holds(r, d)' => q = r
  BY <1>0, <1>1, <1>5, <1>8, <1>9 DEF OnePlace
<1>11. ASSUME NEW d \in Door!Codes, d > requests
       PROVE  admitted'[d] = 0 /\ challenge'.code # d /\ Unheard(d)'
  <2>1. d # c /\ d # Door!Typo
    BY <1>8, <1>11, AccountsAssumption DEF Door!Codes, Door!Typo
  <2> QED BY <1>0, <1>1, <1>2, <1>3, <1>5, <1>11, <2>1 DEF OnePlace, Unheard, Door!NoCall
<1>12. \A q \in Pages : call'[q].at \in Holding \cup {"send"} => call'[q].code # Door!Typo
  BY <1>0, <1>2 DEF OnePlace, Door!NoCall, Holding
<1>13. OnePlace'
  <2>1. challenge'.code # Door!Typo /\ requests' = requests
    BY <1>1, <1>4, <1>5
  <2> QED BY <1>10, <1>11, <1>12, <2>1 DEF OnePlace
<1>14. PagesWait'
  BY <1>0, <1>2, <1>3 DEF PagesWait, Door!NoCall
<1>15. ASSUME NEW q \in Pages, page'[q].stage = "register"
       PROVE  spoiled' \/ challenge'.code = page'[q].code
  BY <1>1, <1>3, <1>4, <1>5, <1>15
<1> QED BY <1>6, <1>13, <1>14, <1>15 DEF DoorInv, Door!RegistrationCanFinish

LEMMA RegisterKeeps ==
    ASSUME DoorInv, NEW p \in Pages, Door!Register(p)
    PROVE  DoorInv'
<1>0. DoorShape /\ OnePlace /\ PagesWait /\ Door!RegistrationCanFinish
  BY DEF DoorInv
<1>1. /\ call[p].at = "create" /\ UNCHANGED <<challenge, sent, requests, admitted>>
      /\ spoiled' = (spoiled \/ account' = account)
  BY DEF Door!Register
<1>a. ASSUME NEW error, Door!Fails(p, error), UNCHANGED account PROVE DoorInv'
  <2>1. /\ call' \in [Pages -> Call] /\ page' \in [Pages -> Page] /\ call'[p] = Door!NoCall
        /\ page'[p] = page[p] \/ page'[p] = [stage |-> "identify", code |-> Door!Typo]
        /\ OthersStay(p)
    BY <1>0, <1>a, FailsMoves
  <2>2. spoiled' = TRUE
    BY <1>1, <1>a
  <2>3. DoorShape'
    BY <1>0, <1>1, <1>a, <2>1, <2>2 DEF DoorShape
  <2>4. /\ page'[p].code \in {page[p].code, Door!Typo}
        /\ challenge' # Door!NoCode => challenge'.code # Door!Typo
    BY <1>0, <1>1, <2>1 DEF OnePlace
  <2>5. OnePlace'
    BY <1>0, <1>1, <2>1, <2>4, EndKeepsPlaces
  <2>6. PagesWait' /\ Door!RegistrationCanFinish'
    BY <1>0, <2>1, <2>2 DEF PagesWait, Door!RegistrationCanFinish, Door!NoCall, OthersStay
  <2> QED BY <2>3, <2>5, <2>6 DEF DoorInv
<1>b. ASSUME account' = "active", Door!Go(p, "tokens"), UNCHANGED page PROVE DoorInv'
  <2>1. /\ call' \in [Pages -> Call] /\ call'[p].at = "tokens" /\ call'[p].code = call[p].code
        /\ \A q \in Pages \ {p} : call'[q] = call[q]
    BY <1>0, <1>b, GoMoves DEF RequestSteps
  <2>2. DoorShape' /\ (spoiled => spoiled')
    BY <1>0, <1>1, <1>b, <2>1 DEF DoorShape
  <2>3. OnePlace'
    BY <1>0, <1>1, <1>b, <2>1, CarriedOn DEF Holding
  <2>4. PagesWait' /\ Door!RegistrationCanFinish'
    <3>1. call'[p] # Door!NoCall
      BY <2>1 DEF Door!NoCall
    <3> QED BY <1>0, <1>1, <1>b, <2>1, <2>2, <3>1 DEF PagesWait, Door!RegistrationCanFinish
  <2> QED BY <2>2, <2>3, <2>4 DEF DoorInv
<1> QED BY <1>a, <1>b DEF Door!Register

\* The code that was held is now used.
LEMMA TokensKeep ==
    ASSUME DoorInv, NEW p \in Pages, Door!IssueTokens(p)
    PROVE  DoorInv'
<1>0. DoorShape /\ OnePlace /\ PagesWait /\ Door!RegistrationCanFinish
  BY DEF DoorInv
<1> DEFINE c == call[p].code
           home == [stage |-> "identify", code |-> Door!Typo]
<1>1. /\ call[p].at = "tokens" /\ admitted' = [admitted EXCEPT ![c] = @ + 1]
      /\ page' = [page EXCEPT ![p] = home]
      /\ UNCHANGED <<challenge, account, sent, requests, spoiled>>
  BY DEF Door!IssueTokens
<1>2. /\ call' \in [Pages -> Call] /\ call'[p] = Door!NoCall
      /\ \A q \in Pages \ {p} : call'[q] = call[q]
  BY <1>0, HangsMoves DEF Door!IssueTokens
<1>3. home \in Page /\ home.stage = "identify" /\ home.code = Door!Typo
  BY DEF Page, DoorStages, AnyCode
<1> HIDE DEF home
<1>4. page' \in [Pages -> Page] /\ page'[p] = home /\ \A q \in Pages \ {p} : page'[q] = page[q]
  BY <1>0, <1>1, <1>3, PageMoves
<1>5. c \in Door!Codes /\ c # Door!Typo
  BY <1>0, <1>1 DEF DoorShape, Call, AnyCode, OnePlace, Holding
<1>6. Holds(p, c)
  BY <1>1 DEF Holds, Holding
<1>7. /\ admitted[c] = 0 /\ ~(c > requests) /\ challenge.code # c
      /\ \A q \in Pages : Holds(q, c) => q = p
  BY <1>0, <1>5, <1>6 DEF OnePlace, Unheard
<1>8. /\ admitted' \in [Door!Codes -> Nat] /\ admitted'[c] = 1
      /\ \A d \in Door!Codes : d # c => admitted'[d] = admitted[d]
  BY <1>0, <1>1, <1>5, <1>7 DEF DoorShape
<1>9. DoorShape'
  BY <1>0, <1>1, <1>2, <1>4, <1>8 DEF DoorShape
<1>10. \A q \in Pages, d \in Door!Codes : Holds(q, d)' => Holds(q, d) /\ q # p
  BY <1>2 DEF Holds, Holding, Door!NoCall
<1> HIDE DEF c
<1>11. ASSUME NEW d \in Door!Codes
       PROVE  /\ admitted'[d] <= 1
              /\ challenge'.code = d => admitted'[d] = 0
              /\ \A q \in Pages : Holds(q, d)' => admitted'[d] = 0 /\ challenge'.code # d
              /\ \A q, r \in Pages : Holds(q, d)' /\ Holds(r, d)' => q = r
  BY <1>0, <1>1, <1>7, <1>8, <1>10 DEF OnePlace
<1>12. ASSUME NEW d \in Door!Codes, d > requests
       PROVE  admitted'[d] = 0 /\ challenge'.code # d /\ Unheard(d)'
  <2>1. d # c /\ d # Door!Typo
    BY <1>7, <1>12, AccountsAssumption DEF Door!Codes, Door!Typo
  <2> QED BY <1>0, <1>1, <1>2, <1>3, <1>4, <1>8, <1>12, <2>1 DEF OnePlace, Unheard, Door!NoCall
<1>13. \A q \in Pages : call'[q].at \in Holding \cup {"send"} => call'[q].code # Door!Typo
  BY <1>0, <1>2 DEF OnePlace, Door!NoCall, Holding
<1>14. OnePlace'
  BY <1>0, <1>1, <1>11, <1>12, <1>13 DEF OnePlace
<1>15. PagesWait' /\ Door!RegistrationCanFinish'
  BY <1>0, <1>1, <1>2, <1>3, <1>4 DEF PagesWait, Door!RegistrationCanFinish, Door!NoCall
<1> QED BY <1>9, <1>14, <1>15 DEF DoorInv

LEMMA CrashKeeps ==
    ASSUME DoorInv, NEW p \in Pages, Door!Crash(p)
    PROVE  DoorInv'
<1>0. DoorShape /\ OnePlace /\ PagesWait
  BY DEF DoorInv
<1>1. spoiled' = TRUE /\ UNCHANGED <<challenge, account, page, sent, requests, admitted>>
  BY DEF Door!Crash
<1>2. /\ call' \in [Pages -> Call] /\ call'[p] = Door!NoCall /\ OthersStay(p)
  BY <1>0, <1>1, HangsMoves DEF Door!Crash, OthersStay
<1>3. DoorShape'
  BY <1>0, <1>1, <1>2 DEF DoorShape
<1>4. challenge' # Door!NoCode => challenge'.code # Door!Typo
  BY <1>0, <1>1 DEF OnePlace
<1>5. OnePlace'
  BY <1>0, <1>1, <1>2, <1>4, EndKeepsPlaces
<1> QED BY <1>0, <1>1, <1>2, <1>3, <1>5
        DEF DoorInv, PagesWait, Door!RegistrationCanFinish, Door!NoCall, OthersStay

\* Types, one place for each code, and the pages that wait: whatever is done.
LEMMA DoorStep ==
    DoorInv /\ [Door!Next]_(Door!vars) => DoorInv'
<1> SUFFICES ASSUME DoorInv, [Door!Next]_(Door!vars) PROVE DoorInv'
  OBVIOUS
<1>1. CASE UNCHANGED Door!vars
  BY <1>1 DEF Door!vars, DoorInv, DoorShape, OnePlace, Holds, Unheard, PagesWait,
     Door!RegistrationCanFinish
<1>2. CASE Door!Next
  BY <1>2, OutsideKeeps, SubmitKeeps, RequestKeeps, ConsumeKeeps, FindKeeps,
     GiveBackKeeps, RegisterKeeps, TokensKeep, CrashKeeps DEF Door!Next
<1> QED BY <1>1, <1>2

--------------------------------------------------------------------------------
(* Reports and bans: Safety is Moderation with the names of MCAccounts. *)

Statuses == {"active", "suspended", "banned"}

SafetyShape ==
    /\ report \in [ReportIds -> [status : Safety!ReportStatus \cup {"none", "filing"},
                                 urgent : BOOLEAN]]
    /\ penalty \in [ReportIds -> Nat]
    /\ ban \in [BanIds -> [permanent : BOOLEAN, inForce : BOOLEAN,
                           lifted : BOOLEAN, issued : BOOLEAN]]
    /\ standing \in Statuses
    /\ signedIn \in BOOLEAN /\ socket \in {"none", "admitted", "open"}
    /\ op \in [Moderators -> [at : {"idle", "resolve", "list", "project", "revoke", "sever",
                                    "listAfterLift", "restore"},
                              on : ReportIds \cup {NoReportId}, saw : Statuses]]
    /\ notices \in Nat
    /\ slipped \in BOOLEAN /\ raced \in BOOLEAN /\ unsettled \in BOOLEAN

\* A report costs standing when it is upheld, which it is once.
Charged == \A r \in ReportIds : penalty[r] <= 1 /\ (penalty[r] # 0 => report[r].status = "upheld")

\* A submission under way counts as a report already: its row will be inserted.
Pending(r) == Safety!Undecided(r) \/ report[r].status = "filing"

OnePending ==
    raced \/ \A q, r \in ReportIds :
        Pending(q) /\ Pending(r) /\ ~report[q].urgent /\ ~report[r].urgent => q = r

\* What a ban or a lift that runs alone has come to.
UnderBan == \E b \in BanIds : Safety!Active(b)

CarriedOut(m) ==
    /\ op[m].at \in {"list", "project", "revoke", "sever"} => UnderBan
    /\ op[m].at \in {"listAfterLift", "restore"} => ~UnderBan
    /\ op[m].at = "project" => op[m].saw # "active"
    /\ op[m].at = "restore" => op[m].saw = "active"
    /\ op[m].at \in {"revoke", "sever"} => standing # "active"
    /\ op[m].at = "sever" => ~signedIn /\ (socket = "admitted" => slipped)

\* ... and what holds when none is under way.
Quiet ==
    /\ UnderBan => standing # "active"
    /\ (\A b \in BanIds : ban[b].issued => ban[b].lifted) => standing = "active"
    /\ standing # "active" => ~signedIn /\ (socket # "none" => slipped)

Enforced ==
    /\ \A b \in BanIds : ban[b].inForce => ban[b].issued
    /\ ~unsettled =>
        /\ \A m, n \in Moderators : Safety!Enforcing(m) /\ Safety!Enforcing(n) => m = n
        /\ \A m \in Moderators : CarriedOut(m)
        /\ (\A m \in Moderators : ~Safety!Enforcing(m)) => Quiet

SafetyInv == SafetyShape /\ Charged /\ OnePending /\ Enforced

--------------------------------------------------------------------------------
\* The statuses a ban leaves: whoever is under one is not active.
LEMMA StatusFollows ==
    /\ Safety!StatusFromBans \in Statuses
    /\ UnderBan <=> Safety!StatusFromBans # "active"
BY DEF Safety!StatusFromBans, Statuses, UnderBan

LEMMA NoRows ==
    /\ Safety!NoReport \in [status : Safety!ReportStatus \cup {"none", "filing"},
                            urgent : BOOLEAN]
    /\ Safety!NoReport.status = "none"
    /\ Safety!NoBan.inForce = FALSE /\ Safety!NoBan.lifted = FALSE /\ Safety!NoBan.issued = FALSE
    /\ Safety!NoBan.permanent = FALSE
    /\ Safety!Idle.at = "idle" /\ Safety!Idle.on = NoReportId /\ Safety!Idle.saw = "active"
BY DEF Safety!NoReport, Safety!ReportStatus, Safety!NoBan, Safety!Idle

Op == [at : {"idle", "resolve", "list", "project", "revoke", "sever", "listAfterLift", "restore"},
       on : ReportIds \cup {NoReportId}, saw : Statuses]

LEMMA IdleIsOp == Safety!Idle \in Op
BY DEF Safety!Idle, Op, Statuses

\* A moderator's request moves to another step with what it has.
LEMMA RequestGoes ==
    ASSUME SafetyShape, NEW m \in Moderators, NEW step, Safety!Go(m, step),
           step \in {"idle", "resolve", "list", "project", "revoke", "sever",
                     "listAfterLift", "restore"}
    PROVE  /\ op' \in [Moderators -> Op] /\ op'[m].at = step
           /\ op'[m].on = op[m].on /\ op'[m].saw = op[m].saw
           /\ \A n \in Moderators \ {m} : op'[n] = op[n]
BY DEF SafetyShape, Safety!Go, Op

LEMMA RequestEnds ==
    ASSUME SafetyShape, NEW m \in Moderators, Safety!Ends(m)
    PROVE  /\ op' \in [Moderators -> Op] /\ op'[m] = Safety!Idle
           /\ \A n \in Moderators \ {m} : op'[n] = op[n]
BY IdleIsOp DEF SafetyShape, Safety!Ends, Op

--------------------------------------------------------------------------------
(* Reports. *)

Reporting ==
    \/ \E r \in ReportIds :
           Safety!SubmitReport(r) \/ Safety!CreateReport(r) \/ Safety!ClaimReport(r)
    \/ \E m \in Moderators, r \in ReportIds : Safety!ResolveReport(m, r)

\* The reports have one reporter; what moderators do to others leaves them alone.
LEMMA ReportsMove ==
    ASSUME SafetyShape, Reporting
    PROVE  /\ report' \in [ReportIds -> [status : Safety!ReportStatus \cup {"none", "filing"},
                                         urgent : BOOLEAN]]
           /\ penalty' \in [ReportIds -> Nat] /\ raced' \in BOOLEAN
           /\ Charged => Charged'
           /\ OnePending => OnePending'
<1>1. ASSUME NEW r \in ReportIds, Safety!SubmitReport(r)
      PROVE  /\ report' \in [ReportIds -> [status : Safety!ReportStatus \cup {"none", "filing"},
                                           urgent : BOOLEAN]]
             /\ penalty' \in [ReportIds -> Nat] /\ raced' \in BOOLEAN
             /\ Charged => Charged'
             /\ OnePending => OnePending'
  <2>1. PICK urgent \in BOOLEAN :
            /\ Safety!MaySubmit(urgent)
            /\ report' = [report EXCEPT ![r] = [status |-> "filing", urgent |-> urgent]]
    BY <1>1 DEF Safety!SubmitReport
  <2>2. /\ report[r] = Safety!NoReport /\ UNCHANGED penalty
        /\ raced' = (raced \/ \E q \in ReportIds : report[q].status = "filing")
    BY <1>1 DEF Safety!SubmitReport
  <2>3. /\ report' \in [ReportIds -> [status : Safety!ReportStatus \cup {"none", "filing"},
                                      urgent : BOOLEAN]]
        /\ report'[r].status = "filing" /\ report'[r].urgent = urgent
        /\ \A q \in ReportIds \ {r} : report'[q] = report[q]
    BY <2>1 DEF SafetyShape
  <2>4. Charged => Charged'
    BY <2>2, <2>3, NoRows DEF Charged
  <2>5. OnePending => OnePending'
    <3> SUFFICES ASSUME OnePending, ~raced', NEW p \in ReportIds, NEW q \in ReportIds,
                        Pending(p)', Pending(q)', ~report'[p].urgent, ~report'[q].urgent
                 PROVE  p = q
      BY DEF OnePending
    <3>1. ~raced /\ \A o \in ReportIds : report[o].status # "filing"
      BY <2>2
    <3>2. \A o \in ReportIds \ {r} : Pending(o)' <=> Pending(o)
      BY <2>3 DEF Pending, Safety!Undecided
    <3>3. ~urgent => \A o \in ReportIds : ~Pending(o)
      BY <2>1, <3>1 DEF Safety!MaySubmit, Pending
    <3> QED BY <2>3, <3>1, <3>2, <3>3 DEF OnePending
  <2> QED BY <2>2, <2>3, <2>4, <2>5 DEF SafetyShape
<1>2. ASSUME NEW r \in ReportIds, Safety!CreateReport(r) \/ Safety!ClaimReport(r)
      PROVE  /\ report' \in [ReportIds -> [status : Safety!ReportStatus \cup {"none", "filing"},
                                           urgent : BOOLEAN]]
             /\ penalty' \in [ReportIds -> Nat] /\ raced' \in BOOLEAN
             /\ Charged => Charged'
             /\ OnePending => OnePending'
  <2>1. /\ UNCHANGED <<penalty, raced>> /\ Pending(r) /\ report[r].status # "upheld"
        /\ \/ report' = [report EXCEPT ![r].status = "open"]
           \/ report' = [report EXCEPT ![r].status = "reviewing"]
    BY <1>2 DEF Safety!CreateReport, Safety!ClaimReport, Safety!history, Pending,
           Safety!Undecided
  <2>2. /\ report' \in [ReportIds -> [status : Safety!ReportStatus \cup {"none", "filing"},
                                      urgent : BOOLEAN]]
        /\ report'[r].urgent = report[r].urgent
        /\ \A q \in ReportIds \ {r} : report'[q] = report[q]
    BY <2>1 DEF SafetyShape, Safety!ReportStatus
  <2>3. Charged => Charged'
    BY <2>1, <2>2 DEF Charged
  <2>4. \A q \in ReportIds : /\ Pending(q)' => Pending(q)
                             /\ report'[q].urgent = report[q].urgent
    BY <2>1, <2>2 DEF Pending, Safety!Undecided
  <2>5. OnePending => OnePending'
    BY <2>1, <2>4 DEF OnePending
  <2> QED BY <2>1, <2>2, <2>3, <2>5 DEF SafetyShape
<1>3. ASSUME NEW m \in Moderators, NEW r \in ReportIds, Safety!ResolveReport(m, r)
      PROVE  /\ report' \in [ReportIds -> [status : Safety!ReportStatus \cup {"none", "filing"},
                                           urgent : BOOLEAN]]
             /\ penalty' \in [ReportIds -> Nat] /\ raced' \in BOOLEAN
             /\ Charged => Charged'
             /\ OnePending => OnePending'
  <2>1. PICK outcome \in {"upheld", "dismissed"}, written \in BOOLEAN :
            /\ Safety!ResolveRow(r, outcome)
            /\ penalty' = IF outcome = "upheld" /\ written
                          THEN [penalty EXCEPT ![r] = @ + 1] ELSE penalty
    BY <1>3 DEF Safety!ResolveReport
  <2>2. Safety!Undecided(r) /\ report' = [report EXCEPT ![r].status = outcome] /\ UNCHANGED raced
    BY <1>3, <2>1 DEF Safety!ResolveRow, Safety!ResolveReport, Safety!history
  <2>3. /\ report' \in [ReportIds -> [status : Safety!ReportStatus \cup {"none", "filing"},
                                      urgent : BOOLEAN]]
        /\ report'[r].status = outcome /\ report'[r].urgent = report[r].urgent
        /\ \A q \in ReportIds \ {r} : report'[q] = report[q]
    BY <2>2 DEF SafetyShape, Safety!ReportStatus
  <2>4. /\ penalty' \in [ReportIds -> Nat]
        /\ \A q \in ReportIds \ {r} : penalty'[q] = penalty[q]
        /\ penalty'[r] \in {penalty[r], penalty[r] + 1}
        /\ penalty'[r] # penalty[r] => outcome = "upheld"
    BY <2>1 DEF SafetyShape
  <2>5. Charged => Charged'
    <3> SUFFICES ASSUME Charged, NEW q \in ReportIds
                 PROVE  penalty'[q] <= 1 /\ (penalty'[q] # 0 => report'[q].status = "upheld")
      BY DEF Charged
    <3>1. CASE q = r
      <4>1. penalty[r] = 0
        BY <2>2 DEF Charged, Safety!Undecided
      <4> QED BY <2>3, <2>4, <3>1, <4>1
    <3>2. CASE q # r
      BY <2>3, <2>4, <3>2 DEF Charged
    <3> QED BY <3>1, <3>2
  <2>6. \A q \in ReportIds : /\ Pending(q)' => Pending(q)
                             /\ report'[q].urgent = report[q].urgent
    BY <2>2, <2>3 DEF Pending, Safety!Undecided
  <2>7. OnePending => OnePending'
    BY <2>2, <2>6 DEF OnePending
  <2> QED BY <2>2, <2>3, <2>4, <2>5, <2>7 DEF SafetyShape
<1> QED BY <1>1, <1>2, <1>3 DEF Reporting

LEMMA ReportsRest ==
    ASSUME UNCHANGED <<report, penalty, raced>>
    PROVE  /\ Charged => Charged'
           /\ OnePending => OnePending'
BY DEF Charged, OnePending, Pending, Safety!Undecided

--------------------------------------------------------------------------------
(* Bans. *)

LEMMA AtHand ==
    ASSUME NEW m \in Moderators, op[m].at \in {"idle", "resolve"}
    PROVE  ~Safety!Enforcing(m) /\ CarriedOut(m)
BY DEF Safety!Enforcing, CarriedOut

\* A request that runs alone answers for what it has come to.
LEMMA OneMoves ==
    ASSUME SafetyShape, Enforced, NEW m \in Moderators,
           op' \in [Moderators -> Op],
           \A n \in Moderators \ {m} : op'[n] = op[n],
           \A b \in BanIds : ban'[b].inForce => ban'[b].issued,
           ~unsettled' => /\ ~unsettled
                          /\ \A n \in Moderators \ {m} : ~Safety!Enforcing(n)
                          /\ CarriedOut(m)'
                          /\ ~Safety!Enforcing(m)' => Quiet'
    PROVE  Enforced'
<1> SUFFICES ASSUME ~unsettled'
             PROVE  /\ \A n, o \in Moderators :
                           Safety!Enforcing(n)' /\ Safety!Enforcing(o)' => n = o
                    /\ \A n \in Moderators : CarriedOut(n)'
                    /\ (\A n \in Moderators : ~Safety!Enforcing(n)') => Quiet'
  BY DEF Enforced
<1>1. ASSUME NEW n \in Moderators \ {m}
      PROVE  ~Safety!Enforcing(n)' /\ CarriedOut(n)'
  <2>1. op'[n] = op[n] /\ ~Safety!Enforcing(n) /\ op[n] \in Op
    BY DEF SafetyShape, Op
  <2>2. op'[n].at \in {"idle", "resolve"}
    BY <2>1 DEF Safety!Enforcing, Op
  <2> QED BY <2>2 DEF Safety!Enforcing, CarriedOut
<1> QED BY <1>1

\* Who is not enforcing and does not begin to leaves the bans alone.
LEMMA Unenforced ==
    ASSUME SafetyShape, Enforced, NEW m \in Moderators, ~Safety!Enforcing(m),
           op' \in [Moderators -> Op], op'[m].at \in {"idle", "resolve"},
           \A n \in Moderators \ {m} : op'[n] = op[n],
           UNCHANGED <<ban, standing, signedIn, socket, slipped, unsettled>>
    PROVE  Enforced'
<1>1. op'[m].at \notin {"list", "project", "revoke", "sever", "listAfterLift", "restore"}
  OBVIOUS
<1>2. ~Safety!Enforcing(m)' /\ CarriedOut(m)'
  BY <1>1 DEF Safety!Enforcing, CarriedOut
<1>3. \A n \in Moderators \ {m} : /\ Safety!Enforcing(n)' <=> Safety!Enforcing(n)
                                  /\ CarriedOut(n)' <=> CarriedOut(n)
  BY DEF Safety!Enforcing, CarriedOut, UnderBan, Safety!Active
<1>4. Quiet' <=> Quiet
  BY DEF Quiet, UnderBan, Safety!Active
<1>5. /\ \A b \in BanIds : ban'[b].inForce => ban'[b].issued
      /\ unsettled' = unsettled
  BY DEF Enforced
<1> SUFFICES ASSUME ~unsettled
             PROVE  /\ \A n, o \in Moderators :
                           Safety!Enforcing(n)' /\ Safety!Enforcing(o)' => n = o
                    /\ \A n \in Moderators : CarriedOut(n)'
                    /\ (\A n \in Moderators : ~Safety!Enforcing(n)') => Quiet'
  BY <1>5 DEF Enforced
<1> QED BY <1>2, <1>3, <1>4 DEF Enforced

\* What is done to the account or its socket, whoever is at work.
LEMMA OthersMove ==
    ASSUME Enforced, UNCHANGED <<op, ban, standing, unsettled>>,
           ~unsettled => /\ \A m \in Moderators : CarriedOut(m) => CarriedOut(m)'
                         /\ (\A m \in Moderators : ~Safety!Enforcing(m)) /\ Quiet => Quiet'
    PROVE  Enforced'
<1>1. \A m \in Moderators : Safety!Enforcing(m)' <=> Safety!Enforcing(m)
  BY DEF Safety!Enforcing
<1> QED BY <1>1 DEF Enforced

LEMMA BanStarts ==
    ASSUME SafetyShape, Enforced, NEW m \in Moderators,
           (\E permanent \in BOOLEAN : Safety!BanUser(m, permanent)) \/ Safety!LiftBan(m)
    PROVE  Enforced' /\ op' \in [Moderators -> Op]
<1>1. /\ op[m] = Safety!Idle
      /\ unsettled' = (unsettled \/ \E n \in Moderators : Safety!Enforcing(n))
  BY DEF Safety!BanUser, Safety!LiftBan, Safety!Start
<1>2. ~unsettled' => ~unsettled /\ \A n \in Moderators \ {m} : ~Safety!Enforcing(n)
  BY <1>1
<1>3. CASE \E permanent \in BOOLEAN : Safety!BanUser(m, permanent)
  <2>1. PICK permanent \in BOOLEAN, b \in BanIds :
          /\ Safety!Go(m, "list") /\ UNCHANGED <<standing, signedIn, socket>>
          /\ ban' = [ban EXCEPT ![b] = [permanent |-> permanent, inForce |-> TRUE,
                                        lifted |-> FALSE, issued |-> TRUE]]
    BY <1>3 DEF Safety!BanUser, Safety!account
  <2>2. /\ op' \in [Moderators -> Op] /\ op'[m].at = "list"
        /\ \A n \in Moderators \ {m} : op'[n] = op[n]
    BY <2>1, RequestGoes
  <2>3. /\ ban'[b].inForce /\ ~ban'[b].lifted /\ ban'[b].issued
        /\ \A c \in BanIds \ {b} : ban'[c] = ban[c]
    BY <2>1 DEF SafetyShape
  <2>4. \A c \in BanIds : ban'[c].inForce => ban'[c].issued
    BY <2>3 DEF Enforced
  <2>5. UnderBan'
    BY <2>3 DEF UnderBan, Safety!Active
  <2>6. CarriedOut(m)' /\ Safety!Enforcing(m)'
    BY <2>2, <2>5 DEF CarriedOut, Safety!Enforcing
  <2> QED BY <1>2, <2>2, <2>4, <2>6, OneMoves
<1>4. CASE Safety!LiftBan(m)
  <2>1. /\ Safety!Go(m, "listAfterLift") /\ UNCHANGED <<standing, signedIn, socket>>
        /\ ban' = [b \in BanIds |-> [ban[b] EXCEPT !.lifted = ban[b].issued]]
    BY <1>4 DEF Safety!LiftBan, Safety!account
  <2>2. /\ op' \in [Moderators -> Op] /\ op'[m].at = "listAfterLift"
        /\ \A n \in Moderators \ {m} : op'[n] = op[n]
    BY <2>1, RequestGoes
  <2>3. \A b \in BanIds : /\ ban'[b].inForce = ban[b].inForce /\ ban'[b].issued = ban[b].issued
                          /\ ban'[b].lifted = ban[b].issued
    BY <2>1 DEF SafetyShape
  <2>4. \A b \in BanIds : ban'[b].inForce => ban'[b].issued
    BY <2>3 DEF Enforced
  <2>5. ~UnderBan'
    BY <2>3 DEF UnderBan, Safety!Active, Enforced
  <2>6. CarriedOut(m)' /\ Safety!Enforcing(m)'
    BY <2>2, <2>5 DEF CarriedOut, Safety!Enforcing
  <2> QED BY <1>2, <2>2, <2>4, <2>6, OneMoves
<1> QED BY <1>3, <1>4

LEMMA BanGoesOn ==
    ASSUME SafetyShape, Enforced, NEW m \in Moderators,
           \/ Safety!ListBans(m) \/ Safety!UpdateStatus(m)
           \/ Safety!RevokeAllSessions(m) \/ Safety!EjectFromEverywhere(m)
    PROVE  Enforced' /\ op' \in [Moderators -> Op] /\ standing' \in Statuses
<1>1. Safety!Enforcing(m) /\ UNCHANGED <<ban, unsettled>> /\ op[m] \in Op
  BY DEF Safety!ListBans, Safety!UpdateStatus, Safety!RevokeAllSessions,
         Safety!EjectFromEverywhere, Safety!At, Safety!history, Safety!Enforcing,
         SafetyShape, Op
<1>2. /\ ~unsettled => /\ \A n \in Moderators \ {m} : ~Safety!Enforcing(n)
                       /\ CarriedOut(m)
      /\ \A b \in BanIds : ban'[b].inForce => ban'[b].issued
  BY <1>1 DEF Enforced
<1>3. UnderBan' <=> UnderBan
  BY <1>1 DEF UnderBan, Safety!Active
<1>4. CASE Safety!ListBans(m)
  <2> DEFINE next == [op[m] EXCEPT !.at = IF @ = "list" THEN "project" ELSE "restore",
                                   !.saw = Safety!StatusFromBans]
  <2>1. /\ op[m].at \in {"list", "listAfterLift"} /\ op' = [op EXCEPT ![m] = next]
        /\ UNCHANGED <<standing, signedIn, socket, slipped>>
    BY <1>4 DEF Safety!ListBans, Safety!account, Safety!history, SafetyShape
  <2>2. /\ next \in Op /\ next.saw = Safety!StatusFromBans
        /\ op[m].at = "list" => next.at = "project"
        /\ op[m].at = "listAfterLift" => next.at = "restore"
    BY <1>1, <2>1, StatusFollows DEF Op
  <2> HIDE DEF next
  <2>3. /\ op' \in [Moderators -> Op] /\ op'[m] = next
        /\ \A n \in Moderators \ {m} : op'[n] = op[n]
    BY <2>1, <2>2 DEF SafetyShape, Op
  <2>4. CarriedOut(m) => CarriedOut(m)'
    BY <1>3, <2>1, <2>2, <2>3, StatusFollows DEF CarriedOut
  <2>5. Safety!Enforcing(m)'
    BY <2>1, <2>2, <2>3 DEF Safety!Enforcing
  <2> QED BY <1>1, <1>2, <2>1, <2>3, <2>4, <2>5, OneMoves DEF SafetyShape
<1>5. CASE Safety!UpdateStatus(m) /\ op[m].at = "project"
  <2>1. /\ standing' = op[m].saw /\ Safety!Go(m, "revoke")
    BY <1>5 DEF Safety!UpdateStatus, Safety!At
  <2>2. /\ op' \in [Moderators -> Op] /\ op'[m].at = "revoke"
        /\ \A n \in Moderators \ {m} : op'[n] = op[n]
    BY <2>1, RequestGoes
  <2>3. CarriedOut(m) => CarriedOut(m)'
    BY <1>3, <1>5, <2>1, <2>2 DEF CarriedOut
  <2>4. Safety!Enforcing(m)' /\ standing' \in Statuses
    BY <1>1, <2>1, <2>2 DEF Safety!Enforcing, Op
  <2> QED BY <1>1, <1>2, <2>2, <2>3, <2>4, OneMoves
<1>6. CASE Safety!UpdateStatus(m) /\ op[m].at = "restore"
  <2>1. /\ standing' = op[m].saw /\ Safety!Ends(m)
    BY <1>6 DEF Safety!UpdateStatus, Safety!At
  <2>2. /\ op' \in [Moderators -> Op] /\ op'[m].at = "idle"
        /\ \A n \in Moderators \ {m} : op'[n] = op[n]
    BY <2>1, RequestEnds, NoRows
  <2>3. CarriedOut(m)'
    BY <2>2 DEF CarriedOut
  <2>4. CarriedOut(m) => standing' = "active" /\ ~UnderBan'
    BY <1>3, <1>6, <2>1 DEF CarriedOut
  <2>5. CarriedOut(m) => Quiet'
    BY <2>4 DEF Quiet
  <2>6. standing' \in Statuses
    BY <1>1, <2>1 DEF Op
  <2> QED BY <1>1, <1>2, <2>2, <2>3, <2>5, <2>6, OneMoves
<1>7. CASE Safety!RevokeAllSessions(m)
  <2>1. /\ op[m].at = "revoke" /\ signedIn' = FALSE /\ Safety!Go(m, "sever")
        /\ slipped' = (slipped \/ socket = "admitted")
        /\ UNCHANGED <<standing, socket>>
    BY <1>7 DEF Safety!RevokeAllSessions, Safety!At
  <2>2. /\ op' \in [Moderators -> Op] /\ op'[m].at = "sever"
        /\ \A n \in Moderators \ {m} : op'[n] = op[n]
    BY <2>1, RequestGoes
  <2>3. CarriedOut(m) => CarriedOut(m)'
    BY <1>3, <2>1, <2>2 DEF CarriedOut
  <2>4. Safety!Enforcing(m)' /\ standing' \in Statuses
    BY <2>1, <2>2 DEF Safety!Enforcing, SafetyShape
  <2> QED BY <1>1, <1>2, <2>2, <2>3, <2>4, OneMoves
<1>8. CASE Safety!EjectFromEverywhere(m)
  <2>1. /\ op[m].at = "sever" /\ Safety!Ends(m)
        /\ socket' = IF socket = "open" THEN "none" ELSE socket
        /\ UNCHANGED <<standing, signedIn, slipped>>
    BY <1>8 DEF Safety!EjectFromEverywhere, Safety!At, Safety!DisconnectUser,
           Safety!account, Safety!history
  <2>2. /\ op' \in [Moderators -> Op] /\ op'[m].at = "idle"
        /\ \A n \in Moderators \ {m} : op'[n] = op[n]
    BY <2>1, RequestEnds, NoRows
  <2>3. CarriedOut(m)'
    BY <2>2 DEF CarriedOut
  <2>4. CarriedOut(m) => UnderBan' /\ standing' # "active" /\ ~signedIn'
                      /\ (socket' # "none" => slipped')
    BY <1>3, <2>1 DEF CarriedOut, SafetyShape
  <2>5. UnderBan' => ~\A b \in BanIds : ban'[b].issued => ban'[b].lifted
    BY <1>2 DEF UnderBan, Safety!Active
  <2>6. CarriedOut(m) => Quiet'
    BY <2>4, <2>5 DEF Quiet
  <2> QED BY <1>1, <1>2, <2>1, <2>2, <2>3, <2>6, OneMoves DEF SafetyShape
<1>9. Safety!UpdateStatus(m) => op[m].at \in {"project", "restore"}
  BY DEF Safety!UpdateStatus
<1> QED BY <1>4, <1>5, <1>6, <1>7, <1>8, <1>9

\* A suspension runs out, the bus delivers, the person comes and goes.
LEMMA PeopleMove ==
    ASSUME SafetyShape, Enforced,
           \/ \E b \in BanIds : Safety!BanExpires(b)
           \/ Safety!moderationSubscriber \/ Safety!SignIn \/ Safety!Authenticate
           \/ Safety!Connected \/ Safety!Disconnect \/ Safety!Event
    PROVE  Enforced'
<1>1. ASSUME NEW b \in BanIds, Safety!BanExpires(b)
      PROVE  Enforced'
  <2>1. /\ ban[b].inForce /\ ~ban[b].lifted /\ \A m \in Moderators : ~Safety!Enforcing(m)
        /\ ban' = [ban EXCEPT ![b].inForce = FALSE]
        /\ UNCHANGED <<standing, signedIn, socket, op, slipped, unsettled>>
    BY <1>1 DEF Safety!BanExpires, Safety!Active, Safety!account, Safety!history
  <2>2. \A c \in BanIds : /\ ban'[c].lifted = ban[c].lifted /\ ban'[c].issued = ban[c].issued
                          /\ ban'[c].inForce => ban[c].inForce
    BY <2>1 DEF SafetyShape
  <2>3. \A m \in Moderators : ~Safety!Enforcing(m)' /\ op[m].at \in {"idle", "resolve"}
    BY <2>1 DEF Safety!Enforcing, SafetyShape
  <2>4. \A m \in Moderators : CarriedOut(m)'
    BY <2>1, <2>3 DEF CarriedOut
  <2>5. Quiet => Quiet'
    <3>1. UnderBan' => UnderBan
      BY <2>2 DEF UnderBan, Safety!Active
    <3>2. ~(\A c \in BanIds : ban'[c].issued => ban'[c].lifted)
      BY <2>1, <2>2 DEF Enforced
    <3> QED BY <2>1, <3>1, <3>2 DEF Quiet
  <2> QED BY <2>1, <2>2, <2>3, <2>4, <2>5 DEF Enforced
<1>2. CASE Safety!SignIn
  <2>1. /\ standing = "active" /\ UNCHANGED <<op, ban, standing, unsettled, socket, slipped>>
    BY <1>2 DEF Safety!SignIn, Safety!history
  <2>2. /\ \A m \in Moderators : CarriedOut(m) => CarriedOut(m)'
        /\ Quiet => Quiet'
    BY <2>1 DEF CarriedOut, Quiet, UnderBan, Safety!Active
  <2> QED BY <2>1, <2>2, OthersMove
<1>3. CASE Safety!Authenticate
  <2>1. /\ signedIn /\ standing = "active"
        /\ UNCHANGED <<op, ban, standing, unsettled, signedIn>>
    BY <1>3 DEF Safety!Authenticate, Safety!account
  <2>2. /\ \A m \in Moderators : CarriedOut(m) => CarriedOut(m)'
        /\ Quiet => Quiet'
    BY <2>1 DEF CarriedOut, Quiet, UnderBan, Safety!Active
  <2> QED BY <2>1, <2>2, OthersMove
<1>4. CASE Safety!Connected \/ Safety!moderationSubscriber
  <2>1. /\ UNCHANGED <<op, ban, standing, unsettled, signedIn, slipped>>
        /\ socket' # "admitted" \/ socket' = socket
        /\ socket' # "none" => socket # "none"
    BY <1>4 DEF Safety!Connected, Safety!moderationSubscriber, Safety!DisconnectUser,
           Safety!account, Safety!history
  <2>2. /\ \A m \in Moderators : CarriedOut(m) => CarriedOut(m)'
        /\ Quiet => Quiet'
    BY <2>1 DEF CarriedOut, Quiet, UnderBan, Safety!Active
  <2> QED BY <2>1, <2>2, OthersMove
<1>5. CASE Safety!Disconnect \/ Safety!Event
  <2>1. UNCHANGED <<op, ban, standing, unsettled, signedIn>> /\ socket' = "none"
    BY <1>5 DEF Safety!Disconnect, Safety!Event, Safety!account
  <2>2. /\ \A m \in Moderators : CarriedOut(m) => CarriedOut(m)'
        /\ Quiet => Quiet'
    BY <2>1 DEF CarriedOut, Quiet, UnderBan, Safety!Active
  <2> QED BY <2>1, <2>2, OthersMove
<1> QED BY <1>1, <1>2, <1>3, <1>4, <1>5

--------------------------------------------------------------------------------
(* Every step. *)

\* Who is at work on a report, or stops, is not at work on a ban.
LEMMA ReviewersMove ==
    ASSUME SafetyShape, Enforced,
           \/ Reporting
           \/ \E m \in Moderators, r \in ReportIds : Safety!ReadReport(m, r)
           \/ \E m \in Moderators : Safety!ResolveRefused(m) \/ Safety!Stop(m)
    PROVE  Enforced' /\ op' \in [Moderators -> Op]
<1>1. ASSUME NEW r \in ReportIds,
             Safety!SubmitReport(r) \/ Safety!CreateReport(r) \/ Safety!ClaimReport(r)
      PROVE  Enforced' /\ op' \in [Moderators -> Op]
  <2>1. UNCHANGED <<op, ban, standing, signedIn, socket, slipped, unsettled>>
    BY <1>1 DEF Safety!SubmitReport, Safety!CreateReport, Safety!ClaimReport,
           Safety!account, Safety!history
  <2>2. /\ \A m \in Moderators : CarriedOut(m) => CarriedOut(m)'
        /\ Quiet => Quiet'
    BY <2>1 DEF CarriedOut, Quiet, UnderBan, Safety!Active
  <2> QED BY <2>1, <2>2, OthersMove DEF SafetyShape, Op
<1>2. ASSUME NEW m \in Moderators, op[m].at = "resolve", Safety!Ends(m),
             UNCHANGED <<ban, standing, signedIn, socket, slipped, unsettled>>
      PROVE  Enforced' /\ op' \in [Moderators -> Op]
  <2>1. /\ op' \in [Moderators -> Op] /\ op'[m].at = "idle"
        /\ \A n \in Moderators \ {m} : op'[n] = op[n]
    BY <1>2, RequestEnds, NoRows
  <2> QED BY <1>2, <2>1, AtHand, Unenforced
<1>3. ASSUME NEW m \in Moderators, NEW r \in ReportIds, Safety!ResolveReport(m, r)
      PROVE  Enforced' /\ op' \in [Moderators -> Op]
  BY <1>2, <1>3 DEF Safety!ResolveReport, Safety!At, Safety!account, Safety!history
<1>4. ASSUME NEW m \in Moderators, Safety!ResolveRefused(m)
      PROVE  Enforced' /\ op' \in [Moderators -> Op]
  BY <1>2, <1>4 DEF Safety!ResolveRefused, Safety!At, Safety!account, Safety!history
<1>5. ASSUME NEW m \in Moderators, NEW r \in ReportIds, Safety!ReadReport(m, r)
      PROVE  Enforced' /\ op' \in [Moderators -> Op]
  <2> DEFINE next == [op[m] EXCEPT !.at = "resolve", !.on = r]
  <2>1. /\ op[m] = Safety!Idle /\ op' = [op EXCEPT ![m] = next]
        /\ UNCHANGED <<ban, standing, signedIn, socket, slipped, unsettled>>
    BY <1>5 DEF Safety!ReadReport, Safety!account, Safety!history, SafetyShape
  <2>2. next \in Op /\ next.at = "resolve"
    BY <2>1, IdleIsOp DEF Op
  <2> HIDE DEF next
  <2>3. /\ op' \in [Moderators -> Op] /\ op'[m].at = "resolve"
        /\ \A n \in Moderators \ {m} : op'[n] = op[n]
    BY <2>1, <2>2 DEF SafetyShape, Op
  <2> QED BY <2>1, <2>3, NoRows, AtHand, Unenforced
<1>6. ASSUME NEW m \in Moderators, Safety!Stop(m)
      PROVE  Enforced' /\ op' \in [Moderators -> Op]
  <2>1. /\ Safety!Ends(m) /\ unsettled' = (unsettled \/ Safety!Enforcing(m))
        /\ UNCHANGED <<ban, standing, signedIn, socket, slipped>>
    BY <1>6 DEF Safety!Stop, Safety!account
  <2>2. /\ op' \in [Moderators -> Op] /\ op'[m].at = "idle"
        /\ \A n \in Moderators \ {m} : op'[n] = op[n]
    BY <2>1, RequestEnds, NoRows
  <2>3. CASE Safety!Enforcing(m)
    <3>1. unsettled' /\ \A b \in BanIds : ban'[b].inForce => ban'[b].issued
      BY <2>1, <2>3 DEF Enforced
    <3> QED BY <2>2, <3>1 DEF Enforced
  <2>4. CASE ~Safety!Enforcing(m)
    <3>1. unsettled' = unsettled
      BY <2>1, <2>4 DEF SafetyShape
    <3> QED BY <2>1, <2>2, <2>4, <3>1, Unenforced
  <2> QED BY <2>2, <2>3, <2>4
<1> QED BY <1>1, <1>3, <1>4, <1>5, <1>6 DEF Reporting

LEMMA SafetyInit ==
    ASSUME Safety!Init
    PROVE  SafetyInv
<1>1. SafetyShape
  <2>1. /\ report \in [ReportIds -> [status : Safety!ReportStatus \cup {"none", "filing"},
                                     urgent : BOOLEAN]]
        /\ penalty \in [ReportIds -> Nat]
    BY NoRows DEF Safety!Init
  <2>2. op \in [Moderators -> Op]
    BY IdleIsOp DEF Safety!Init
  <2>3. ban \in [BanIds -> [permanent : BOOLEAN, inForce : BOOLEAN,
                            lifted : BOOLEAN, issued : BOOLEAN]]
    BY DEF Safety!Init, Safety!NoBan
  <2> QED BY <2>1, <2>2, <2>3 DEF Safety!Init, SafetyShape, Op, Statuses
<1>2. Charged /\ OnePending
  BY NoRows DEF Safety!Init, Charged, OnePending, Pending, Safety!Undecided
<1>3. Enforced
  <2>1. \A m \in Moderators : op[m].at = "idle"
    BY NoRows DEF Safety!Init
  <2>2. \A m \in Moderators : ~Safety!Enforcing(m) /\ CarriedOut(m)
    BY <2>1 DEF Safety!Enforcing, CarriedOut
  <2>3. Quiet
    BY NoRows DEF Safety!Init, Quiet, UnderBan, Safety!Active
  <2> QED BY <2>2, <2>3, NoRows DEF Safety!Init, Enforced
<1> QED BY <1>1, <1>2, <1>3 DEF SafetyInv

\* The other fields stay in their sets.
LEMMA ShapeKept ==
    ASSUME SafetyShape, Safety!Next,
           report' \in [ReportIds -> [status : Safety!ReportStatus \cup {"none", "filing"},
                                      urgent : BOOLEAN]],
           penalty' \in [ReportIds -> Nat], raced' \in BOOLEAN,
           op' \in [Moderators -> Op], standing' \in Statuses
    PROVE  SafetyShape'
<1>1. /\ ban' \in [BanIds -> [permanent : BOOLEAN, inForce : BOOLEAN,
                              lifted : BOOLEAN, issued : BOOLEAN]]
  <2>1. ASSUME NEW m \in Moderators, NEW permanent \in BOOLEAN, Safety!BanUser(m, permanent)
        PROVE  ban' \in [BanIds -> [permanent : BOOLEAN, inForce : BOOLEAN,
                                    lifted : BOOLEAN, issued : BOOLEAN]]
    BY <2>1 DEF Safety!BanUser, SafetyShape
  <2>2. ASSUME NEW m \in Moderators, Safety!LiftBan(m)
        PROVE  ban' \in [BanIds -> [permanent : BOOLEAN, inForce : BOOLEAN,
                                    lifted : BOOLEAN, issued : BOOLEAN]]
    BY SMTT(30), <2>2 DEF Safety!LiftBan, SafetyShape
  <2>3. ASSUME NEW b \in BanIds, Safety!BanExpires(b)
        PROVE  ban' \in [BanIds -> [permanent : BOOLEAN, inForce : BOOLEAN,
                                    lifted : BOOLEAN, issued : BOOLEAN]]
    BY ZenonT(30), <2>3 DEF Safety!BanExpires, SafetyShape
  <2> QED BY ZenonT(30), <2>1, <2>2, <2>3 DEF Safety!Next, SafetyShape, Safety!SubmitReport,
         Safety!CreateReport, Safety!ClaimReport, Safety!ReadReport, Safety!ResolveReport,
         Safety!ResolveRefused, Safety!ListBans, Safety!UpdateStatus,
         Safety!RevokeAllSessions, Safety!EjectFromEverywhere, Safety!Stop,
         Safety!moderationSubscriber, Safety!SignIn, Safety!Authenticate, Safety!Connected,
         Safety!Disconnect, Safety!Event
<1>2. signedIn' \in BOOLEAN /\ socket' \in {"none", "admitted", "open"} /\ notices' \in Nat
  <2>1. \/ UNCHANGED signedIn
        \/ signedIn' \in BOOLEAN
    BY DEF Safety!Next, Safety!SubmitReport, Safety!CreateReport, Safety!ClaimReport,
           Safety!ReadReport, Safety!ResolveReport, Safety!ResolveRefused, Safety!BanUser,
           Safety!LiftBan, Safety!ListBans, Safety!UpdateStatus, Safety!RevokeAllSessions,
           Safety!EjectFromEverywhere, Safety!Stop, Safety!BanExpires,
           Safety!moderationSubscriber, Safety!SignIn, Safety!Authenticate,
           Safety!Connected, Safety!Disconnect, Safety!Event, Safety!account
  <2>2. \/ UNCHANGED socket
        \/ socket' \in {"none", "admitted", "open"}
    BY DEF Safety!Next, Safety!SubmitReport, Safety!CreateReport, Safety!ClaimReport,
           Safety!ReadReport, Safety!ResolveReport, Safety!ResolveRefused, Safety!BanUser,
           Safety!LiftBan, Safety!ListBans, Safety!UpdateStatus, Safety!RevokeAllSessions,
           Safety!EjectFromEverywhere, Safety!Stop, Safety!BanExpires,
           Safety!moderationSubscriber, Safety!SignIn, Safety!Authenticate,
           Safety!Connected, Safety!Disconnect, Safety!Event, Safety!DisconnectUser
  <2>3. \/ UNCHANGED notices
        \/ notices' = notices + 1
        \/ notices > 0 /\ notices' = notices - 1
    BY DEF Safety!Next, Safety!SubmitReport, Safety!CreateReport, Safety!ClaimReport,
           Safety!ReadReport, Safety!ResolveReport, Safety!ResolveRefused, Safety!BanUser,
           Safety!LiftBan, Safety!ListBans, Safety!UpdateStatus, Safety!RevokeAllSessions,
           Safety!EjectFromEverywhere, Safety!Stop, Safety!BanExpires,
           Safety!moderationSubscriber, Safety!SignIn, Safety!Authenticate,
           Safety!Connected, Safety!Disconnect, Safety!Event
  <2> QED BY <2>1, <2>2, <2>3 DEF SafetyShape
<1>3. slipped' \in BOOLEAN /\ unsettled' \in BOOLEAN
  BY DEF SafetyShape, Safety!Next, Safety!SubmitReport, Safety!CreateReport,
         Safety!ClaimReport, Safety!ReadReport, Safety!ResolveReport, Safety!ResolveRefused,
         Safety!BanUser, Safety!LiftBan, Safety!ListBans, Safety!UpdateStatus,
         Safety!RevokeAllSessions, Safety!EjectFromEverywhere, Safety!Stop,
         Safety!BanExpires, Safety!moderationSubscriber, Safety!SignIn, Safety!Authenticate,
         Safety!Connected, Safety!Disconnect, Safety!Event, Safety!history, Safety!Start
<1> QED BY <1>1, <1>2, <1>3 DEF SafetyShape, Op

LEMMA SafetyStep ==
    SafetyInv /\ [Safety!Next]_(Safety!vars) => SafetyInv'
<1> SUFFICES ASSUME SafetyInv, [Safety!Next]_(Safety!vars)
             PROVE  SafetyInv'
  OBVIOUS
<1>0. SafetyShape /\ Charged /\ OnePending /\ Enforced
  BY DEF SafetyInv
<1>1. CASE UNCHANGED Safety!vars
  <2>1. UNCHANGED <<report, ban, standing, penalty, signedIn, socket, op, notices,
                    slipped, raced, unsettled>>
    BY <1>1 DEF Safety!vars
  <2>2. SafetyShape' /\ Charged' /\ OnePending'
    BY <1>0, <2>1, ReportsRest DEF SafetyShape
  <2>3. Enforced'
    BY <1>0, <2>1 DEF Enforced, Safety!Enforcing, CarriedOut, Quiet, UnderBan, Safety!Active
  <2> QED BY <2>2, <2>3 DEF SafetyInv
<1>2. CASE Safety!Next
  <2>1. CASE Reporting
    <3>1. /\ report' \in [ReportIds -> [status : Safety!ReportStatus \cup {"none", "filing"},
                                        urgent : BOOLEAN]]
          /\ penalty' \in [ReportIds -> Nat] /\ raced' \in BOOLEAN
          /\ Charged' /\ OnePending'
      BY <1>0, <2>1, ReportsMove
    <3>2. Enforced' /\ op' \in [Moderators -> Op]
      BY <1>0, <2>1, ReviewersMove
    <3>3. UNCHANGED standing
      BY <2>1 DEF Reporting, Safety!SubmitReport, Safety!CreateReport, Safety!ClaimReport,
             Safety!ResolveReport, Safety!account
    <3>4. SafetyShape'
      BY <1>0, <1>2, <3>1, <3>2, <3>3, ShapeKept DEF SafetyShape
    <3> QED BY <3>1, <3>2, <3>4 DEF SafetyInv
  <2>2. ASSUME UNCHANGED <<report, penalty, raced>>, Enforced', op' \in [Moderators -> Op],
               standing' \in Statuses
        PROVE  SafetyInv'
    <3>1. SafetyShape'
      BY <1>0, <1>2, <2>2, ShapeKept DEF SafetyShape
    <3> QED BY <1>0, <2>2, <3>1, ReportsRest DEF SafetyInv
  <2>3. CASE \/ \E m \in Moderators, r \in ReportIds : Safety!ReadReport(m, r)
             \/ \E m \in Moderators : Safety!ResolveRefused(m) \/ Safety!Stop(m)
    <3>1. UNCHANGED <<report, penalty, raced, standing>>
      BY <2>3 DEF Safety!ReadReport, Safety!ResolveRefused, Safety!Stop, Safety!account,
             Safety!history
    <3>2. Enforced' /\ op' \in [Moderators -> Op]
      BY <1>0, <2>3, ReviewersMove
    <3> QED BY <1>0, <2>2, <3>1, <3>2 DEF SafetyShape
  <2>4. CASE \E m \in Moderators :
                (\E permanent \in BOOLEAN : Safety!BanUser(m, permanent)) \/ Safety!LiftBan(m)
    <3>1. UNCHANGED <<report, penalty, raced, standing>>
      BY <2>4 DEF Safety!BanUser, Safety!LiftBan, Safety!account
    <3>2. Enforced' /\ op' \in [Moderators -> Op]
      BY <1>0, <2>4, BanStarts
    <3> QED BY <1>0, <2>2, <3>1, <3>2 DEF SafetyShape
  <2>5. CASE \E m \in Moderators :
                \/ Safety!ListBans(m) \/ Safety!UpdateStatus(m)
                \/ Safety!RevokeAllSessions(m) \/ Safety!EjectFromEverywhere(m)
    <3>1. UNCHANGED <<report, penalty, raced>>
      BY <2>5 DEF Safety!ListBans, Safety!UpdateStatus, Safety!RevokeAllSessions,
             Safety!EjectFromEverywhere, Safety!history
    <3>2. Enforced' /\ op' \in [Moderators -> Op] /\ standing' \in Statuses
      BY <1>0, <2>5, BanGoesOn
    <3> QED BY <2>2, <3>1, <3>2
  <2>6. CASE \/ \E b \in BanIds : Safety!BanExpires(b)
             \/ Safety!moderationSubscriber \/ Safety!SignIn \/ Safety!Authenticate
             \/ Safety!Connected \/ Safety!Disconnect \/ Safety!Event
    <3>1. UNCHANGED <<report, penalty, raced, standing, op>>
      BY <2>6 DEF Safety!BanExpires, Safety!moderationSubscriber, Safety!SignIn,
             Safety!Authenticate, Safety!Connected, Safety!Disconnect, Safety!Event,
             Safety!account, Safety!history
    <3>2. Enforced'
      BY <1>0, <2>6, PeopleMove
    <3>3. op' \in [Moderators -> Op] /\ standing' \in Statuses
      BY <1>0, <3>1 DEF SafetyShape, Op
    <3> QED BY <2>2, <3>1, <3>2, <3>3
  <2> QED BY <1>2, <2>1, <2>3, <2>4, <2>5, <2>6 DEF Safety!Next, Reporting
<1> QED BY <1>1, <1>2

LEMMA SafetyHolds ==
    SafetyInv => /\ Safety!TypeOK /\ Safety!PenaltyOnce /\ Safety!OneReportOpen
                 /\ Safety!BanRowsWin /\ Safety!BannedAreOut
<1> SUFFICES ASSUME SafetyInv
             PROVE  /\ Safety!TypeOK /\ Safety!PenaltyOnce /\ Safety!OneReportOpen
                    /\ Safety!BanRowsWin /\ Safety!BannedAreOut
  OBVIOUS
<1>0. SafetyShape /\ Charged /\ OnePending /\ Enforced
  BY DEF SafetyInv
<1>1. Safety!TypeOK
  BY <1>0 DEF SafetyShape, Safety!TypeOK, Statuses
<1>2. Safety!PenaltyOnce
  BY <1>0 DEF Safety!PenaltyOnce, Charged
<1>3. Safety!OneReportOpen
  BY <1>0 DEF Safety!OneReportOpen, OnePending, Pending
<1>4. Safety!Settled => Quiet
  BY <1>0 DEF Safety!Settled, Enforced
<1>5. Safety!BanRowsWin /\ Safety!BannedAreOut
  BY <1>4 DEF Safety!BanRowsWin, Safety!BannedAreOut, Quiet, UnderBan
<1> QED BY <1>1, <1>2, <1>3, <1>5

--------------------------------------------------------------------------------
(* A part seen from its proofs and the same part seen from MCAccounts are two *)
(* instances of one module: they begin alike and step alike.                  *)

\* Two tabs and one session.
LEMMA TwoTabsSteps == (TwoTabsP!Init <=> TwoTabs!Init) /\ (TwoTabsP!Next <=> TwoTabs!Next)
<1>1. TwoTabsP!Init <=> TwoTabs!Init
  BY DEF TwoTabsP!Init, TwoTabs!Init, TwoTabsP!NoCall, TwoTabs!NoCall, TwoTabsP!NoAccess,
         TwoTabs!NoAccess, TwoTabsP!Unissued, TwoTabs!Unissued, TwoTabsP!NoToken,
         TwoTabs!NoToken, TwoTabsP!Tokens, TwoTabs!Tokens, TwoTabsP!Actors, TwoTabs!Actors
<1>2. TwoTabsP!Tick <=> TwoTabs!Tick
  BY DEF TwoTabsP!Tick, TwoTabs!Tick, TwoTabsP!NoCall, TwoTabs!NoCall, TwoTabsP!NoToken,
         TwoTabs!NoToken, TwoTabsP!Actors, TwoTabs!Actors, TwoTabsP!browser,
         TwoTabs!browser, TwoTabsP!keys, TwoTabs!keys, TwoTabsP!history, TwoTabs!history
<1>3. TwoTabsP!Ban <=> TwoTabs!Ban
  BY DEF TwoTabsP!Ban, TwoTabs!Ban, TwoTabsP!Go, TwoTabs!Go, TwoTabsP!NoCall,
         TwoTabs!NoCall, TwoTabsP!NoToken, TwoTabs!NoToken, TwoTabsP!browser,
         TwoTabs!browser, TwoTabsP!keys, TwoTabs!keys, TwoTabsP!history, TwoTabs!history
<1>4. TwoTabsP!LiftBan <=> TwoTabs!LiftBan
  BY DEF TwoTabsP!LiftBan, TwoTabs!LiftBan, TwoTabsP!NoCall, TwoTabs!NoCall,
         TwoTabsP!NoToken, TwoTabs!NoToken, TwoTabsP!browser, TwoTabs!browser,
         TwoTabsP!keys, TwoTabs!keys, TwoTabsP!history, TwoTabs!history
<1>5. \A a \in Tabs \cup {"moderator"} :
          (TwoTabsP!ReadIndex(a) <=> TwoTabs!ReadIndex(a))
  BY DEF TwoTabsP!ReadIndex, TwoTabs!ReadIndex, TwoTabsP!Ends, TwoTabs!Ends, TwoTabsP!At,
         TwoTabs!At, TwoTabsP!Members, TwoTabs!Members, TwoTabsP!NoCall, TwoTabs!NoCall,
         TwoTabsP!NoToken, TwoTabs!NoToken, TwoTabsP!browser, TwoTabs!browser,
         TwoTabsP!keys, TwoTabs!keys, TwoTabsP!history, TwoTabs!history
<1>6. \A a \in Tabs \cup {"moderator"} : (TwoTabsP!Bury(a) <=> TwoTabs!Bury(a))
  BY DEF TwoTabsP!Bury, TwoTabs!Bury, TwoTabsP!InIssue, TwoTabs!InIssue,
         TwoTabsP!Tombstone, TwoTabs!Tombstone, TwoTabsP!Ends, TwoTabs!Ends, TwoTabsP!At,
         TwoTabs!At, TwoTabsP!Members, TwoTabs!Members, TwoTabsP!NoCall, TwoTabs!NoCall,
         TwoTabsP!NoToken, TwoTabs!NoToken, TwoTabsP!browser, TwoTabs!browser
<1>7. \A t \in Tabs : (TwoTabsP!Login(t) <=> TwoTabs!Login(t))
  BY DEF TwoTabsP!Login, TwoTabs!Login, TwoTabsP!Unused, TwoTabs!Unused, TwoTabsP!NoCall,
         TwoTabs!NoCall, TwoTabsP!NoAccess, TwoTabs!NoAccess, TwoTabsP!NoToken,
         TwoTabs!NoToken, TwoTabsP!Tokens, TwoTabs!Tokens, TwoTabsP!Actors,
         TwoTabs!Actors, TwoTabsP!browser, TwoTabs!browser, TwoTabsP!keys, TwoTabs!keys,
         TwoTabsP!history, TwoTabs!history
<1>8. \A t \in Tabs : (TwoTabsP!RefreshInTab(t) <=> TwoTabs!RefreshInTab(t))
  BY DEF TwoTabsP!RefreshInTab, TwoTabs!RefreshInTab, TwoTabsP!TabsOf, TwoTabs!TabsOf,
         TwoTabsP!Authentic, TwoTabs!Authentic, TwoTabsP!Revoked, TwoTabs!Revoked,
         TwoTabsP!NoCall, TwoTabs!NoCall, TwoTabsP!NoToken, TwoTabs!NoToken,
         TwoTabsP!browser, TwoTabs!browser, TwoTabsP!keys, TwoTabs!keys
<1>9. \A t \in Tabs : (TwoTabsP!IssueAccessToken(t) <=> TwoTabs!IssueAccessToken(t))
  BY DEF TwoTabsP!IssueAccessToken, TwoTabs!IssueAccessToken, TwoTabsP!Remember,
         TwoTabs!Remember, TwoTabsP!Go, TwoTabs!Go, TwoTabsP!At, TwoTabs!At,
         TwoTabsP!Members, TwoTabs!Members, TwoTabsP!browser, TwoTabs!browser,
         TwoTabsP!history, TwoTabs!history
<1>10. \A t \in Tabs : (TwoTabsP!IssueRefreshToken(t) <=> TwoTabs!IssueRefreshToken(t))
  BY DEF TwoTabsP!IssueRefreshToken, TwoTabs!IssueRefreshToken, TwoTabsP!Remember,
         TwoTabs!Remember, TwoTabsP!At, TwoTabs!At, TwoTabsP!Members, TwoTabs!Members,
         TwoTabsP!Unissued, TwoTabs!Unissued, TwoTabsP!Tokens, TwoTabs!Tokens,
         TwoTabsP!browser, TwoTabs!browser, TwoTabsP!history, TwoTabs!history,
         TwoTabsP!Cardinality, TwoTabs!Cardinality
<1>11. \A t \in Tabs : (TwoTabsP!Answer(t) <=> TwoTabs!Answer(t))
  BY DEF TwoTabsP!Answer, TwoTabs!Answer, TwoTabsP!Ends, TwoTabs!Ends, TwoTabsP!At,
         TwoTabs!At, TwoTabsP!NoCall, TwoTabs!NoCall, TwoTabsP!NoToken, TwoTabs!NoToken,
         TwoTabsP!keys, TwoTabs!keys, TwoTabsP!history, TwoTabs!history
<1>12. \A t \in Tabs : (TwoTabsP!Lose(t) <=> TwoTabs!Lose(t))
  BY DEF TwoTabsP!Lose, TwoTabs!Lose, TwoTabsP!SignedOut, TwoTabs!SignedOut,
         TwoTabsP!Ends, TwoTabs!Ends, TwoTabsP!NoCall, TwoTabs!NoCall, TwoTabsP!NoAccess,
         TwoTabs!NoAccess, TwoTabsP!NoToken, TwoTabs!NoToken, TwoTabsP!keys, TwoTabs!keys
<1>13. \A t \in Tabs : (TwoTabsP!Rotate(t) <=> TwoTabs!Rotate(t))
  BY DEF TwoTabsP!Rotate, TwoTabs!Rotate, TwoTabsP!SignedOut, TwoTabs!SignedOut,
         TwoTabsP!Ends, TwoTabs!Ends, TwoTabsP!Go, TwoTabs!Go, TwoTabsP!At, TwoTabs!At,
         TwoTabsP!NoCall, TwoTabs!NoCall, TwoTabsP!NoAccess, TwoTabs!NoAccess,
         TwoTabsP!NoToken, TwoTabs!NoToken
<1>14. \A t \in Tabs : (TwoTabsP!NotRevoked(t) <=> TwoTabs!NotRevoked(t))
  BY DEF TwoTabsP!NotRevoked, TwoTabs!NotRevoked, TwoTabsP!SignedOut, TwoTabs!SignedOut,
         TwoTabsP!Ends, TwoTabs!Ends, TwoTabsP!Go, TwoTabs!Go, TwoTabsP!At, TwoTabs!At,
         TwoTabsP!Revoked, TwoTabs!Revoked, TwoTabsP!NoCall, TwoTabs!NoCall,
         TwoTabsP!NoAccess, TwoTabs!NoAccess, TwoTabsP!NoToken, TwoTabs!NoToken,
         TwoTabsP!keys, TwoTabs!keys, TwoTabsP!history, TwoTabs!history
<1>15. \A t \in Tabs : (TwoTabsP!InGoodStanding(t) <=> TwoTabs!InGoodStanding(t))
  BY DEF TwoTabsP!InGoodStanding, TwoTabs!InGoodStanding, TwoTabsP!Go, TwoTabs!Go,
         TwoTabsP!At, TwoTabs!At, TwoTabsP!browser, TwoTabs!browser, TwoTabsP!keys,
         TwoTabs!keys
<1>16. \A t \in Tabs : (TwoTabsP!RevokeSession(t) <=> TwoTabs!RevokeSession(t))
  BY DEF TwoTabsP!RevokeSession, TwoTabs!RevokeSession, TwoTabsP!InIssue, TwoTabs!InIssue,
         TwoTabsP!Tombstone, TwoTabs!Tombstone, TwoTabsP!SignedOut, TwoTabs!SignedOut,
         TwoTabsP!Ends, TwoTabs!Ends, TwoTabsP!At, TwoTabs!At, TwoTabsP!NoCall,
         TwoTabs!NoCall, TwoTabsP!NoAccess, TwoTabs!NoAccess, TwoTabsP!NoToken,
         TwoTabs!NoToken
<1>17. \A t \in Tabs : (TwoTabsP!Reload(t) <=> TwoTabs!Reload(t))
  BY DEF TwoTabsP!Reload, TwoTabs!Reload, TwoTabsP!NoCall, TwoTabs!NoCall,
         TwoTabsP!NoAccess, TwoTabs!NoAccess, TwoTabsP!NoToken, TwoTabs!NoToken,
         TwoTabsP!keys, TwoTabs!keys, TwoTabsP!history, TwoTabs!history
<1>18. \A t \in Tabs, everywhere \in BOOLEAN :
          (TwoTabsP!Logout(t, everywhere) <=> TwoTabs!Logout(t, everywhere))
  BY DEF TwoTabsP!Logout, TwoTabs!Logout, TwoTabsP!Authentic, TwoTabs!Authentic,
         TwoTabsP!Revoked, TwoTabs!Revoked, TwoTabsP!NoCall, TwoTabs!NoCall,
         TwoTabsP!NoAccess, TwoTabs!NoAccess, TwoTabsP!NoToken, TwoTabs!NoToken,
         TwoTabsP!keys, TwoTabs!keys, TwoTabsP!history, TwoTabs!history
<1> QED BY <1>1, <1>2, <1>3, <1>4, <1>5, <1>6, <1>7, <1>8, <1>9, <1>10, <1>11, <1>12,
       <1>13, <1>14, <1>15, <1>16, <1>17, <1>18 DEF TwoTabsP!Next, TwoTabs!Next,
       TwoTabsP!Actors, TwoTabs!Actors

\* One tab and several sessions.
LEMMA OneTabSteps == (OneTabP!Init <=> OneTab!Init) /\ (OneTabP!Next <=> OneTab!Next)
<1>1. OneTabP!Init <=> OneTab!Init
  BY DEF OneTabP!Init, OneTab!Init, OneTabP!NoCall, OneTab!NoCall, OneTabP!NoAccess,
         OneTab!NoAccess, OneTabP!Unissued, OneTab!Unissued, OneTabP!NoToken,
         OneTab!NoToken, OneTabP!Tokens, OneTab!Tokens, OneTabP!Actors, OneTab!Actors
<1>2. OneTabP!Tick <=> OneTab!Tick
  BY DEF OneTabP!Tick, OneTab!Tick, OneTabP!NoCall, OneTab!NoCall, OneTabP!NoToken,
         OneTab!NoToken, OneTabP!Actors, OneTab!Actors, OneTabP!browser, OneTab!browser,
         OneTabP!keys, OneTab!keys, OneTabP!history, OneTab!history
<1>3. OneTabP!Ban <=> OneTab!Ban
  BY DEF OneTabP!Ban, OneTab!Ban, OneTabP!Go, OneTab!Go, OneTabP!NoCall, OneTab!NoCall,
         OneTabP!NoToken, OneTab!NoToken, OneTabP!browser, OneTab!browser, OneTabP!keys,
         OneTab!keys, OneTabP!history, OneTab!history
<1>4. OneTabP!LiftBan <=> OneTab!LiftBan
  BY DEF OneTabP!LiftBan, OneTab!LiftBan, OneTabP!NoCall, OneTab!NoCall, OneTabP!NoToken,
         OneTab!NoToken, OneTabP!browser, OneTab!browser, OneTabP!keys, OneTab!keys,
         OneTabP!history, OneTab!history
<1>5. \A a \in {Tab} \cup {"moderator"} : (OneTabP!ReadIndex(a) <=> OneTab!ReadIndex(a))
  BY DEF OneTabP!ReadIndex, OneTab!ReadIndex, OneTabP!Ends, OneTab!Ends, OneTabP!At,
         OneTab!At, OneTabP!Members, OneTab!Members, OneTabP!NoCall, OneTab!NoCall,
         OneTabP!NoToken, OneTab!NoToken, OneTabP!browser, OneTab!browser, OneTabP!keys,
         OneTab!keys, OneTabP!history, OneTab!history
<1>6. \A a \in {Tab} \cup {"moderator"} : (OneTabP!Bury(a) <=> OneTab!Bury(a))
  BY DEF OneTabP!Bury, OneTab!Bury, OneTabP!InIssue, OneTab!InIssue, OneTabP!Tombstone,
         OneTab!Tombstone, OneTabP!Ends, OneTab!Ends, OneTabP!At, OneTab!At,
         OneTabP!Members, OneTab!Members, OneTabP!NoCall, OneTab!NoCall, OneTabP!NoToken,
         OneTab!NoToken, OneTabP!browser, OneTab!browser
<1>7. \A t \in {Tab} : (OneTabP!Login(t) <=> OneTab!Login(t))
  BY DEF OneTabP!Login, OneTab!Login, OneTabP!Unused, OneTab!Unused, OneTabP!NoCall,
         OneTab!NoCall, OneTabP!NoAccess, OneTab!NoAccess, OneTabP!NoToken,
         OneTab!NoToken, OneTabP!Tokens, OneTab!Tokens, OneTabP!Actors, OneTab!Actors,
         OneTabP!browser, OneTab!browser, OneTabP!keys, OneTab!keys, OneTabP!history,
         OneTab!history
<1>8. \A t \in {Tab} : (OneTabP!RefreshInTab(t) <=> OneTab!RefreshInTab(t))
  BY DEF OneTabP!RefreshInTab, OneTab!RefreshInTab, OneTabP!TabsOf, OneTab!TabsOf,
         OneTabP!Authentic, OneTab!Authentic, OneTabP!Revoked, OneTab!Revoked,
         OneTabP!NoCall, OneTab!NoCall, OneTabP!NoToken, OneTab!NoToken, OneTabP!browser,
         OneTab!browser, OneTabP!keys, OneTab!keys
<1>9. \A t \in {Tab} : (OneTabP!IssueAccessToken(t) <=> OneTab!IssueAccessToken(t))
  BY DEF OneTabP!IssueAccessToken, OneTab!IssueAccessToken, OneTabP!Remember,
         OneTab!Remember, OneTabP!Go, OneTab!Go, OneTabP!At, OneTab!At, OneTabP!Members,
         OneTab!Members, OneTabP!browser, OneTab!browser, OneTabP!history, OneTab!history
<1>10. \A t \in {Tab} : (OneTabP!IssueRefreshToken(t) <=> OneTab!IssueRefreshToken(t))
  BY DEF OneTabP!IssueRefreshToken, OneTab!IssueRefreshToken, OneTabP!Remember,
         OneTab!Remember, OneTabP!At, OneTab!At, OneTabP!Members, OneTab!Members,
         OneTabP!Unissued, OneTab!Unissued, OneTabP!Tokens, OneTab!Tokens,
         OneTabP!browser, OneTab!browser, OneTabP!history, OneTab!history,
         OneTabP!Cardinality, OneTab!Cardinality
<1>11. \A t \in {Tab} : (OneTabP!Answer(t) <=> OneTab!Answer(t))
  BY DEF OneTabP!Answer, OneTab!Answer, OneTabP!Ends, OneTab!Ends, OneTabP!At, OneTab!At,
         OneTabP!NoCall, OneTab!NoCall, OneTabP!NoToken, OneTab!NoToken, OneTabP!keys,
         OneTab!keys, OneTabP!history, OneTab!history
<1>12. \A t \in {Tab} : (OneTabP!Lose(t) <=> OneTab!Lose(t))
  BY DEF OneTabP!Lose, OneTab!Lose, OneTabP!SignedOut, OneTab!SignedOut, OneTabP!Ends,
         OneTab!Ends, OneTabP!NoCall, OneTab!NoCall, OneTabP!NoAccess, OneTab!NoAccess,
         OneTabP!NoToken, OneTab!NoToken, OneTabP!keys, OneTab!keys
<1>13. \A t \in {Tab} : (OneTabP!Rotate(t) <=> OneTab!Rotate(t))
  BY DEF OneTabP!Rotate, OneTab!Rotate, OneTabP!SignedOut, OneTab!SignedOut, OneTabP!Ends,
         OneTab!Ends, OneTabP!Go, OneTab!Go, OneTabP!At, OneTab!At, OneTabP!NoCall,
         OneTab!NoCall, OneTabP!NoAccess, OneTab!NoAccess, OneTabP!NoToken, OneTab!NoToken
<1>14. \A t \in {Tab} : (OneTabP!NotRevoked(t) <=> OneTab!NotRevoked(t))
  BY DEF OneTabP!NotRevoked, OneTab!NotRevoked, OneTabP!SignedOut, OneTab!SignedOut,
         OneTabP!Ends, OneTab!Ends, OneTabP!Go, OneTab!Go, OneTabP!At, OneTab!At,
         OneTabP!Revoked, OneTab!Revoked, OneTabP!NoCall, OneTab!NoCall, OneTabP!NoAccess,
         OneTab!NoAccess, OneTabP!NoToken, OneTab!NoToken, OneTabP!keys, OneTab!keys,
         OneTabP!history, OneTab!history
<1>15. \A t \in {Tab} : (OneTabP!InGoodStanding(t) <=> OneTab!InGoodStanding(t))
  BY DEF OneTabP!InGoodStanding, OneTab!InGoodStanding, OneTabP!Go, OneTab!Go, OneTabP!At,
         OneTab!At, OneTabP!browser, OneTab!browser, OneTabP!keys, OneTab!keys
<1>16. \A t \in {Tab} : (OneTabP!RevokeSession(t) <=> OneTab!RevokeSession(t))
  BY DEF OneTabP!RevokeSession, OneTab!RevokeSession, OneTabP!InIssue, OneTab!InIssue,
         OneTabP!Tombstone, OneTab!Tombstone, OneTabP!SignedOut, OneTab!SignedOut,
         OneTabP!Ends, OneTab!Ends, OneTabP!At, OneTab!At, OneTabP!NoCall, OneTab!NoCall,
         OneTabP!NoAccess, OneTab!NoAccess, OneTabP!NoToken, OneTab!NoToken
<1>17. \A t \in {Tab} : (OneTabP!Reload(t) <=> OneTab!Reload(t))
  BY DEF OneTabP!Reload, OneTab!Reload, OneTabP!NoCall, OneTab!NoCall, OneTabP!NoAccess,
         OneTab!NoAccess, OneTabP!NoToken, OneTab!NoToken, OneTabP!keys, OneTab!keys,
         OneTabP!history, OneTab!history
<1>18. \A t \in {Tab}, everywhere \in BOOLEAN :
          (OneTabP!Logout(t, everywhere) <=> OneTab!Logout(t, everywhere))
  BY DEF OneTabP!Logout, OneTab!Logout, OneTabP!Authentic, OneTab!Authentic,
         OneTabP!Revoked, OneTab!Revoked, OneTabP!NoCall, OneTab!NoCall, OneTabP!NoAccess,
         OneTab!NoAccess, OneTabP!NoToken, OneTab!NoToken, OneTabP!keys, OneTab!keys,
         OneTabP!history, OneTab!history
<1> QED BY <1>1, <1>2, <1>3, <1>4, <1>5, <1>6, <1>7, <1>8, <1>9, <1>10, <1>11, <1>12,
       <1>13, <1>14, <1>15, <1>16, <1>17, <1>18 DEF OneTabP!Next, OneTab!Next,
       OneTabP!Actors, OneTab!Actors

--------------------------------------------------------------------------------
(* ... and promise the same. *)

\* Two tabs and one session.
LEMMA TwoTabsPromises ==
    /\ TwoTabsP!TypeOK <=> TwoTabs!TypeOK
    /\ TwoTabsP!OneLineage <=> TwoTabs!OneLineage
    /\ TwoTabsP!RevokedStaysRevoked <=> TwoTabs!RevokedStaysRevoked
    /\ TwoTabsP!SessionsCanBeFound <=> TwoTabs!SessionsCanBeFound
    /\ TwoTabsP!ReplaysHaveACause <=> TwoTabs!ReplaysHaveACause
<1>1. TwoTabsP!TypeOK <=> TwoTabs!TypeOK
  BY DEF TwoTabsP!TypeOK, TwoTabs!TypeOK, TwoTabsP!NoToken, TwoTabs!NoToken,
         TwoTabsP!Tokens, TwoTabs!Tokens, TwoTabsP!Actors, TwoTabs!Actors
<1>2. TwoTabsP!OneLineage <=> TwoTabs!OneLineage
  BY DEF TwoTabsP!OneLineage, TwoTabs!OneLineage, TwoTabsP!Usable, TwoTabs!Usable,
         TwoTabsP!Tokens, TwoTabs!Tokens
<1>3. TwoTabsP!RevokedStaysRevoked <=> TwoTabs!RevokedStaysRevoked
  BY DEF TwoTabsP!RevokedStaysRevoked, TwoTabs!RevokedStaysRevoked, TwoTabsP!Usable,
         TwoTabs!Usable, TwoTabsP!Revoked, TwoTabs!Revoked, TwoTabsP!Tokens,
         TwoTabs!Tokens
<1>4. TwoTabsP!SessionsCanBeFound <=> TwoTabs!SessionsCanBeFound
  BY DEF TwoTabsP!SessionsCanBeFound, TwoTabs!SessionsCanBeFound, TwoTabsP!Usable,
         TwoTabs!Usable, TwoTabsP!Members, TwoTabs!Members, TwoTabsP!Revoked,
         TwoTabs!Revoked, TwoTabsP!Tokens, TwoTabs!Tokens
<1>5. TwoTabsP!ReplaysHaveACause <=> TwoTabs!ReplaysHaveACause
  BY DEF TwoTabsP!ReplaysHaveACause, TwoTabs!ReplaysHaveACause
<1> QED BY <1>1, <1>2, <1>3, <1>4, <1>5

\* One tab and several sessions.
LEMMA OneTabPromises ==
    /\ OneTabP!TypeOK <=> OneTab!TypeOK
    /\ OneTabP!OneLineage <=> OneTab!OneLineage
    /\ OneTabP!RevokedStaysRevoked <=> OneTab!RevokedStaysRevoked
    /\ OneTabP!SessionsCanBeFound <=> OneTab!SessionsCanBeFound
    /\ OneTabP!ReplaysHaveACause <=> OneTab!ReplaysHaveACause
<1>1. OneTabP!TypeOK <=> OneTab!TypeOK
  BY DEF OneTabP!TypeOK, OneTab!TypeOK, OneTabP!NoToken, OneTab!NoToken, OneTabP!Tokens,
         OneTab!Tokens, OneTabP!Actors, OneTab!Actors
<1>2. OneTabP!OneLineage <=> OneTab!OneLineage
  BY DEF OneTabP!OneLineage, OneTab!OneLineage, OneTabP!Usable, OneTab!Usable,
         OneTabP!Tokens, OneTab!Tokens
<1>3. OneTabP!RevokedStaysRevoked <=> OneTab!RevokedStaysRevoked
  BY DEF OneTabP!RevokedStaysRevoked, OneTab!RevokedStaysRevoked, OneTabP!Usable,
         OneTab!Usable, OneTabP!Revoked, OneTab!Revoked, OneTabP!Tokens, OneTab!Tokens
<1>4. OneTabP!SessionsCanBeFound <=> OneTab!SessionsCanBeFound
  BY DEF OneTabP!SessionsCanBeFound, OneTab!SessionsCanBeFound, OneTabP!Usable,
         OneTab!Usable, OneTabP!Members, OneTab!Members, OneTabP!Revoked, OneTab!Revoked,
         OneTabP!Tokens, OneTab!Tokens
<1>5. OneTabP!ReplaysHaveACause <=> OneTab!ReplaysHaveACause
  BY DEF OneTabP!ReplaysHaveACause, OneTab!ReplaysHaveACause
<1> QED BY <1>1, <1>2, <1>3, <1>4, <1>5

--------------------------------------------------------------------------------
(* The parts put together. *)

\* What the parts ask of the constants.
LEMMA BoundsHold ==
    TwoTabsP!Bounds /\ OneTabP!Bounds
<1>1. ABrowser \in Browsers
  BY AccountsAssumption DEF ABrowser
<1>2. TwoTabsP!Bounds
  BY <1>1, AccountsAssumption DEF TwoTabsP!Bounds
<1>3. OneTabP!Bounds
  BY <1>1, AccountsAssumption DEF OneTabP!Bounds
<1> QED BY <1>2, <1>3

\* The part that runs, and the parts that lie still, keep their invariants.
Inv ==
    /\ DoorInv
    /\ IF part = "oneTab" THEN OneTabP!Inv ELSE TwoTabsP!Inv
    /\ SafetyInv

LEMMA InitInv == Init => Inv
<1> SUFFICES ASSUME Init
             PROVE  Inv
  OBVIOUS
<1>1. DoorInv
  BY DoorInit DEF Init
<1>2. IF part = "oneTab" THEN OneTabP!Inv ELSE TwoTabsP!Inv
  BY BoundsHold, OneTabSteps, TwoTabsSteps, OneTabP!InitInv, TwoTabsP!InitInv DEF Init
<1>3. SafetyInv
  BY SafetyInit DEF Init
<1> QED BY <1>1, <1>2, <1>3 DEF Inv

\* Every part steps or lies still.
LEMMA PartsStep ==
    ASSUME [Next]_vars
    PROVE  /\ part' = part
           /\ [Door!Next]_(Door!vars)
           /\ part = "oneTab" => [OneTabP!Next]_(OneTabP!vars)
           /\ part # "oneTab" => [TwoTabsP!Next]_(TwoTabsP!vars)
           /\ [Safety!Next]_(Safety!vars)
<1>1. /\ UNCHANGED signInVars => UNCHANGED Door!vars
      /\ UNCHANGED sessionVars => UNCHANGED OneTabP!vars /\ UNCHANGED TwoTabsP!vars
      /\ UNCHANGED moderationVars => UNCHANGED Safety!vars
  BY DEF signInVars, sessionVars, moderationVars, Door!vars, OneTabP!vars, TwoTabsP!vars,
         Safety!vars
<1>2. CASE UNCHANGED vars
  BY <1>1, <1>2 DEF vars
<1>3. CASE Next
  BY <1>1, <1>3, OneTabSteps, TwoTabsSteps DEF Next
<1> QED BY <1>2, <1>3

LEMMA StepInv == Inv /\ [Next]_vars => Inv'
<1> SUFFICES ASSUME Inv, [Next]_vars
             PROVE  Inv'
  OBVIOUS
<1>1. /\ part' = part
      /\ [Door!Next]_(Door!vars)
      /\ part = "oneTab" => [OneTabP!Next]_(OneTabP!vars)
      /\ part # "oneTab" => [TwoTabsP!Next]_(TwoTabsP!vars)
      /\ [Safety!Next]_(Safety!vars)
  BY PartsStep
<1>2. DoorInv'
  BY <1>1, DoorStep DEF Inv
<1>3. part = "oneTab" => OneTabP!Inv'
  BY <1>1, BoundsHold, OneTabP!StepKeeps DEF Inv
<1>4. part # "oneTab" => TwoTabsP!Inv'
  BY <1>1, BoundsHold, TwoTabsP!StepKeeps DEF Inv
<1>5. SafetyInv'
  BY <1>1, SafetyStep DEF Inv
<1> QED BY <1>1, <1>2, <1>3, <1>4, <1>5 DEF Inv

LEMMA Always == Spec => []Inv
<1>1. Init => Inv
  BY InitInv
<1>2. Inv /\ [Next]_vars => Inv'
  BY StepInv
<1> QED BY <1>1, <1>2, PTL DEF Spec

--------------------------------------------------------------------------------
(* The theorems. *)

\* Everything keeps its type, in each part.
THEOREM TypesAreKept == Spec => []TypesOK
<1>1. Inv => TypesOK
  <2>1. Inv => Door!TypeOK
    BY DoorHolds DEF Inv
  <2>2. Inv => IF part = "oneTab" THEN OneTab!TypeOK ELSE TwoTabs!TypeOK
    BY BoundsHold, OneTabP!InvHolds, TwoTabsP!InvHolds, OneTabPromises, TwoTabsPromises DEF Inv
  <2>3. Inv => Safety!TypeOK
    BY SafetyHolds DEF Inv
  <2> QED BY <2>1, <2>2, <2>3 DEF TypesOK
<1> QED BY <1>1, Always, PTL

\* A code opens one session although a sign-up is handed its code back, and a
\* page that asks for a name can use the code it holds (VerifyLoginCode.ts:46-47,
\* 88-95), however many pages are open and wherever a request crashes.
THEOREM CodesAreSpentOnce == Spec => []SignUpHolds
<1>1. Inv => SignUpHolds
  BY DoorHolds DEF Inv, SignUpHolds
<1> QED BY <1>1, Always, PTL

\* However the tabs of a browser race, a session has one refresh token that
\* would be taken, signing out everywhere finds every session, and no session is
\* ended as a replay without a cause (JwtTokenService.ts:40-46, 106-108, 209-218).
THEOREM SessionsStayWhole == Spec => []TokensHold
<1>1. Inv => TokensHold
  BY BoundsHold, OneTabP!InvHolds, TwoTabsP!InvHolds, OneTabPromises, TwoTabsPromises
     DEF Inv, TokensHold
<1> QED BY <1>1, Always, PTL

\* A revoked session stays revoked (JwtTokenService.ts:228-230), if an access
\* token lives no longer than a refresh token.  It does by default (fifteen
\* minutes, thirty days); config.ts:128-133 does not compare the two.
THEOREM TheRevokedStayOut ==
    ASSUME AccessTtl <= RefreshTtl
    PROVE  Spec => []RevokedStaysRevoked
<1>1. Inv => RevokedStaysRevoked
  BY BoundsHold, OneTabP!InvHolds, TwoTabsP!InvHolds, OneTabPromises, TwoTabsPromises
     DEF Inv, RevokedStaysRevoked
<1> QED BY <1>1, Always, PTL

\* A report costs its target once, whoever decides it at the same time, and one
\* reporter has one open unless two were submitted at once
\* (PostgresReportRepository.ts:171-178, moderation.ts:66-77).
THEOREM ReportsCountOnce == Spec => []ReportsHold
<1>1. Inv => ReportsHold
  BY SafetyHolds DEF Inv, ReportsHold
<1> QED BY <1>1, Always, PTL

\* Between bans and lifts that ran alone and to their end, the status agrees
\* with the ban rows and who is banned has no session and no socket
\* (Ban.ts:14-17, BanUser.ts:28-42).
THEOREM BansAreCarriedOut == Spec => []BansHold
<1>1. Inv => BansHold
  BY SafetyHolds DEF Inv, BansHold
<1> QED BY <1>1, Always, PTL

================================================================================
