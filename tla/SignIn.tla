--------------------------------- MODULE SignIn --------------------------------
(***************************************************************************)
(* Signing in with a one-time code, and signing up on the way              *)
(* (RequestLoginCode.ts, VerifyLoginCode.ts, RedisAuthChallengeStore.ts,   *)
(* the sign-in page), for one phone number or address: its challenge in    *)
(* Redis, its users row, and the pages its owner has open.                 *)
(*                                                                         *)
(* The code of the n-th request is n.  A request runs one step per call to *)
(* a port; other pages, the challenge's deadline and a crash come between. *)
(* The rate limits are in RateLimits.                                      *)
(***************************************************************************)
EXTENDS Naturals

CONSTANTS
    Pages,
    MaxAttempts,  \* MAX_CHALLENGE_ATTEMPTS, at least 1
    MaxRequests   \* bound on the codes ever sent

VARIABLES
    challenge,  \* the hash auth:challenge:<identifier>
    account,    \* the status of the users row, or "none"
    page,       \* [Pages -> what the sign-in page shows and was given]
    call,       \* [Pages -> the request the page waits for]
    sent,       \* the codes that arrived
    requests,
    admitted,   \* history: [code -> how many sessions it opened]
    spoiled     \* history: something other than the sign-up touched its code

vars == <<challenge, account, page, call, sent, requests, admitted, spoiled>>

Codes == 1..MaxRequests

\* A mistyped code.
Typo == 0

NoCode == [code |-> Typo, attempts |-> 0]

\* A name and a date of birth: none yet, an adult's, a minor's, or not accepted.
Details == {"none", "adult", "minor", "malformed"}

NoCall == [at |-> "idle", code |-> Typo, details |-> "none"]

Init ==
    /\ challenge = NoCode
    /\ account \in {"none", "active"}
    /\ page = [p \in Pages |-> [stage |-> "identify", code |-> Typo]]
    /\ call = [p \in Pages |-> NoCall]
    /\ sent = {} /\ requests = 0
    /\ admitted = [c \in Codes |-> 0]
    /\ spoiled = FALSE

--------------------------------------------------------------------------------
(* The challenge store. *)

\* issue: DEL, HSET and EXPIRE in one transaction; the attempts start again.
Issue(code) == challenge' = [code |-> code, attempts |-> 0]

\* Mutant of Consume: a right code is left in place.
ConsumeKeepsTheCode(code, outcome) ==
    LET tried == challenge.attempts + 1 IN
    \/ challenge = NoCode /\ outcome = "expired" /\ UNCHANGED challenge
    \/ challenge # NoCode /\ challenge.code = code /\ outcome = "ok" /\ UNCHANGED challenge
    \/ /\ challenge # NoCode /\ challenge.code # code /\ outcome = "wrong"
       /\ challenge' = IF tried >= MaxAttempts THEN NoCode
                       ELSE [challenge EXCEPT !.attempts = tried]

\* Mutant of Consume: one attempt too many.
ConsumeOneMore(code, outcome) ==
    LET tried == challenge.attempts + 1 IN
    \/ challenge = NoCode /\ outcome = "expired" /\ UNCHANGED challenge
    \/ challenge # NoCode /\ challenge.code = code /\ outcome = "ok" /\ challenge' = NoCode
    \/ /\ challenge # NoCode /\ challenge.code # code /\ outcome = "wrong"
       /\ challenge' = IF tried > MaxAttempts THEN NoCode
                       ELSE [challenge EXCEPT !.attempts = tried]

\* CONSUME_SCRIPT, atomic; "wrong" stands for invalid and too_many_attempts.
Consume(code, outcome) ==
    LET tried == challenge.attempts + 1 IN
    \/ challenge = NoCode /\ outcome = "expired" /\ UNCHANGED challenge
    \/ challenge # NoCode /\ challenge.code = code /\ outcome = "ok" /\ challenge' = NoCode
    \/ /\ challenge # NoCode /\ challenge.code # code /\ outcome = "wrong"
       /\ challenge' = IF tried >= MaxAttempts THEN NoCode
                       ELSE [challenge EXCEPT !.attempts = tried]

Expire ==
    /\ challenge # NoCode
    /\ challenge' = NoCode
    /\ spoiled' = TRUE
    /\ UNCHANGED <<account, page, call, sent, requests, admitted>>

--------------------------------------------------------------------------------
(* The page. *)

Go(p, at) == call' = [call EXCEPT ![p].at = at]
Hangs(p) == call' = [call EXCEPT ![p] = NoCall]
Shows(p, stage) == page' = [page EXCEPT ![p].stage = stage]

OnlyOneBusy(p) == \A q \in Pages \ {p} : call[q] = NoCall

Submit(p, at, code, details) ==
    /\ call[p] = NoCall
    /\ call' = [call EXCEPT ![p] = [at |-> at, code |-> code, details |-> details]]
    /\ spoiled' = (spoiled \/ ~OnlyOneBusy(p))
    /\ UNCHANGED <<challenge, account, sent, admitted>>

submitIdentifier(p) ==
    /\ page[p].stage = "identify"
    /\ requests < MaxRequests
    /\ requests' = requests + 1
    /\ Submit(p, "issue", requests + 1, "none")
    /\ UNCHANGED page

submitCode(p) ==
    /\ page[p].stage = "verify"
    /\ \E c \in sent \cup {Typo} :
          /\ page' = [page EXCEPT ![p].code = c]
          /\ Submit(p, "consume", c, "none")
    /\ UNCHANGED requests

submitRegistration(p) ==
    /\ page[p].stage = "register"
    /\ \E d \in Details \ {"none"} : Submit(p, "consume", page[p].code, d)
    /\ UNCHANGED <<page, requests>>

\* The catch blocks: a failed registration starts over unless it was UNDERAGE.
Fails(p, error) ==
    /\ Hangs(p)
    /\ page' = IF page[p].stage = "register" /\ error # "UNDERAGE"
               THEN [page EXCEPT ![p] = [stage |-> "identify", code |-> Typo]]
               ELSE page

--------------------------------------------------------------------------------
(* RequestLoginCode *)

RequestLoginCode(p) ==
    /\ call[p].at = "issue"
    /\ Issue(call[p].code)
    /\ Go(p, "send")
    /\ spoiled' = (spoiled \/ \E q \in Pages : page[q].stage = "register")
    /\ UNCHANGED <<account, page, sent, requests, admitted>>

\* Delivery is best effort and does not change the answer.
SendLoginCode(p) ==
    /\ call[p].at = "send"
    /\ sent' \in {sent, sent \cup {call[p].code}}
    /\ Hangs(p)
    /\ Shows(p, "verify")
    /\ UNCHANGED <<challenge, account, requests, admitted, spoiled>>

--------------------------------------------------------------------------------
(* VerifyLoginCode *)

ConsumeCode(p) ==
    /\ call[p].at = "consume"
    /\ \E outcome \in {"ok", "expired", "wrong"} :
          /\ Consume(call[p].code, outcome)
          /\ IF outcome = "ok" THEN Go(p, "find") /\ UNCHANGED page
             ELSE Fails(p, "VALIDATION")
    /\ spoiled' = (spoiled \/ \E q \in Pages \ {p} : page[q].stage = "register")
    /\ UNCHANGED <<account, sent, requests, admitted>>

\* Mutant of FindAccount: the code is not given back.
FindAccountOnly(p) ==
    /\ call[p].at = "find"
    /\ UNCHANGED <<challenge, account, sent, requests, admitted, spoiled>>
    /\ \/ account = "active" /\ Go(p, "tokens") /\ UNCHANGED page
       \/ account = "banned" /\ Fails(p, "BANNED")
       \/ account = "none" /\ call[p].details = "none" /\ Hangs(p) /\ Shows(p, "register")
       \/ account = "none" /\ call[p].details # "none" /\ Go(p, "create") /\ UNCHANGED page

\* findByIdentifier and what follows from it.
FindAccount(p) ==
    /\ call[p].at = "find"
    /\ UNCHANGED <<challenge, account, sent, requests, admitted, spoiled>>
    /\ \/ account = "active" /\ Go(p, "tokens") /\ UNCHANGED page
       \/ account = "banned" /\ Fails(p, "BANNED")
       \/ account = "none" /\ call[p].details = "none" /\ Go(p, "reissue") /\ UNCHANGED page
       \/ account = "none" /\ call[p].details # "none" /\ Go(p, "create") /\ UNCHANGED page

\* The same code again, whatever was requested meanwhile: REGISTRATION_REQUIRED.
GiveTheCodeBack(p) ==
    /\ call[p].at = "reissue"
    /\ Issue(call[p].code)
    /\ Hangs(p)
    /\ Shows(p, "register")
    /\ spoiled' = (spoiled \/ \E q \in Pages \ {p} : page[q].stage = "register")
    /\ UNCHANGED <<account, sent, requests, admitted>>

\* register: parseDobUtc, assertAdult, then the row under its unique index.
Register(p) ==
    /\ call[p].at = "create"
    /\ \/ call[p].details = "malformed" /\ Fails(p, "VALIDATION") /\ UNCHANGED account
       \/ call[p].details = "minor" /\ Fails(p, "UNDERAGE") /\ UNCHANGED account
       \/ /\ call[p].details = "adult"
          /\ IF account = "none"
             THEN account' = "active" /\ Go(p, "tokens") /\ UNCHANGED page
             ELSE Fails(p, "CONFLICT") /\ UNCHANGED account
    /\ spoiled' = (spoiled \/ account' = account)
    /\ UNCHANGED <<challenge, sent, requests, admitted>>

\* A new session; the page goes on to /home.
IssueTokens(p) ==
    /\ call[p].at = "tokens"
    /\ admitted' = [admitted EXCEPT ![call[p].code] = @ + 1]
    /\ Hangs(p)
    /\ page' = [page EXCEPT ![p] = [stage |-> "identify", code |-> Typo]]
    /\ UNCHANGED <<challenge, account, sent, requests, spoiled>>

\* The server dies or the network drops: the page only shows an error.
Crash(p) ==
    /\ call[p] # NoCall
    /\ Hangs(p)
    /\ spoiled' = TRUE
    /\ UNCHANGED <<challenge, account, page, sent, requests, admitted>>

Ban ==
    /\ account \in {"active", "banned"}
    /\ account' = IF account = "active" THEN "banned" ELSE "active"
    /\ UNCHANGED <<challenge, page, call, sent, requests, admitted, spoiled>>

Next ==
    \/ Expire \/ Ban
    \/ \E p \in Pages :
        \/ submitIdentifier(p) \/ submitCode(p) \/ submitRegistration(p)
        \/ RequestLoginCode(p) \/ SendLoginCode(p)
        \/ ConsumeCode(p) \/ FindAccount(p) \/ GiveTheCodeBack(p)
        \/ Register(p) \/ IssueTokens(p) \/ Crash(p)

--------------------------------------------------------------------------------
(* Properties. *)

TypeOK ==
    /\ challenge.code \in {Typo} \cup Codes
    /\ challenge.attempts \in 0..(MaxAttempts - 1)
    /\ account \in {"none", "active", "banned"}
    /\ \A p \in Pages :
        /\ page[p].stage \in {"identify", "verify", "register"}
        /\ page[p].code \in {Typo} \cup Codes
        /\ call[p].at \in {"idle", "issue", "send", "consume", "find", "reissue",
                           "create", "tokens"}
        /\ call[p].code \in {Typo} \cup Codes /\ call[p].details \in Details
    /\ sent \subseteq Codes /\ requests \in 0..MaxRequests
    /\ \A c \in Codes : admitted[c] \in Nat

\* "A code cannot be replayed even by the legitimate user"
\* (VerifyLoginCode.ts:46-47): although a sign-up is handed its code back, no
\* code opens two sessions, however the pages, the deadline and crashes fall.
CodesAdmitOnce == \A c \in Codes : admitted[c] <= 1

\* A page that asks for a name holds a code that still works
\* (VerifyLoginCode.ts:88-95, "a dead end at the very first screen"), unless the
\* code expired or something besides this sign-up touched the challenge.
RegistrationCanFinish ==
    \A p \in Pages :
        page[p].stage = "register" /\ call[p] = NoCall =>
            spoiled \/ challenge.code = page[p].code

================================================================================
