------------------------------ MODULE MCAccounts -------------------------------
(***************************************************************************)
(* One account from outside its rooms: signing in and up, its sessions,    *)
(* and what moderators do to it.  The parts share no state, so a behaviour *)
(* runs one of them (chosen at its start) and leaves the others alone.     *)
(*                                                                         *)
(* Sessions runs with two tabs of one browser and one session, and with    *)
(* one tab and two sessions; Moderation runs with the reports of one       *)
(* reporter, and with bans.                                                *)
(***************************************************************************)
EXTENDS Naturals, TLC

CONSTANTS
    Pages, MaxAttempts, MaxRequests,
    Tabs, Tab, Browsers, SessionIds, SessionId, NoSession, MaxTokens, MaxTime,
    AccessTtl, RefreshTtl,
    Moderators, ReportIds, NoReportId, BanIds, MayStop

\* A code can be tried once (MAX_CHALLENGE_ATTEMPTS is 5), there is a browser, and
\* the names are apart.
ASSUME AccountsAssumption ==
    /\ MaxAttempts \in Nat \ {0} /\ MaxRequests \in Nat
    /\ Browsers # {} /\ "moderator" \notin Tabs \cup {Tab}
    /\ NoSession \notin SessionIds \cup {SessionId}
    /\ MaxTokens \in Nat /\ MaxTime \in Nat \ {0}
    /\ AccessTtl \in Nat /\ RefreshTtl \in Nat
    /\ NoReportId \notin ReportIds

VARIABLES
    part,
    challenge, account, page, call, sent, requests, admitted, spoiled,
    now, refresh, index, tombstone, status, cookie, access, request,
    gone, crossed, replayed, excused,
    report, ban, standing, penalty, signedIn, socket, op, notices,
    slipped, raced, unsettled

signInVars == <<challenge, account, page, call, sent, requests, admitted, spoiled>>
sessionVars == <<now, refresh, index, tombstone, status, cookie, access, request,
                 gone, crossed, replayed, excused>>
moderationVars == <<report, ban, standing, penalty, signedIn, socket, op, notices,
                    slipped, raced, unsettled>>
vars == <<part, signInVars, sessionVars, moderationVars>>

ABrowser == CHOOSE b \in Browsers : TRUE

Door == INSTANCE SignIn

TwoTabs == INSTANCE Sessions
    WITH call <- request, SessionIds <- {SessionId}, Moderator <- "moderator",
         Browser <- [t \in Tabs |-> ABrowser]

OneTab == INSTANCE Sessions
    WITH call <- request, Tabs <- {Tab}, Moderator <- "moderator",
         Browser <- [t \in {Tab} |-> ABrowser]

Safety == INSTANCE Moderation WITH status <- standing

Init ==
    /\ part \in {"door", "twoTabs", "oneTab", "reports", "bans"}
    /\ Door!Init
    /\ IF part = "oneTab" THEN OneTab!Init ELSE TwoTabs!Init
    /\ Safety!Init
    /\ part # "door" => account = "none"

Next ==
    /\ UNCHANGED part
    /\ \/ part = "door" /\ Door!Next /\ UNCHANGED <<sessionVars, moderationVars>>
       \/ part = "twoTabs" /\ TwoTabs!Next /\ UNCHANGED <<signInVars, moderationVars>>
       \/ part = "oneTab" /\ OneTab!Next /\ UNCHANGED <<signInVars, moderationVars>>
       \/ part = "reports" /\ Safety!Next /\ UNCHANGED <<signInVars, sessionVars, ban>>
       \/ part = "bans" /\ Safety!Next /\ UNCHANGED <<signInVars, sessionVars, report>>

Spec == Init /\ [][Next]_vars

Alike == Permutations(Tabs) \cup Permutations(SessionIds)

--------------------------------------------------------------------------------

\* The type invariants of the parts.
TypesOK ==
    /\ Door!TypeOK
    /\ IF part = "oneTab" THEN OneTab!TypeOK ELSE TwoTabs!TypeOK
    /\ Safety!TypeOK

\* A code admits once, and a page that asks for a name can use the code it holds
\* (VerifyLoginCode.ts:46-47, 88-95).
SignUpHolds == Door!CodesAdmitOnce /\ Door!RegistrationCanFinish

\* One usable refresh token per session, every session in the index, and no
\* replay without a cause (JwtTokenService.ts:40-46, 106-108, 209-218).
TokensHold ==
    IF part = "oneTab"
    THEN OneTab!OneLineage /\ OneTab!SessionsCanBeFound /\ OneTab!ReplaysHaveACause
    ELSE TwoTabs!OneLineage /\ TwoTabs!SessionsCanBeFound /\ TwoTabs!ReplaysHaveACause

\* "The tombstone must outlive any token" (JwtTokenService.ts:228-230), however
\* sign-outs, replays, bans and refreshes fall.
RevokedStaysRevoked ==
    IF part = "oneTab" THEN OneTab!RevokedStaysRevoked ELSE TwoTabs!RevokedStaysRevoked

\* A report costs its target once, and one reporter has one open at a time
\* (PostgresReportRepository.ts:171-178, moderation.ts:66-77).
ReportsHold == part = "reports" => Safety!PenaltyOnce /\ Safety!OneReportOpen

\* The status agrees with the ban rows, and who is banned is out (Ban.ts:14-17,
\* BanUser.ts:28-42).
BansHold == part = "bans" => Safety!BanRowsWin /\ Safety!BannedAreOut

================================================================================
