------------------------------- MODULE Moderation ------------------------------
(***************************************************************************)
(* Reports about one person and what follows from them: SubmitReport.ts,   *)
(* ReviewReports.ts, BanUser.ts, the rules of moderation.ts, the bans and  *)
(* reports tables, and the person's live socket (server.ts, the wrapper of *)
(* registerHandlers.ts, moderationSubscriber.ts).                          *)
(*                                                                         *)
(* users.status is a projection of the bans table that only a ban and a    *)
(* lift recompute.  A moderator's request runs one step per call to a port *)
(* and may stop between two.                                               *)
(***************************************************************************)
EXTENDS Naturals, FiniteSets

CONSTANTS
    Moderators,
    ReportIds,
    NoReportId,  \* not one of the ReportIds
    BanIds,     \* bound on the bans ever issued
    MayStop     \* whether a request may stop half way

VARIABLES
    report,     \* [ReportIds -> row of reports, or that it is being filed]
    ban,        \* [BanIds -> row of bans]
    status,     \* users.status
    penalty,    \* [ReportIds -> trust events it caused]
    signedIn,   \* whether a session of theirs is not revoked
    socket,     \* their connection
    op,         \* [Moderators -> the request under way]
    notices,    \* user.banned events on the bus
    slipped,    \* history: the socket was admitted while a ban was carried out
    raced,      \* history: two submissions overlapped
    unsettled   \* history: bans and lifts overlapped, or one stopped half way

vars == <<report, ban, status, penalty, signedIn, socket, op, notices,
          slipped, raced, unsettled>>
account == <<status, signedIn>>
history == <<slipped, raced, unsettled>>

ReportStatus == {"open", "reviewing", "upheld", "dismissed"}
NoReport == [status |-> "none", urgent |-> FALSE]

NoBan == [permanent |-> FALSE, inForce |-> FALSE, lifted |-> FALSE, issued |-> FALSE]

Idle == [at |-> "idle", on |-> NoReportId, saw |-> "active"]

Init ==
    /\ report = [r \in ReportIds |-> NoReport]
    /\ ban = [b \in BanIds |-> NoBan]
    /\ status = "active"
    /\ penalty = [r \in ReportIds |-> 0]
    /\ signedIn = TRUE /\ socket = "none"
    /\ op = [m \in Moderators |-> Idle]
    /\ notices = 0
    /\ slipped = FALSE /\ raced = FALSE /\ unsettled = FALSE

At(m, step) == op[m].at = step
Go(m, step) == op' = [op EXCEPT ![m].at = step]
Ends(m) == op' = [op EXCEPT ![m] = Idle]

\* The steps at which a ban or a lift is under way.
Enforcing(m) == ~(op[m].at \in {"idle", "resolve", "penalty"})
Settled == ~unsettled /\ \A m \in Moderators : ~Enforcing(m)

--------------------------------------------------------------------------------
(* Reports. *)

Undecided(r) == report[r].status \in {"open", "reviewing"}

\* Mutant of MaySubmit: a report under review no longer counts.
MaySubmitAgain(urgent) == urgent \/ \A r \in ReportIds : report[r].status # "open"

\* assertCanSubmitReport over listOpenByReporterAgainst
MaySubmit(urgent) == urgent \/ \A r \in ReportIds : ~Undecided(r)

\* The open reports are counted ...
SubmitReport(r) ==
    /\ report[r] = NoReport
    /\ \E urgent \in BOOLEAN :
        /\ MaySubmit(urgent)
        /\ report' = [report EXCEPT ![r] = [status |-> "filing", urgent |-> urgent]]
    /\ raced' = (raced \/ \E q \in ReportIds : report[q].status = "filing")
    /\ UNCHANGED <<ban, account, penalty, socket, op, notices, slipped, unsettled>>

\* ... and the row is inserted, with nothing in the table to refuse it.
CreateReport(r) ==
    /\ report[r].status = "filing"
    /\ report' = [report EXCEPT ![r].status = "open"]
    /\ UNCHANGED <<ban, account, penalty, socket, op, notices, history>>

\* claimForReview: a compare-and-set on `open'.
ClaimReport(r) ==
    /\ report[r].status = "open"
    /\ report' = [report EXCEPT ![r].status = "reviewing"]
    /\ UNCHANGED <<ban, account, penalty, socket, op, notices, history>>

\* findById and assertCanResolveReport.
ReadReport(m, r) ==
    /\ op[m] = Idle
    /\ Undecided(r)
    /\ op' = [op EXCEPT ![m].at = "resolve", ![m].on = r]
    /\ UNCHANGED <<report, ban, account, penalty, socket, notices, history>>

\* Mutant of ResolveRow: the UPDATE does not look at the status.
ResolveRowAnyway(r, outcome) ==
    /\ report[r].status \in ReportStatus
    /\ report' = [report EXCEPT ![r].status = outcome]

\* UPDATE ... WHERE status IN ('open', 'reviewing')
ResolveRow(r, outcome) ==
    /\ Undecided(r)
    /\ report' = [report EXCEPT ![r].status = outcome]

\* An upheld report costs standing; a dismissed one does not.  The event may
\* fail to be written.  The route then may ban as well, as a request of its own.
ResolveReport(m, r) ==
    /\ At(m, "resolve") /\ op[m].on = r
    /\ \E outcome \in {"upheld", "dismissed"}, written \in BOOLEAN :
        /\ ResolveRow(r, outcome)
        /\ penalty' = IF outcome = "upheld" /\ written
                      THEN [penalty EXCEPT ![r] = @ + 1] ELSE penalty
    /\ Ends(m)
    /\ UNCHANGED <<ban, account, socket, notices, history>>

\* Somebody else decided it first: NOT_FOUND.
ResolveRefused(m) ==
    /\ At(m, "resolve") /\ ~Undecided(op[m].on)
    /\ Ends(m)
    /\ UNCHANGED <<report, ban, account, penalty, socket, notices, history>>

--------------------------------------------------------------------------------
(* Bans. *)

Active(b) == ban[b].inForce /\ ~ban[b].lifted

\* Mutant of StatusFromBans: a lifted ban still counts.
StatusIgnoresLifts ==
    IF \E b \in BanIds : ban[b].inForce /\ ban[b].permanent THEN "banned"
    ELSE IF \E b \in BanIds : ban[b].inForce THEN "suspended" ELSE "active"

\* statusFromBans and isActiveBan
StatusFromBans ==
    IF \E b \in BanIds : Active(b) /\ ban[b].permanent THEN "banned"
    ELSE IF \E b \in BanIds : Active(b) THEN "suspended" ELSE "active"

Start(m) ==
    /\ op[m] = Idle
    /\ unsettled' = (unsettled \/ \E n \in Moderators : Enforcing(n))

\* createBan: the durable record comes first.
BanUser(m, permanent) ==
    /\ Start(m)
    /\ \E b \in BanIds :
        /\ ban[b] = NoBan
        /\ ban' = [ban EXCEPT ![b] = [permanent |-> permanent, inForce |-> TRUE,
                                      lifted |-> FALSE, issued |-> TRUE]]
    /\ Go(m, "list")
    /\ UNCHANGED <<report, account, penalty, socket, notices, slipped, raced>>

LiftBan(m) ==
    /\ Start(m)
    /\ ban' = [b \in BanIds |-> [ban[b] EXCEPT !.lifted = ban[b].issued]]
    /\ Go(m, "listAfterLift")
    /\ UNCHANGED <<report, account, penalty, socket, notices, slipped, raced>>

\* listBans
ListBans(m) ==
    /\ op[m].at \in {"list", "listAfterLift"}
    /\ op' = [op EXCEPT ![m].at = IF @ = "list" THEN "project" ELSE "restore",
                        ![m].saw = StatusFromBans]
    /\ UNCHANGED <<report, ban, account, penalty, socket, notices, history>>

\* updateStatus with what was listed.
UpdateStatus(m) ==
    /\ op[m].at \in {"project", "restore"}
    /\ status' = op[m].saw
    /\ IF At(m, "project") THEN Go(m, "revoke") ELSE Ends(m)
    /\ UNCHANGED <<report, ban, penalty, signedIn, socket, notices, history>>

RevokeAllSessions(m) ==
    /\ At(m, "revoke")
    /\ signedIn' = FALSE
    /\ Go(m, "sever")
    /\ slipped' = (slipped \/ socket = "admitted")
    /\ UNCHANGED <<report, ban, status, penalty, socket, notices, raced, unsettled>>

\* Mutant of DisconnectUser: the rooms are left, the socket stays.
LeaveSocketOpen == UNCHANGED socket

\* Who has joined the user's channel is disconnected; a socket still in the
\* handshake is not in it yet.
DisconnectUser == socket' = IF socket = "open" THEN "none" ELSE socket

\* ejectFromEverywhere and the publish.
EjectFromEverywhere(m) ==
    /\ At(m, "sever")
    /\ DisconnectUser
    /\ notices' = notices + 1
    /\ Ends(m)
    /\ UNCHANGED <<report, ban, account, penalty, history>>

\* Each API process hears of it, or does not.
moderationSubscriber ==
    /\ notices > 0
    /\ notices' = notices - 1
    /\ DisconnectUser \/ UNCHANGED socket
    /\ UNCHANGED <<report, ban, account, penalty, op, history>>

\* A suspension runs out: nobody recomputes the status.
BanExpires(b) ==
    /\ Active(b) /\ ~ban[b].permanent
    /\ \A m \in Moderators : ~Enforcing(m)
    /\ ban' = [ban EXCEPT ![b].inForce = FALSE]
    /\ UNCHANGED <<report, account, penalty, socket, op, notices, history>>

Stop(m) ==
    /\ MayStop
    /\ op[m] # Idle
    /\ Ends(m)
    /\ unsettled' = (unsettled \/ Enforcing(m))
    /\ UNCHANGED <<report, ban, account, penalty, socket, notices, slipped, raced>>

--------------------------------------------------------------------------------
(* The person. *)

SignIn ==
    /\ status = "active"
    /\ ~signedIn
    /\ signedIn' = TRUE
    /\ UNCHANGED <<report, ban, status, penalty, socket, op, notices, history>>

\* The handshake: the token, then the account ...
Authenticate ==
    /\ socket = "none"
    /\ signedIn /\ status = "active"
    /\ socket' = "admitted"
    /\ slipped' = (slipped \/ \E m \in Moderators : op[m].at \in {"revoke", "sever"})
    /\ UNCHANGED <<report, ban, account, penalty, op, notices, raced, unsettled>>

\* ... and the socket joins the user's channel.
Connected ==
    /\ socket = "admitted"
    /\ socket' = "open"
    /\ UNCHANGED <<report, ban, account, penalty, op, notices, history>>

Disconnect ==
    /\ socket # "none"
    /\ socket' = "none"
    /\ slipped' = FALSE
    /\ UNCHANGED <<report, ban, account, penalty, op, notices, raced, unsettled>>

\* The actor is read again on every event.
Event ==
    /\ socket = "open"
    /\ status # "active"
    /\ socket' = "none"
    /\ slipped' = FALSE
    /\ UNCHANGED <<report, ban, account, penalty, op, notices, raced, unsettled>>

Next ==
    \/ \E r \in ReportIds : SubmitReport(r) \/ CreateReport(r) \/ ClaimReport(r)
    \/ \E m \in Moderators :
        \/ \E r \in ReportIds : ReadReport(m, r) \/ ResolveReport(m, r)
        \/ \E permanent \in BOOLEAN : BanUser(m, permanent)
        \/ ResolveRefused(m) \/ LiftBan(m) \/ ListBans(m) \/ UpdateStatus(m)
        \/ RevokeAllSessions(m) \/ EjectFromEverywhere(m) \/ Stop(m)
    \/ \E b \in BanIds : BanExpires(b)
    \/ moderationSubscriber \/ SignIn \/ Authenticate \/ Connected \/ Disconnect \/ Event

--------------------------------------------------------------------------------
(* Properties. *)

TypeOK ==
    /\ \A r \in ReportIds : /\ report[r].status \in ReportStatus \cup {"none", "filing"}
                            /\ report[r].urgent \in BOOLEAN
                            /\ penalty[r] \in Nat
    /\ \A b \in BanIds : ban[b] \in [permanent : BOOLEAN, inForce : BOOLEAN,
                                     lifted : BOOLEAN, issued : BOOLEAN]
    /\ status \in {"active", "suspended", "banned"}
    /\ signedIn \in BOOLEAN /\ socket \in {"none", "admitted", "open"}
    /\ \A m \in Moderators : /\ op[m].saw \in {"active", "suspended", "banned"}
                           /\ op[m].on \in ReportIds \cup {NoReportId}
    /\ notices \in Nat

\* A report costs its target standing once, and only if it was upheld
\* (ReviewReports.ts:98-110, the guard of resolve in
\* PostgresReportRepository.ts:171-178), whoever decides it at the same time.
PenaltyOnce ==
    \A r \in ReportIds :
        penalty[r] <= 1 /\ (penalty[r] = 1 => report[r].status = "upheld")

\* A reporter holds one undecided report at a time (moderation.ts:66-77), the
\* urgent ones apart, unless two were submitted at the same moment.
OneReportOpen ==
    \/ raced
    \/ \A q, r \in ReportIds :
        Undecided(q) /\ Undecided(r) /\ ~report[q].urgent /\ ~report[r].urgent => q = r

\* "If the two ever disagree, the ban row wins" (Ban.ts:14-17): between requests
\* that ran alone and to their end, an account under a ban in force is refused
\* everywhere, and one whose bans were all lifted is not.
BanRowsWin ==
    Settled =>
        /\ (\E b \in BanIds : Active(b)) => status # "active"
        /\ (\A b \in BanIds : ban[b].issued => ban[b].lifted) => status = "active"

\* Once a ban was carried out, the person has no session and no socket
\* (BanUser.ts:28-42), unless a handshake was under way that had read the
\* account before.
BannedAreOut ==
    Settled /\ status # "active" => ~signedIn /\ (socket = "open" => slipped)

================================================================================
