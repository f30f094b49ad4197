-------------------------------- MODULE Sessions -------------------------------
(***************************************************************************)
(* Staying signed in (JwtTokenService.ts, RefreshSession.ts, Logout.ts,    *)
(* AuthenticateRequest.ts; apiClient.ts and AuthProvider.tsx in the tabs): *)
(* the refresh tokens of one account, the tombstones of revoked sessions,  *)
(* the index of its sessions, and the tabs of its browsers.                *)
(*                                                                         *)
(* Tabs of one browser share a cookie jar but not the refresh in flight,   *)
(* which is a variable of each tab's apiClient.  A request runs one step   *)
(* per call to Redis or Postgres.  Time is a counter; an instant in it is  *)
(* the last at which a credential or a key still counts.                   *)
(***************************************************************************)
EXTENDS Naturals, FiniteSets

CONSTANTS
    Tabs, Browsers,
    Browser,     \* [Tabs -> Browsers]
    Moderator,   \* whoever runs BanUser, not one of the Tabs
    SessionIds,
    NoSession,
    MaxTokens,   \* bound on the refresh tokens ever issued
    MaxTime,     \* bound on the clock
    AccessTtl, RefreshTtl  \* AccessTtl < RefreshTtl

VARIABLES
    now,
    refresh,    \* [token -> record under refresh:<token>]
    index,      \* user_sessions:<user> and its deadline
    tombstone,  \* [SessionIds -> until when session_revoked:<session> stands]
    status,     \* of the account
    cookie,     \* [Browsers -> the refresh token in the jar, 0 if none]
    access,     \* [Tabs -> the access token in memory]
    call,       \* [Tabs \cup {Moderator} -> the request under way]
    gone,       \* history: sessions that were revoked
    crossed,    \* history: sessions whose tokens were being issued, or missed, then
    replayed,   \* history: sessions ended only because a token came twice
    excused     \* history: sessions whose answer was lost or refused, or asked for twice at once

vars == <<now, refresh, index, tombstone, status, cookie, access, call,
          gone, crossed, replayed, excused>>
history == <<gone, crossed, replayed, excused>>
keys == <<refresh, index, tombstone>>
browser == <<cookie, access>>

Actors == Tabs \cup {Moderator}
Tokens == 1..MaxTokens
NoToken == 0
Unissued == [session |-> NoSession, used |-> TRUE, until |-> 0]
NoAccess == [session |-> NoSession, until |-> 0]
NoCall == [at |-> "idle", session |-> NoSession, token |-> NoToken, found |-> {}, late |-> FALSE]

Init ==
    /\ now = 1
    /\ refresh = [k \in Tokens |-> Unissued]
    /\ index = [ids |-> {}, until |-> 0]
    /\ tombstone = [s \in SessionIds |-> 0]
    /\ status = "active"
    /\ cookie = [b \in Browsers |-> NoToken]
    /\ access = [t \in Tabs |-> NoAccess]
    /\ call = [a \in Actors |-> NoCall]
    /\ gone = {} /\ crossed = {} /\ replayed = {} /\ excused = {}

Revoked(s) == tombstone[s] >= now
Members == IF index.until >= now THEN index.ids ELSE {}

At(a, step) == call[a].at = step
Go(a, step) == call' = [call EXCEPT ![a].at = step]
Ends(a) == call' = [call EXCEPT ![a] = NoCall]

\* apiClient's catch: the tab is signed out.
SignedOut(t) == Ends(t) /\ access' = [access EXCEPT ![t] = NoAccess]

\* verifyAccessToken and AuthenticateRequest
Authentic(t) ==
    /\ access[t].until >= now
    /\ ~Revoked(access[t].session)
    /\ status = "active"

--------------------------------------------------------------------------------
(* Tokens are issued: by a login, or for a refresh. *)

\* Mutant of Remember: the deadline is set for a new key only.
RememberOnce(s) ==
    index' = [ids |-> Members \cup {s},
              until |-> IF Members = {} THEN now + RefreshTtl ELSE index.until]

\* SADD and EXPIRE of the index.
Remember(s) == index' = [ids |-> Members \cup {s}, until |-> now + RefreshTtl]

Unused == {s \in SessionIds \ (excused \cup gone) :
              /\ \A k \in Tokens : refresh[k].session # s
              /\ \A a \in Actors : call[a].session # s}

\* A login that was let in opens a session of its own (VerifyLoginCode.issueTokens).
Login(t) ==
    /\ call[t] = NoCall /\ access[t] = NoAccess
    /\ status = "active"
    /\ \E s \in Unused : call' = [call EXCEPT ![t] = [NoCall EXCEPT !.at = "access",
                                                                    !.session = s]]
    /\ UNCHANGED <<now, keys, status, browser, history>>

IssueAccessToken(t) ==
    /\ At(t, "access")
    /\ Remember(call[t].session)
    /\ Go(t, "refresh")
    /\ UNCHANGED <<now, refresh, tombstone, status, browser, history>>

IssueRefreshToken(t) ==
    /\ At(t, "refresh")
    /\ \E k \in Tokens :
        /\ k = Cardinality({j \in Tokens : refresh[j] # Unissued}) + 1
        /\ refresh' = [refresh EXCEPT ![k] = [session |-> call[t].session, used |-> FALSE,
                                              until |-> now + RefreshTtl]]
        /\ call' = [call EXCEPT ![t].at = "answer", ![t].token = k]
    /\ Remember(call[t].session)
    /\ UNCHANGED <<now, tombstone, status, browser, history>>

\* Mutant of Answer: the new cookie is not set.
AnswerWithoutCookie(t) ==
    /\ At(t, "answer")
    /\ access' = [access EXCEPT ![t] = [session |-> call[t].session, until |-> now + AccessTtl]]
    /\ Ends(t)
    /\ cookie' = IF cookie[Browser[t]] = NoToken
                 THEN [cookie EXCEPT ![Browser[t]] = call[t].token] ELSE cookie
    /\ UNCHANGED <<now, keys, status, history>>

\* setRefreshCookie and the body; issued and received in one instant.
Answer(t) ==
    /\ At(t, "answer")
    /\ access' = [access EXCEPT ![t] = [session |-> call[t].session, until |-> now + AccessTtl]]
    /\ Ends(t)
    /\ cookie' = [cookie EXCEPT ![Browser[t]] = call[t].token]
    /\ UNCHANGED <<now, keys, status, history>>

\* The answer is lost, or the server stops half way: the request is over.
Lose(t) ==
    /\ call[t] # NoCall
    /\ SignedOut(t)
    /\ excused' = excused \cup ({call[t].session} \ {NoSession})
    /\ UNCHANGED <<now, keys, status, cookie, gone, crossed, replayed>>

--------------------------------------------------------------------------------
(* A refresh. *)

TabsOf(b) == {t \in Tabs : Browser[t] = b}

\* refreshAccessToken: at a 401 and when a page loads, at most one per tab.
RefreshInTab(t) ==
    LET k == cookie[Browser[t]] IN
    /\ call[t] = NoCall
    /\ ~Authentic(t)
    /\ k # NoToken
    /\ call' = [call EXCEPT ![t] = [NoCall EXCEPT !.at = "rotate", !.token = k,
                                                  !.session = refresh[k].session]]
    /\ excused' = IF \E u \in TabsOf(Browser[t]) \ {t} : call[u] # NoCall
                 THEN excused \cup {refresh[k].session} ELSE excused
    /\ UNCHANGED <<now, keys, status, browser, gone, crossed, replayed>>

\* Mutant of Rotate: the token is not marked.
RotateUnmarked(t) ==
    LET k == call[t].token IN
    /\ At(t, "rotate")
    /\ IF refresh[k].until < now THEN SignedOut(t)
       ELSE Go(t, IF refresh[k].used THEN "revoke" ELSE "admit") /\ UNCHANGED access
    /\ replayed' = IF refresh[k].until >= now /\ refresh[k].used
                   THEN replayed \cup ({refresh[k].session} \ gone) ELSE replayed
    /\ UNCHANGED <<now, keys, status, cookie, gone, crossed, excused>>

\* ROTATE_SCRIPT, atomic: unknown, a replay, or marked used.
Rotate(t) ==
    LET k == call[t].token IN
    /\ At(t, "rotate")
    /\ IF refresh[k].until < now THEN SignedOut(t) /\ UNCHANGED <<refresh, replayed>>
       ELSE /\ UNCHANGED access
            /\ IF refresh[k].used
               THEN /\ Go(t, "revoke") /\ UNCHANGED refresh
                    /\ replayed' = replayed \cup ({refresh[k].session} \ gone)
               ELSE /\ Go(t, "admit") /\ UNCHANGED replayed
                    /\ refresh' = [refresh EXCEPT ![k].used = TRUE]
    /\ UNCHANGED <<now, index, tombstone, status, cookie, gone, crossed, excused>>

\* The tombstone is looked up after the rotation ...
NotRevoked(t) ==
    /\ At(t, "admit")
    /\ IF Revoked(call[t].session) THEN SignedOut(t)
       ELSE Go(t, "standing") /\ UNCHANGED access
    /\ UNCHANGED <<now, keys, status, cookie, history>>

\* ... and then the account; a suspended one loses every session.
InGoodStanding(t) ==
    /\ At(t, "standing")
    /\ IF status = "active" THEN Go(t, "access") /\ UNCHANGED excused
       ELSE Go(t, "members") /\ excused' = excused \cup {call[t].session}
    /\ UNCHANGED <<now, keys, status, browser, gone, crossed, replayed>>

--------------------------------------------------------------------------------
(* Sessions end. *)

\* Mutant of Tombstone: it lives as long as an access token.
ShortTombstone == now + AccessTtl

Tombstone == now + RefreshTtl

\* Sessions with a request that has passed the look-up and writes later.
InIssue == {call[a].session : a \in {b \in Tabs : call[b].at \in {"standing", "access",
                                                                  "refresh", "answer"}}}

RevokeSession(t) ==
    LET s == call[t].session IN
    /\ At(t, "revoke")
    /\ tombstone' = [tombstone EXCEPT ![s] = Tombstone]
    /\ gone' = gone \cup {s}
    /\ crossed' = crossed \cup ({s} \cap InIssue)
    /\ SignedOut(t)
    /\ UNCHANGED <<now, refresh, index, status, cookie, replayed, excused>>

\* revokeAllSessions reads the index ...
ReadIndex(a) ==
    /\ At(a, "members")
    /\ IF Members = {} THEN Ends(a)
       ELSE call' = [call EXCEPT ![a].at = "bury", ![a].found = Members]
    /\ UNCHANGED <<now, keys, status, browser, history>>

\* ... and buries what it read, dropping the whole index.
Bury(a) ==
    LET found == call[a].found IN
    /\ At(a, "bury")
    /\ tombstone' = [s \in SessionIds |-> IF s \in found THEN Tombstone ELSE tombstone[s]]
    /\ index' = [ids |-> {}, until |-> 0]
    /\ gone' = gone \cup found
    /\ crossed' = crossed \cup (Members \ found) \cup InIssue
    /\ Ends(a)
    /\ UNCHANGED <<now, refresh, status, browser, replayed, excused>>

\* signOut: the tab forgets its token and the answer clears the cookie.
Logout(t, everywhere) ==
    /\ call[t] = NoCall
    /\ Authentic(t)
    /\ call' = [call EXCEPT ![t] = [NoCall EXCEPT
                   !.at = IF everywhere THEN "members" ELSE "revoke",
                   !.session = access[t].session]]
    /\ cookie' = [cookie EXCEPT ![Browser[t]] = NoToken]
    /\ access' = [access EXCEPT ![t] = NoAccess]
    /\ UNCHANGED <<now, keys, status, history>>

\* BanUser: the status first, then every session.
Ban ==
    /\ status = "active" /\ call[Moderator] = NoCall
    /\ status' = "suspended"
    /\ Go(Moderator, "members")
    /\ UNCHANGED <<now, keys, browser, history>>

LiftBan ==
    /\ status = "suspended" /\ call[Moderator] = NoCall
    /\ status' = "active"
    /\ UNCHANGED <<now, keys, browser, call, history>>

\* A tab is reloaded: the token in memory goes, the cookie stays.
Reload(t) ==
    /\ call[t] = NoCall
    /\ access[t] # NoAccess
    /\ access' = [access EXCEPT ![t] = NoAccess]
    /\ UNCHANGED <<now, keys, status, cookie, call, history>>

\* No request lasts two ticks, nor does one fall between a rotation and its
\* look-up: a refresh token lives thirty days.
Tick ==
    /\ now < MaxTime
    /\ \A a \in Actors : ~call[a].late /\ call[a].at # "admit"
    /\ now' = now + 1
    /\ call' = [a \in Actors |-> IF call[a] = NoCall THEN NoCall
                                ELSE [call[a] EXCEPT !.late = TRUE]]
    /\ UNCHANGED <<keys, status, browser, history>>

Next ==
    \/ Tick \/ Ban \/ LiftBan
    \/ \E a \in Actors : ReadIndex(a) \/ Bury(a)
    \/ \E t \in Tabs :
        \/ Login(t) \/ RefreshInTab(t) \/ Logout(t, FALSE) \/ Logout(t, TRUE)
        \/ IssueAccessToken(t) \/ IssueRefreshToken(t) \/ Answer(t) \/ Lose(t)
        \/ Rotate(t) \/ NotRevoked(t) \/ InGoodStanding(t) \/ RevokeSession(t) \/ Reload(t)

--------------------------------------------------------------------------------
(* Properties. *)

Usable(k) == refresh[k].until >= now /\ ~refresh[k].used

TypeOK ==
    /\ now \in 1..MaxTime
    /\ \A k \in Tokens : /\ refresh[k].session \in SessionIds \cup {NoSession}
                         /\ refresh[k].used \in BOOLEAN /\ refresh[k].until \in Nat
    /\ index.ids \subseteq SessionIds
    /\ tombstone \in [SessionIds -> Nat]
    /\ status \in {"active", "suspended"}
    /\ cookie \in [Browsers -> {NoToken} \cup Tokens]
    /\ \A t \in Tabs : access[t].session \in SessionIds \cup {NoSession}
    /\ \A a \in Actors : /\ call[a].session \in SessionIds \cup {NoSession}
                         /\ call[a].token \in {NoToken} \cup Tokens
                         /\ call[a].found \subseteq SessionIds /\ call[a].late \in BOOLEAN
    /\ gone \cup crossed \cup replayed \cup excused \subseteq SessionIds

\* "Refresh tokens are single-use" (JwtTokenService.ts:40-46): whoever races, a
\* session has at most one refresh token that would still be taken.
OneLineage ==
    \A j, k \in Tokens :
        Usable(j) /\ Usable(k) /\ refresh[j].session = refresh[k].session => j = k

\* "The tombstone must outlive any token that could reference it, or a revoked
\* session would quietly become valid again" (JwtTokenService.ts:228-230): no
\* credential of a revoked session is taken again, at any later time, unless
\* tokens of that session were being issued while it was revoked.
RevokedStaysRevoked ==
    \A s \in gone \ crossed :
        /\ \A k \in Tokens : Usable(k) /\ refresh[k].session = s => Revoked(s)
        /\ \A t \in Tabs : access[t].until >= now /\ access[t].session = s => Revoked(s)

\* "Recorded so revokeAllSessions can find every session" (JwtTokenService.ts:
\* 106-108): a session that could still refresh is in the index, unless it is
\* revoked or was being opened while every session was signed out.
SessionsCanBeFound ==
    \A k \in Tokens :
        Usable(k) => LET s == refresh[k].session IN
                     s \in Members \/ Revoked(s) \/ s \in crossed \cup gone

\* A session ends as a replay (JwtTokenService.ts:209-218) only if an answer to
\* it was lost or refused, or two tabs of a browser asked at once: one tab that
\* refreshes whenever it must is never signed out by its own rotation.
ReplaysHaveACause == replayed \subseteq excused

================================================================================
