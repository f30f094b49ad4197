-------------------------------- MODULE SessionsProofs -------------------------
(***************************************************************************)
(* Facts about Sessions for any tabs, browsers and sessions, any lifetimes *)
(* and any bounds: what AccountsProofs needs to prove that a session has   *)
(* one usable refresh token, can be found, stays revoked, and is not ended *)
(* by its own rotation.                                                    *)
(***************************************************************************)
EXTENDS Sessions, FiniteSetTheorems, TLAPS

Bounds ==
    /\ Moderator \notin Tabs
    /\ Browser \in [Tabs -> Browsers]
    /\ NoSession \notin SessionIds
    /\ MaxTokens \in Nat
    /\ MaxTime \in Nat \ {0}
    /\ AccessTtl \in Nat /\ RefreshTtl \in Nat

\* An access token lives no longer than a refresh token.
Shorter == AccessTtl <= RefreshTtl

Steps == {"idle", "access", "refresh", "answer", "rotate", "admit", "standing",
          "revoke", "members", "bury"}

AnySession == SessionIds \cup {NoSession}

Call == [at : Steps, session : AnySession, token : {NoToken} \cup Tokens,
         found : SUBSET SessionIds, late : BOOLEAN]

\* The steps of a request that may issue a refresh token, and of one that will
\* set its browser's cookie.
Entitled == {"admit", "standing", "access", "refresh"}
Bringing == Entitled \cup {"answer"}
Issuing == {"standing", "access", "refresh", "answer"}

Issued(k) == refresh[k] # Unissued

Shape ==
    /\ now \in 1..MaxTime
    /\ refresh \in [Tokens -> [session : AnySession, used : BOOLEAN, until : Nat]]
    /\ index \in [ids : SUBSET SessionIds, until : Nat]
    /\ tombstone \in [SessionIds -> Nat]
    /\ status \in {"active", "suspended"}
    /\ cookie \in [Browsers -> {NoToken} \cup Tokens]
    /\ access \in [Tabs -> [session : AnySession, until : Nat]]
    /\ call \in [Actors -> Call]
    /\ gone \subseteq SessionIds /\ crossed \subseteq SessionIds
    /\ replayed \subseteq SessionIds /\ excused \subseteq SessionIds

\* A token names a session once it is issued, and tokens are issued in order.
Ordered ==
    /\ \A k \in Tokens : Issued(k) => refresh[k].session \in SessionIds
    /\ \A j, k \in Tokens : j < k /\ Issued(k) => Issued(j)

\* A request knows the session it is about, and a rotation that of its token.
Known ==
    /\ \A t \in Tabs :
        /\ call[t].at \in Bringing \cup {"rotate", "revoke"} => call[t].session \in SessionIds
        /\ call[t].at \in {"rotate", "answer"} => call[t].token \in Tokens /\ Issued(call[t].token)
        /\ call[t].at = "rotate" => refresh[call[t].token].session = call[t].session
        /\ access[t].until > 0 => access[t].session \in SessionIds
    /\ call[Moderator].at \in {"idle", "members", "bury"}

\* Nothing outlives its lifetime, counted from now.
Horizon ==
    /\ \A k \in Tokens : refresh[k].until <= now + RefreshTtl
    /\ \A t \in Tabs : access[t].until <= now + AccessTtl
    /\ \A s \in SessionIds : tombstone[s] > 0 => s \in gone

\* A session has one unused token, or one request that is entitled to issue it.
Unspent(k) == ~refresh[k].used
Holder(t, s) == call[t].at \in Entitled /\ call[t].session = s

Lineage ==
    /\ \A j, k \in Tokens :
        Unspent(j) /\ Unspent(k) /\ refresh[j].session = refresh[k].session => j = k
    /\ \A t \in Tabs, k \in Tokens : Unspent(k) => ~Holder(t, refresh[k].session)
    /\ \A t, u \in Tabs, s \in SessionIds : Holder(t, s) /\ Holder(u, s) => t = u

\* A session revoked outside an issue is buried as long as anything names it: an
\* access token too, if it lives no longer than a refresh token (config.ts bounds
\* each lifetime, and neither by the other).
Buried ==
    \A s \in gone \ crossed :
        /\ \A k \in Tokens : refresh[k].session = s => refresh[k].until <= tombstone[s]
        /\ \A t \in Tabs :
            /\ access[t].session = s /\ Shorter => access[t].until <= tombstone[s]
            /\ call[t].session = s => call[t].at \notin Issuing
            /\ call[t].session = s /\ call[t].at = "admit" => Revoked(s)

\* The index outlives the tokens of the sessions it must find.
Found ==
    \A k \in Tokens :
        Usable(k) /\ refresh[k].session \notin crossed \cup gone =>
            refresh[k].session \in index.ids /\ refresh[k].until <= index.until

\* A token is known to one browser; one that is not answered yet, to nobody.
OneBrowser ==
    /\ \A b \in Browsers : cookie[b] # NoToken => Issued(cookie[b])
    /\ \A b, c \in Browsers : cookie[b] = cookie[c] /\ cookie[b] # NoToken => b = c
    /\ \A t \in Tabs : call[t].at = "rotate" =>
        /\ \A b \in Browsers : cookie[b] = call[t].token => b = Browser[t]
        /\ \A u \in Tabs : call[u].at = "rotate" /\ call[u].token = call[t].token =>
               Browser[u] = Browser[t]
    /\ \A t \in Tabs : call[t].at = "answer" =>
        /\ Unspent(call[t].token)
        /\ \A b \in Browsers : cookie[b] # call[t].token
        /\ \A u \in Tabs \ {t} : call[u].at \in {"rotate", "answer"} =>
               call[u].token # call[t].token

\* Whatever could be asked for twice, or was not brought to its end, is excused.
Explained ==
    /\ \A t \in Tabs :
        call[t].at = "rotate" /\ call[t].session \notin gone \cup excused =>
            /\ Unspent(call[t].token)
            /\ \A u \in Tabs : call[u].at = "rotate" /\ call[u].token = call[t].token => u = t
    /\ \A b \in Browsers :
        /\ cookie[b] # NoToken
        /\ ~Unspent(cookie[b])
        /\ refresh[cookie[b]].session \notin gone \cup excused
        => \E t \in Tabs : /\ Browser[t] = b /\ call[t].at \in Bringing
                           /\ call[t].session = refresh[cookie[b]].session
    /\ replayed \subseteq excused

Inv == /\ Shape /\ Ordered /\ Known /\ Horizon /\ Lineage /\ Buried /\ Found
       /\ OneBrowser /\ Explained

--------------------------------------------------------------------------------
LEMMA Actings ==
    ASSUME Bounds
    PROVE  /\ Moderator \in Actors /\ \A t \in Tabs : t \in Actors /\ t # Moderator
           /\ \A a \in Actors : a # Moderator => a \in Tabs
BY DEF Bounds, Actors

LEMMA NoCallIsCall ==
    /\ NoCall \in Call /\ NoCall.at = "idle" /\ NoCall.session = NoSession
    /\ NoCall.token = NoToken /\ NoCall.found = {} /\ NoCall.late = FALSE
BY DEF NoCall, Call, Steps, AnySession

LEMMA CallMoves ==
    ASSUME Shape, NEW a \in Actors, NEW next \in Call, call' = [call EXCEPT ![a] = next]
    PROVE  /\ call' \in [Actors -> Call] /\ call'[a] = next
           /\ \A b \in Actors \ {a} : call'[b] = call[b]
BY DEF Shape

\* A request moves to another step with what it has.
LEMMA GoMoves ==
    ASSUME Shape, NEW a \in Actors, NEW step \in Steps, Go(a, step)
    PROVE  /\ call' \in [Actors -> Call] /\ call'[a].at = step
           /\ call'[a].session = call[a].session /\ call'[a].token = call[a].token
           /\ \A b \in Actors \ {a} : call'[b] = call[b]
BY DEF Shape, Go, Call

LEMMA NamesOfUnissued ==
    ASSUME Bounds
    PROVE  /\ Unissued.session = NoSession /\ Unissued.used = TRUE /\ Unissued.until = 0
           /\ NoAccess.session = NoSession /\ NoAccess.until = 0
           /\ NoAccess \in [session : AnySession, until : Nat]
BY DEF Unissued, NoAccess, AnySession

\* Whoever withdraws a request, a cookie or an access token, and whatever is
\* buried with it, leaves the rest in order.
LEMMA Withdraws ==
    ASSUME Bounds, Inv, NEW a \in Actors, NEW next \in Call,
           next.at \in {"idle", "revoke", "members", "bury"},
           next.at = "revoke" => next.session \in SessionIds /\ a # Moderator,
           call' = [call EXCEPT ![a] = next],
           access' \in [Tabs -> [session : AnySession, until : Nat]],
           \A t \in Tabs : access'[t] \in {access[t], NoAccess},
           UNCHANGED <<now, refresh>>,
           NEW found \in SUBSET SessionIds, gone' = gone \cup found,
           crossed \subseteq crossed', crossed' \subseteq SessionIds,
           found \cap InIssue \subseteq crossed',
           tombstone' \in [SessionIds -> Nat],
           \A s \in SessionIds : tombstone'[s] = IF s \in found THEN now + RefreshTtl
                                                ELSE tombstone[s],
           index' \in [ids : SUBSET SessionIds, until : Nat],
           index' = index \/ Members \subseteq gone' \cup crossed',
           cookie' \in [Browsers -> {NoToken} \cup Tokens],
           \A b \in Browsers : cookie'[b] \in {cookie[b], NoToken},
           status' \in {"active", "suspended"},
           excused \subseteq excused', excused' \subseteq SessionIds, replayed' \subseteq excused',
           a \in Tabs /\ call[a].at \in Bringing =>
               call[a].session \in gone' \cup excused' \/ cookie'[Browser[a]] = NoToken
    PROVE  Inv'
<1>0. /\ Shape /\ Ordered /\ Known /\ Horizon /\ Lineage /\ Buried /\ Found
      /\ OneBrowser /\ Explained
  BY DEF Inv
<1>1. /\ call' \in [Actors -> Call] /\ call'[a] = next
      /\ \A b \in Actors \ {a} : call'[b] = call[b]
  BY <1>0, CallMoves
<1>2. /\ \A t \in Tabs : t \in Actors /\ t # Moderator
      /\ Moderator \in Actors
  BY Actings
<1>3. \A t \in Tabs : call'[t].at \in Bringing \cup {"rotate"} => t # a /\ call'[t] = call[t]
  BY <1>1, <1>2 DEF Bringing, Entitled
<1>4. NoSession \notin SessionIds /\ NoAccess.session = NoSession /\ NoAccess.until = 0
  BY NamesOfUnissued DEF Bounds
<1>5. Shape'
  BY <1>0, <1>1 DEF Shape
<1>6. Ordered' /\ Lineage'
  BY <1>0, <1>3 DEF Ordered, Lineage, Issued, Unspent, Holder, Bringing
<1>7. Known'
  <2>1. ASSUME NEW t \in Tabs
        PROVE  /\ call'[t].at \in Bringing \cup {"rotate", "revoke"} => call'[t].session \in SessionIds
               /\ access'[t].until > 0 => access'[t].session \in SessionIds
    <3>1. CASE t = a
      BY <1>0, <1>1, <1>3, <1>4, <3>1 DEF Known
    <3>2. CASE t # a
      BY <1>0, <1>1, <1>2, <1>4, <3>2 DEF Known
    <3> QED BY <3>1, <3>2
  <2>2. ASSUME NEW t \in Tabs
        PROVE  /\ call'[t].at \in {"rotate", "answer"} =>
                    call'[t].token \in Tokens /\ Issued(call[t].token)'
               /\ call'[t].at = "rotate" => refresh'[call'[t].token].session = call'[t].session
    BY <1>0, <1>3 DEF Known, Issued, Bringing
  <2>3. call'[Moderator].at \in {"idle", "members", "bury"}
    BY <1>0, <1>1, <1>2 DEF Known
  <2> QED BY <2>1, <2>2, <2>3 DEF Known
<1>8. Horizon'
  <2>1. \A t \in Tabs : access'[t].until <= now' + AccessTtl
    BY <1>0, <1>4 DEF Horizon, Shape, Bounds
  <2>2. \A s \in SessionIds : tombstone'[s] > 0 => s \in gone'
    BY <1>0 DEF Horizon
  <2> QED BY <1>0, <2>1, <2>2 DEF Horizon
<1>9. Buried'
  <2> SUFFICES ASSUME NEW s \in gone' \ crossed'
               PROVE  /\ \A k \in Tokens : refresh'[k].session = s => refresh'[k].until <= tombstone'[s]
                      /\ \A t \in Tabs :
                          /\ access'[t].session = s /\ Shorter => access'[t].until <= tombstone'[s]
                          /\ call'[t].session = s => call'[t].at \notin Issuing
                          /\ call'[t].session = s /\ call'[t].at = "admit" => Revoked(s)'
    BY DEF Buried
  <2>0. s \in SessionIds /\ s # NoSession
    BY <1>0, <1>4 DEF Shape
  <2>1. CASE s \in found
    <3>1. s \notin InIssue /\ tombstone'[s] = now + RefreshTtl
      BY <2>0, <2>1
    <3>2. \A t \in Tabs : call[t].session = s => call[t].at \notin Issuing
      BY <3>1 DEF InIssue, Issuing
    <3>3. \A t \in Tabs : access'[t].session = s /\ Shorter => access'[t].until <= tombstone'[s]
      BY <1>0, <1>4, <2>0, <3>1 DEF Horizon, Shape, Bounds, Shorter
    <3>4. \A k \in Tokens : refresh'[k].until <= tombstone'[s]
      BY <1>0, <3>1 DEF Horizon
    <3>5. \A t \in Tabs : call'[t].session = s => call'[t].at \notin Issuing
      BY <1>3, <3>2 DEF Issuing, Bringing, Entitled
    <3>6. Revoked(s)'
      BY <1>0, <3>1 DEF Revoked, Shape, Bounds
    <3> QED BY <3>3, <3>4, <3>5, <3>6
  <2>2. CASE s \notin found
    <3>1. s \in gone \ crossed /\ tombstone'[s] = tombstone[s]
      BY <2>0, <2>2
    <3>2. /\ \A k \in Tokens : refresh[k].session = s => refresh[k].until <= tombstone[s]
          /\ \A t \in Tabs :
              /\ access[t].session = s /\ Shorter => access[t].until <= tombstone[s]
              /\ call[t].session = s => call[t].at \notin Issuing
              /\ call[t].session = s /\ call[t].at = "admit" => tombstone[s] >= now
      BY <1>0, <3>1 DEF Buried, Revoked
    <3>3. \A t \in Tabs : call'[t].session = s => call'[t].at \notin Issuing
      BY <1>3, <3>2 DEF Issuing, Bringing, Entitled
    <3>4. \A t \in Tabs : call'[t].session = s /\ call'[t].at = "admit" => Revoked(s)'
      BY <1>3, <3>1, <3>2 DEF Bringing, Entitled, Revoked
    <3>5. \A t \in Tabs : access'[t].session = s /\ Shorter => access'[t].until <= tombstone'[s]
      BY <1>4, <2>0, <3>1, <3>2
    <3> QED BY <3>1, <3>2, <3>3, <3>4, <3>5
  <2> QED BY <2>1, <2>2
<1>10. Found'
  <2> SUFFICES ASSUME NEW k \in Tokens, Usable(k)',
                      refresh'[k].session \notin crossed' \cup gone'
               PROVE  refresh'[k].session \in index'.ids /\ refresh'[k].until <= index'.until
    BY DEF Found
  <2>1. /\ refresh[k].session \in index.ids /\ refresh[k].until <= index.until
        /\ refresh[k].until >= now
    BY <1>0 DEF Found, Usable
  <2>2. index.until >= now
    BY <1>0, <2>1 DEF Shape, Bounds
  <2>3. refresh[k].session \in Members
    BY <2>1, <2>2 DEF Members
  <2> QED BY <2>1, <2>3
<1>11. OneBrowser'
  <2>1. \A b \in Browsers : cookie'[b] # NoToken => cookie'[b] = cookie[b]
    OBVIOUS
  <2>2. \A t \in Tabs : call[t].at \in {"rotate", "answer"} => call[t].token # NoToken
    BY <1>0 DEF Known, Tokens, NoToken
  <2>3. /\ \A b \in Browsers : cookie'[b] # NoToken => Issued(cookie[b])'
        /\ \A b, c \in Browsers : cookie'[b] = cookie'[c] /\ cookie'[b] # NoToken => b = c
    BY <1>0, <2>1 DEF OneBrowser, Issued
  <2>4. ASSUME NEW t \in Tabs, call'[t].at = "rotate"
        PROVE  /\ \A b \in Browsers : cookie'[b] = call'[t].token => b = Browser[t]
               /\ \A u \in Tabs : call'[u].at = "rotate" /\ call'[u].token = call'[t].token =>
                      Browser[u] = Browser[t]
    BY <1>0, <1>3, <2>1, <2>2, <2>4 DEF OneBrowser
  <2>5. ASSUME NEW t \in Tabs, call'[t].at = "answer"
        PROVE  /\ Unspent(call[t].token)'
               /\ \A b \in Browsers : cookie'[b] # call'[t].token
               /\ \A u \in Tabs \ {t} : call'[u].at \in {"rotate", "answer"} =>
                      call'[u].token # call'[t].token
    <3>1. call'[t] = call[t]
      BY <1>3, <2>5 DEF Bringing
    <3>2. \A u \in Tabs : call'[u].at \in {"rotate", "answer"} => call'[u] = call[u]
      BY <1>3 DEF Bringing
    <3> QED BY SMTT(30), <1>0, <2>1, <2>2, <2>5, <3>1, <3>2 DEF OneBrowser, Unspent
  <2> QED BY <2>3, <2>4, <2>5 DEF OneBrowser
<1>12. Explained'
  <2>1. ASSUME NEW t \in Tabs, call'[t].at = "rotate", call'[t].session \notin gone' \cup excused'
        PROVE  /\ Unspent(call[t].token)'
               /\ \A u \in Tabs : call'[u].at = "rotate" /\ call'[u].token = call'[t].token => u = t
    BY <1>0, <1>3, <2>1 DEF Explained, Unspent
  <2>2. ASSUME NEW b \in Browsers, cookie'[b] # NoToken, ~Unspent(cookie[b])',
               refresh'[cookie'[b]].session \notin gone' \cup excused'
        PROVE  \E t \in Tabs : /\ Browser[t] = b /\ call'[t].at \in Bringing
                               /\ call'[t].session = refresh'[cookie'[b]].session
    <3>1. cookie'[b] = cookie[b]
      BY <2>2
    <3>2. PICK t \in Tabs : /\ Browser[t] = b /\ call[t].at \in Bringing
                            /\ call[t].session = refresh[cookie[b]].session
      BY <1>0, <2>2, <3>1 DEF Explained, Unspent
    <3>3. t # a
      BY <2>2, <3>1, <3>2
    <3> QED BY <1>1, <1>2, <3>1, <3>2, <3>3
  <2> QED BY <2>1, <2>2 DEF Explained
<1> QED BY <1>5, <1>6, <1>7, <1>8, <1>9, <1>10, <1>11, <1>12 DEF Inv

\* The same when nothing is buried.
LEMMA Drops ==
    ASSUME Bounds, Inv, NEW a \in Actors, NEW next \in Call,
           next.at \in {"idle", "revoke", "members", "bury"},
           next.at = "revoke" => next.session \in SessionIds /\ a # Moderator,
           call' = [call EXCEPT ![a] = next],
           access' \in [Tabs -> [session : AnySession, until : Nat]],
           \A t \in Tabs : access'[t] \in {access[t], NoAccess},
           UNCHANGED <<now, refresh, index, tombstone, gone, crossed>>,
           cookie' \in [Browsers -> {NoToken} \cup Tokens],
           \A b \in Browsers : cookie'[b] \in {cookie[b], NoToken},
           status' \in {"active", "suspended"},
           excused \subseteq excused', excused' \subseteq SessionIds, replayed' \subseteq excused',
           a \in Tabs /\ call[a].at \in Bringing =>
               call[a].session \in gone \cup excused' \/ cookie'[Browser[a]] = NoToken
    PROVE  Inv'
<1> DEFINE found == {}
<1>1. found \in SUBSET SessionIds /\ gone' = gone \cup found /\ found \cap InIssue \subseteq crossed'
  OBVIOUS
<1>2. /\ tombstone' \in [SessionIds -> Nat] /\ crossed' \subseteq SessionIds
      /\ index' \in [ids : SUBSET SessionIds, until : Nat]
  BY DEF Inv, Shape
<1>3. \A s \in SessionIds : tombstone'[s] = IF s \in found THEN now + RefreshTtl ELSE tombstone[s]
  OBVIOUS
<1> HIDE DEF found
<1> QED BY <1>1, <1>2, <1>3, Withdraws

LEMMA SignedOutMoves ==
    ASSUME Bounds, Shape, NEW t \in Tabs, SignedOut(t)
    PROVE  /\ call' = [call EXCEPT ![t] = NoCall]
           /\ access' \in [Tabs -> [session : AnySession, until : Nat]]
           /\ \A u \in Tabs : access'[u] \in {access[u], NoAccess}
BY NamesOfUnissued DEF SignedOut, Ends, Shape

LEMMA LoseKeeps ==
    ASSUME Bounds, Inv, NEW t \in Tabs, Lose(t)
    PROVE  Inv'
<1>0. Shape /\ Known /\ Explained
  BY DEF Inv
<1>1. t \in Actors
  BY Actings
<1>2. /\ UNCHANGED <<now, refresh, index, tombstone, status, cookie, gone, crossed, replayed>>
      /\ excused' = excused \cup ({call[t].session} \ {NoSession})
  BY DEF Lose, keys
<1>3. call[t].session \in AnySession /\ (call[t].at \in Bringing => call[t].session \in SessionIds)
  BY <1>0, <1>1 DEF Shape, Call, Known
<1>4. excused' \subseteq SessionIds /\ replayed' \subseteq excused' /\ excused \subseteq excused'
  BY <1>0, <1>2, <1>3 DEF Shape, AnySession, Explained
<1>5. call[t].at \in Bringing => call[t].session \in excused'
  BY <1>2, <1>3 DEF Bounds
<1>6. /\ call' = [call EXCEPT ![t] = NoCall]
      /\ access' \in [Tabs -> [session : AnySession, until : Nat]]
      /\ \A u \in Tabs : access'[u] \in {access[u], NoAccess}
  BY <1>0, SignedOutMoves DEF Lose
<1>7. /\ cookie' \in [Browsers -> {NoToken} \cup Tokens] /\ status' \in {"active", "suspended"}
      /\ \A b \in Browsers : cookie'[b] \in {cookie[b], NoToken}
  BY <1>0, <1>2 DEF Shape
<1> QED BY <1>1, <1>2, <1>4, <1>5, <1>6, <1>7, NoCallIsCall, Drops

LEMMA RotateRefused ==
    ASSUME Bounds, Inv, NEW t \in Tabs, Rotate(t),
           \/ refresh[call[t].token].until < now
           \/ refresh[call[t].token].used
    PROVE  Inv'
<1>0. Shape /\ Known /\ Explained
  BY DEF Inv
<1>1. t \in Actors /\ t # Moderator
  BY Actings
<1> DEFINE k == call[t].token
<1>2. /\ call[t].at = "rotate"
      /\ UNCHANGED <<now, index, tombstone, status, cookie, gone, crossed, excused>>
  BY DEF Rotate, At
<1>3. /\ k \in Tokens /\ call[t].session \in SessionIds /\ refresh[k].session = call[t].session
      /\ call[t].at \notin Bringing
  BY <1>0, <1>2 DEF Known, Bringing, Entitled
<1>4. /\ cookie' \in [Browsers -> {NoToken} \cup Tokens] /\ status' \in {"active", "suspended"}
      /\ \A b \in Browsers : cookie'[b] \in {cookie[b], NoToken}
      /\ excused' \subseteq SessionIds /\ excused' = excused
  BY <1>0, <1>2 DEF Shape
<1>5. CASE refresh[k].until < now
  <2>1. SignedOut(t) /\ UNCHANGED <<refresh, replayed>>
    BY <1>5 DEF Rotate
  <2>2. replayed' \subseteq excused'
    BY <1>0, <1>4, <2>1 DEF Explained
  <2>3. /\ call' = [call EXCEPT ![t] = NoCall]
        /\ access' \in [Tabs -> [session : AnySession, until : Nat]]
        /\ \A u \in Tabs : access'[u] \in {access[u], NoAccess}
    BY <1>0, <2>1, SignedOutMoves
  <2> QED BY <1>1, <1>2, <1>3, <1>4, <2>1, <2>2, <2>3, NoCallIsCall, Drops
<1>6. CASE ~(refresh[k].until < now) /\ refresh[k].used
  <2>1. /\ UNCHANGED <<access, refresh>> /\ Go(t, "revoke")
        /\ replayed' = replayed \cup ({refresh[k].session} \ gone)
    BY <1>6 DEF Rotate
  <2>2. replayed' \subseteq excused'
    BY <1>0, <1>2, <1>3, <1>4, <1>6, <2>1 DEF Explained, Unspent
  <2> DEFINE next == [call[t] EXCEPT !.at = "revoke"]
  <2>3. /\ next \in Call /\ next.at = "revoke" /\ next.session = call[t].session
        /\ call' = [call EXCEPT ![t] = next]
    BY <1>0, <1>1, <2>1 DEF Shape, Call, Steps, Go
  <2>4. /\ access' \in [Tabs -> [session : AnySession, until : Nat]]
        /\ \A u \in Tabs : access'[u] \in {access[u], NoAccess}
    BY <1>0, <2>1 DEF Shape
  <2> HIDE DEF next
  <2> QED BY <1>1, <1>2, <1>3, <1>4, <2>1, <2>2, <2>3, <2>4, Drops
<1> QED BY <1>5, <1>6

LEMMA NotRevokedRefused ==
    ASSUME Bounds, Inv, NEW t \in Tabs, NotRevoked(t), Revoked(call[t].session)
    PROVE  Inv'
<1>0. Shape /\ Known /\ Explained /\ Horizon
  BY DEF Inv
<1>1. t \in Actors
  BY Actings
<1>2. /\ call[t].at = "admit" /\ SignedOut(t)
      /\ UNCHANGED <<now, refresh, index, tombstone, status, cookie, gone, crossed, replayed, excused>>
  BY DEF NotRevoked, At, keys, history
<1>3. call[t].session \in SessionIds
  BY <1>0, <1>2 DEF Known, Bringing, Entitled
<1>4. call[t].session \in gone
  BY <1>0, <1>3 DEF Revoked, Horizon, Shape, Bounds
<1>5. /\ cookie' \in [Browsers -> {NoToken} \cup Tokens] /\ status' \in {"active", "suspended"}
      /\ \A b \in Browsers : cookie'[b] \in {cookie[b], NoToken}
      /\ excused' \subseteq SessionIds /\ excused' = excused /\ replayed' \subseteq excused'
  BY <1>0, <1>2 DEF Shape, Explained
<1>6. /\ call' = [call EXCEPT ![t] = NoCall]
      /\ access' \in [Tabs -> [session : AnySession, until : Nat]]
      /\ \A u \in Tabs : access'[u] \in {access[u], NoAccess}
  BY <1>0, <1>2, SignedOutMoves
<1> QED BY <1>1, <1>2, <1>4, <1>5, <1>6, NoCallIsCall, Drops

LEMMA StandingRefused ==
    ASSUME Bounds, Inv, NEW t \in Tabs, InGoodStanding(t), status # "active"
    PROVE  Inv'
<1>0. Shape /\ Known /\ Explained
  BY DEF Inv
<1>1. t \in Actors
  BY Actings
<1>2. /\ call[t].at = "standing" /\ Go(t, "members")
      /\ excused' = excused \cup {call[t].session}
      /\ UNCHANGED <<now, refresh, index, tombstone, status, cookie, access, gone, crossed, replayed>>
  BY DEF InGoodStanding, At, keys, browser
<1>3. call[t].session \in SessionIds
  BY <1>0, <1>2 DEF Known, Bringing, Entitled
<1>4. /\ cookie' \in [Browsers -> {NoToken} \cup Tokens] /\ status' \in {"active", "suspended"}
      /\ \A b \in Browsers : cookie'[b] \in {cookie[b], NoToken}
      /\ access' \in [Tabs -> [session : AnySession, until : Nat]]
      /\ \A u \in Tabs : access'[u] \in {access[u], NoAccess}
      /\ excused' \subseteq SessionIds /\ excused \subseteq excused' /\ replayed' \subseteq excused'
  BY <1>0, <1>2, <1>3 DEF Shape, Explained
<1> DEFINE next == [call[t] EXCEPT !.at = "members"]
<1>5. next \in Call /\ next.at = "members" /\ call' = [call EXCEPT ![t] = next]
  BY <1>0, <1>1, <1>2 DEF Shape, Call, Steps, Go
<1> HIDE DEF next
<1> QED BY <1>1, <1>2, <1>4, <1>5, Drops

LEMMA RevokeKeeps ==
    ASSUME Bounds, Inv, NEW t \in Tabs, RevokeSession(t)
    PROVE  Inv'
<1>0. Shape /\ Known /\ Explained
  BY DEF Inv
<1>1. t \in Actors
  BY Actings
<1> PICK s : s = call[t].session
  OBVIOUS
<1>2. /\ call[t].at = "revoke" /\ SignedOut(t)
      /\ tombstone' = [tombstone EXCEPT ![s] = now + RefreshTtl]
      /\ gone' = gone \cup {s} /\ crossed' = crossed \cup ({s} \cap InIssue)
      /\ UNCHANGED <<now, refresh, index, status, cookie, replayed, excused>>
  BY DEF RevokeSession, At, Tombstone
<1>3. s \in SessionIds /\ call[t].at \notin Bringing
  BY <1>0, <1>2 DEF Known, Bringing, Entitled
<1>4. /\ tombstone' \in [SessionIds -> Nat]
      /\ \A r \in SessionIds : tombstone'[r] = IF r \in {s} THEN now + RefreshTtl ELSE tombstone[r]
  BY <1>0, <1>2, <1>3 DEF Shape, Bounds
<1>5. /\ cookie' \in [Browsers -> {NoToken} \cup Tokens] /\ status' \in {"active", "suspended"}
      /\ \A b \in Browsers : cookie'[b] \in {cookie[b], NoToken}
      /\ excused' \subseteq SessionIds /\ excused' = excused /\ replayed' \subseteq excused'
      /\ index' \in [ids : SUBSET SessionIds, until : Nat]
  BY <1>0, <1>2 DEF Shape, Explained
<1>6. /\ call' = [call EXCEPT ![t] = NoCall]
      /\ access' \in [Tabs -> [session : AnySession, until : Nat]]
      /\ \A u \in Tabs : access'[u] \in {access[u], NoAccess}
  BY <1>0, <1>2, SignedOutMoves
<1>7. /\ {s} \in SUBSET SessionIds /\ crossed \subseteq crossed' /\ crossed' \subseteq SessionIds
      /\ {s} \cap InIssue \subseteq crossed'
  BY <1>0, <1>2, <1>3 DEF Shape
<1> QED BY <1>1, <1>2, <1>3, <1>4, <1>5, <1>6, <1>7, NoCallIsCall, Withdraws

LEMMA BuryKeeps ==
    ASSUME Bounds, Inv, NEW a \in Actors, Bury(a)
    PROVE  Inv'
<1>0. Shape /\ Known /\ Explained
  BY DEF Inv
<1> PICK found : found = call[a].found
  OBVIOUS
<1>2. /\ call[a].at = "bury" /\ call' = [call EXCEPT ![a] = NoCall]
      /\ tombstone' = [s \in SessionIds |-> IF s \in found THEN now + RefreshTtl ELSE tombstone[s]]
      /\ index' = [ids |-> {}, until |-> 0]
      /\ gone' = gone \cup found /\ crossed' = crossed \cup (Members \ found) \cup InIssue
      /\ UNCHANGED <<now, refresh, status, cookie, access, replayed, excused>>
  BY DEF Bury, At, Tombstone, Ends, browser
<1>3. found \in SUBSET SessionIds /\ call[a].at \notin Bringing
  BY <1>0, <1>2 DEF Shape, Call, Bringing, Entitled
<1>4. /\ tombstone' \in [SessionIds -> Nat]
      /\ \A r \in SessionIds : tombstone'[r] = IF r \in found THEN now + RefreshTtl ELSE tombstone[r]
  BY <1>0, <1>2, <1>3 DEF Shape, Bounds
<1>5. /\ cookie' \in [Browsers -> {NoToken} \cup Tokens] /\ status' \in {"active", "suspended"}
      /\ \A b \in Browsers : cookie'[b] \in {cookie[b], NoToken}
      /\ excused' \subseteq SessionIds /\ excused' = excused /\ replayed' \subseteq excused'
      /\ access' \in [Tabs -> [session : AnySession, until : Nat]]
      /\ \A u \in Tabs : access'[u] \in {access[u], NoAccess}
  BY <1>0, <1>2 DEF Shape, Explained
<1>6. index' \in [ids : SUBSET SessionIds, until : Nat]
  BY <1>2
<1>7. Members \subseteq SessionIds /\ InIssue \subseteq SessionIds
  BY <1>0 DEF Shape, Members, InIssue, Known, Bringing, Entitled
<1>8. /\ crossed \subseteq crossed' /\ crossed' \subseteq SessionIds
      /\ found \cap InIssue \subseteq crossed' /\ Members \subseteq gone' \cup crossed'
  BY <1>0, <1>2, <1>3, <1>7 DEF Shape
<1> QED BY <1>2, <1>3, <1>4, <1>5, <1>6, <1>8, NoCallIsCall, Withdraws

LEMMA LogoutKeeps ==
    ASSUME Bounds, Inv, NEW t \in Tabs, NEW everywhere \in BOOLEAN, Logout(t, everywhere)
    PROVE  Inv'
<1>0. Shape /\ Known /\ Explained
  BY DEF Inv
<1>1. t \in Actors /\ t # Moderator
  BY Actings
<1> DEFINE next == [NoCall EXCEPT !.at = IF everywhere THEN "members" ELSE "revoke",
                                  !.session = access[t].session]
<1>2. /\ call[t] = NoCall /\ Authentic(t) /\ call' = [call EXCEPT ![t] = next]
      /\ cookie' = [cookie EXCEPT ![Browser[t]] = NoToken]
      /\ access' = [access EXCEPT ![t] = NoAccess]
      /\ UNCHANGED <<now, refresh, index, tombstone, status, gone, crossed, replayed, excused>>
  BY DEF Logout, keys, history
<1>3. access[t].session \in SessionIds
  BY <1>0, <1>2 DEF Authentic, Known, Shape, Bounds
<1>4. /\ next \in Call /\ next.at \in {"members", "revoke"} /\ next.session \in SessionIds
  BY <1>3 DEF NoCall, Call, Steps, AnySession
<1>5. call[t].at \notin Bringing
  BY <1>2, NoCallIsCall DEF Bringing, Entitled
<1>6. /\ cookie' \in [Browsers -> {NoToken} \cup Tokens] /\ status' \in {"active", "suspended"}
      /\ \A b \in Browsers : cookie'[b] \in {cookie[b], NoToken}
      /\ excused' \subseteq SessionIds /\ excused' = excused /\ replayed' \subseteq excused'
  BY <1>0, <1>2 DEF Shape, Explained, Bounds
<1>7. /\ access' \in [Tabs -> [session : AnySession, until : Nat]]
      /\ \A u \in Tabs : access'[u] \in {access[u], NoAccess}
  BY <1>0, <1>2, NamesOfUnissued DEF Shape
<1> HIDE DEF next
<1> QED BY <1>1, <1>2, <1>4, <1>5, <1>6, <1>7, Drops

\* What else takes nothing but a step of its own.
LEMMA OthersKeep ==
    ASSUME Bounds, Inv,
           \/ Ban \/ LiftBan \/ (\E a \in Actors : ReadIndex(a)) \/ (\E t \in Tabs : Reload(t))
    PROVE  Inv'
<1>0. Shape /\ Known /\ Explained
  BY DEF Inv
<1>1. Moderator \in Actors /\ (\A t \in Tabs : t \in Actors) /\ Moderator \notin Tabs
  BY Actings DEF Bounds
<1>a. ASSUME NEW a \in Actors, NEW next \in Call, next.at \in {"idle", "members", "bury"},
             call' = [call EXCEPT ![a] = next],
             access' \in [Tabs -> [session : AnySession, until : Nat]],
             \A t \in Tabs : access'[t] \in {access[t], NoAccess},
             UNCHANGED <<now, refresh, index, tombstone, cookie, gone, crossed, replayed, excused>>,
             status' \in {"active", "suspended"},
             a \in Tabs => call[a].at \notin Bringing
      PROVE  Inv'
  <2>1. /\ cookie' \in [Browsers -> {NoToken} \cup Tokens]
        /\ \A b \in Browsers : cookie'[b] \in {cookie[b], NoToken}
        /\ excused' \subseteq SessionIds /\ excused' = excused /\ replayed' \subseteq excused'
    BY <1>0, <1>a DEF Shape, Explained
  <2> QED BY <1>a, <2>1, Drops
<1>b. access' = access => /\ access' \in [Tabs -> [session : AnySession, until : Nat]]
                          /\ \A t \in Tabs : access'[t] \in {access[t], NoAccess}
  BY <1>0 DEF Shape
<1>2. CASE Ban
  <2> DEFINE next == [call[Moderator] EXCEPT !.at = "members"]
  <2>1. next \in Call /\ next.at = "members" /\ call' = [call EXCEPT ![Moderator] = next]
    BY <1>0, <1>1, <1>2 DEF Ban, Go, Shape, Call, Steps
  <2> HIDE DEF next
  <2> QED BY <1>1, <1>2, <1>a, <1>b, <2>1 DEF Ban, keys, browser, history
<1>3. CASE LiftBan
  <2>1. call' = [call EXCEPT ![Moderator] = NoCall]
    BY <1>0, <1>1, <1>3 DEF LiftBan, Shape
  <2> QED BY <1>1, <1>3, <1>a, <1>b, <2>1, NoCallIsCall DEF LiftBan, keys, browser, history
<1>4. ASSUME NEW a \in Actors, ReadIndex(a) PROVE Inv'
  <2> DEFINE next == IF Members = {} THEN NoCall
                     ELSE [call[a] EXCEPT !.at = "bury", !.found = Members]
  <2>1. Members \subseteq SessionIds
    BY <1>0 DEF Shape, Members
  <2>2. next \in Call /\ next.at \in {"idle", "bury"} /\ call' = [call EXCEPT ![a] = next]
    BY <1>0, <1>4, <2>1, NoCallIsCall DEF ReadIndex, Ends, Shape, Call, Steps
  <2>3. call[a].at = "members" /\ call[a].at \notin Bringing
    BY <1>4 DEF ReadIndex, At, Bringing, Entitled
  <2>4. status' \in {"active", "suspended"}
    BY <1>0, <1>4 DEF ReadIndex, Shape
  <2> HIDE DEF next
  <2> QED BY <1>4, <1>a, <1>b, <2>2, <2>3, <2>4 DEF ReadIndex, keys, browser, history
<1>5. ASSUME NEW t \in Tabs, Reload(t) PROVE Inv'
  <2>1. call' = [call EXCEPT ![t] = NoCall] /\ call[t].at \notin Bringing
    BY <1>0, <1>1, <1>5, NoCallIsCall DEF Reload, Shape, Bringing, Entitled
  <2>2. /\ access' \in [Tabs -> [session : AnySession, until : Nat]]
        /\ \A u \in Tabs : access'[u] \in {access[u], NoAccess}
    BY <1>0, <1>5, NamesOfUnissued DEF Reload, Shape
  <2>3. status' \in {"active", "suspended"}
    BY <1>0, <1>5 DEF Reload, Shape
  <2>4. UNCHANGED <<now, refresh, index, tombstone, cookie, gone, crossed, replayed, excused>>
    BY <1>5 DEF Reload, keys, history
  <2>5. NoCall \in Call /\ NoCall.at = "idle" /\ t \in Actors
    BY <1>1, NoCallIsCall
  <2> QED BY <1>a, <2>1, <2>2, <2>3, <2>4, <2>5
<1> QED BY <1>2, <1>3, <1>4, <1>5

--------------------------------------------------------------------------------
(* A request on its way to a token. *)

\* SADD and EXPIRE: what was found stays found, and the session is.
LEMMA RememberFinds ==
    ASSUME Bounds, Shape, Horizon, Found, NEW s \in SessionIds, Remember(s), now' = now
    PROVE  /\ index' \in [ids : SUBSET SessionIds, until : Nat]
           /\ s \in index'.ids /\ index'.until = now + RefreshTtl
           /\ \A k \in Tokens : Usable(k) /\ refresh[k].session \notin crossed \cup gone =>
                  refresh[k].session \in index'.ids /\ refresh[k].until <= index'.until
<1>1. /\ index' = [ids |-> Members \cup {s}, until |-> now + RefreshTtl]
      /\ Members \subseteq SessionIds /\ now + RefreshTtl \in Nat
  BY DEF Remember, Shape, Members, Bounds
<1>2. ASSUME NEW k \in Tokens, Usable(k), refresh[k].session \notin crossed \cup gone
      PROVE  refresh[k].session \in Members
  <2>1. /\ refresh[k].session \in index.ids /\ refresh[k].until <= index.until
        /\ refresh[k].until >= now
    BY <1>2 DEF Found, Usable
  <2>2. index.until >= now
    BY <2>1 DEF Shape, Bounds
  <2> QED BY <2>1, <2>2 DEF Members
<1>3. \A k \in Tokens : refresh[k].until <= now + RefreshTtl
  BY DEF Horizon
<1> QED BY <1>1, <1>2, <1>3

\* A request becomes, or stays, the one that may issue its session's next token.
LEMMA Proceeds ==
    ASSUME Bounds, Inv, NEW t \in Tabs, NEW next \in Call,
           next.at \in {"standing", "access", "refresh"},
           call' = [call EXCEPT ![t] = next],
           NEW s \in SessionIds, next.session = s, s \notin gone \ crossed,
           \/ Holder(t, s)
           \/ /\ call[t].at = "idle"
              /\ \A k \in Tokens : refresh[k].session # s
              /\ \A u \in Tabs : call[u].session # s,
           index' = index \/ Remember(s),
           UNCHANGED <<now, refresh, tombstone, status, cookie, access,
                       gone, crossed, replayed, excused>>
    PROVE  Inv'
<1>0. /\ Shape /\ Ordered /\ Known /\ Horizon /\ Lineage /\ Buried /\ Found
      /\ OneBrowser /\ Explained
  BY DEF Inv
<1>1. t \in Actors /\ t # Moderator /\ (\A u \in Tabs : u \in Actors) /\ Moderator \in Actors
  BY Actings
<1>2. /\ call' \in [Actors -> Call] /\ call'[t] = next
      /\ \A b \in Actors \ {t} : call'[b] = call[b]
  BY <1>0, <1>1, CallMoves
<1>3. /\ next.at \in Entitled /\ next.at \in Bringing
      /\ next.at \notin {"rotate", "answer", "revoke", "admit"}
      /\ call[t].at \notin {"rotate", "answer"}
  BY DEF Holder, Bringing, Entitled
<1>4. \A u \in Tabs : call'[u].at \in {"rotate", "answer"} => u # t /\ call'[u] = call[u]
  BY <1>1, <1>2, <1>3
<1>5. index' \in [ids : SUBSET SessionIds, until : Nat]
  BY <1>0, RememberFinds DEF Shape
<1>6. Shape'
  BY <1>0, <1>2, <1>5 DEF Shape
<1>7. Ordered' /\ Horizon'
  BY <1>0 DEF Ordered, Horizon, Issued
<1>8. Known'
  <2>1. ASSUME NEW u \in Tabs
        PROVE  /\ call'[u].at \in Bringing \cup {"rotate", "revoke"} => call'[u].session \in SessionIds
               /\ access'[u].until > 0 => access'[u].session \in SessionIds
    <3>1. CASE u = t
      BY <1>0, <1>2, <3>1 DEF Known
    <3>2. CASE u # t
      BY <1>0, <1>1, <1>2, <3>2 DEF Known
    <3> QED BY <3>1, <3>2
  <2>2. ASSUME NEW u \in Tabs
        PROVE  /\ call'[u].at \in {"rotate", "answer"} =>
                    call'[u].token \in Tokens /\ Issued(call[u].token)'
               /\ call'[u].at = "rotate" => refresh'[call'[u].token].session = call'[u].session
    BY <1>0, <1>4 DEF Known, Issued
  <2>3. call'[Moderator].at \in {"idle", "members", "bury"}
    BY <1>0, <1>1, <1>2 DEF Known
  <2> QED BY <2>1, <2>2, <2>3 DEF Known
<1>9. Lineage'
  <2>1. \A k \in Tokens : Unspent(k) => refresh[k].session # s
    BY <1>0 DEF Lineage
  <2>2. \A u \in Tabs \ {t} : ~Holder(u, s)
    BY <1>0 DEF Lineage, Holder
  <2>3. \A u \in Tabs \ {t}, r \in SessionIds : Holder(u, r)' => Holder(u, r)
    BY <1>1, <1>2 DEF Holder
  <2>4. \A r \in SessionIds : Holder(t, r)' => r = s
    BY <1>2 DEF Holder
  <2>5. \A j, k \in Tokens :
            Unspent(j)' /\ Unspent(k)' /\ refresh'[j].session = refresh'[k].session => j = k
    BY <1>0 DEF Lineage, Unspent
  <2>6. ASSUME NEW u \in Tabs, NEW k \in Tokens, Unspent(k)', Holder(u, refresh[k].session)'
        PROVE  FALSE
    <3>1. Unspent(k) /\ refresh'[k].session = refresh[k].session
      BY <2>6 DEF Unspent
    <3>2. CASE u = t
      BY <1>2, <2>1, <2>6, <3>1, <3>2 DEF Holder
    <3>3. CASE u # t
      BY <1>0, <1>1, <1>2, <2>6, <3>1, <3>3 DEF Lineage, Holder
    <3> QED BY <3>2, <3>3
  <2>7. \A u, v \in Tabs, r \in SessionIds : Holder(u, r)' /\ Holder(v, r)' => u = v
    BY <1>0, <2>2, <2>3, <2>4 DEF Lineage
  <2> QED BY <2>5, <2>6, <2>7 DEF Lineage
<1>10. Buried'
  <2> SUFFICES ASSUME NEW r \in gone \ crossed
               PROVE  /\ \A k \in Tokens : refresh[k].session = r => refresh[k].until <= tombstone[r]
                      /\ \A u \in Tabs :
                          /\ access[u].session = r /\ Shorter => access[u].until <= tombstone[r]
                          /\ call'[u].session = r => call'[u].at \notin Issuing
                          /\ call'[u].session = r /\ call'[u].at = "admit" => Revoked(r)'
    BY DEF Buried
  <2>1. r # s
    OBVIOUS
  <2>2. Revoked(r)' <=> Revoked(r)
    BY DEF Revoked
  <2>3. ASSUME NEW u \in Tabs
        PROVE  /\ call'[u].session = r => call'[u].at \notin Issuing
               /\ call'[u].session = r /\ call'[u].at = "admit" => Revoked(r)'
    <3>1. CASE u = t
      BY <1>2, <2>1, <3>1
    <3>2. CASE u # t
      BY <1>0, <1>1, <1>2, <2>2, <3>2 DEF Buried
    <3> QED BY <3>1, <3>2
  <2> QED BY <1>0, <2>3 DEF Buried
<1>11. Found'
  <2>1. \A k \in Tokens : Usable(k)' => Usable(k)
    BY DEF Usable
  <2>2. CASE index' = index
    BY <1>0, <2>1, <2>2 DEF Found
  <2>3. CASE Remember(s)
    <3>1. \A k \in Tokens : Usable(k) /\ refresh[k].session \notin crossed \cup gone =>
              refresh[k].session \in index'.ids /\ refresh[k].until <= index'.until
      BY <1>0, <2>3, RememberFinds
    <3> QED BY <2>1, <3>1 DEF Found
  <2> QED BY <2>2, <2>3
<1>12. OneBrowser'
  <2>1. /\ \A b \in Browsers : cookie'[b] # NoToken => Issued(cookie[b])'
        /\ \A b, c \in Browsers : cookie'[b] = cookie'[c] /\ cookie'[b] # NoToken => b = c
    BY <1>0 DEF OneBrowser, Issued
  <2>2. ASSUME NEW u \in Tabs, call'[u].at = "rotate"
        PROVE  /\ \A b \in Browsers : cookie'[b] = call'[u].token => b = Browser[u]
               /\ \A v \in Tabs : call'[v].at = "rotate" /\ call'[v].token = call'[u].token =>
                      Browser[v] = Browser[u]
    BY <1>0, <1>4, <2>2 DEF OneBrowser
  <2>3. ASSUME NEW u \in Tabs, call'[u].at = "answer"
        PROVE  /\ Unspent(call[u].token)'
               /\ \A b \in Browsers : cookie'[b] # call'[u].token
               /\ \A v \in Tabs \ {u} : call'[v].at \in {"rotate", "answer"} =>
                      call'[v].token # call'[u].token
    <3>1. call'[u] = call[u]
      BY <1>4, <2>3
    <3> QED BY <1>0, <1>4, <2>3, <3>1 DEF OneBrowser, Unspent
  <2> QED BY <2>1, <2>2, <2>3 DEF OneBrowser
<1>13. Explained'
  <2>1. ASSUME NEW u \in Tabs, call'[u].at = "rotate", call'[u].session \notin gone' \cup excused'
        PROVE  /\ Unspent(call[u].token)'
               /\ \A v \in Tabs : call'[v].at = "rotate" /\ call'[v].token = call'[u].token => v = u
    BY <1>0, <1>4, <2>1 DEF Explained, Unspent
  <2>2. ASSUME NEW b \in Browsers, cookie'[b] # NoToken, ~Unspent(cookie[b])',
               refresh'[cookie'[b]].session \notin gone' \cup excused'
        PROVE  \E u \in Tabs : /\ Browser[u] = b /\ call'[u].at \in Bringing
                               /\ call'[u].session = refresh'[cookie'[b]].session
    <3>1. PICK u \in Tabs : /\ Browser[u] = b /\ call[u].at \in Bringing
                            /\ call[u].session = refresh[cookie[b]].session
      BY <1>0, <2>2 DEF Explained, Unspent
    <3>2. CASE u = t
      <4>1. call[t].session = s
        BY <3>1, <3>2 DEF Holder, Bringing, Entitled
      <4> QED BY <1>2, <1>3, <3>1, <3>2, <4>1
    <3>3. CASE u # t
      BY <1>1, <1>2, <3>1, <3>3
    <3> QED BY <3>2, <3>3
  <2> QED BY <1>0, <2>1, <2>2 DEF Explained
<1> QED BY <1>6, <1>7, <1>8, <1>9, <1>10, <1>11, <1>12, <1>13 DEF Inv

LEMMA NotRevokedKeeps ==
    ASSUME Bounds, Inv, NEW t \in Tabs, NotRevoked(t)
    PROVE  Inv'
<1>1. CASE Revoked(call[t].session)
  BY <1>1, NotRevokedRefused
<1>2. CASE ~Revoked(call[t].session)
  <2>0. Shape /\ Known /\ Buried /\ t \in Actors
    BY Actings DEF Inv
  <2> PICK s : s = call[t].session
    OBVIOUS
  <2>1. /\ call[t].at = "admit" /\ Go(t, "standing")
        /\ UNCHANGED <<now, refresh, index, tombstone, status, cookie, access,
                       gone, crossed, replayed, excused>>
    BY <1>2 DEF NotRevoked, At, keys, history
  <2>2. s \in SessionIds /\ Holder(t, s)
    BY <2>0, <2>1 DEF Known, Bringing, Entitled, Holder
  <2>3. s \notin gone \ crossed
    BY <1>2, <2>0, <2>1 DEF Buried
  <2> DEFINE next == [call[t] EXCEPT !.at = "standing"]
  <2>4. /\ next \in Call /\ next.at = "standing" /\ next.session = s
        /\ call' = [call EXCEPT ![t] = next]
    BY <2>0, <2>1 DEF Shape, Call, Steps, Go
  <2> HIDE DEF next
  <2> QED BY <2>1, <2>2, <2>3, <2>4, Proceeds
<1> QED BY <1>1, <1>2

\* Whoever issues is about a session that is not revoked outside an issue.
LEMMA IssuersStand ==
    ASSUME Bounds, Inv, NEW t \in Tabs, call[t].at \in Issuing
    PROVE  call[t].session \in SessionIds /\ call[t].session \notin gone \ crossed
BY DEF Inv, Known, Buried, Issuing, Bringing, Entitled

LEMMA StandingKeeps ==
    ASSUME Bounds, Inv, NEW t \in Tabs, InGoodStanding(t)
    PROVE  Inv'
<1>1. CASE status # "active"
  BY <1>1, StandingRefused
<1>2. CASE status = "active"
  <2>0. Shape /\ t \in Actors
    BY Actings DEF Inv
  <2> PICK s : s = call[t].session
    OBVIOUS
  <2>1. /\ call[t].at = "standing" /\ Go(t, "access")
        /\ UNCHANGED <<now, refresh, index, tombstone, status, cookie, access,
                       gone, crossed, replayed, excused>>
    BY <1>2 DEF InGoodStanding, At, keys, browser
  <2>2. s \in SessionIds /\ s \notin gone \ crossed /\ Holder(t, s)
    BY <2>1, IssuersStand DEF Issuing, Entitled, Holder
  <2> DEFINE next == [call[t] EXCEPT !.at = "access"]
  <2>4. /\ next \in Call /\ next.at = "access" /\ next.session = s
        /\ call' = [call EXCEPT ![t] = next]
    BY <2>0, <2>1 DEF Shape, Call, Steps, Go
  <2> HIDE DEF next
  <2> QED BY <2>1, <2>2, <2>4, Proceeds
<1> QED BY <1>1, <1>2

LEMMA AccessKeeps ==
    ASSUME Bounds, Inv, NEW t \in Tabs, IssueAccessToken(t)
    PROVE  Inv'
<1>0. Shape /\ t \in Actors
  BY Actings DEF Inv
<1> PICK s : s = call[t].session
  OBVIOUS
<1>1. /\ call[t].at = "access" /\ Go(t, "refresh") /\ Remember(s)
      /\ UNCHANGED <<now, refresh, tombstone, status, cookie, access,
                     gone, crossed, replayed, excused>>
  BY DEF IssueAccessToken, At, browser, history
<1>2. s \in SessionIds /\ s \notin gone \ crossed /\ Holder(t, s)
  BY <1>1, IssuersStand DEF Issuing, Entitled, Holder
<1> DEFINE next == [call[t] EXCEPT !.at = "refresh"]
<1>4. /\ next \in Call /\ next.at = "refresh" /\ next.session = s
      /\ call' = [call EXCEPT ![t] = next]
  BY <1>0, <1>1 DEF Shape, Call, Steps, Go
<1> HIDE DEF next
<1> QED BY <1>1, <1>2, <1>4, Proceeds

LEMMA LoginKeeps ==
    ASSUME Bounds, Inv, NEW t \in Tabs, Login(t)
    PROVE  Inv'
<1>1. /\ call[t] = NoCall /\ \A u \in Tabs : u \in Actors
      /\ UNCHANGED <<now, refresh, index, tombstone, status, cookie, access,
                     gone, crossed, replayed, excused>>
  BY Actings DEF Login, keys, browser, history
<1>2. PICK s \in Unused :
        call' = [call EXCEPT ![t] = [NoCall EXCEPT !.at = "access", !.session = s]]
  BY DEF Login
<1>3. /\ s \in SessionIds /\ s \notin gone /\ \A k \in Tokens : refresh[k].session # s
      /\ \A u \in Tabs : call[u].session # s
  BY <1>1, <1>2 DEF Unused
<1> DEFINE next == [NoCall EXCEPT !.at = "access", !.session = s]
<1>4. next \in Call /\ next.at = "access" /\ next.session = s
  BY <1>3 DEF NoCall, Call, Steps, AnySession
<1>5. call' = [call EXCEPT ![t] = next]
  BY <1>2
<1> HIDE DEF next
<1> QED BY <1>1, <1>3, <1>4, <1>5, NoCallIsCall, Proceeds

--------------------------------------------------------------------------------
(* A token is issued, answered with, brought back and rotated. *)

\* Tokens are issued in order, so the next one is new and all before it are not.
LEMMA NextToken ==
    ASSUME Bounds, Shape, Ordered, NEW k \in Tokens,
           k = Cardinality({j \in Tokens : refresh[j] # Unissued}) + 1
    PROVE  ~Issued(k) /\ \A j \in Tokens : j < k => Issued(j)
<1> PICK issued : issued = {j \in Tokens : refresh[j] # Unissued}
  OBVIOUS
<1>1. /\ issued \subseteq 1..MaxTokens /\ \A j \in Tokens : j \in issued <=> Issued(j)
      /\ k \in 1..MaxTokens /\ MaxTokens \in Nat /\ k = Cardinality(issued) + 1
  BY DEF Tokens, Issued, Bounds
<1>2. \A n \in 0..MaxTokens : IsFiniteSet(1..n) /\ Cardinality(1..n) = n
  <2> TAKE n \in 0..MaxTokens
  <2>1. n \in Int /\ 1 \in Int /\ (n = 0 <=> 1 > n) /\ n - 1 + 1 = n
    BY <1>1
  <2> QED BY <2>1, FS_Interval
<1>3. IsFiniteSet(issued) /\ Cardinality(issued) \in Nat
  BY <1>1, <1>2, FS_Subset, FS_CardinalityType
<1>4. ~Issued(k)
  <2> SUFFICES ASSUME Issued(k)
               PROVE  FALSE
    OBVIOUS
  <2>1. 1..k \subseteq issued
    BY <1>1 DEF Ordered, Tokens
  <2>2. Cardinality(1..k) <= Cardinality(issued)
    BY <1>3, <2>1, FS_Subset
  <2> QED BY <1>1, <1>2, <1>3, <2>2
<1>5. ASSUME NEW j \in Tokens, j < k, ~Issued(j)
      PROVE  FALSE
  <2>1. j \in 1..MaxTokens /\ j - 1 \in 0..MaxTokens
    BY <1>1 DEF Tokens
  <2>2. issued \subseteq 1..(j - 1)
    <3> SUFFICES ASSUME NEW i \in issued
                 PROVE  i \in 1..(j - 1)
      OBVIOUS
    <3>1. i \in Tokens /\ i \in 1..MaxTokens /\ Issued(i)
      BY <1>1 DEF Tokens
    <3>2. ~(j < i) /\ i # j
      BY <1>5, <3>1 DEF Ordered
    <3> QED BY <2>1, <3>1, <3>2
  <2>3. Cardinality(issued) <= j - 1
    BY <1>2, <2>1, <2>2, FS_Subset
  <2> QED BY <1>1, <1>3, <1>5, <2>1, <2>3
<1> QED BY <1>4, <1>5

LEMMA IssueKeeps ==
    ASSUME Bounds, Inv, NEW t \in Tabs, IssueRefreshToken(t)
    PROVE  Inv'
<1>0. /\ Shape /\ Ordered /\ Known /\ Horizon /\ Lineage /\ Buried /\ Found
      /\ OneBrowser /\ Explained
  BY DEF Inv
<1>1. t \in Actors /\ t # Moderator /\ (\A u \in Tabs : u \in Actors) /\ Moderator \in Actors
  BY Actings
<1> PICK s : s = call[t].session
  OBVIOUS
<1>2. PICK k \in Tokens :
        /\ k = Cardinality({j \in Tokens : refresh[j] # Unissued}) + 1
        /\ refresh' = [refresh EXCEPT ![k] = [session |-> s, used |-> FALSE,
                                              until |-> now + RefreshTtl]]
        /\ call' = [call EXCEPT ![t].at = "answer", ![t].token = k]
  BY DEF IssueRefreshToken
<1>3. /\ call[t].at = "refresh" /\ Remember(s)
      /\ UNCHANGED <<now, tombstone, status, cookie, access, gone, crossed, replayed, excused>>
  BY DEF IssueRefreshToken, At, browser, history
<1>4. ~Issued(k) /\ \A j \in Tokens : j < k => Issued(j)
  BY <1>0, <1>2, NextToken
<1>5. s \in SessionIds /\ s \notin gone \ crossed /\ Holder(t, s)
  BY <1>3, IssuersStand DEF Issuing, Entitled, Holder
<1>6. /\ \A j \in Tokens \ {k} : refresh'[j] = refresh[j]
      /\ refresh'[k].session = s /\ refresh'[k].used = FALSE /\ refresh'[k].until = now + RefreshTtl
      /\ now + RefreshTtl \in Nat
      /\ refresh' \in [Tokens -> [session : AnySession, used : BOOLEAN, until : Nat]]
  BY <1>0, <1>2, <1>5 DEF Shape, Bounds, AnySession
<1>7. /\ call' \in [Actors -> Call] /\ call'[t].at = "answer" /\ call'[t].session = s
      /\ call'[t].token = k /\ \A b \in Actors \ {t} : call'[b] = call[b]
  <2> DEFINE next == [call[t] EXCEPT !.at = "answer", !.token = k]
  <2>1. call[t] \in Call
    BY <1>0, <1>1 DEF Shape
  <2>2. next \in Call /\ next.at = "answer" /\ next.session = s /\ next.token = k
    BY <2>1 DEF Call, Steps
  <2>3. call' = [call EXCEPT ![t] = next]
    BY <1>0, <1>1, <1>2 DEF Shape
  <2> HIDE DEF next
  <2> QED BY <1>0, <1>1, <2>2, <2>3, CallMoves
<1>8. /\ index' \in [ids : SUBSET SessionIds, until : Nat]
      /\ s \in index'.ids /\ index'.until = now + RefreshTtl
      /\ \A j \in Tokens : Usable(j) /\ refresh[j].session \notin crossed \cup gone =>
             refresh[j].session \in index'.ids /\ refresh[j].until <= index'.until
  BY <1>0, <1>3, <1>5, RememberFinds
<1>9. /\ refresh[k].used = TRUE /\ refresh[k].session = NoSession /\ NoSession \notin SessionIds
      /\ s # NoSession
  BY <1>4, <1>5, NamesOfUnissued DEF Issued, Bounds
<1>10. /\ Issued(k)' /\ \A j \in Tokens : j # k => (Issued(j)' <=> Issued(j))
  BY <1>6, <1>9, NamesOfUnissued DEF Issued
<1>11. \A u \in Tabs : call[u].at \in {"rotate", "answer"} =>
           u # t /\ call'[u] = call[u] /\ call[u].token \in Tokens \ {k}
  BY <1>0, <1>1, <1>3, <1>4, <1>7 DEF Known
<1>12. Shape'
  BY <1>0, <1>3, <1>6, <1>7, <1>8 DEF Shape
<1>13. Ordered'
  <2>1. \A j \in Tokens : Issued(j)' => refresh'[j].session \in SessionIds
    BY <1>0, <1>5, <1>6, <1>10 DEF Ordered
  <2>2. ASSUME NEW i \in Tokens, NEW j \in Tokens, i < j, Issued(j)'
        PROVE  Issued(i)'
    BY <1>0, <1>4, <1>10, <2>2 DEF Ordered
  <2> QED BY <2>1, <2>2 DEF Ordered
<1>14. Known'
  <2>1. ASSUME NEW u \in Tabs
        PROVE  /\ call'[u].at \in Bringing \cup {"rotate", "revoke"} => call'[u].session \in SessionIds
               /\ access'[u].until > 0 => access'[u].session \in SessionIds
    <3>1. CASE u = t
      BY <1>0, <1>3, <1>5, <1>7, <3>1 DEF Known
    <3>2. CASE u # t
      BY <1>0, <1>1, <1>3, <1>7, <3>2 DEF Known
    <3> QED BY <3>1, <3>2
  <2>2. ASSUME NEW u \in Tabs
        PROVE  /\ call'[u].at \in {"rotate", "answer"} =>
                    call'[u].token \in Tokens /\ Issued(call[u].token)'
               /\ call'[u].at = "rotate" => refresh'[call'[u].token].session = call'[u].session
    <3>1. CASE u = t
      BY <1>7, <1>10, <3>1 DEF Issued
    <3>2. CASE u # t
      <4>1. call'[u] = call[u]
        BY <1>1, <1>7, <3>2
      <4> QED BY <1>0, <1>6, <1>10, <1>11, <4>1 DEF Known, Issued
    <3> QED BY <3>1, <3>2
  <2>3. call'[Moderator].at \in {"idle", "members", "bury"}
    BY <1>0, <1>1, <1>7 DEF Known
  <2> QED BY <2>1, <2>2, <2>3 DEF Known
<1>15. Horizon'
  BY <1>0, <1>3, <1>6 DEF Horizon, Shape, Bounds
<1>16. Lineage'
  <2>1. \A j \in Tokens : Unspent(j) => refresh[j].session # s
    BY <1>0, <1>5 DEF Lineage
  <2>2. \A u \in Tabs, r \in SessionIds \cup {NoSession} :
            Holder(u, r)' => Holder(u, r) /\ u # t
    BY <1>1, <1>7 DEF Holder, Entitled
  <2>3. \A u \in Tabs \ {t} : ~Holder(u, s)
    BY <1>0, <1>5 DEF Lineage
  <2>4. \A j \in Tokens : Unspent(j)' => j = k \/ (Unspent(j) /\ refresh'[j] = refresh[j])
    BY <1>6 DEF Unspent
  <2>5. ASSUME NEW i \in Tokens, NEW j \in Tokens, Unspent(i)', Unspent(j)',
               refresh'[i].session = refresh'[j].session
        PROVE  i = j
    BY <1>0, <1>6, <2>1, <2>4, <2>5 DEF Lineage
  <2>6. ASSUME NEW u \in Tabs, NEW j \in Tokens, Unspent(j)', Holder(u, refresh[j].session)'
        PROVE  FALSE
    <3>1. refresh'[j].session \in SessionIds \cup {NoSession}
      BY <1>6 DEF AnySession
    <3>2. Holder(u, refresh'[j].session) /\ u # t
      BY <2>2, <2>6, <3>1 DEF Holder
    <3>3. CASE j = k
      BY <1>6, <2>3, <3>2, <3>3
    <3>4. CASE j # k
      BY <1>0, <2>4, <2>6, <3>2, <3>4 DEF Lineage
    <3> QED BY <3>3, <3>4
  <2>7. \A u, v \in Tabs, r \in SessionIds : Holder(u, r)' /\ Holder(v, r)' => u = v
    BY <1>0, <2>2 DEF Lineage
  <2> QED BY <2>5, <2>6, <2>7 DEF Lineage
<1>17. Buried'
  <2> SUFFICES ASSUME NEW r \in gone \ crossed
               PROVE  /\ \A j \in Tokens : refresh'[j].session = r => refresh'[j].until <= tombstone[r]
                      /\ \A u \in Tabs :
                          /\ access[u].session = r /\ Shorter => access[u].until <= tombstone[r]
                          /\ call'[u].session = r => call'[u].at \notin Issuing
                          /\ call'[u].session = r /\ call'[u].at = "admit" => Revoked(r)'
    BY <1>3 DEF Buried
  <2>1. r # s
    BY <1>5
  <2>2. Revoked(r)' <=> Revoked(r)
    BY <1>3 DEF Revoked
  <2>3. ASSUME NEW u \in Tabs
        PROVE  /\ call'[u].session = r => call'[u].at \notin Issuing
               /\ call'[u].session = r /\ call'[u].at = "admit" => Revoked(r)'
    <3>1. CASE u = t
      BY <1>7, <2>1, <3>1
    <3>2. CASE u # t
      BY <1>0, <1>1, <1>7, <2>2, <3>2 DEF Buried
    <3> QED BY <3>1, <3>2
  <2>4. \A j \in Tokens : refresh'[j].session = r => refresh'[j].until <= tombstone[r]
    BY <1>0, <1>6, <2>1 DEF Buried
  <2> QED BY <1>0, <2>3, <2>4 DEF Buried
<1>18. Found'
  <2> SUFFICES ASSUME NEW j \in Tokens, Usable(j)', refresh'[j].session \notin crossed \cup gone
               PROVE  refresh'[j].session \in index'.ids /\ refresh'[j].until <= index'.until
    BY <1>3 DEF Found
  <2>1. CASE j = k
    BY <1>6, <1>8, <2>1
  <2>2. CASE j # k
    BY <1>3, <1>6, <1>8, <2>2 DEF Usable
  <2> QED BY <2>1, <2>2
<1>19. OneBrowser'
  <2>1. /\ \A b \in Browsers : cookie'[b] # NoToken => Issued(cookie[b])' /\ cookie'[b] # k
        /\ \A b, c \in Browsers : cookie'[b] = cookie'[c] /\ cookie'[b] # NoToken => b = c
    <3>1. \A b \in Browsers : cookie[b] # NoToken => cookie[b] \in Tokens /\ Issued(cookie[b])
      BY <1>0 DEF OneBrowser, Shape
    <3> QED BY <1>0, <1>3, <1>4, <1>10, <3>1 DEF OneBrowser, Issued
  <2>2. ASSUME NEW u \in Tabs, call'[u].at = "rotate"
        PROVE  /\ \A b \in Browsers : cookie'[b] = call'[u].token => b = Browser[u]
               /\ \A v \in Tabs : call'[v].at = "rotate" /\ call'[v].token = call'[u].token =>
                      Browser[v] = Browser[u]
    <3>1. \A v \in Tabs : call'[v].at = "rotate" => call'[v] = call[v]
      BY <1>1, <1>7
    <3> QED BY <1>0, <1>3, <2>2, <3>1 DEF OneBrowser
  <2>3. ASSUME NEW u \in Tabs, call'[u].at = "answer"
        PROVE  /\ Unspent(call[u].token)'
               /\ \A b \in Browsers : cookie'[b] # call'[u].token
               /\ \A v \in Tabs \ {u} : call'[v].at \in {"rotate", "answer"} =>
                      call'[v].token # call'[u].token
    <3>1. \A v \in Tabs \ {t} : call'[v] = call[v]
      BY <1>1, <1>7
    <3>2. CASE u = t
      <4>1. Unspent(k)'
        BY <1>6 DEF Unspent
      <4>2. k # NoToken
        BY DEF Tokens, NoToken
      <4> QED BY <1>7, <1>11, <2>1, <3>1, <3>2, <4>1, <4>2 DEF Unspent
    <3>3. CASE u # t
      <4>1. call'[u] = call[u] /\ call[u].token \in Tokens \ {k}
        BY <1>11, <2>3, <3>1, <3>3
      <4>2. Unspent(call[u].token)'
        BY <1>0, <1>6, <2>3, <4>1 DEF OneBrowser, Unspent
      <4>3. \A b \in Browsers : cookie'[b] # call'[u].token
        BY <1>0, <1>3, <2>3, <4>1 DEF OneBrowser
      <4>4. ASSUME NEW v \in Tabs \ {u}, call'[v].at \in {"rotate", "answer"}
            PROVE  call'[v].token # call'[u].token
        BY <1>0, <1>7, <2>3, <3>1, <4>1, <4>4 DEF OneBrowser
      <4> QED BY <4>2, <4>3, <4>4
    <3> QED BY <3>2, <3>3
  <2> QED BY <2>1, <2>2, <2>3 DEF OneBrowser
<1>20. Explained'
  <2>1. ASSUME NEW u \in Tabs, call'[u].at = "rotate", call'[u].session \notin gone' \cup excused'
        PROVE  /\ Unspent(call[u].token)'
               /\ \A v \in Tabs : call'[v].at = "rotate" /\ call'[v].token = call'[u].token => v = u
    <3>1. \A v \in Tabs : call'[v].at = "rotate" => call'[v] = call[v]
      BY <1>1, <1>7
    <3>2. call[u].token \in Tokens \ {k}
      BY <1>11, <2>1, <3>1
    <3> QED BY <1>0, <1>3, <1>6, <2>1, <3>1, <3>2 DEF Explained, Unspent
  <2>2. ASSUME NEW b \in Browsers, cookie'[b] # NoToken, ~Unspent(cookie[b])',
               refresh'[cookie'[b]].session \notin gone' \cup excused'
        PROVE  \E u \in Tabs : /\ Browser[u] = b /\ call'[u].at \in Bringing
                               /\ call'[u].session = refresh'[cookie'[b]].session
    <3>0. cookie'[b] = cookie[b] /\ cookie[b] \in Tokens /\ cookie[b] # k
      <4>1. cookie[b] # NoToken /\ cookie'[b] = cookie[b]
        BY <1>3, <2>2
      <4> QED BY <1>0, <1>4, <4>1 DEF OneBrowser, Shape
    <3>1. PICK u \in Tabs : /\ Browser[u] = b /\ call[u].at \in Bringing
                            /\ call[u].session = refresh[cookie[b]].session
      BY <1>0, <1>3, <1>6, <2>2, <3>0 DEF Explained, Unspent
    <3>2. call'[u].at \in Bringing /\ call'[u].session = call[u].session
      <4>1. CASE u = t
        BY <1>7, <4>1 DEF Bringing
      <4>2. CASE u # t
        BY <1>1, <1>7, <3>1, <4>2
      <4> QED BY <4>1, <4>2
    <3> QED BY <1>6, <3>0, <3>1, <3>2
  <2> QED BY <1>0, <1>3, <2>1, <2>2 DEF Explained
<1> QED BY <1>12, <1>13, <1>14, <1>15, <1>16, <1>17, <1>18, <1>19, <1>20 DEF Inv

LEMMA AnswerKeeps ==
    ASSUME Bounds, Inv, NEW t \in Tabs, Answer(t)
    PROVE  Inv'
<1>0. /\ Shape /\ Ordered /\ Known /\ Horizon /\ Lineage /\ Buried /\ Found
      /\ OneBrowser /\ Explained
  BY DEF Inv
<1>1. t \in Actors /\ t # Moderator /\ (\A u \in Tabs : u \in Actors) /\ Moderator \in Actors
  BY Actings
<1> PICK s, k : s = call[t].session /\ k = call[t].token
  OBVIOUS
<1>2. /\ call[t].at = "answer" /\ call' = [call EXCEPT ![t] = NoCall]
      /\ access' = [access EXCEPT ![t] = [session |-> s, until |-> now + AccessTtl]]
      /\ cookie' = [cookie EXCEPT ![Browser[t]] = k]
      /\ UNCHANGED <<now, refresh, index, tombstone, status, gone, crossed, replayed, excused>>
  BY DEF Answer, At, Ends, keys, history
<1>3. s \in SessionIds /\ s \notin gone \ crossed
  BY <1>2, IssuersStand DEF Issuing
<1>4. k \in Tokens /\ Issued(k) /\ Unspent(k) /\ Browser[t] \in Browsers
  BY <1>0, <1>2 DEF Known, OneBrowser, Bounds
<1>5. /\ call' \in [Actors -> Call] /\ call'[t] = NoCall
      /\ \A b \in Actors \ {t} : call'[b] = call[b]
  BY <1>0, <1>1, <1>2, CallMoves, NoCallIsCall
<1>6. \A u \in Tabs : call'[u].at # "idle" => u # t /\ call'[u] = call[u]
  BY <1>1, <1>5, NoCallIsCall
<1>7. \A u \in Tabs : call'[u].at \in Bringing \cup {"rotate", "revoke"} => u # t /\ call'[u] = call[u]
  BY <1>6 DEF Bringing, Entitled
<1>8. /\ access' \in [Tabs -> [session : AnySession, until : Nat]]
      /\ access'[t].session = s /\ access'[t].until = now + AccessTtl
      /\ \A u \in Tabs \ {t} : access'[u] = access[u]
  BY <1>0, <1>2, <1>3 DEF Shape, Bounds, AnySession
<1>9. /\ cookie' \in [Browsers -> {NoToken} \cup Tokens] /\ cookie'[Browser[t]] = k
      /\ \A b \in Browsers \ {Browser[t]} : cookie'[b] = cookie[b] /\ cookie[b] # k
  BY <1>0, <1>2, <1>4 DEF Shape, OneBrowser
<1>10. Shape'
  BY <1>0, <1>2, <1>5, <1>8, <1>9 DEF Shape
<1>11. Ordered' /\ Lineage'
  BY <1>0, <1>2, <1>7 DEF Ordered, Lineage, Issued, Unspent, Holder, Bringing
<1>12. Known'
  <2>1. ASSUME NEW u \in Tabs
        PROVE  /\ call'[u].at \in Bringing \cup {"rotate", "revoke"} => call'[u].session \in SessionIds
               /\ call'[u].at \in {"rotate", "answer"} =>
                    call'[u].token \in Tokens /\ Issued(call[u].token)'
               /\ call'[u].at = "rotate" => refresh'[call'[u].token].session = call'[u].session
    BY <1>0, <1>2, <1>7 DEF Known, Issued, Bringing
  <2>2. \A u \in Tabs : access'[u].until > 0 => access'[u].session \in SessionIds
    BY <1>0, <1>3, <1>8 DEF Known
  <2>3. call'[Moderator].at \in {"idle", "members", "bury"}
    BY <1>0, <1>1, <1>5 DEF Known
  <2> QED BY <2>1, <2>2, <2>3 DEF Known
<1>13. Horizon'
  BY <1>0, <1>2, <1>8 DEF Horizon, Shape, Bounds
<1>14. Buried'
  <2> SUFFICES ASSUME NEW r \in gone \ crossed
               PROVE  /\ \A j \in Tokens : refresh[j].session = r => refresh[j].until <= tombstone[r]
                      /\ \A u \in Tabs :
                          /\ access'[u].session = r /\ Shorter => access'[u].until <= tombstone[r]
                          /\ call'[u].session = r => call'[u].at \notin Issuing
                          /\ call'[u].session = r /\ call'[u].at = "admit" => Revoked(r)'
    BY <1>2 DEF Buried
  <2>1. r # s
    BY <1>3
  <2>2. Revoked(r)' <=> Revoked(r)
    BY <1>2 DEF Revoked
  <2>3. \A u \in Tabs : access'[u].session = r /\ Shorter => access'[u].until <= tombstone[r]
    BY <1>0, <1>8, <2>1 DEF Buried
  <2>4. \A u \in Tabs : /\ call'[u].session = r => call'[u].at \notin Issuing
                        /\ call'[u].session = r /\ call'[u].at = "admit" => Revoked(r)'
    BY <1>0, <1>7, <2>2 DEF Buried, Issuing, Bringing, Entitled
  <2> QED BY <1>0, <2>3, <2>4 DEF Buried
<1>15. Found'
  BY <1>0, <1>2 DEF Found, Usable
<1>16. OneBrowser'
  <2>1. \A b \in Browsers : cookie'[b] # NoToken => Issued(cookie[b])'
    BY <1>0, <1>2, <1>4, <1>9 DEF OneBrowser, Issued
  <2>2. \A b, c \in Browsers : cookie'[b] = cookie'[c] /\ cookie'[b] # NoToken => b = c
    BY <1>0, <1>9 DEF OneBrowser
  <2>3. \A u \in Tabs : call'[u].at \in {"rotate", "answer"} => call'[u].token # k
    BY <1>0, <1>2, <1>6 DEF OneBrowser
  <2>4. ASSUME NEW u \in Tabs, call'[u].at = "rotate"
        PROVE  /\ \A b \in Browsers : cookie'[b] = call'[u].token => b = Browser[u]
               /\ \A v \in Tabs : call'[v].at = "rotate" /\ call'[v].token = call'[u].token =>
                      Browser[v] = Browser[u]
    BY <1>0, <1>6, <1>9, <2>3, <2>4 DEF OneBrowser
  <2>5. ASSUME NEW u \in Tabs, call'[u].at = "answer"
        PROVE  /\ Unspent(call[u].token)'
               /\ \A b \in Browsers : cookie'[b] # call'[u].token
               /\ \A v \in Tabs \ {u} : call'[v].at \in {"rotate", "answer"} =>
                      call'[v].token # call'[u].token
    <3>1. call'[u] = call[u]
      BY <1>6, <2>5
    <3> QED BY <1>0, <1>2, <1>6, <1>9, <2>3, <2>5, <3>1 DEF OneBrowser, Unspent
  <2> QED BY <2>1, <2>2, <2>4, <2>5 DEF OneBrowser
<1>17. Explained'
  <2>1. ASSUME NEW u \in Tabs, call'[u].at = "rotate", call'[u].session \notin gone' \cup excused'
        PROVE  /\ Unspent(call[u].token)'
               /\ \A v \in Tabs : call'[v].at = "rotate" /\ call'[v].token = call'[u].token => v = u
    BY <1>0, <1>2, <1>6, <2>1 DEF Explained, Unspent
  <2>2. ASSUME NEW b \in Browsers, cookie'[b] # NoToken, ~Unspent(cookie[b])',
               refresh'[cookie'[b]].session \notin gone' \cup excused'
        PROVE  \E u \in Tabs : /\ Browser[u] = b /\ call'[u].at \in Bringing
                               /\ call'[u].session = refresh'[cookie'[b]].session
    <3>1. b # Browser[t]
      BY <1>2, <1>4, <1>9, <2>2 DEF Unspent
    <3>2. cookie'[b] = cookie[b]
      BY <1>9, <3>1
    <3>3. PICK u \in Tabs : /\ Browser[u] = b /\ call[u].at \in Bringing
                            /\ call[u].session = refresh[cookie[b]].session
      BY <1>0, <1>2, <2>2, <3>2 DEF Explained, Unspent
    <3>4. u # t
      BY <3>1, <3>3
    <3> QED BY <1>1, <1>2, <1>5, <3>2, <3>3, <3>4
  <2> QED BY <1>0, <1>2, <2>1, <2>2 DEF Explained
<1> QED BY <1>10, <1>11, <1>12, <1>13, <1>14, <1>15, <1>16, <1>17 DEF Inv

LEMMA RefreshKeeps ==
    ASSUME Bounds, Inv, NEW t \in Tabs, RefreshInTab(t)
    PROVE  Inv'
<1>0. /\ Shape /\ Ordered /\ Known /\ Horizon /\ Lineage /\ Buried /\ Found
      /\ OneBrowser /\ Explained
  BY DEF Inv
<1>1. t \in Actors /\ t # Moderator /\ (\A u \in Tabs : u \in Actors) /\ Moderator \in Actors
  BY Actings
<1> PICK k : k = cookie[Browser[t]]
  OBVIOUS
<1> PICK s : s = refresh[k].session
  OBVIOUS
<1> DEFINE next == [NoCall EXCEPT !.at = "rotate", !.token = k, !.session = s]
<1>2. /\ call[t] = NoCall /\ k # NoToken /\ call' = [call EXCEPT ![t] = next]
      /\ excused' = IF \E u \in TabsOf(Browser[t]) \ {t} : call[u] # NoCall
                    THEN excused \cup {s} ELSE excused
      /\ UNCHANGED <<now, refresh, index, tombstone, status, cookie, access, gone, crossed, replayed>>
  BY DEF RefreshInTab, keys, browser
<1>3. k \in Tokens /\ Issued(k) /\ s \in SessionIds /\ Browser[t] \in Browsers
  BY <1>0, <1>2 DEF Shape, OneBrowser, Ordered, Bounds
<1>4. next \in Call /\ next.at = "rotate" /\ next.token = k /\ next.session = s
  BY <1>3 DEF NoCall, Call, Steps, AnySession
<1> HIDE DEF next
<1>5. /\ call' \in [Actors -> Call] /\ call'[t] = next
      /\ \A b \in Actors \ {t} : call'[b] = call[b]
  BY <1>0, <1>1, <1>2, <1>4, CallMoves
<1>6. call[t].at = "idle" /\ call[t].at \notin Bringing
  BY <1>2, NoCallIsCall DEF Bringing, Entitled
<1>7. \A u \in Tabs : call'[u].at \in Bringing => u # t /\ call'[u] = call[u]
  BY <1>1, <1>4, <1>5 DEF Bringing, Entitled
<1>8. \A u \in Tabs : call'[u].at = "rotate" =>
          \/ u = t
          \/ u # t /\ call'[u] = call[u]
  BY <1>1, <1>5
<1>9. excused \subseteq excused' /\ excused' \subseteq SessionIds
  BY <1>0, <1>2, <1>3 DEF Shape
<1>10. \A u \in Tabs \ {t} : /\ call[u].at # "idle" => call[u] # NoCall
                             /\ Browser[u] = Browser[t] /\ call[u] # NoCall => s \in excused'
  BY <1>2, NoCallIsCall DEF TabsOf
<1>11. Shape'
  BY <1>0, <1>2, <1>5, <1>9 DEF Shape
<1>12. Ordered' /\ Lineage' /\ Horizon' /\ Found'
  <2>1. Ordered' /\ Horizon' /\ Found'
    BY <1>0, <1>2 DEF Ordered, Issued, Horizon, Found, Usable
  <2>2. Lineage'
    BY <1>0, <1>2, <1>7 DEF Lineage, Unspent, Holder, Bringing
  <2> QED BY <2>1, <2>2
<1>13. Known'
  <2>1. ASSUME NEW u \in Tabs
        PROVE  /\ call'[u].at \in Bringing \cup {"rotate", "revoke"} => call'[u].session \in SessionIds
               /\ call'[u].at \in {"rotate", "answer"} =>
                    call'[u].token \in Tokens /\ Issued(call[u].token)'
               /\ call'[u].at = "rotate" => refresh'[call'[u].token].session = call'[u].session
               /\ access'[u].until > 0 => access'[u].session \in SessionIds
    <3>1. CASE u = t
      BY <1>0, <1>2, <1>3, <1>4, <1>5, <3>1 DEF Known, Issued
    <3>2. CASE u # t
      BY <1>0, <1>1, <1>2, <1>5, <3>2 DEF Known, Issued
    <3> QED BY <3>1, <3>2
  <2>2. call'[Moderator].at \in {"idle", "members", "bury"}
    BY <1>0, <1>1, <1>5 DEF Known
  <2> QED BY <2>1, <2>2 DEF Known
<1>14. Buried'
  <2>1. \A r \in SessionIds : Revoked(r)' <=> Revoked(r)
    BY <1>2 DEF Revoked
  <2>2. \A u \in Tabs : /\ call'[u].at \in Issuing => call'[u] = call[u]
                        /\ call'[u].at = "admit" => call'[u] = call[u]
    BY <1>7 DEF Issuing, Bringing, Entitled
  <2>3. gone \ crossed \subseteq SessionIds
    BY <1>0 DEF Shape
  <2> QED BY <1>0, <1>2, <2>1, <2>2, <2>3 DEF Buried
<1>15. OneBrowser'
  <2>1. /\ \A b \in Browsers : cookie'[b] # NoToken => Issued(cookie[b])'
        /\ \A b, c \in Browsers : cookie'[b] = cookie'[c] /\ cookie'[b] # NoToken => b = c
    BY <1>0, <1>2 DEF OneBrowser, Issued
  <2>2. \A b \in Browsers : cookie'[b] = k => b = Browser[t]
    BY <1>0, <1>2, <1>3 DEF OneBrowser
  <2>3. \A u \in Tabs \ {t} : call[u].at = "rotate" /\ call[u].token = k => Browser[u] = Browser[t]
    BY <1>0, <1>3 DEF OneBrowser
  <2>4. ASSUME NEW u \in Tabs, call'[u].at = "rotate"
        PROVE  /\ \A b \in Browsers : cookie'[b] = call'[u].token => b = Browser[u]
               /\ \A v \in Tabs : call'[v].at = "rotate" /\ call'[v].token = call'[u].token =>
                      Browser[v] = Browser[u]
    <3>1. CASE u = t
      BY <1>4, <1>5, <1>8, <2>2, <2>3, <3>1
    <3>2. CASE u # t
      BY <1>0, <1>2, <1>4, <1>5, <1>8, <2>3, <2>4, <3>2 DEF OneBrowser
    <3> QED BY <3>1, <3>2
  <2>5. ASSUME NEW u \in Tabs, call'[u].at = "answer"
        PROVE  /\ Unspent(call[u].token)'
               /\ \A b \in Browsers : cookie'[b] # call'[u].token
               /\ \A v \in Tabs \ {u} : call'[v].at \in {"rotate", "answer"} =>
                      call'[v].token # call'[u].token
    <3>1. call'[u] = call[u] /\ u # t
      BY <1>7, <2>5 DEF Bringing
    <3>2. call[u].token # k
      BY <1>0, <1>3, <2>5, <3>1 DEF OneBrowser
    <3> QED BY <1>0, <1>1, <1>2, <1>4, <1>5, <2>5, <3>1, <3>2 DEF OneBrowser, Unspent
  <2> QED BY <2>1, <2>4, <2>5 DEF OneBrowser
<1>16. Explained'
  <2>1. \A b \in Browsers :
          cookie'[b] # NoToken /\ ~Unspent(cookie[b])'
          /\ refresh'[cookie'[b]].session \notin gone' \cup excused'
          => \E u \in Tabs : /\ Browser[u] = b /\ call[u].at \in Bringing
                             /\ call[u].session = refresh[cookie[b]].session
    BY <1>0, <1>2, <1>9 DEF Explained, Unspent
  <2>2. ASSUME NEW b \in Browsers, cookie'[b] # NoToken, ~Unspent(cookie[b])',
               refresh'[cookie'[b]].session \notin gone' \cup excused'
        PROVE  \E u \in Tabs : /\ Browser[u] = b /\ call'[u].at \in Bringing
                               /\ call'[u].session = refresh'[cookie'[b]].session
    <3>1. PICK u \in Tabs : /\ Browser[u] = b /\ call[u].at \in Bringing
                            /\ call[u].session = refresh[cookie[b]].session
      BY <2>1, <2>2
    <3>2. u # t
      BY <1>6, <3>1
    <3> QED BY <1>1, <1>2, <1>5, <3>1, <3>2
  <2>3. ASSUME s \notin gone \cup excused'
        PROVE  /\ Unspent(k)
               /\ \A u \in Tabs \ {t} : call[u].at = "rotate" => call[u].token # k
    <3>1. \A u \in Tabs \ {t} : Browser[u] = Browser[t] => call[u].at = "idle"
      BY <1>10, <2>3
    <3>2. \A u \in Tabs \ {t} : call[u].at = "rotate" => call[u].token # k
      BY <1>0, <1>3, <3>1 DEF OneBrowser
    <3>3. Unspent(k)
      <4> SUFFICES ASSUME ~Unspent(k)
                   PROVE  FALSE
        OBVIOUS
      <4>1. PICK u \in Tabs : Browser[u] = Browser[t] /\ call[u].at \in Bringing
        BY <1>0, <1>2, <1>3, <1>9, <2>3 DEF Explained
      <4> QED BY <1>6, <3>1, <4>1 DEF Bringing, Entitled
    <3> QED BY <3>2, <3>3
  <2>4. ASSUME NEW u \in Tabs, call'[u].at = "rotate", call'[u].session \notin gone' \cup excused'
        PROVE  /\ Unspent(call[u].token)'
               /\ \A v \in Tabs : call'[v].at = "rotate" /\ call'[v].token = call'[u].token => v = u
    <3>1. CASE u = t
      <4>1. Unspent(k) /\ \A v \in Tabs \ {t} : call[v].at = "rotate" => call[v].token # k
        BY <1>2, <1>4, <1>5, <2>3, <2>4, <3>1
      <4> QED BY <1>2, <1>4, <1>5, <1>8, <3>1, <4>1 DEF Unspent
    <3>2. CASE u # t
      <4>1. call'[u] = call[u] /\ call[u].session \notin gone \cup excused
        BY <1>2, <1>8, <1>9, <2>4, <3>2
      <4>2. /\ Unspent(call[u].token)
            /\ \A v \in Tabs : call[v].at = "rotate" /\ call[v].token = call[u].token => v = u
        BY <1>0, <2>4, <4>1 DEF Explained
      <4>3. call[u].token # k
        <5> SUFFICES ASSUME call[u].token = k
                     PROVE  FALSE
          OBVIOUS
        <5>1. call[u].session = s
          BY <1>0, <2>4, <4>1 DEF Known
        <5> QED BY <1>2, <2>3, <2>4, <3>2, <4>1, <5>1
      <4> QED BY <1>2, <1>4, <1>5, <1>8, <4>1, <4>2, <4>3 DEF Unspent
    <3> QED BY <3>1, <3>2
  <2>5. replayed' \subseteq excused'
    BY <1>0, <1>2, <1>9 DEF Explained
  <2> QED BY <2>2, <2>4, <2>5 DEF Explained
<1> QED BY <1>11, <1>12, <1>13, <1>14, <1>15, <1>16 DEF Inv

\* ROTATE_SCRIPT marks the one unused token of a session; its request is from
\* then on the one that may issue the next.
LEMMA RotateKeeps ==
    ASSUME Bounds, Inv, NEW t \in Tabs, Rotate(t)
    PROVE  Inv'
<1> PICK k : k = call[t].token
  OBVIOUS
<1>a. CASE refresh[k].until < now \/ refresh[k].used
  BY <1>a, RotateRefused
<1> SUFFICES ASSUME ~(refresh[k].until < now), ~refresh[k].used
             PROVE  Inv'
  BY <1>a
<1>0. /\ Shape /\ Ordered /\ Known /\ Horizon /\ Lineage /\ Buried /\ Found
      /\ OneBrowser /\ Explained
  BY DEF Inv
<1>1. t \in Actors /\ t # Moderator /\ (\A u \in Tabs : u \in Actors) /\ Moderator \in Actors
  BY Actings
<1> PICK s : s = call[t].session
  OBVIOUS
<1>2. /\ call[t].at = "rotate" /\ Go(t, "admit")
      /\ refresh' = [refresh EXCEPT ![k].used = TRUE]
      /\ UNCHANGED <<now, index, tombstone, status, cookie, access, gone, crossed, replayed, excused>>
  BY DEF Rotate, At
<1>3. /\ k \in Tokens /\ Issued(k) /\ s \in SessionIds /\ refresh[k].session = s /\ Unspent(k)
      /\ refresh[k].until >= now
  BY <1>0, <1>2 DEF Known, Unspent, Shape, Bounds
<1>4. /\ call' \in [Actors -> Call] /\ call'[t].at = "admit" /\ call'[t].session = s
      /\ \A b \in Actors \ {t} : call'[b] = call[b]
  BY <1>0, <1>1, <1>2, GoMoves DEF Steps
<1>5. /\ refresh' \in [Tokens -> [session : AnySession, used : BOOLEAN, until : Nat]]
      /\ \A j \in Tokens \ {k} : refresh'[j] = refresh[j]
      /\ refresh'[k].used = TRUE
      /\ \A j \in Tokens : refresh'[j].session = refresh[j].session /\ refresh'[j].until = refresh[j].until
  BY ZenonT(30), <1>0, <1>2, <1>3 DEF Shape
<1>6. \A j \in Tokens : /\ Unspent(j)' => j # k /\ Unspent(j)
                        /\ j # k /\ Unspent(j) => Unspent(j)'
                        /\ Issued(j)' <=> Issued(j)
  <2>1. Issued(k)'
    <3>1. refresh'[k].session = s /\ s # Unissued.session
      BY <1>3, <1>5, NamesOfUnissued DEF Bounds
    <3> QED BY <3>1 DEF Issued
  <2> QED BY <1>3, <1>5, <2>1 DEF Unspent, Issued
<1>7. \A u \in Tabs : call'[u].at \in {"rotate", "answer"} => u # t /\ call'[u] = call[u]
  BY <1>1, <1>4
<1>8. Shape'
  BY <1>0, <1>2, <1>4, <1>5 DEF Shape
<1>9. Ordered'
  BY <1>0, <1>5, <1>6 DEF Ordered
<1>10. Known'
  <2>1. ASSUME NEW u \in Tabs
        PROVE  /\ call'[u].at \in Bringing \cup {"rotate", "revoke"} => call'[u].session \in SessionIds
               /\ access'[u].until > 0 => access'[u].session \in SessionIds
    <3>1. CASE u = t
      BY <1>0, <1>2, <1>3, <1>4, <3>1 DEF Known
    <3>2. CASE u # t
      BY <1>0, <1>1, <1>2, <1>4, <3>2 DEF Known
    <3> QED BY <3>1, <3>2
  <2>2. ASSUME NEW u \in Tabs, call'[u].at \in {"rotate", "answer"}
        PROVE  /\ call'[u].token \in Tokens /\ Issued(call[u].token)'
               /\ call'[u].at = "rotate" => refresh'[call'[u].token].session = call'[u].session
    <3>1. call'[u] = call[u] /\ call[u].token \in Tokens /\ Issued(call[u].token)
      BY <1>0, <1>7, <2>2 DEF Known
    <3>2. refresh'[call'[u].token] # Unissued
      BY <1>6, <3>1 DEF Issued
    <3>3. call'[u].at = "rotate" => refresh'[call'[u].token].session = call'[u].session
      BY <1>0, <1>5, <3>1 DEF Known
    <3> QED BY <3>1, <3>2, <3>3 DEF Issued
  <2>3. call'[Moderator].at \in {"idle", "members", "bury"}
    BY <1>0, <1>1, <1>4 DEF Known
  <2> QED BY <2>1, <2>2, <2>3 DEF Known
<1>11. Horizon'
  BY <1>0, <1>2, <1>5 DEF Horizon
<1>12. Lineage'
  <2>1. \A j \in Tokens : Unspent(j)' => refresh[j].session # s
    BY <1>0, <1>3, <1>6 DEF Lineage
  <2>2. \A u \in Tabs, r \in AnySession : Holder(u, r)' =>
            \/ u = t /\ r = s
            \/ u # t /\ r # s /\ Holder(u, r)
    <3>1. \A u \in Tabs : ~Holder(u, s)
      BY <1>0, <1>3 DEF Lineage
    <3> QED BY <1>1, <1>4, <3>1 DEF Holder
  <2>3. \A i, j \in Tokens :
            Unspent(i)' /\ Unspent(j)' /\ refresh'[i].session = refresh'[j].session => i = j
    BY <1>0, <1>5, <1>6 DEF Lineage
  <2>4. ASSUME NEW u \in Tabs, NEW j \in Tokens, Unspent(j)', Holder(u, refresh[j].session)'
        PROVE  FALSE
    <3> PICK r : r = refresh[j].session
      OBVIOUS
    <3>1. Holder(u, r)' /\ r \in AnySession
      BY <1>0, <1>5, <2>4 DEF Holder, Shape
    <3>2. Holder(u, r)
      BY <2>1, <2>2, <2>4, <3>1
    <3> QED BY <1>0, <1>6, <2>4, <3>2 DEF Lineage
  <2>5. \A u, v \in Tabs, r \in SessionIds : Holder(u, r)' /\ Holder(v, r)' => u = v
    BY <1>0, <2>2 DEF Lineage, AnySession
  <2> QED BY <2>3, <2>4, <2>5 DEF Lineage
<1>13. Buried'
  <2> SUFFICES ASSUME NEW r \in gone \ crossed
               PROVE  /\ \A j \in Tokens : refresh'[j].session = r => refresh'[j].until <= tombstone[r]
                      /\ \A u \in Tabs :
                          /\ access[u].session = r /\ Shorter => access[u].until <= tombstone[r]
                          /\ call'[u].session = r => call'[u].at \notin Issuing
                          /\ call'[u].session = r /\ call'[u].at = "admit" => Revoked(r)'
    BY <1>2 DEF Buried
  <2>1. r \in SessionIds
    BY <1>0 DEF Shape
  <2>2. Revoked(r)' <=> Revoked(r)
    BY <1>2 DEF Revoked
  <2>3. r = s => Revoked(r)
    BY <1>0, <1>3, <2>1 DEF Buried, Revoked, Shape, Bounds
  <2>4. ASSUME NEW u \in Tabs
        PROVE  /\ call'[u].session = r => call'[u].at \notin Issuing
               /\ call'[u].session = r /\ call'[u].at = "admit" => Revoked(r)'
    <3>1. CASE u = t
      BY <1>4, <2>2, <2>3, <3>1 DEF Issuing
    <3>2. CASE u # t
      BY <1>0, <1>1, <1>4, <2>2, <3>2 DEF Buried
    <3> QED BY <3>1, <3>2
  <2>5. \A j \in Tokens : refresh'[j].session = r => refresh'[j].until <= tombstone[r]
    BY <1>0, <1>5 DEF Buried
  <2> QED BY <1>0, <2>4, <2>5 DEF Buried
<1>14. Found'
  <2>1. \A j \in Tokens : Usable(j)' => Usable(j)
    BY <1>2, <1>5, <1>6 DEF Usable, Unspent
  <2> QED BY <1>0, <1>2, <1>5, <2>1 DEF Found
<1>15. OneBrowser'
  <2>1. /\ \A b \in Browsers : cookie'[b] # NoToken => Issued(cookie[b])'
        /\ \A b, c \in Browsers : cookie'[b] = cookie'[c] /\ cookie'[b] # NoToken => b = c
    <3>1. \A b \in Browsers : cookie[b] # NoToken => cookie[b] \in Tokens /\ Issued(cookie[b])
      BY <1>0 DEF OneBrowser, Shape
    <3> QED BY <1>0, <1>2, <1>6, <3>1 DEF OneBrowser, Issued
  <2>2. ASSUME NEW u \in Tabs, call'[u].at = "rotate"
        PROVE  /\ \A b \in Browsers : cookie'[b] = call'[u].token => b = Browser[u]
               /\ \A v \in Tabs : call'[v].at = "rotate" /\ call'[v].token = call'[u].token =>
                      Browser[v] = Browser[u]
    BY <1>0, <1>2, <1>7, <2>2 DEF OneBrowser
  <2>3. ASSUME NEW u \in Tabs, call'[u].at = "answer"
        PROVE  /\ Unspent(call[u].token)'
               /\ \A b \in Browsers : cookie'[b] # call'[u].token
               /\ \A v \in Tabs \ {u} : call'[v].at \in {"rotate", "answer"} =>
                      call'[v].token # call'[u].token
    <3>1. call'[u] = call[u] /\ u # t /\ call[u].token \in Tokens
      BY <1>0, <1>7, <2>3 DEF Known
    <3>2. call[u].token # k /\ Unspent(call[u].token)
      BY <1>0, <1>2, <2>3, <3>1 DEF OneBrowser
    <3>3. Unspent(call[u].token)'
      BY <1>5, <3>1, <3>2 DEF Unspent
    <3> QED BY <1>0, <1>2, <1>7, <2>3, <3>1, <3>3 DEF OneBrowser
  <2> QED BY <2>1, <2>2, <2>3 DEF OneBrowser
<1>16. Explained'
  <2>1. ASSUME NEW u \in Tabs, call'[u].at = "rotate", call'[u].session \notin gone' \cup excused'
        PROVE  /\ Unspent(call[u].token)'
               /\ \A v \in Tabs : call'[v].at = "rotate" /\ call'[v].token = call'[u].token => v = u
    <3>1. call'[u] = call[u] /\ u # t /\ call[u].token \in Tokens
      BY <1>0, <1>7, <2>1 DEF Known
    <3>2. /\ Unspent(call[u].token)
          /\ \A v \in Tabs : call[v].at = "rotate" /\ call[v].token = call[u].token => v = u
      BY <1>0, <1>2, <2>1, <3>1 DEF Explained
    <3>3. call[u].token # k
      BY <1>2, <3>1, <3>2
    <3>4. Unspent(call[u].token)'
      BY <1>5, <3>1, <3>2, <3>3 DEF Unspent
    <3> QED BY <1>7, <3>1, <3>2, <3>4
  <2>2. ASSUME NEW b \in Browsers, cookie'[b] # NoToken, ~Unspent(cookie[b])',
               refresh'[cookie'[b]].session \notin gone' \cup excused'
        PROVE  \E u \in Tabs : /\ Browser[u] = b /\ call'[u].at \in Bringing
                               /\ call'[u].session = refresh'[cookie'[b]].session
    <3>1. cookie'[b] = cookie[b] /\ cookie[b] # NoToken /\ cookie[b] \in Tokens
      BY <1>0, <1>2, <2>2 DEF Shape
    <3>2. CASE cookie[b] = k
      <4>1. Browser[t] = b
        BY <1>0, <1>2, <3>2 DEF OneBrowser
      <4>2. call'[t].at \in Bringing /\ call'[t].session = refresh'[cookie'[b]].session
        BY <1>3, <1>4, <1>5, <3>1, <3>2 DEF Bringing, Entitled
      <4> QED BY <4>1, <4>2
    <3>3. CASE cookie[b] # k
      <4>1. PICK u \in Tabs : /\ Browser[u] = b /\ call[u].at \in Bringing
                              /\ call[u].session = refresh[cookie[b]].session
        BY <1>0, <1>2, <1>5, <2>2, <3>1, <3>3 DEF Explained, Unspent
      <4>2. u # t
        BY <1>2, <4>1 DEF Bringing, Entitled
      <4> QED BY <1>1, <1>4, <1>5, <3>1, <4>1, <4>2
    <3> QED BY <3>2, <3>3
  <2> QED BY <1>0, <1>2, <2>1, <2>2 DEF Explained
<1> QED BY <1>8, <1>9, <1>10, <1>11, <1>12, <1>13, <1>14, <1>15, <1>16 DEF Inv

LEMMA TickKeeps ==
    ASSUME Bounds, Inv, Tick
    PROVE  Inv'
<1>0. /\ Shape /\ Ordered /\ Known /\ Horizon /\ Lineage /\ Buried /\ Found
      /\ OneBrowser /\ Explained
  BY DEF Inv
<1>1. (\A u \in Tabs : u \in Actors) /\ Moderator \in Actors
  BY Actings
<1>2. /\ now < MaxTime /\ now' = now + 1 /\ \A a \in Actors : call[a].at # "admit"
      /\ call' = [a \in Actors |-> IF call[a] = NoCall THEN NoCall
                                  ELSE [call[a] EXCEPT !.late = TRUE]]
      /\ UNCHANGED <<refresh, index, tombstone, status, cookie, access,
                     gone, crossed, replayed, excused>>
  BY DEF Tick, keys, browser, history
<1>3. ASSUME NEW a \in Actors
      PROVE  /\ call'[a] \in Call /\ call'[a].at = call[a].at
             /\ call'[a].session = call[a].session /\ call'[a].token = call[a].token
  <2>1. call[a] \in Call
    BY <1>0 DEF Shape
  <2>2. CASE call[a] = NoCall
    BY <1>2, <2>1, <2>2
  <2>3. CASE call[a] # NoCall
    <3>1. call'[a] = [call[a] EXCEPT !.late = TRUE]
      BY <1>2, <2>3
    <3> QED BY <2>1, <3>1 DEF Call
  <2> QED BY <2>2, <2>3
<1>4. Shape'
  <2>1. now' \in 1..MaxTime
    BY <1>0, <1>2 DEF Shape, Bounds
  <2>2. call' \in [Actors -> Call]
    BY <1>2, <1>3
  <2> QED BY <1>0, <1>2, <2>1, <2>2 DEF Shape
<1>5. Ordered' /\ Known'
  BY <1>0, <1>1, <1>2, <1>3 DEF Ordered, Known, Issued
<1>6. Horizon'
  BY <1>0, <1>2 DEF Horizon, Shape, Bounds
<1>7. Lineage'
  BY <1>0, <1>1, <1>2, <1>3 DEF Lineage, Unspent, Holder
<1>8. Buried'
  BY <1>0, <1>1, <1>2, <1>3 DEF Buried
<1>9. Found'
  <2>1. \A k \in Tokens : Usable(k)' => Usable(k)
    BY <1>0, <1>2 DEF Usable, Shape, Bounds
  <2> QED BY <1>0, <1>2, <2>1 DEF Found
<1>10. OneBrowser'
  BY <1>0, <1>1, <1>2, <1>3 DEF OneBrowser, Issued, Unspent
<1>11. Explained'
  BY <1>0, <1>1, <1>2, <1>3 DEF Explained, Unspent
<1> QED BY <1>4, <1>5, <1>6, <1>7, <1>8, <1>9, <1>10, <1>11 DEF Inv

--------------------------------------------------------------------------------
LEMMA InitInv ==
    ASSUME Bounds, Init
    PROVE  Inv
<1>1. \A a \in Actors : call[a] = NoCall
  BY DEF Init
<1>2. \A t \in Tabs : t \in Actors
  BY Actings
<1>3. /\ \A k \in Tokens : refresh[k] = Unissued
      /\ \A b \in Browsers : cookie[b] = NoToken
      /\ \A t \in Tabs : access[t] = NoAccess
      /\ \A s \in SessionIds : tombstone[s] = 0
      /\ gone = {} /\ crossed = {} /\ replayed = {} /\ excused = {} /\ now = 1
  BY DEF Init
<1>4. Unissued \in [session : AnySession, used : BOOLEAN, until : Nat]
  BY DEF Unissued, AnySession
<1>5. Shape
  <2>1. /\ now \in 1..MaxTime /\ status \in {"active", "suspended"}
        /\ index \in [ids : SUBSET SessionIds, until : Nat]
        /\ tombstone \in [SessionIds -> Nat]
    BY DEF Init, Bounds
  <2>2. /\ refresh \in [Tokens -> [session : AnySession, used : BOOLEAN, until : Nat]]
        /\ cookie \in [Browsers -> {NoToken} \cup Tokens]
        /\ access \in [Tabs -> [session : AnySession, until : Nat]]
        /\ call \in [Actors -> Call]
    BY <1>4, NoCallIsCall, NamesOfUnissued DEF Init
  <2> QED BY <1>3, <2>1, <2>2 DEF Shape
<1>6. \A a \in Actors : /\ call[a].at = "idle" /\ call[a].at \notin Bringing \cup Issuing
                        /\ call[a].at # "admit"
  BY <1>1, NoCallIsCall DEF Bringing, Entitled, Issuing
<1>7. Ordered /\ Known /\ Horizon /\ Buried
  <2>1. Ordered
    BY <1>3 DEF Ordered, Issued
  <2>2. Known
    BY <1>1, <1>2, <1>3, <1>6, Actings, NamesOfUnissued DEF Known
  <2>3. Horizon
    <3>1. 0 <= now + RefreshTtl /\ 0 <= now + AccessTtl
      BY <1>3 DEF Bounds
    <3>2. /\ \A k \in Tokens : refresh[k].until <= now + RefreshTtl
          /\ \A t \in Tabs : access[t].until <= now + AccessTtl
      BY <1>3, <3>1, NamesOfUnissued
    <3> QED BY <1>3, <3>2 DEF Horizon
  <2> QED BY <1>3, <2>1, <2>2, <2>3 DEF Buried
<1>8. Lineage /\ Found
  BY <1>2, <1>3, <1>6, NamesOfUnissued DEF Lineage, Found, Unspent, Usable, Holder, Bringing
<1>9. OneBrowser /\ Explained
  BY <1>2, <1>3, <1>6 DEF OneBrowser, Explained
<1> QED BY <1>5, <1>7, <1>8, <1>9 DEF Inv

LEMMA StepKeeps ==
    ASSUME Bounds
    PROVE  Inv /\ [Next]_vars => Inv'
<1> SUFFICES ASSUME Inv, [Next]_vars
             PROVE  Inv'
  OBVIOUS
<1>1. CASE UNCHANGED vars
  <2>1. UNCHANGED <<now, refresh, index, tombstone, status, cookie, access, call,
                    gone, crossed, replayed, excused>>
    BY <1>1 DEF vars
  <2>2. /\ Shape' /\ Ordered' /\ Known' /\ Horizon'
    BY <2>1 DEF Inv, Shape, Ordered, Known, Horizon, Issued
  <2>3. /\ Lineage' /\ Buried' /\ Found'
    BY <2>1 DEF Inv, Lineage, Unspent, Holder, Buried, Revoked, Found, Usable
  <2>4. OneBrowser' /\ Explained'
    BY <2>1 DEF Inv, OneBrowser, Issued, Unspent, Explained
  <2> QED BY <2>2, <2>3, <2>4 DEF Inv
<1>2. CASE Tick
  BY <1>2, TickKeeps
<1>3. CASE \/ Ban \/ LiftBan \/ (\E a \in Actors : ReadIndex(a)) \/ (\E t \in Tabs : Reload(t))
  BY <1>3, OthersKeep
<1>4. ASSUME NEW a \in Actors, Bury(a) PROVE Inv'
  BY <1>4, BuryKeeps
<1>5. ASSUME NEW t \in Tabs,
             \/ Login(t) \/ RefreshInTab(t) \/ Logout(t, FALSE) \/ Logout(t, TRUE)
      PROVE  Inv'
  <2>1. \A everywhere \in BOOLEAN : Logout(t, everywhere) => Inv'
    BY LogoutKeeps
  <2> QED BY <1>5, <2>1, LoginKeeps, RefreshKeeps
<1>6. ASSUME NEW t \in Tabs,
             \/ IssueAccessToken(t) \/ IssueRefreshToken(t) \/ Answer(t) \/ Lose(t)
             \/ Rotate(t) \/ NotRevoked(t) \/ InGoodStanding(t) \/ RevokeSession(t)
      PROVE  Inv'
  BY <1>6, AccessKeeps, IssueKeeps, AnswerKeeps, LoseKeeps, RotateKeeps, NotRevokedKeeps,
     StandingKeeps, RevokeKeeps
<1> QED BY <1>1, <1>2, <1>3, <1>4, <1>5, <1>6 DEF Next

LEMMA InvHolds ==
    ASSUME Bounds
    PROVE  Inv => /\ TypeOK /\ OneLineage /\ SessionsCanBeFound /\ ReplaysHaveACause
                  /\ AccessTtl <= RefreshTtl => RevokedStaysRevoked
<1> SUFFICES ASSUME Inv
             PROVE  /\ TypeOK /\ OneLineage /\ SessionsCanBeFound /\ ReplaysHaveACause
                    /\ AccessTtl <= RefreshTtl => RevokedStaysRevoked
  OBVIOUS
<1>0. /\ Shape /\ Ordered /\ Known /\ Horizon /\ Lineage /\ Buried /\ Found
      /\ OneBrowser /\ Explained
  BY DEF Inv
<1>1. TypeOK
  <2>1. \A a \in Actors : call[a] \in Call
    BY <1>0 DEF Shape
  <2>2. \A a \in Actors : /\ call[a].session \in SessionIds \cup {NoSession}
                          /\ call[a].token \in {NoToken} \cup Tokens
                          /\ call[a].found \subseteq SessionIds /\ call[a].late \in BOOLEAN
    BY <2>1 DEF Call, AnySession
  <2>3. \A k \in Tokens : /\ refresh[k].session \in SessionIds \cup {NoSession}
                          /\ refresh[k].used \in BOOLEAN /\ refresh[k].until \in Nat
    BY <1>0 DEF Shape, AnySession
  <2>4. \A t \in Tabs : access[t].session \in SessionIds \cup {NoSession}
    BY <1>0 DEF Shape, AnySession
  <2> QED BY <1>0, <2>2, <2>3, <2>4 DEF Shape, TypeOK
<1>2. OneLineage
  BY <1>0 DEF OneLineage, Lineage, Usable, Unspent
<1>3. AccessTtl <= RefreshTtl => RevokedStaysRevoked
  <2> SUFFICES ASSUME AccessTtl <= RefreshTtl, NEW s \in gone \ crossed
               PROVE  /\ \A k \in Tokens : Usable(k) /\ refresh[k].session = s => Revoked(s)
                      /\ \A t \in Tabs : access[t].until >= now /\ access[t].session = s => Revoked(s)
    BY DEF RevokedStaysRevoked
  <2>1. s \in SessionIds /\ tombstone[s] \in Nat /\ now \in Nat
    BY <1>0 DEF Shape, Bounds
  <2>2. \A k \in Tokens : Usable(k) /\ refresh[k].session = s => Revoked(s)
    BY <1>0, <2>1 DEF Buried, Usable, Revoked, Shape
  <2>3. \A t \in Tabs : access[t].until >= now /\ access[t].session = s => Revoked(s)
    BY <1>0, <2>1 DEF Buried, Revoked, Shape, Shorter
  <2> QED BY <2>2, <2>3
<1>4. SessionsCanBeFound
  <2> SUFFICES ASSUME NEW k \in Tokens, Usable(k), refresh[k].session \notin crossed \cup gone
               PROVE  refresh[k].session \in Members
    BY DEF SessionsCanBeFound
  <2>1. /\ refresh[k].session \in index.ids /\ refresh[k].until <= index.until
        /\ refresh[k].until >= now
    BY <1>0 DEF Found, Usable
  <2>2. index.until >= now
    BY <1>0, <2>1 DEF Shape, Bounds
  <2> QED BY <2>1, <2>2 DEF Members
<1>5. ReplaysHaveACause
  BY <1>0 DEF ReplaysHaveACause, Explained
<1> QED BY <1>1, <1>2, <1>3, <1>4, <1>5

================================================================================
