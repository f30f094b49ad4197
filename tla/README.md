# Loverlink in TLA+

Loverlink is a voice-first social server: people meet in audio rooms and, one
consented step at a time, may go on to direct messages and one-to-one calls. It
is a Node/TypeScript program built as ports and adapters (Postgres, Redis,
Socket.io, LiveKit). This directory models what is hard to test in it: requests
that interleave at every `await`, rows that are read, decided upon and written
later, recovery that relies on ages rather than on jobs, and requests that stop
half way.

All paths below are relative to `apps/server/src` unless they start with `docs`
or `apps/web`.

## 1. How the program runs

* One process per instance, several instances. Every use case (`app/**`) is an
  async function; each port call is one atomic step (one SQL statement, one Lua
  script, one provider call), and other requests run between two port calls.
* The events of ONE socket run one after the other (`enqueue`,
  `adapters/socketio/handlers/registerHandlers.ts:68-74`). Nothing orders two
  sockets, or a socket and an HTTP request, of the same user. Disconnect cleanup
  is outside the queue (312-350).
* The edge re-reads the account for every event and for every HTTP request and
  refuses one that is not active (`registerHandlers.ts:406-418`,
  `app/auth/AuthenticateRequest.ts:63-68`). Everything else is decided inside the
  use case from what it read itself.
* Errors end a request where it stands; what was written stays written. There is
  no transaction across port calls and no retry.

## 2. Inventory

| Component | State it keeps | Operations | Hard behaviours | What makes it correct | Modelled in |
|---|---|---|---|---|---|
| **Contact protocol** `app/connections`, `app/safety/BlockUser.ts`, `PostgresRelationshipRepository.ts` | one `relationships` row per pair: state, who asked or dialled, who blocked, since when | ask, accept, decline, block, unblock, dial, answer, hang up | read, decide, compare-and-set on one column; stale rings; two devices; aborted requests; tokens and media rooms that outlive the row | consent at every rung, one call per pair, blocks that hold, lines that recover | `Connections` |
| **Trust-ladder rules** `domain/rules/trustLadder.ts`, `domain/entities/Relationship.ts` | none | `canX` decisions | boundaries of the two time-outs | one definition for every caller | `TrustLadder`, `Stage` |
| **Rooms and presence** `app/rooms`, `RedisPresenceStore.ts`, `PostgresRoomRepository.ts`, `adapters/socketio/presenceReaper.ts` | presence records with a TTL, indexes by room and user, expiry set, durable membership | join, leave, heartbeat, disconnect, reap | reaper against rejoin, two tabs, crash between Redis and Postgres, a join in flight during a disconnect | every arrival is announced once and every departure once; the durable history is what DM rights rest on | `Presence` |
| **Speaking** `app/speaking`, `KickUser.ts`, `LiveKitMediaRoomProvider.ts` | role, hand and mute in the presence record and the row; publish grants and tokens at LiveKit | raise, approve, remove, step down, mute, kick, rejoin | count then promote; read-modify-write of the whole record; grant and role out of step | nobody publishes without approval; the stage limit; a mute outlasts a rejoin | `Stage` |
| **Authentication** `app/auth`, `RedisAuthChallengeStore.ts`, `JwtTokenService.ts`, `apps/web/lib/apiClient.ts`, sign-in page | login challenges, refresh families, tombstones, session index, cookie jars | request code, verify, register, refresh, log out, revoke all | replayed codes, concurrent refresh, lost answers, re-issue over a newer challenge | a code and a refresh token work once; what is revoked stays revoked | `SignIn`, `Sessions` |
| **Moderation** `BanUser.ts`, `ReviewReports.ts`, `SubmitReport.ts`, `domain/rules/moderation.ts`, `moderationSubscriber.ts`, `routes/admin.ts` | bans, cached status, reports, live socket | report, claim, resolve, ban, lift, suspension | list then write of the status; handshakes in flight; a request that stops half way | a banned account has no way in; a report costs once | `Moderation` |
| **Surprises** `app/surprises`, `PostgresSurpriseRepository.ts`, gift page | surprise rows, tasks, redemption, credit | create, redeem, tick | two redeemers; codes that collide; answers lost after the claim | revealed to one recipient, credited once, in time | `Surprises` |
| **Push** `ManagePushSubscriptions.ts`, `apps/web/lib/pwa.ts`, `public/sw.js` | browser subscription, permission, device rows | turn on, off, rotate, forget | a rotation or a sign-out between two steps | no address is left behind | `Devices` |
| **Scheduled rooms** `CreateRoom.ts`, `OpenScheduledRooms.ts`, `adapters/scheduler/roomScheduler.ts`, `domain/values/schedule.ts` | schedule rows, slugs | create, sweep, claim, announce, disable | several instances; a crash between claim and announcement; clock changes | one opening per occurrence; a due room opens | `Schedules`, `WallClock` |
| **Streaks** `domain/values/streaks.ts`, `JoinRoom.ts` | streak columns, zone | count a day, view | two joins write the whole streak back; midnight | a missed day is forgiven once; the view tells the truth | `Streaks` |
| **Trust ledger** `domain/values/trust.ts`, `PostgresUserRepository.ts` | `trust_events`, cached score | append and project | overlapping transactions | the score is the clamped sum | `TrustLedger` |
| **Rate limiter** `RedisRateLimiter.ts` | one counter with an expiry | check | window boundary; answers lost | a burst is bounded; refusals have a cause | `RateLimits` |
| **Room pulse** `RedisRoomPulseStore.ts`, `domain/values/roomFeeling.ts` | votes of a room with one expiry | vote, read | votes that share an expiry | a vote lasts its window; nothing is told of too few | `RoomPulse` |
| **Room screen** `apps/web/lib/useRoom.ts`, `realtimeClient.ts`, `SendChatMessage.ts` | what a tab shows, its socket, its requests | join, show, heartbeat, rejoin | events overtaking a snapshot, drops, lapses | right again after a snapshot | `RoomView` |
| **Audio of a tab** `mediaClient.ts`, `useRoom.ts`, `SignallingProvider.tsx` | the one media client and its SDK rooms | connect, upgrade, disconnect, call | asynchronous calls of two owners that cross | one audio connection; no microphone without a grant | `Audio` |
| Not modelled | see section 10 | | | | |

Components interact in three ways: through rows they share (the contact protocol
reads `room_members` for `haveSharedRoomSession` and `users` for standing), by
calling each other's use case (a ban and a kick take the steps of `LeaveRoom`),
and by events on the bus and the sockets (`moderationSubscriber`, the events of
`RoomView`).

## 3. Modules and runs

A module describes one component and its surroundings. `MCConnections`,
`MCPresence` and `MCStage` extend the module they instantiate. The smaller
components are grouped by what they are about: `MCAccounts` (one account),
`MCClaims` (things handed over), `MCClocks` (what is counted) and `MCClients`
(one tab). The components of a group share no state, and a behaviour of the
group runs one of them, chosen in its initial state by `part`, and leaves the
others alone: the state space is the sum of theirs, not the product, and a
property of the group is the conjunction of theirs. Two of them interleaved would
show nothing that one of them alone does not.

`Ladder` and `Attendance` are abstract specifications; `Connections` and
`Presence` are shown to implement them, by TLC and by proof. The only recursion is
a recursive function, the filter of a list in `RoomView`.

The proofs of a component are in a module of their own: `ConnectionsProofs`,
`PresenceProofs`, `StageProofs`. The inductive invariant of `Sessions` is in
`SessionsProofs`; `AccountsProofs` holds those of `SignIn` and `Moderation` and puts
the parts together into theorems about `MCAccounts`. `ClaimsProofs`, `ClientsProofs`
and `ClocksProofs` do both for `MCClaims`, `MCClients` and `MCClocks`. Section 12
says what is proved and what is only checked.

The operators named `...ByAnyone`, `...Unguarded` and so on, each marked as a
mutant, are plausible mistakes in the definition that follows them. Replacing the
definition by its mutant makes a property fail; they are used nowhere else.

| Run | Instance | Shows |
|---|---|---|
| `one_connection_each` | section 4 | consent, the ladder and recovery with one connection per user |
| `two_devices` | section 4 | what holds when a user acts through two connections |
| `own_ring_answered` | section 4 | **finding** (expects a violation) |
| `rooms_overlap` | section 5 | announcements are earned, whatever overlaps or fails |
| `rooms_in_turn` | section 5 | stores, rows, channel and announcements agree between operations |
| `one_member` | section 6 | approval, records and mutes, whatever crosses or fails |
| `one_stage` | section 6 | the stage limit |
| `demoted_still_audible` | section 6 | **finding** (expects a violation) |
| `accounts` | section 7 | sign-in, sessions, moderation |
| `claims` | section 7 | surprises, push subscriptions |
| `clocks` | section 8 | schedules, clock changes, streaks, trust, limits, votes |
| `clients` | section 9 | the room screen and the audio of a tab |

## 4. The contact protocol

### Modules

| Module | Stands for |
|---|---|
| `TrustLadder` | the pure rules: `TRANSITIONS`, the staleness predicates, `canRequestDm`, `canSendDm`, `canInviteToCall`, `canStartRinging`, `canAcceptCall` |
| `Ladder` | abstract specification: what a pair is promised, as atomic operations in which the right person acts |
| `Connections` | the use cases, each split into its read and its writes; the row; tokens and the media room of a call |
| `MCConnections` | two people; who sits behind which connection |
| `ConnectionsProofs` | theorems for any users, connections and time-outs |

### State

| Variable | In the code |
|---|---|
| `row[p]` | the `relationships` row of the unordered pair (`orderedPair`); a missing row is `none`. `age` is `now - updated_at` in ticks, kept only in `call_open` (no rule reads it elsewhere) and saturating at `MaxCall` (no rule tells larger ages apart) |
| `shared` | the pairs for which `haveSharedRoomSession` answers yes; `room_members` is never deleted from, so it only grows |
| `standing[u]` | `users.status` and whether the trust score is restricted |
| `op[c]` | the use case in flight on connection `c`: its next write, its target, the state it read when the write compares with it, and how old the clock value is that it will store |
| `tokens[p]`, `inRoom[p]` | unexpired join tokens for the pair's call room, and who is connected to it (LiveKit, external) |

### Actions

A use case is a `...Begin` action (its reads and every check on them) followed by
one action per later write. A write is `transition` (`PostgresRelationshipRepository.ts:76-122`):
a compare on `state` alone, a set of every column. Dialling over a leftover is
`InviteBegin`, `Release`, `Claim`; answering is `AcceptCallBegin`, `Answer`,
`Mint`; hanging up is `EndCallBegin`, `HangUp`, `Close`. `Abort` is a port that
throws or a process that dies between two port calls. `ShareRoom`,
`ChangeStanding`, `JoinMedia`, `LeaveMedia`, `ExpireToken` and `Tick` are the
surroundings. A *connection* runs one use case at a time: a socket with its
queue, or one HTTP request after another. A user with two tabs, or whose client
sends the hang-up over both the socket and HTTP
(`apps/web/lib/SignallingProvider.tsx`), has two.

Left out because no state depends on it: rate limits (a refused request changes
nothing), emitted events, push, metrics. The reads of one use case (account,
row, shared room, clock) are one step; the row is the only one of them that
another use case of this component writes, and its later change is what the
model explores. A request addressed to oneself is refused before any write.
Pairs do not interact, so two people are enough for TLC; the theorems hold for
any number.

### Runs

| Run | Instance | Shows |
|---|---|---|
| `one_connection_each` | 2 people, 1 connection each, every operation, every standing | with one connection per user the compare-and-set on the state column is enough: what was read about the other side is still so when the write happens, only the entitled side answers, opens or unblocks, and the protocol implements `Ladder` |
| `two_devices` | 3 connections, one person on two of them | what holds regardless: the columns agree, nobody skips the shared room, no transition outside the table, blocks hold, rings are not stolen |
| `own_ring_answered` | two devices | **finding**: an acceptance read against one ring is written over the acceptor's own later ring |

`one_connection_each` also checks `LineFreesUp`: a line left in `call_open`
becomes free again and again although any request may fail at any point and no
cleanup job exists.

Bounds: `RingTimeout = 1`, `MaxCall = 2` ticks are the smallest values with a
ring that is fresh, one that is stale and a call that is abandoned, and a clock
value that is read before and stored after each of them. Three connections allow
an operation to be overtaken by two others. Nothing else is bounded: every run
explores its state space to the end. Deadlock is checked (a tick is always
possible, so it never trips).

Fairness in `one_connection_each`: time passes and a request in flight goes on
(`WF`: the event loop runs), a release that keeps being attempted is not lost to
a failing port every single time (`SF`), and a person who may dial does so again
eventually (`SF`). The last is a habit of users, not of the code; it is what
"the next call simply overwrites the stale row" (`Relationship.ts:115-119`)
presupposes, and without it an abandoned row indeed stays.

### Proofs

`ConnectionsProofs` proves, for every set of users, connections and time-outs:

1. `TypeCorrect`, by one lemma per kind of action.
2. Every step is one of three shapes (`StepFacts`): it continues one operation
   (`ContinueEffect`: at most one row changes, to a value `Wrote` lists), begins
   one (`BeginEffect`: no row changes, what was read is what is true), or does
   neither (`OtherEffect`). The later proofs reason about these three shapes
   instead of about some twenty-five actions.
3. `SafetyInv`, the conjunction of `TypeOK`, `ColumnsAgree`,
   `ContactNeedsSharedRoom` and `SnapshotsHold`, is inductive. `SnapshotsHold` is
   the strengthening: the first two are not inductive alone, because a write
   relies on a state it read earlier. From it follow `EveryWriteIsLegal`,
   `BlockIsFinal` and `RingIsNotStolen`.
4. Assuming `OneConnectionEach`, `RequestsAreCurrent` is inductive on top of it:
   two operations in flight on one pair then belong to its two sides, and no
   write of one side can make a pending consent of the other apply to something
   else. From it follow the four consent properties and `LadderIsImplemented`.

`OneConnectionEach` is a real condition, not a convenience: `enqueue` provides it
for one socket, nothing provides it for a user, and `own_ring_answered` is what
happens without it. The same trace shape makes a call answered twice, lets a
stale acceptance open a request the acceptor made himself, and lets a stale
unblock lift a block applied since.

Only model-checked: `LineFreesUp` (liveness) and the disagreement.

Read off the model and the code, without a run: dialling over a leftover can
release a ring that began after the read (`CallUser.ts:103`); the thread of a
blocked pair is hidden from the one who blocked as well (`SendDm.ts:144`); a
block during a call leaves both in the media room (`BlockUser.ts:51`).

## 5. Rooms and presence

### Modules

| Module | Stands for |
|---|---|
| `Attendance` | abstract specification: the others are told of a person exactly along that person's sessions |
| `Presence` | joining, leaving, heartbeats, disconnect cleanup and the sweep, over the Redis structures, the durable row and the socket channel |
| `MCPresence` | who sits behind which socket, the symmetry of two tabs |
| `PresenceProofs` | theorems for any users, sockets, instances and time to live |

### State

Every key of this component names a room and a user (or a room and the user's
sockets), so one room is modelled and each structure is the set of users it
holds for that room.

| Variable | In the code |
|---|---|
| `hash` | `presence:room:<R>`, one field per member |
| `rooms` | `presence:user:<U>`: whether it holds the room |
| `score[u]` | `presence:expiry`: ticks until the deadline, 0 once it passed, -1 without an entry |
| `open` | `room_members` rows with `left_at IS NULL` |
| `connected`, `subscribed` | the sockets of the user's channel and of the room's |
| `told` | whom the room was last told of: `user:joined` adds, `user:left` removes |
| `proc[p]` | where a thread of awaits stands: the event a socket's queue runs, the cleanup after a socket closed, a sweep with the entries it has claimed |
| `arrived`, `ended` | history only: who began a stay, or ended a session, and has not announced it |

### Actions

One action is one call that is atomic by itself: a Lua script or `MULTI` at
Redis, a statement at Postgres, a call to the socket server. A join is
`JoinRoom` (`SET_ONLINE_SCRIPT`), `RecordJoin`, `JoinRoomChannel`, `Look`,
`Greet`; a departure is `SetOffline`, `LeaveRoomChannel`, `RecordLeave`,
`BidFarewell`, the same use case behind the button (`LeaveRoom`), the cleanup
(`Disconnect`, `AskAlone`, `ListRooms`) and the sweep (`ReapExpired`, `Erase`,
`HandOver`); a heartbeat is the lookup of the rooms (`Heartbeat`, with `Prune`
for what it found stale) and `Beat`. A socket's queue runs one event at a time;
its cleanup runs beside the queue, because the handler is registered outside
`enqueue` (`registerHandlers.ts:312-350`). `Vanish` is the death of the instance
that holds a socket, `Abort` a port that throws or an instance that dies between
two calls.

`OneAtATime` is a hypothesis, not the code: it says that whatever is done for one
user (an event, a cleanup, a sweep of that user's entry) ends before the next
begins. The code provides it for the events of one socket only. The runs and
theorems that assume it say what the protocol guarantees to a user with one
socket whose cleanup and sweep do not cross a rejoin. Otherwise, a rejoin between
a departure's two writes leaves a member present with no open row
(`LeaveRoom.ts:77`), a heartbeat refreshes a deadline whose entry is gone, since
0 is true in Lua (`RedisPresenceStore.ts:106`), and a sweep that throws has
already taken its batch out of the index (`presenceReaper.ts:86`).

Left out: what an entry says of a member (role, mute, hand), which is in `Stage`;
the streak and the trust credit written on the way (`Streaks`, `TrustLedger`); the callers
of `LeaveRoom` other than the above (kick, ban), which take the same steps;
events still queued behind the one a closing socket is running; the limit of 500
entries a sweep claims at once; checks before a join's first write that refuse it
without a change (account, capacity, block). Rooms are created and scheduled in
`Schedules`.

### Runs

| Run | Instance | Shows |
|---|---|---|
| `rooms_overlap` | one user on two sockets, one sweeper, everything overlaps, anything may fail | one departure and one arrival are announced once each, and only a join makes somebody present, whatever overlaps or fails |
| `rooms_in_turn` | two users, one of them on two sockets; nothing done for a user overlaps; fairness | outside an operation on a user the three structures, the row, the channel and the announcements agree; a lapse or a lost connection is announced in the end; `Attendance` is implemented |

Bounds: `Ttl = 2` is the smallest time to live with a deadline that is fresh, one
that is about to pass and one that passed. One user with two sockets already has
five threads (two queues, two cleanups, a sweep) on the same keys; two users are
there so that a sweep claims more than one entry and the threads of different
users interleave. Users share no key, only the sweep, so more of them add no new
order of steps on a key. Nothing else is bounded, both passing runs explore
their whole state space, and deadlock is checked.

Fairness in `rooms_in_turn`: time passes (`WF(Tick)`), a thread of awaits goes on
(`WF(Proceed)`: the event loop runs, and `MayFail` is off), and the reaper's timer
fires (`WF(ReapExpired)`). Nothing is assumed of clients: nobody has to leave,
send a heartbeat or stay connected.

### Proofs

`PresenceProofs` proves, for every set of users, sockets and instances and every
time to live:

1. `TypeCorrect`, from `WellFormed`: the types, and that a process past its first
   step acts for a user (needed because most steps index a function by that user).
2. `DeparturesAnnouncedOnce` and `ArrivalsAnnouncedOnce`, from `Earned`. Neither
   is inductive: an arrival's announcement rests on the flag an earlier step set,
   so `OnlyNewGreet` (only who is new goes on to announce) is added. They hold for
   every overlap and every failure.
3. `PresenceComesFromJoining`, an action property: by cases over the actions, no
   step but a join's script turns a member visible.
4. `AttendanceIsImplemented`, assuming `OneAtATime` and `~MayFail`. The invariant
   is `Orderly`: `InTurn` (two processes never have work in hand for the same
   user) and `InStep` (whoever is listed has a session or is about to be announced
   as gone; a process about to announce a departure has closed the row, one about
   to announce an arrival has opened it). `InTurn` is what makes the second part
   inductive: the row a process relies on is touched by no other.

5. `NoSessionIsForgotten`, `ThePresentWereAnnounced`, `TheIndexesAgree` and
   `NobodyListensOn` (`OpenSessionsExpire`, `PresentAreKnown`, `IndexesAgree`,
   `ListenersHaveSessions`), assuming `OneAtATime` and `~MayFail`. These four say
   something of a person nobody works on, so nothing in them survives the first
   step of an operation. The strengthening is `InPlace`: a person nobody works on
   is `Settled`, and one somebody works on is where that operation has brought
   them (`Brought`: in the joining steps the entry is indexed, in the leaving
   steps after the script it is gone from all three structures, once the channel
   was left no socket of theirs listens). With `InTurn` of the previous item, one
   lemma (`OneActs`) reduces a step to the person it is for, and the rest is a
   proof per step of the operations.

Only model-checked: `DeparturesAreAnnounced` (liveness).

## 6. The stage

`Stage` follows what a member may do in a room over four records that are
written apart: the presence field (`entry`, with whether its deadline has passed
in `live`), the durable row (`row`), the media token the member's client was last
given (`held`) and what LiveKit lets them do (`grant`, external). An operation
decides when it begins, and then takes a list of steps, one per port call, of
which each may be the last. `Load` and `Store` are the two halves of `patch`
(`RedisPresenceStore.ts:404-432`), which reads the whole field and writes the
whole field. The host and each member run one operation at a time (`op`), the
host's against any member. `approved` and `disturbed` are history: whom the host
ever approved, and on whom two operations met or one stopped half way.

| Run | Instance | Shows |
|---|---|---|
| `one_member` | a host and one member, every operation, any port may fail | nobody is given the floor anywhere whom the host never approved, whatever crosses or fails (`OnlyApprovedSpeak`); where no two operations met, the field and the row tell the same between operations (`RecordsAgree`) and only the host unmutes (`OnlyTheHostUnmutes`) |
| `one_stage` | a host and two members, one place on the stage, no failures | the count that precedes the promotion keeps the limit as long as no two operations met on one member (`StageLimit`) |
| `demoted_still_audible` | a host and one member | **finding**: a speaker whose media connection drops around the demotion comes back with the publishing token of the approval |

Members share no record but the stage, so one member is enough for what concerns
a record and two for the limit; one place is the smallest limit that two can
overrun. The conditions on `disturbed` are the findings of `ApproveSpeaker.ts:96`,
`RedisPresenceStore.ts:408` and `JoinRoom.ts:81`: with overlap, a member lowering
a hand writes back the mute the host has just set.

### Proofs

`StageProofs` proves, for any members, any number of places, with and without
failures, from `StageAssumption` alone:

1. `TypeCorrect`, from `Shape`: the types, and that an operation stands at one of
   the positions its list of steps can be at. The positions are named
   (`Approve1`, `Approve1w`, `Demote2`, ...), because a list of steps of unknown
   length is nothing a proof can reason about; that every step leads from a
   position to a position is proved once (`Heads`, `RereadAs`).
2. `NobodySpeaksUnapproved` (`OnlyApprovedSpeak`): the invariant adds that an
   operation which will promote, or holds an entry it read with the role of a
   speaker, is about somebody the host approved (`PromotionsAreApproved`). Without
   the second half, a stale write-back could bring a role from nowhere.
3. `RecordsStayTogether` (`RecordsAgree`), from `Undisturbed`: of a member on whom
   no two operations met, at most one operation is under way, the records stand
   as that operation has left them so far (`Coherent`, a case per position), and
   they agree when there is none.
4. `NobodyUnmutesThemselves` (`OnlyTheHostUnmutes`, an action property), from the
   same invariant: what an undisturbed operation is about to write back is what is
   stored.
5. `StageNeverOverflows` (`StageLimit`): those on the stage together with the one
   the host is about to put there (`Staged`) are no more than the limit. The
   count of the use case bounds them at the start of an approval, and nothing but
   an approval adds to them.

`SilencedStaySilent` is the disagreement and false.

## 7. Accounts and claims

### `accounts`

| Part | Module | State and actions | Instance |
|---|---|---|---|
| `door` | `SignIn` | the challenge of one identifier, its account, the pages that show a form; a request is `RequestLoginCode`, `SendLoginCode`, `ConsumeCode`, `FindAccount`, `GiveTheCodeBack`, `Register`, `IssueTokens` | two pages, two attempts, two codes |
| `twoTabs`, `oneTab` | `Sessions` | refresh records and tombstones with deadlines, the index, the cookie jar of a browser, the access token of a tab; login, refresh (rotate, look up, admit), logout, revocation of all, answers lost | two tabs with one session; one tab with two sessions |
| `reports`, `bans` | `Moderation` | reports, ban rows, the status, the person's session and socket; a decision, a ban and a lift run one port call per step and may stop | two moderators; two reports, two bans |

`CodesAdmitOnce`, `RegistrationCanFinish`, `OneLineage`, `SessionsCanBeFound`,
`ReplaysHaveACause`, `RevokedStaysRevoked`, `PenaltyOnce`, `OneReportOpen`,
`BanRowsWin` and `BannedAreOut` are grouped into the invariants of `MCAccounts`.
Several carry a condition kept in a history variable: `spoiled` (something else
touched the code), `crossed` (tokens of a session were being issued while it was
revoked), `raced` (two reports submitted at once), `unsettled` (a ban or a lift
overlapped another or stopped). Each condition is a finding of `PROJECT.json`;
without it the property is false of the code.

Bounds: a clock of three instants with an access token good for the instant it
was issued in and a refresh token for one more, so each credential outlives and
is outlived by the others; three refresh tokens allow a rotation, its replay and
a login.

`AccountsProofs` proves the six invariants of `MCAccounts` for any pages, tabs,
browsers, sessions, moderators, reports and bans, and any lifetimes and bounds
that satisfy `AccountsAssumption`. Each part has its inductive invariant:

- `SignIn` (`DoorInv` of `AccountsProofs`), for `CodesAreSpentOnce` (`SignUpHolds`): a code is in one place,
  in the store, with one request, or used (`OnePlace`), and a page whose request
  is under way shows the form it was sent from (`PagesWait`). A code that is handed
  back changes its place; it is not copied.
- `Sessions` (`Inv` of `SessionsProofs`), for `SessionsStayWhole` (`TokensHold`) and `TheRevokedStayOut`
  (`RevokedStaysRevoked`). *One usable token*: a session has one unspent token or
  one request entitled to issue it, never both and never two (`Lineage`). *Found*:
  the index outlives every usable token (`Found`), which the lifetimes counted from
  now give (`Horizon`). *Buried*: the tombstone of a session outlives whatever
  still names it, and no request is past the check of the tombstone (`Buried`).
  *Replays have a cause*: a token that is not answered yet is known to nobody, one
  that is, to one browser (`OneBrowser`), and a browser holds a spent token only
  while a request that will replace it is under way (`Explained`).
- `Moderation` (`SafetyInv` of `AccountsProofs`), for `ReportsCountOnce` (`ReportsHold`) and
  `BansAreCarriedOut` (`BansHold`): a report costs its target when it is upheld,
  which it is once (`Charged`); a submission under way counts as a report already
  (`OnePending`); while one moderator enforces, what that request knows of the ban
  rows and the status is still so (`Carried`), and when none does, status, session
  and socket agree with the rows (`Quiet`).

`TheRevokedStayOut` has one hypothesis, `AccessTtl <= RefreshTtl`. A tombstone is
written for the lifetime of a refresh token, so an access token that lives longer
would outlive it. The defaults are fifteen minutes and thirty days; `config.ts:128-133`
bounds each lifetime by itself and does not compare them. After `DoorInv`,
`AccountsProofs` shows that a part as `MCAccounts` instantiates it and as its
proofs do are the same specification, and adds the invariant of the part that runs
to the fact that the others stand still.

### `claims`

| Part | Module | State and actions | Instance |
|---|---|---|---|
| `handing` | `Surprises` | two surprises drawing codes from two: the draw, its collision and the retries | sender and friend |
| `opening` | `Surprises` | the read of a code and the compare-and-set that claims it, the reward, the answer that may be lost | sender and two others, one surprise, two moods |
| `ticking` | `Surprises` | `setTaskDone` and the answers that overwrite the list on the page | one surprise, two tasks |
| `push` | `Devices` | permission, browser subscription, device rows, tasks that fetch a key, subscribe and register | two people at one browser, two keys, two endpoints |

`handing`, `opening` and `ticking` are one instance of `Surprises` in three sizes:
what does not matter to a part is held to one value (`TwoPeople`, `OneMood`,
`NoTasks`, `OneSurprise`). The proofs do not use these restrictions. `SurprisesHold`
is `RevealedToOne`, `CodesFindOne`, `CreditedOnce` and `OpenedInTime`;
`AddressesAreLive` is about `Devices`. Two requests at once are what a claim can be
lost to; a day of life and a clock of two days contain the surprise in force and
expired.

`ClaimsProofs` proves both for any codes, moods, tasks, requests at once, keys,
endpoints and owners, and any bounds that satisfy `ClaimsAssumption`:

- `SurprisesGoToOne` (`SurprisesHold`), from `GiftInv`. A request
  that is past its read of a code names a code some row has, whose sender it is not,
  and one that is past the claim, like a page that shows what is inside, belongs to
  the recipient the row names, in the mood it names (`Entitled`): the row says so
  before the answer leaves, and nothing takes it back. A code is in one row
  (`Distinct`). The reward of an opening is with the request that won the claim or
  in the account, never both (`PaidOnce`).
- `NoAddressIsLeft` (`AddressesAreLive`), from `DevicesInv`. Unsubscribing forgets
  the row and only then drops the address in the browser; between the two the row is
  gone or the address is excused (`Dropped`).

## 8. Clocks and counters: `clocks`

| Part | Module | State and actions | Instance |
|---|---|---|---|
| `sweeps` | `Schedules` | `CreateRoom` with its slug, and the sweep of a server: list, claim, disable, announce; crashes and failed calls | a room, two servers, one fault |
| `addresses` | `Schedules` | as above | two rooms whose slugs collide, one server |
| `zone` | `WallClock` | `NextOccurrence` across one change of offset, and sweeps that come late | zones east and west of UTC, changes both ways, every time of day and pair of neighbouring ones |
| `streak` | `Streaks` | a join loads the account, counts the day, writes the whole streak back; the zone may be changed | two joins, days of two steps, four days, two zones |
| `ledger` | `TrustLedger` | insert, then an update whose sum is over what was committed when it began, under READ COMMITTED | three transactions |
| `limit` | `RateLimits` | the `INCR` and `EXPIRE` script, answers lost | a limit of two in a window of three |
| `pulse` | `RoomPulse` | membership read, vote, shared expiry, what is told | three people, two feelings, a window of two |

Every number is a CONSTANT of `MCClocks`; `ClocksAssumption` says what the code
fixes of them, such as the weights of trust events: two kicks do not use up the starting
balance, and only a kick, an upheld report or a ban takes away. `Schedules` has one
instance in two sizes: `Sweeping` keeps all rooms but one uncreated, `Addressing`
all servers but one down and the clock within the first minutes.

`ClocksHold` is the conjunction of an invariant for each component:
`RoomsOpenOnce`, `RoomsFollowTheClock`, `StreaksAreTrue`, `StandingIsEarned`,
`LimitsAreKept`, `VotesAreCounted`. `NextOccurrence` is the code's search;
`BookedOnTheClock`, `NothingPassedOver` and `OncePerDay` compare it with what a
clock shows (`Named`), over every instant near the change. They allow the hour
of the change: the findings of `schedule.ts:209` and `309` say what the code
does in it. `ScoreIsProjected` requires that the last writer saw the whole
ledger (`alone`), and `VotesLastTheirWindow` asks for the youngest vote only;
both are findings as well.

Liveness, `DueRoomsOpen`: a room that is due is opened or taken out of the sweep.
Fairness: the clock moves (`WF`), and each server goes on (`WF` of `Runs`: the
process is restarted, the timer fires and the event loop runs). Crashes and
failed calls are bounded by `MaxFaults`, since a sweep that always fails opens
nothing.

## 9. The web client: `clients`

`RoomView` (part `view`) is one tab in one room: the room and its chat as the
server has them, the viewer's entry and channel, the requests and events on their
way, and what the tab shows. A join is served in five steps (`JoinRoom`,
`JoinRoomChannel`, `ReadMembers`, `ReadMessages`, `EmitState`), between which
others arrive, leave and write. `Drop` and `Reconnect` are the socket: what is
emitted while it is down is held and sent first (`RoomView` follows
`socket.io-client`, which is external), the cleanup of the server runs beside the
new socket, and a join the old one left in the queue goes on as `late`. `Lapse`
is the sweep of `Presence` in one step; the next heartbeat tells the tab to join
again. `RightAfterSnapshot` is the promise of `useRoom.ts:16-26`, under the
condition that no event overtook the last snapshot (`missed`): that it can is a
finding, and so is the late join.

`Audio` (part `audio`) is the single media client of a tab, used by the room
screen and the call layer. Each call of the client awaits the end of the current
SDK room and goes on after it, so two calls may await the same end (`shared`, a
finding); otherwise `OneAudio` and `MicrophoneIsGranted` hold whatever is
promoted, demoted, answered and left meanwhile.

Bounds: two other people, one of whom the viewer has blocked, one message, two
arrivals or departures, one drop or lapse, queues of two, and three SDK rooms
with two calls in flight. A second drop repeats the first from a state that is
already explored (a snapshot replaces everything); three SDK rooms are needed for
one that is ending, one that is current and one that follows.

No liveness is stated of the client: nothing obliges a network to come back.

`ClientsProofs` proves `TabIsRight` (`ClientsHold`) for any people, messages, SDK
rooms and calls in flight, and any bounds that satisfy `ClientsAssumption`. Neither
promise is inductive: each is about a moment when nothing is on its way, and has to
be carried through everything that is.

- `RoomView` (`TabInv`). What is true when the queue is empty must be true of the
  queue when it is not: for each person, the last event on its way about them says
  whether they are in the room, and the view says so when there is none
  (`WillShow`; of a message, `WillQuote`). This holds of whom nothing is still to be
  broadcast about (`Told`), for a subscribed tab whose join is served (`Followed`);
  until then the snapshot being read is the truth (`Read`). A snapshot that an event
  overtakes breaks `Read`, which is what `missed` records. That a broadcast is true
  when it leaves rests on one person's events being sent in order (`InOrder`). The
  lemmas on lists (`Listed`, `Appended`, `Headed`, `Filtered`) say what the queues and
  the shown lists hold, in what order, and that nothing is in them twice.
- `Audio` (`SoundInv`). No two calls of the client are connecting one SDK room
  (`Made`), and the rooms not yet made are as many as the calls that will make one
  (`Enough`), so a connect always finds a room of its own. Unless two calls awaited the
  end of one room (`Alone`), at most one awaits an end, and of the current room; no
  other room is live; what the client believes it may publish is what the token of the
  connected room allowed; and with neither screen nor call the audio is left or a call
  that leaves it is under way.

## 10. What is not modelled, and why

| Part | Why |
|---|---|
| Home, dashboard, availability | reads that combine rows; no state |
| Profile and media upload | updates of one row and file storage |
| Delivery of pushes | `SendPush` is called nowhere (finding) |
| Edges (socket and HTTP) | validation and transport. Their state is in the models: the queue of a socket is one operation per connection, the account check of every event is in `Connections` and `Moderation` |
| Persistence plumbing, in-memory adapters | each statement or script is an atomic step; the fakes have the contracts of the real ones |
| Observability, configuration, wiring | no property reads their effects |
| Other screens of the client | forms over one request each |
| Chat beyond what is shown | a room message is kept and broadcast (`RoomView`); typing, reactions and the bounds of the buffer are left out; `SendDm` appends a row after the check, with a block in between that nothing excludes |

Data abstracted everywhere: texts, names and payloads are model values or absent;
ages, days and windows are a few ticks; a cron expression is the set of instants
or times of day it names.

## 11. Findings

`PROJECT.json` lists, with the lines, where the code differs from what its own
comments, documents or interface promise. Two have a run that TLC violates
(`own_ring_answered`, `demoted_still_audible`); the others were met while
translating and are the reason for the conditions named above. A reader who
repairs one should remove its condition and see the run pass.

## 12. What is proved and what is only checked

| | Proved by TLAPS, for all constants | Checked by TLC on the instances |
|---|---|---|
| `Connections` | types, consent, blocks, calls, the refinement of `Ladder` | recovery of the line (liveness) |
| `Presence` | types, announcements, joining, what agrees between operations, the refinement of `Attendance` | announced departures (liveness) |
| `Stage` | types, approval, agreement of the records, mutes, the stage limit | the disagreement |
| `SignIn`, `Sessions`, `Moderation` | every invariant of `MCAccounts` | the same |
| `Surprises`, `Devices` | both invariants of `MCClaims` | the same |
| `RoomView`, `Audio` | the invariant of `MCClients` | the same |
| `Schedules`, `WallClock`, `Streaks`, `TrustLedger`, `RateLimits`, `RoomPulse` | the invariant of `MCClocks`, and each of its six parts | due rooms open (liveness) |

The assumptions of the proofs are those on the constants (`ConnAssumption`,
`TimeoutAssumption`, `PresenceAssumption`, `StageAssumption`, `AccountsAssumption`,
`ClaimsAssumption`, `ClientsAssumption`, `ClocksAssumption`), which TLC evaluates on
every run of `MCConnections`, `MCPresence`, `MCStage`, `MCAccounts`, `MCClaims`,
`MCClients` and `MCClocks`, and, where a theorem names them, `OneConnectionEach`, `OneAtATime`, `~MayFail` and
`AccessTtl <= RefreshTtl`.

Every property that is proved is also checked, on the instances of section 3: the
runs show that the interesting cases happen, the proofs that no larger instance
behaves otherwise. Liveness is out of the prover's reach. So are the library's
induction theorems; where `ClientsProofs` needs an induction over the length of a
list, or `ClocksProofs` one over a finite set that it sums, it takes the least
counterexample (`LeastOf`).

The arguments of `ClocksProofs`, one invariant for each component:

* `RoomsInv`: whoever swept, the occurrences a room was claimed for lie before the
  one it is booked for and are as many as its openings; a room is created at an
  address nobody has; and the openings not announced are those a server is
  announcing or a fault cut short.
* `DayInv`: the booking is what the search found at the sweep. The search finds the
  first candidate later than the sweep (`FirstLater`). The instant it gives a local
  time shows that time or is within the hour of the change (`ShownOrChanging`); it
  gives the time of an instant that is alone in showing it that instant
  (`FoundAgain`), so that such an instant is a candidate or comes after every one
  (`BookedByThen`); and one time of day on two days is a day apart, less the hour
  (`DaysApart`).
* `StreakInv`: the row and every copy that a join holds are streaks that the days
  shown account for.
* `LedgerInv`: the score, and the sum of every writer in flight, is the clamped sum
  of some of the committed events, and of all of them when the last writer saw the
  whole ledger; without a report or a ban such a sum needs three kicks to fall below
  zero, whatever part of the ledger it is over.
* `LimitInv`: the window in force has let through no more than its count, the one
  before it no more than the limit, so a span as long as a window meets two windows.
* `PulseInv`: the votes that count are of the window before they expire.

All safety properties that a run checks are proved; liveness is left to TLC.
