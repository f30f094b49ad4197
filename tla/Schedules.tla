------------------------------- MODULE Schedules -------------------------------
(***************************************************************************)
(* Rooms that open by themselves: creating one, and the sweep that every   *)
(* server runs each minute over the rooms that are due.                    *)
(*                                                                         *)
(* A cron expression is the set of instants it matches, already resolved   *)
(* to instants (WallClock has that arithmetic), and the search for the     *)
(* next one gives up after a horizon.  A minute is a step of the clock; a  *)
(* retry and a restart come within the minute.  A sweep reads the clock    *)
(* once and runs one step per room and per call.                           *)
(***************************************************************************)
EXTENDS Naturals, FiniteSets, Sequences

CONSTANTS
    Rooms, Servers,
    Patterns,        \* the schedules a host may ask for
    Horizon,         \* SEARCH_LIMIT_DAYS
    SlugAttempts,    \* MAX_SLUG_ATTEMPTS
    MaxPerSweep,     \* MAX_PER_SWEEP
    MaxTime,         \* bound on the clock
    MaxFaults,       \* bound on crashes and failed calls
    Never

VARIABLES
    now,
    room,        \* rooms
    draft,       \* the room a host is creating
    server,      \* the sweep of each server
    announced,   \* room.opened events published, by room
    claimed,     \* ghost: the occurrences each room was opened for
    openings,    \* ghost: how often it was opened
    faults

vars == <<now, room, draft, server, announced, claimed, openings, faults>>

NotCreated == [slug |-> 0, pattern |-> {}, scheduled |-> FALSE, next |-> Never,
               opened |-> Never, status |-> "none"]
NoDraft == [step |-> "none", slug |-> 0, pattern |-> {}, next |-> Never]
Down == [phase |-> "down", at |-> 0, due |-> <<>>, wake |-> 0]

Created == {r \in Rooms : room[r].status # "none"}
Slugs == 1..(SlugAttempts + 1)
Instants == (UNION Patterns) \cup 0..MaxTime

TypeOK ==
    /\ now \in 0..MaxTime
    /\ \A r \in Rooms :
           /\ room[r].slug \in Slugs \cup {0}
           /\ room[r].pattern \in Patterns \cup {{}}
           /\ room[r].scheduled \in BOOLEAN
           /\ room[r].next \in Instants \cup {Never}
           /\ room[r].opened \in Instants \cup {Never}
           /\ room[r].status \in {"none", "scheduled", "live"}
           /\ draft[r].step \in {"none", "probe", "insert"}
    /\ \A s \in Servers :
           /\ server[s].phase \in {"down", "resting", "sweeping", "announcing"}
           /\ server[s].at \in 0..MaxTime
           /\ server[s].wake \in 0..MaxTime
           /\ Len(server[s].due) <= MaxPerSweep
    /\ faults \in 0..MaxFaults

Init ==
    /\ now = 0
    /\ room = [r \in Rooms |-> NotCreated]
    /\ draft = [r \in Rooms |-> NoDraft]
    /\ server = [s \in Servers |-> Down]
    /\ announced = [r \in Rooms |-> 0]
    /\ claimed = [r \in Rooms |-> {}]
    /\ openings = [r \in Rooms |-> 0]
    /\ faults = 0

\* Mutant of NextOccurrence: the instant itself counts.
NextOccurrenceInclusive(pattern, after) ==
    LET later == {t \in pattern : after <= t /\ t <= after + Horizon}
    IN IF later = {} THEN Never ELSE CHOOSE t \in later : \A u \in later : t <= u

\* The next instant strictly after, within the horizon of the search.
NextOccurrence(pattern, after) ==
    LET later == {t \in pattern : after < t /\ t <= after + Horizon}
    IN IF later = {} THEN Never ELSE CHOOSE t \in later : \A u \in later : t <= u

--------------------------------------------------------------------------------
(***************************************************************************)
(* Creating a room.                                                        *)
(***************************************************************************)

\* A schedule that cannot fire is refused before anything is written.
CreateRoom(r, pattern) ==
    /\ r \notin Created
    /\ draft[r].step = "none"
    /\ pattern # {} => NextOccurrence(pattern, now) # Never
    /\ draft' = [draft EXCEPT ![r] = [NoDraft EXCEPT
                     !.step = "probe", !.pattern = pattern,
                     !.next = IF pattern = {} THEN Never ELSE NextOccurrence(pattern, now)]]
    /\ UNCHANGED <<now, room, server, announced, claimed, openings, faults>>

Taken == {room[r].slug : r \in Created}

\* The first free address of a popular title, or else one more with a random suffix.
ReserveSlug(r) ==
    /\ draft[r].step = "probe"
    /\ LET free == Slugs \ Taken
       IN draft' = [draft EXCEPT ![r] =
              IF free = {} THEN NoDraft
              ELSE [@ EXCEPT !.step = "insert",
                             !.slug = CHOOSE i \in free : \A j \in free : i <= j]]
    /\ UNCHANGED <<now, room, server, announced, claimed, openings, faults>>

\* Mutant of SlugFree: no unique index.
SlugProbed(slug) == TRUE

\* The unique index on the slug.
SlugFree(slug) == slug \notin Taken

\* The probe is a courtesy; the insert refuses an address taken meanwhile.
InsertRoom(r) ==
    /\ draft[r].step = "insert"
    /\ IF SlugFree(draft[r].slug)
       THEN room' = [room EXCEPT ![r] =
                [slug |-> draft[r].slug, pattern |-> draft[r].pattern,
                 scheduled |-> draft[r].pattern # {}, next |-> draft[r].next, opened |-> Never,
                 status |-> IF draft[r].pattern = {} THEN "live" ELSE "scheduled"]]
       ELSE UNCHANGED room
    /\ draft' = [draft EXCEPT ![r] = NoDraft]
    /\ UNCHANGED <<now, server, announced, claimed, openings, faults>>

--------------------------------------------------------------------------------
(***************************************************************************)
(* The sweep.                                                              *)
(***************************************************************************)

\* Mutant of Due: only what is due this minute.
DueNow(at) == {r \in Created : room[r].scheduled /\ room[r].next = at}

Due(at) == {r \in Created : room[r].scheduled /\ room[r].next # Never /\ room[r].next <= at}

\* The most overdue first, as many as one sweep takes.
Oldest(at) ==
    {q \in UNION {[1..n -> Due(at)] : n \in 0..MaxPerSweep} :
        /\ \A i, j \in DOMAIN q : i < j => q[i] # q[j] /\ room[q[i]].next <= room[q[j]].next
        /\ \A r \in Due(at) :
               (\A i \in DOMAIN q : q[i] # r) =>
                   Len(q) = MaxPerSweep /\ \A i \in DOMAIN q : room[q[i]].next <= room[r].next}

\* The timer of a server fires; the next is set only when this sweep ends.
ListDueSchedules(s) ==
    /\ server[s].phase = "resting"
    /\ server[s].wake <= now
    /\ \E due \in Oldest(now) :
           server' = [server EXCEPT ![s] =
                          [phase |-> "sweeping", at |-> now, due |-> due, wake |-> 0]]
    /\ UNCHANGED <<now, room, draft, announced, claimed, openings, faults>>

\* The minute at the bound lasts: timers go on in it.
Rest(s) ==
    server' = [server EXCEPT ![s] =
        [Down EXCEPT !.phase = "resting", !.wake = IF now < MaxTime THEN now + 1 ELSE now]]

FinishSweep(s) ==
    /\ server[s].phase = "sweeping"
    /\ server[s].due = <<>>
    /\ Rest(s)
    /\ UNCHANGED <<now, room, draft, announced, claimed, openings, faults>>

\* Mutant of MayClaim: trusts the list.
MayClaimListed(r, at) == room[r].scheduled /\ room[r].next # Never

\* The occurrence is due and the room was not opened for it yet.
MayClaim(r, at) ==
    /\ room[r].scheduled
    /\ room[r].next # Never
    /\ room[r].next <= at
    /\ room[r].opened = Never \/ room[r].opened < room[r].next

\* One UPDATE: open the room and book its next occurrence, forward from the sweep's now.
ClaimOccurrence(s) ==
    /\ server[s].phase = "sweeping"
    /\ server[s].due # <<>>
    /\ LET r == Head(server[s].due)
           at == server[s].at
           next == NextOccurrence(room[r].pattern, at)
       IN /\ next # Never
          /\ IF MayClaim(r, at)
             THEN /\ room' = [room EXCEPT ![r].next = next, ![r].opened = at,
                                          ![r].status = "live"]
                  /\ claimed' = [claimed EXCEPT ![r] = @ \cup {room[r].next}]
                  /\ openings' = [openings EXCEPT ![r] = @ + 1]
                  /\ server' = [server EXCEPT ![s].phase = "announcing"]
             ELSE /\ server' = [server EXCEPT ![s].due = Tail(@)]
                  /\ UNCHANGED <<room, claimed, openings>>
    /\ UNCHANGED <<now, draft, announced, faults>>

\* An expression with no next instant is taken out of the sweep, the due occurrence with it.
DisableSchedule(s) ==
    /\ server[s].phase = "sweeping"
    /\ server[s].due # <<>>
    /\ LET r == Head(server[s].due)
       IN /\ NextOccurrence(room[r].pattern, server[s].at) = Never
          /\ room' = [room EXCEPT ![r].scheduled = FALSE, ![r].next = Never]
    /\ server' = [server EXCEPT ![s].due = Tail(@)]
    /\ UNCHANGED <<now, draft, announced, claimed, openings, faults>>

\* Only the winner of the claim publishes room.opened.
Announce(s) ==
    /\ server[s].phase = "announcing"
    /\ announced' = [announced EXCEPT ![Head(server[s].due)] = @ + 1]
    /\ server' = [server EXCEPT ![s].phase = "sweeping", ![s].due = Tail(@)]
    /\ UNCHANGED <<now, room, draft, claimed, openings, faults>>

\* A call throws: the rest of the sweep is dropped and retried before the minute is over.
FailSweep(s) ==
    /\ server[s].phase \in {"sweeping", "announcing"}
    /\ faults < MaxFaults
    /\ faults' = faults + 1
    /\ server' = [server EXCEPT ![s] = [Down EXCEPT !.phase = "resting", !.wake = now]]
    /\ UNCHANGED <<now, room, draft, announced, claimed, openings>>

\* A process starts, its first sweep at once.
StartServer(s) ==
    /\ server[s].phase = "down"
    /\ server' = [server EXCEPT ![s] = [Down EXCEPT !.phase = "resting", !.wake = now]]
    /\ UNCHANGED <<now, room, draft, announced, claimed, openings, faults>>

\* A graceful stop clears the timer; a sweep in flight is awaited, so only a resting
\* server stops.
StopServer(s) ==
    /\ server[s].phase = "resting"
    /\ faults < MaxFaults
    /\ faults' = faults + 1
    /\ server' = [server EXCEPT ![s] = Down]
    /\ UNCHANGED <<now, room, draft, announced, claimed, openings>>

\* The process dies between any two steps.
CrashServer(s) ==
    /\ server[s].phase \in {"sweeping", "announcing"}
    /\ faults < MaxFaults
    /\ faults' = faults + 1
    /\ server' = [server EXCEPT ![s] = Down]
    /\ UNCHANGED <<now, room, draft, announced, claimed, openings>>

Tick ==
    /\ now < MaxTime
    /\ now' = now + 1
    /\ UNCHANGED <<room, draft, server, announced, claimed, openings, faults>>

Runs(s) ==
    \/ StartServer(s) \/ ListDueSchedules(s) \/ ClaimOccurrence(s) \/ DisableSchedule(s)
    \/ Announce(s) \/ FinishSweep(s)

Next ==
    \/ \E r \in Rooms :
           \/ \E p \in Patterns \cup {{}} : CreateRoom(r, p)
           \/ ReserveSlug(r)
           \/ InsertRoom(r)
    \/ \E s \in Servers : Runs(s) \/ FailSweep(s) \/ StopServer(s) \/ CrashServer(s)
    \/ Tick

\* A process that dies is restarted, a timer that is due fires, and the clock moves.
Fairness == WF_vars(Tick) /\ \A s \in Servers : WF_vars(Runs(s))

Spec == Init /\ [][Next]_vars /\ Fairness

--------------------------------------------------------------------------------

\* Every opening was for an occurrence of its own whose time had come, whoever swept
\* (OpenScheduledRooms.ts:21-26): two servers that list one room as due open it once.
OpenedOncePerOccurrence ==
    \A r \in Rooms :
        /\ openings[r] = Cardinality(claimed[r])
        /\ \A t \in claimed[r] : t <= now

\* A backlog is skipped (OpenScheduledRooms.ts:28-34): once opened, a room has nothing due
\* before the time it was opened at.
NothingReplayed ==
    \A r \in Rooms :
        room[r].opened # Never /\ room[r].scheduled => room[r].next > room[r].opened

\* An opening is announced once, by the server that claimed it, unless that server failed
\* before it could (OpenScheduledRooms.ts:106-107, roomScheduler.ts:111-114).
AnnouncedByTheWinner ==
    \A r \in Rooms :
        LET telling == {s \in Servers : server[s].phase = "announcing" /\ Head(server[s].due) = r}
        IN /\ announced[r] + Cardinality(telling) <= openings[r]
           /\ openings[r] <= announced[r] + Cardinality(telling) + faults

\* A room is advertised as live only if it is open: ad hoc, or opened by a sweep
\* (RoomRepository.ts:161-166).
LiveIsOpen ==
    \A r \in Created : room[r].status = "live" => room[r].pattern = {} \/ openings[r] > 0

\* No two rooms have one address, however creations overlap (CreateRoom.ts:151-158).
SlugsAreUnique ==
    \A r1, r2 \in Created : room[r1].slug = room[r2].slug => r1 = r2

Overdue(r) == room[r].scheduled /\ room[r].next # Never /\ room[r].next <= now

\* A room that is due is opened or taken out of the sweep, whatever crashed meanwhile
\* (OpenScheduledRooms.ts:16-19).
DueRoomsOpen == \A r \in Rooms : Overdue(r) ~> ~Overdue(r)

================================================================================
