-------------------------------- MODULE RoomPulse ------------------------------
(***************************************************************************)
(* How a room feels: a hash in Redis, one field a person, whose one expiry *)
(* every vote renews; and what is told of it.                              *)
(***************************************************************************)
EXTENDS Integers, FiniteSets

CONSTANTS
    Users, Feelings, NoFeeling,
    Window,            \* PULSE_WINDOW_SECONDS
    MinVoters,         \* PULSE_MIN_VOTERS
    MaxTime

VARIABLES
    now,
    inside,            \* who is present in the room
    voting,            \* whose membership was read and whose vote is not yet written
    ballots, expires,  \* the hash and its expiry
    cast,              \* ghost: when each person voted last
    told               \* ghost: the pulse told last, and whether it was this instant

vars == <<now, inside, voting, ballots, expires, cast, told>>

Ever == -Window   \* long enough ago
Silent == [shares |-> [f \in Feelings |-> 0], voters |-> 0, tooFew |-> FALSE]

Init ==
    /\ now = 0
    /\ inside \in {Users, {}}
    /\ voting = {}
    /\ ballots = [u \in Users |-> NoFeeling]
    /\ expires = 0
    /\ cast = [u \in Users |-> Ever]
    /\ told = Silent

\* Nobody is let vote from outside; presence is read before the vote is written.
MayVote(u) ==
    /\ u \in inside
    /\ u \notin voting
    /\ voting' = voting \cup {u}
    /\ told' = Silent
    /\ UNCHANGED <<now, inside, ballots, expires, cast>>

\* Mutant of Kept: the window starts with the first vote of a room.
KeptSince == IF expires > now THEN expires ELSE now + Window

\* Every vote renews the expiry of them all.
Kept == now + Window

Vote(u, feeling) ==
    /\ u \in voting
    /\ voting' = voting \ {u}
    /\ ballots' = [ballots EXCEPT ![u] = feeling]
    /\ expires' = Kept
    /\ cast' = [cast EXCEPT ![u] = now]
    /\ told' = Silent
    /\ UNCHANGED <<now, inside>>

Votes(feeling) == {u \in Users : ballots[u] = feeling}
Voters == {u \in Users : ballots[u] # NoFeeling}

\* Whole percents, halves up.
Share(count, of) == (200 * count + of) \div (2 * of)

SummarizePulse ==
    LET voters == Cardinality(Voters)
    IN IF voters = 0 THEN Silent
       ELSE IF voters < MinVoters THEN [Silent EXCEPT !.tooFew = TRUE]
       ELSE [shares |-> [f \in Feelings |-> Share(Cardinality(Votes(f)), voters)],
             voters |-> voters, tooFew |-> FALSE]

GetRoomPulse(viewer) ==
    /\ viewer \in inside
    /\ told' = SummarizePulse
    /\ UNCHANGED <<now, inside, voting, ballots, expires, cast>>

Enter(u) ==
    /\ u \notin inside
    /\ inside' = inside \cup {u}
    /\ told' = Silent
    /\ UNCHANGED <<now, voting, ballots, expires, cast>>

\* A vote stays behind whoever cast it.
Leave(u) ==
    /\ u \in inside
    /\ inside' = inside \ {u}
    /\ told' = Silent
    /\ UNCHANGED <<now, voting, ballots, expires, cast>>

\* The key goes with its time.
Tick ==
    /\ now < MaxTime
    /\ now' = now + 1
    /\ ballots' = IF expires <= now' THEN [u \in Users |-> NoFeeling] ELSE ballots
    /\ told' = Silent
    /\ UNCHANGED <<inside, voting, expires, cast>>

Next ==
    \/ \E u \in Users :
           \/ MayVote(u) \/ Enter(u) \/ Leave(u) \/ GetRoomPulse(u)
           \/ \E feeling \in Feelings : Vote(u, feeling)
    \/ Tick

Spec == Init /\ [][Next]_vars

--------------------------------------------------------------------------------

TypeOK ==
    /\ inside \subseteq Users /\ voting \subseteq Users
    /\ ballots \in [Users -> Feelings \cup {NoFeeling}]
    /\ expires \in 0..(MaxTime + Window)

\* A vote counts for its window, whoever votes or leaves meanwhile, and a room where nobody
\* voted for as long says nothing (roomFeeling.ts:18-23, RedisRoomPulseStore.ts:28-31).
VotesLastTheirWindow ==
    /\ \A u \in Users : now - cast[u] < Window => ballots[u] # NoFeeling
    /\ Voters # {} => \E u \in Users : now - cast[u] < Window

\* What is told counts a person once and only people who voted, and its shares are of them:
\* off a whole by less than one for two feelings (RedisRoomPulseStore.ts:24-25,
\* roomFeeling.ts:118-134).
ToldOfEnough ==
    told.voters > 0 =>
        /\ Cardinality({u \in Users : cast[u] >= 0}) >= told.voters
        /\ told.voters >= MinVoters
        /\ \A f, g \in Feelings : f # g => told.shares[f] + told.shares[g] <= 101

================================================================================
