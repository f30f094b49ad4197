--------------------------------- MODULE Ladder ---------------------------------
(***************************************************************************)
(* What the trust ladder promises a pair of people, as atomic operations:  *)
(* strangers share a room, one asks, the OTHER opens, either may dial, the *)
(* OTHER answers, either may hang up; either may block from anywhere, and  *)
(* only the one who blocked may lift the block, which returns the pair to  *)
(* the bottom.  There are no requests in flight here and no time:          *)
(* Connections implements this with a read and a later compare-and-set.    *)
(***************************************************************************)
CONSTANTS User, NoUser

VARIABLES
    rung,  \* [Pair -> [state, requestedBy, blockedBy]]
    met    \* pairs whose time in some room overlapped

ladderVars == <<rung, met>>

Pair == {p \in SUBSET User : \E u, v \in User : u # v /\ p = {u, v}}

Rung(state, requestedBy, blockedBy) ==
    [state |-> state, requestedBy |-> requestedBy, blockedBy |-> blockedBy]

Bottom == Rung("none", NoUser, NoUser)

LadderInit ==
    /\ rung = [p \in Pair |-> Bottom]
    /\ met = {}

Move(p, to) ==
    /\ rung' = [rung EXCEPT ![p] = to]
    /\ UNCHANGED met

Meet(p) ==
    /\ p \in Pair
    /\ met' = met \cup {p}
    /\ UNCHANGED rung

\* u asks v, or asks again and so becomes the one who is asking.
Ask(u, v) ==
    /\ {u, v} \in met
    /\ rung[{u, v}].state \in {"none", "dm_requested"}
    /\ Move({u, v}, Rung("dm_requested", u, NoUser))

\* u answers the request v made.
Open(u, v) ==
    /\ rung[{u, v}] = Rung("dm_requested", v, NoUser)
    /\ Move({u, v}, Rung("dm_open", NoUser, NoUser))

Decline(u, v) ==
    /\ rung[{u, v}] = Rung("dm_requested", v, NoUser)
    /\ Move({u, v}, Bottom)

Dial(u, v) ==
    /\ rung[{u, v}].state = "dm_open"
    /\ Move({u, v}, Rung("call_open", u, NoUser))

\* u picks up the ring v started.
Answer(u, v) ==
    /\ rung[{u, v}] = Rung("call_open", v, NoUser)
    /\ Move({u, v}, Rung("call_open", NoUser, NoUser))

HangUp(p) ==
    /\ rung[p].state = "call_open"
    /\ Move(p, Rung("dm_open", NoUser, NoUser))

Block(u, v) ==
    /\ rung[{u, v}].state # "blocked"
    /\ Move({u, v}, Rung("blocked", NoUser, u))

\* Only the one who blocked.
Unblock(u, v) ==
    /\ rung[{u, v}] = Rung("blocked", NoUser, u)
    /\ Move({u, v}, Bottom)

LadderNext ==
    \/ \E p \in Pair : Meet(p) \/ HangUp(p)
    \/ \E u, v \in User :
          /\ u # v
          /\ \/ Ask(u, v)    \/ Open(u, v)   \/ Decline(u, v)
             \/ Dial(u, v)   \/ Answer(u, v)
             \/ Block(u, v)  \/ Unblock(u, v)

LadderSpec == LadderInit /\ [][LadderNext]_ladderVars

================================================================================
