------------------------------- MODULE MCClaims --------------------------------
(***************************************************************************)
(* What is claimed by whoever holds it: a surprise by its code, a device   *)
(* by its endpoint.  A behaviour runs one part and leaves the others alone.*)
(*                                                                         *)
(* Surprises runs in three sizes: two surprises whose codes collide, one   *)
(* that two people open, and one whose tasks are ticked.                   *)
(***************************************************************************)
EXTENDS Naturals, TLC

CONSTANTS
    Sender, Friend, Stranger, Surprise, Surprises, Code, Codes, Mood, Moods, TaskIndexes,
    Requests, Ttl, MaxTime, MaxAttempts, MaxRedeems, Nobody, NoMood, NoSurprise,
    Owners, Endpoints, VapidKeys, NoEndpoint

People == {Sender, Friend, Stranger}

\* A code can be drawn once (MAX_CODE_ATTEMPTS is 5), and the names are apart.
ASSUME ClaimsAssumption ==
    /\ Ttl \in Nat /\ MaxTime \in Nat /\ MaxAttempts \in Nat \ {0} /\ MaxRedeems \in Nat
    /\ Nobody \notin People /\ NoSurprise \notin Codes
    /\ NoEndpoint \notin Endpoints

VARIABLES
    part,
    now, row, request, page, redeems, credit,
    signedIn, permission, setting, subscription, minted, vapid, devices, task, excused

surpriseVars == <<now, row, request, page, redeems, credit>>
deviceVars == <<signedIn, permission, setting, subscription, minted, vapid, devices, task,
                excused>>
vars == <<part, surpriseVars, deviceVars>>

Gift == INSTANCE Surprises
    WITH Restricted <- {Friend, Stranger}, Tasks <- TaskIndexes

Push == INSTANCE Devices WITH People <- Owners

Init ==
    /\ part \in {"handing", "opening", "ticking", "push"}
    /\ Gift!Init
    /\ Push!Init
    /\ part # "push" => vapid = CHOOSE k \in VapidKeys : TRUE

\* The sizes of Surprises.
TwoPeople == \A q \in Requests : request'[q].by # Stranger
OneMood == \A q \in Requests : request'[q].mood \in {Mood, NoMood}
NoTasks == \A q \in Requests : request'[q].task = 0
OneSurprise ==
    /\ \A s \in Surprises : row'[s] # row[s] => s = Surprise /\ row'[s].code = Code
    /\ \A q \in Requests : request'[q].code \in {Code, NoSurprise}

Handing == TwoPeople /\ OneMood /\ NoTasks
Opening == OneSurprise /\ NoTasks
Ticking == TwoPeople /\ OneMood /\ OneSurprise /\ now' = now

Next ==
    /\ UNCHANGED part
    /\ \/ part = "handing" /\ Gift!Next /\ Handing /\ UNCHANGED deviceVars
       \/ part = "opening" /\ Gift!Next /\ Opening /\ UNCHANGED deviceVars
       \/ part = "ticking" /\ Gift!Next /\ Ticking /\ UNCHANGED deviceVars
       \/ part = "push" /\ Push!Next /\ UNCHANGED surpriseVars

Spec == Init /\ [][Next]_vars

Alike == Permutations(Requests)

--------------------------------------------------------------------------------

\* A surprise is shown to its one recipient, found by its one code, credited once and opened
\* in time (Surprise.ts:21-25, RedeemSurprise.ts:104-134).
SurprisesHold ==
    /\ Gift!TypeOK /\ Gift!RevealedToOne /\ Gift!CodesFindOne
    /\ Gift!CreditedOnce /\ Gift!OpenedInTime

\* Turning notifications off leaves no address behind without a cause (pwa.ts:221-235).
AddressesAreLive == Push!TypeOK /\ Push!AddressesAreLive

================================================================================
