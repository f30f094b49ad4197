------------------------------ MODULE StageProofs ------------------------------
(***************************************************************************)
(* Theorems about Stage for any members, any number of places on the       *)
(* stage, whatever crosses and whatever fails.                             *)
(***************************************************************************)
EXTENDS Stage, FiniteSetTheorems, TLAPS

--------------------------------------------------------------------------------
(***************************************************************************)
(* Where an operation may stand: what each program still has to do.  A name*)
(* that ends in w has read the field and is about to write it back.        *)
(***************************************************************************)

Write(field, value) == [do |-> "store", field |-> field, value |-> value]

ToSpeaker == Patch("role", "speaker")
WriteSpeaker == Write("role", "speaker")
MirrorSpeaker == Mirror("role", "speaker")
ToListener == Patch("role", "listener")
WriteListener == Write("role", "listener")
MirrorListener == Mirror("role", "listener")
Silence(b) == [do |-> "mute", value |-> b]
ToMuted(b) == Patch("muted", b)
WriteMuted(b) == Write("muted", b)
MirrorMuted(b) == Mirror("muted", b)
ToHand(b) == Patch("hand", b)
WriteHand(b) == Write("hand", b)
HandDown == Patch("hand", FALSE)
WriteHandDown == Write("hand", FALSE)
Promote == Do("promote")
Revoke == Do("revoke")
Cut == Do("cut")
Eject == Do("eject")
Offline == Do("offline")
Close == Do("close")
Online == Do("online")
Record == Do("record")
Issue == Do("token")

Approve1 == << ToSpeaker, MirrorSpeaker, HandDown, Promote >>
Approve1w == << WriteSpeaker, MirrorSpeaker, HandDown, Promote >>
Approve2 == << MirrorSpeaker, HandDown, Promote >>
Approve3 == << HandDown, Promote >>
Approve3w == << WriteHandDown, Promote >>
Approve4 == << Promote >>

Demote1 == << Revoke, ToListener, MirrorListener >>
Demote2 == << ToListener, MirrorListener >>
Demote2w == << WriteListener, MirrorListener >>
Demote3 == << MirrorListener >>

Mute1(b) == << Silence(b), ToMuted(b), MirrorMuted(b) >>
Mute2(b) == << ToMuted(b), MirrorMuted(b) >>
Mute2w(b) == << WriteMuted(b), MirrorMuted(b) >>
Mute3(b) == << MirrorMuted(b) >>

Hand1(b) == << ToHand(b) >>
Hand1w(b) == << WriteHand(b) >>

Kick1 == << Cut, Eject, Offline, Close >>
Kick2 == << Eject, Offline, Close >>
Leave1 == << Offline, Close >>
Leave2 == << Close >>

Join1 == << Online, Record, Issue >>
Join2 == << Record, Issue >>
Join3 == << Issue >>

Approving == {Approve1, Approve1w, Approve2, Approve3, Approve3w, Approve4}
Demoting == {Demote1, Demote2, Demote2w, Demote3}
Muting == UNION {{Mute1(b), Mute2(b), Mute2w(b), Mute3(b)} : b \in BOOLEAN}
RaisingHand == UNION {{Hand1(b), Hand1w(b)} : b \in BOOLEAN}
Leaving == {Leave1, Leave2}
Kicking == {Kick1, Kick2} \cup Leaving
Joining == {Join1, Join2, Join3}

HostsPositions == Approving \cup Demoting \cup Muting \cup Kicking
MembersPositions == Demoting \cup RaisingHand \cup Leaving \cup Joining
Positions == HostsPositions \cup MembersPositions

\* The positions that rely on what was read.
Holding ==
    {Approve1w, Approve3w, Demote2w, Join1, Join2} \cup {Mute2w(b) : b \in BOOLEAN}
        \cup {Hand1w(b) : b \in BOOLEAN}

--------------------------------------------------------------------------------
(***************************************************************************)
(* The types, and what every operation is at.                              *)
(***************************************************************************)

Operation == [who : Members \cup {NoOne}, todo : Positions \cup {<<>>}, saw : Entry \cup {None}]

\* A member acts for themselves, the host for a member, and each at a position of theirs.
Fits(p, o) ==
    \/ o = Idle
    \/ /\ o.who \in Members
       /\ o.todo \in (IF p = Host THEN HostsPositions ELSE MembersPositions)
       /\ p # Host => o.who = p
       /\ o.todo \in Holding => o.saw \in Entry

OperationsFit == \A p \in People : Fits(p, op[p])

Shape ==
    /\ entry \in [Members -> Entry \cup {None}]
    /\ live \subseteq Members
    /\ row \in [Members -> Row \cup {None}]
    /\ held \in [Members -> Token]
    /\ grant \in [Members -> Grant]
    /\ op \in [People -> Operation]
    /\ approved \subseteq Members /\ disturbed \subseteq Members
    /\ OperationsFit


LEMMA StepsDo ==
    /\ ToSpeaker.do = "load" /\ ToSpeaker.field = "role" /\ ToSpeaker.value = "speaker"
    /\ WriteSpeaker.do = "store" /\ WriteSpeaker.field = "role" /\ WriteSpeaker.value = "speaker"
    /\ MirrorSpeaker.do = "mirror" /\ MirrorSpeaker.field = "role" /\ MirrorSpeaker.value = "speaker"
    /\ ToListener.do = "load" /\ ToListener.field = "role" /\ ToListener.value = "listener"
    /\ WriteListener.do = "store" /\ WriteListener.field = "role" /\ WriteListener.value = "listener"
    /\ MirrorListener.do = "mirror" /\ MirrorListener.field = "role" /\ MirrorListener.value = "listener"
    /\ HandDown.do = "load" /\ HandDown.field = "hand" /\ HandDown.value = FALSE
    /\ WriteHandDown.do = "store" /\ WriteHandDown.field = "hand" /\ WriteHandDown.value = FALSE
    /\ Promote.do = "promote" /\ Revoke.do = "revoke" /\ Cut.do = "cut" /\ Eject.do = "eject"
    /\ Offline.do = "offline" /\ Close.do = "close" /\ Online.do = "online"
    /\ Record.do = "record" /\ Issue.do = "token"
    /\ \A b \in BOOLEAN :
        /\ Silence(b).do = "mute" /\ Silence(b).value = b
        /\ ToMuted(b).do = "load" /\ ToMuted(b).field = "muted" /\ ToMuted(b).value = b
        /\ WriteMuted(b).do = "store" /\ WriteMuted(b).field = "muted" /\ WriteMuted(b).value = b
        /\ MirrorMuted(b).do = "mirror" /\ MirrorMuted(b).field = "muted" /\ MirrorMuted(b).value = b
        /\ ToHand(b).do = "load" /\ ToHand(b).field = "hand" /\ ToHand(b).value = b
        /\ WriteHand(b).do = "store" /\ WriteHand(b).field = "hand" /\ WriteHand(b).value = b
BY DEF ToSpeaker, WriteSpeaker, MirrorSpeaker, ToListener, WriteListener, MirrorListener,
    HandDown, WriteHandDown, Promote, Revoke, Cut, Eject, Offline, Close, Online, Record, Issue,
    Silence, ToMuted, WriteMuted, MirrorMuted, ToHand, WriteHand, Patch, Write, Mirror, Do

LEMMA StepsAreSteps ==
    /\ {ToSpeaker, WriteSpeaker, MirrorSpeaker, ToListener, WriteListener, MirrorListener,
         HandDown, WriteHandDown, Promote, Revoke, Cut, Eject, Offline, Close, Online, Record,
         Issue} \subseteq Step
    /\ \A b \in BOOLEAN : {Silence(b), ToMuted(b), WriteMuted(b), MirrorMuted(b), ToHand(b),
                            WriteHand(b)} \subseteq Step
BY DEF ToSpeaker, WriteSpeaker, MirrorSpeaker, ToListener, WriteListener, MirrorListener,
    HandDown, WriteHandDown, Promote, Revoke, Cut, Eject, Offline, Close, Online, Record, Issue,
    Silence, ToMuted, WriteMuted, MirrorMuted, ToHand, WriteHand, Patch, Write, Mirror, Do,
    Step, Role

\* What a load is once it has read.
LEMMA WrittenBack ==
    /\ [ToSpeaker EXCEPT !.do = "store"] = WriteSpeaker
    /\ [ToListener EXCEPT !.do = "store"] = WriteListener
    /\ [HandDown EXCEPT !.do = "store"] = WriteHandDown
    /\ \A b \in BOOLEAN :
        /\ [ToMuted(b) EXCEPT !.do = "store"] = WriteMuted(b)
        /\ [ToHand(b) EXCEPT !.do = "store"] = WriteHand(b)
<1>1. ASSUME NEW f, NEW v  PROVE [Patch(f, v) EXCEPT !.do = "store"] = Write(f, v)
  BY DEF Patch, Write
<1> QED
  BY <1>1, Zenon
  DEF ToSpeaker, WriteSpeaker, ToListener, WriteListener, HandDown, WriteHandDown,
      ToMuted, WriteMuted, ToHand, WriteHand

\* What is next, and what is left: Head and Tail, under names the provers leave alone.
First(t) == Head(t)
Rest(t) == Tail(t)

LEMMA Heads ==
    /\ Approve1 # <<>> /\ First(Approve1) = ToSpeaker /\ Rest(Approve1) = Approve2
    /\ Approve1w # <<>> /\ First(Approve1w) = WriteSpeaker /\ Rest(Approve1w) = Approve2
    /\ Approve2 # <<>> /\ First(Approve2) = MirrorSpeaker /\ Rest(Approve2) = Approve3
    /\ Approve3 # <<>> /\ First(Approve3) = HandDown /\ Rest(Approve3) = Approve4
    /\ Approve3w # <<>> /\ First(Approve3w) = WriteHandDown /\ Rest(Approve3w) = Approve4
    /\ Approve4 # <<>> /\ First(Approve4) = Promote /\ Rest(Approve4) = <<>>
    /\ Demote1 # <<>> /\ First(Demote1) = Revoke /\ Rest(Demote1) = Demote2
    /\ Demote2 # <<>> /\ First(Demote2) = ToListener /\ Rest(Demote2) = Demote3
    /\ Demote2w # <<>> /\ First(Demote2w) = WriteListener /\ Rest(Demote2w) = Demote3
    /\ Demote3 # <<>> /\ First(Demote3) = MirrorListener /\ Rest(Demote3) = <<>>
    /\ Kick1 # <<>> /\ First(Kick1) = Cut /\ Rest(Kick1) = Kick2
    /\ Kick2 # <<>> /\ First(Kick2) = Eject /\ Rest(Kick2) = Leave1
    /\ Leave1 # <<>> /\ First(Leave1) = Offline /\ Rest(Leave1) = Leave2
    /\ Leave2 # <<>> /\ First(Leave2) = Close /\ Rest(Leave2) = <<>>
    /\ Join1 # <<>> /\ First(Join1) = Online /\ Rest(Join1) = Join2
    /\ Join2 # <<>> /\ First(Join2) = Record /\ Rest(Join2) = Join3
    /\ Join3 # <<>> /\ First(Join3) = Issue /\ Rest(Join3) = <<>>
    /\ \A b \in BOOLEAN :
        /\ Mute1(b) # <<>> /\ First(Mute1(b)) = Silence(b) /\ Rest(Mute1(b)) = Mute2(b)
        /\ Mute2(b) # <<>> /\ First(Mute2(b)) = ToMuted(b) /\ Rest(Mute2(b)) = Mute3(b)
        /\ Mute2w(b) # <<>> /\ First(Mute2w(b)) = WriteMuted(b) /\ Rest(Mute2w(b)) = Mute3(b)
        /\ Mute3(b) # <<>> /\ First(Mute3(b)) = MirrorMuted(b) /\ Rest(Mute3(b)) = <<>>
        /\ Hand1(b) # <<>> /\ First(Hand1(b)) = ToHand(b) /\ Rest(Hand1(b)) = <<>>
        /\ Hand1w(b) # <<>> /\ First(Hand1w(b)) = WriteHand(b) /\ Rest(Hand1w(b)) = <<>>
BY DEF Approve1, Approve1w, Approve2, Approve3, Approve3w, Approve4,
    Demote1, Demote2, Demote2w, Demote3, Kick1, Kick2, Leave1, Leave2, Join1, Join2, Join3,
    Mute1, Mute2, Mute2w, Mute3, Hand1, Hand1w, First, Rest

LEMMA Lists ==
    ASSUME NEW a, NEW b, NEW c, NEW d
    PROVE  /\ <<a>> \o <<>> = <<a>>
           /\ <<a>> \o <<b>> = <<a, b>>
           /\ <<a>> \o <<b, c>> = <<a, b, c>>
           /\ <<a>> \o <<b, c, d>> = <<a, b, c, d>>
<1>1. <<a>> \o <<>> = <<a>>
  OBVIOUS
<1>2. <<a>> \o <<b>> = <<a, b>>
  <2> DEFINE s == <<a>> \o <<b>>
  <2>1. s \in Seq({a, b}) /\ Len(s) = 2 /\ s[1] = a /\ s[2] = b
    OBVIOUS
  <2> HIDE DEF s
  <2>2. s = <<a, b>>
    BY <2>1
  <2> QED BY <2>2 DEF s
<1>3. <<a>> \o <<b, c>> = <<a, b, c>>
  <2> DEFINE s == <<a>> \o <<b, c>>
  <2>1. s \in Seq({a, b, c}) /\ Len(s) = 3 /\ s[1] = a /\ s[2] = b /\ s[3] = c
    OBVIOUS
  <2> HIDE DEF s
  <2>2. s = <<a, b, c>>
    BY <2>1
  <2> QED BY <2>2 DEF s
<1>4. <<a>> \o <<b, c, d>> = <<a, b, c, d>>
  <2> DEFINE s == <<a>> \o <<b, c, d>>
  <2>1. s \in Seq({a, b, c, d}) /\ Len(s) = 4
        /\ s[1] = a /\ s[2] = b /\ s[3] = c /\ s[4] = d
    OBVIOUS
  <2> HIDE DEF s
  <2>2. s = <<a, b, c, d>>
    BY <2>1
  <2> QED BY <2>2 DEF s
<1> QED BY <1>1, <1>2, <1>3, <1>4

Reread(t) == << [First(t) EXCEPT !.do = "store"] >> \o Rest(t)

LEMMA RereadAs ==
    /\ Reread(Approve1) = Approve1w
    /\ Reread(Approve3) = Approve3w
    /\ Reread(Demote2) = Demote2w
    /\ \A b \in BOOLEAN : Reread(Mute2(b)) = Mute2w(b) /\ Reread(Hand1(b)) = Hand1w(b)
<1>1. Reread(Approve1) = Approve1w
  <2>1. Reread(Approve1) = << WriteSpeaker >> \o Approve2
    BY Heads, WrittenBack DEF Reread
  <2> QED BY ZenonT(30), <2>1, Lists DEF Approve1w, Approve2
<1>2. Reread(Approve3) = Approve3w
  <2>1. Reread(Approve3) = << WriteHandDown >> \o Approve4
    BY Heads, WrittenBack DEF Reread
  <2> QED BY <2>1, Lists DEF Approve3w, Approve4
<1>3. Reread(Demote2) = Demote2w
  <2>1. Reread(Demote2) = << WriteListener >> \o Demote3
    BY Heads, WrittenBack DEF Reread
  <2> QED BY <2>1, Lists DEF Demote2w, Demote3
<1>4. ASSUME NEW b \in BOOLEAN
      PROVE  Reread(Mute2(b)) = Mute2w(b) /\ Reread(Hand1(b)) = Hand1w(b)
  <2>1. Reread(Mute2(b)) = << WriteMuted(b) >> \o Mute3(b)
    BY Heads, WrittenBack DEF Reread
  <2>2. Reread(Hand1(b)) = << WriteHand(b) >> \o <<>>
    BY ZenonT(30), Heads, WrittenBack DEF Reread
  <2> QED BY <2>1, <2>2, Lists DEF Mute2w, Mute3, Hand1w
<1> QED BY <1>1, <1>2, <1>3, <1>4

\* Only what relies on a reading is held, and it is read first.
LEMMA HoldingHeads ==
    \A t \in Holding : First(t).do \in {"store", "online", "record"}
BY Heads, StepsDo DEF Holding

\* Programs among S run to their end, each from its own start.
RunsOn(S) ==
    \A t \in S :
        /\ t # <<>> /\ First(t) \in Step
        /\ Rest(t) \in S \cup {<<>>}
        /\ Rest(t) \in Holding => t \in Holding
        /\ First(t).do = "load" => Reread(t) \in S
        /\ First(t).do \in {"store", "online", "record"} => t \in Holding

LEMMA ProgramsRunOn ==
    /\ RunsOn(Approving) /\ RunsOn(Demoting) /\ RunsOn(Muting)
    /\ RunsOn(RaisingHand) /\ RunsOn(Kicking) /\ RunsOn(Leaving) /\ RunsOn(Joining)
    /\ RunsOn(HostsPositions) /\ RunsOn(MembersPositions)
<1> USE Heads, StepsDo, StepsAreSteps, RereadAs
<1>0. <<>> \notin Holding
  BY DEF Holding
<1>1. RunsOn(Approving)
  <2> SUFFICES ASSUME NEW t \in Approving
               PROVE  /\ t # <<>> /\ First(t) \in Step
                      /\ Rest(t) \in Approving \cup {<<>>}
                      /\ Rest(t) \in Holding => t \in Holding
                      /\ First(t).do = "load" => Reread(t) \in Approving
                      /\ First(t).do \in {"store", "online", "record"} => t \in Holding
    BY DEF RunsOn
  <2>1. t # <<>> /\ First(t) \in Step /\ Rest(t) \in Approving \cup {<<>>}
    BY DEF Approving
  <2>2. Rest(t) \notin Holding
    BY <1>0, HoldingHeads DEF Approving
  <2>3. First(t).do = "load" => Reread(t) \in Approving
    BY DEF Approving
  <2>4. First(t).do \in {"store", "online", "record"} => t \in Holding
    BY DEF Approving, Holding
  <2> QED BY <2>1, <2>2, <2>3, <2>4
<1>2. RunsOn(Demoting)
  <2> SUFFICES ASSUME NEW t \in Demoting
               PROVE  /\ t # <<>> /\ First(t) \in Step
                      /\ Rest(t) \in Demoting \cup {<<>>}
                      /\ Rest(t) \in Holding => t \in Holding
                      /\ First(t).do = "load" => Reread(t) \in Demoting
                      /\ First(t).do \in {"store", "online", "record"} => t \in Holding
    BY DEF RunsOn
  <2>1. t # <<>> /\ First(t) \in Step /\ Rest(t) \in Demoting \cup {<<>>}
    BY DEF Demoting
  <2>2. Rest(t) \notin Holding
    BY <1>0, HoldingHeads DEF Demoting
  <2>3. First(t).do = "load" => Reread(t) \in Demoting
    BY DEF Demoting
  <2>4. First(t).do \in {"store", "online", "record"} => t \in Holding
    BY DEF Demoting, Holding
  <2> QED BY <2>1, <2>2, <2>3, <2>4
<1>3. RunsOn(Muting)
  <2> SUFFICES ASSUME NEW t \in Muting
               PROVE  /\ t # <<>> /\ First(t) \in Step
                      /\ Rest(t) \in Muting \cup {<<>>}
                      /\ Rest(t) \in Holding => t \in Holding
                      /\ First(t).do = "load" => Reread(t) \in Muting
                      /\ First(t).do \in {"store", "online", "record"} => t \in Holding
    BY DEF RunsOn
  <2>1. t # <<>> /\ First(t) \in Step /\ Rest(t) \in Muting \cup {<<>>}
    BY DEF Muting
  <2>2. Rest(t) \notin Holding
    BY <1>0, HoldingHeads DEF Muting
  <2>3. First(t).do = "load" => Reread(t) \in Muting
    BY DEF Muting
  <2>4. First(t).do \in {"store", "online", "record"} => t \in Holding
    BY DEF Muting, Holding
  <2> QED BY <2>1, <2>2, <2>3, <2>4
<1>4. RunsOn(RaisingHand)
  <2> SUFFICES ASSUME NEW t \in RaisingHand
               PROVE  /\ t # <<>> /\ First(t) \in Step
                      /\ Rest(t) \in RaisingHand \cup {<<>>}
                      /\ Rest(t) \in Holding => t \in Holding
                      /\ First(t).do = "load" => Reread(t) \in RaisingHand
                      /\ First(t).do \in {"store", "online", "record"} => t \in Holding
    BY DEF RunsOn
  <2>1. t # <<>> /\ First(t) \in Step /\ Rest(t) \in RaisingHand \cup {<<>>}
    BY DEF RaisingHand
  <2>2. Rest(t) \notin Holding
    BY <1>0, HoldingHeads DEF RaisingHand
  <2>3. First(t).do = "load" => Reread(t) \in RaisingHand
    BY DEF RaisingHand
  <2>4. First(t).do \in {"store", "online", "record"} => t \in Holding
    BY DEF RaisingHand, Holding
  <2> QED BY <2>1, <2>2, <2>3, <2>4
<1>5. RunsOn(Leaving)
  <2> SUFFICES ASSUME NEW t \in Leaving
               PROVE  /\ t # <<>> /\ First(t) \in Step
                      /\ Rest(t) \in Leaving \cup {<<>>}
                      /\ Rest(t) \in Holding => t \in Holding
                      /\ First(t).do = "load" => Reread(t) \in Leaving
                      /\ First(t).do \in {"store", "online", "record"} => t \in Holding
    BY DEF RunsOn
  <2>1. t # <<>> /\ First(t) \in Step /\ Rest(t) \in Leaving \cup {<<>>}
    BY DEF Leaving
  <2>2. Rest(t) \notin Holding
    BY <1>0, HoldingHeads DEF Leaving
  <2>3. First(t).do = "load" => Reread(t) \in Leaving
    BY DEF Leaving
  <2>4. First(t).do \in {"store", "online", "record"} => t \in Holding
    BY DEF Leaving, Holding
  <2> QED BY <2>1, <2>2, <2>3, <2>4
<1>6. RunsOn(Kicking)
  <2> SUFFICES ASSUME NEW t \in Kicking
               PROVE  /\ t # <<>> /\ First(t) \in Step
                      /\ Rest(t) \in Kicking \cup {<<>>}
                      /\ Rest(t) \in Holding => t \in Holding
                      /\ First(t).do = "load" => Reread(t) \in Kicking
                      /\ First(t).do \in {"store", "online", "record"} => t \in Holding
    BY DEF RunsOn
  <2>1. t # <<>> /\ First(t) \in Step /\ Rest(t) \in Kicking \cup {<<>>}
    BY DEF Kicking, Leaving
  <2>2. Rest(t) \notin Holding
    BY <1>0, HoldingHeads DEF Kicking, Leaving
  <2>3. First(t).do = "load" => Reread(t) \in Kicking
    BY DEF Kicking, Leaving
  <2>4. First(t).do \in {"store", "online", "record"} => t \in Holding
    BY DEF Kicking, Leaving, Holding
  <2> QED BY <2>1, <2>2, <2>3, <2>4
<1>7. RunsOn(Joining)
  <2> SUFFICES ASSUME NEW t \in Joining
               PROVE  /\ t # <<>> /\ First(t) \in Step
                      /\ Rest(t) \in Joining \cup {<<>>}
                      /\ Rest(t) \in Holding => t \in Holding
                      /\ First(t).do = "load" => Reread(t) \in Joining
                      /\ First(t).do \in {"store", "online", "record"} => t \in Holding
    BY DEF RunsOn
  <2>1. t # <<>> /\ First(t) \in Step /\ Rest(t) \in Joining \cup {<<>>}
    BY DEF Joining
  <2>2. Rest(t) \in Holding => t \in Holding
    BY <1>0, HoldingHeads DEF Joining, Holding
  <2>3. First(t).do = "load" => Reread(t) \in Joining
    BY DEF Joining
  <2>4. First(t).do \in {"store", "online", "record"} => t \in Holding
    BY DEF Joining, Holding
  <2> QED BY <2>1, <2>2, <2>3, <2>4
<1>8. \A S, T : RunsOn(S) /\ RunsOn(T) => RunsOn(S \cup T)
  BY DEF RunsOn
<1>9. RunsOn(HostsPositions)
  <2>1. RunsOn(Approving \cup Demoting)
    BY <1>1, <1>2, <1>8, ZenonT(30)
  <2>2. RunsOn((Approving \cup Demoting) \cup Muting)
    BY <1>3, <1>8, <2>1, ZenonT(30)
  <2> QED BY <1>6, <1>8, <2>2, ZenonT(30) DEF HostsPositions
<1>10. RunsOn(MembersPositions)
  <2>1. RunsOn(Demoting \cup RaisingHand)
    BY <1>2, <1>4, <1>8, ZenonT(30)
  <2>2. RunsOn((Demoting \cup RaisingHand) \cup Leaving)
    BY <1>5, <1>8, <2>1, ZenonT(30)
  <2> QED BY <1>7, <1>8, <2>2, ZenonT(30) DEF MembersPositions
<1> QED BY <1>1, <1>2, <1>3, <1>4, <1>5, <1>6, <1>7, <1>9, <1>10

\* What a store makes of an entry, and a mirror of a row.
LEMMA Changed ==
    ASSUME NEW e \in Entry, NEW step \in Step, step.do = "store"
    PROVE  /\ [e EXCEPT ![step.field] = step.value] \in Entry
           /\ step.field = "role" =>
                [e EXCEPT ![step.field] = step.value] = [e EXCEPT !.role = step.value]
           /\ step.field = "muted" =>
                [e EXCEPT ![step.field] = step.value] = [e EXCEPT !.muted = step.value]
           /\ step.field = "hand" =>
                [e EXCEPT ![step.field] = step.value] = [e EXCEPT !.hand = step.value]
BY DEF Entry, Step, Role

LEMMA MirroredRow ==
    ASSUME NEW r \in Row, NEW step \in Step, step.do = "mirror"
    PROVE  /\ [r EXCEPT ![step.field] = step.value] \in Row
           /\ step.field = "role" =>
                [r EXCEPT ![step.field] = step.value] = [r EXCEPT !.role = step.value]
           /\ step.field = "muted" =>
                [r EXCEPT ![step.field] = step.value] = [r EXCEPT !.muted = step.value]
BY DEF Row, Step, Role


--------------------------------------------------------------------------------
(***************************************************************************)
(* What every action does to an operation, and to the types.               *)
(***************************************************************************)

PositionsOf(p) == IF p = Host THEN HostsPositions ELSE MembersPositions

LEMMA IdleIsOperation ==
    /\ Idle \in Operation /\ Idle.who = NoOne /\ Idle.todo = <<>> /\ Idle.saw = None
    /\ None \notin Entry /\ None \notin Row
BY DEF Idle, Operation, None, Entry, Row, Role

LEMMA OneOperationMoves ==
    ASSUME Shape, NEW p \in People, NEW next \in Operation, Fits(p, next),
           op' = [op EXCEPT ![p] = next]
    PROVE  /\ op' \in [People -> Operation] /\ OperationsFit'
           /\ op'[p] = next
           /\ \A q \in People : q # p => op'[q] = op[q]
<1>1. op' \in [People -> Operation] /\ op'[p] = next /\ \A q \in People : q # p => op'[q] = op[q]
  BY DEF Shape
<1>2. \A q \in People : Fits(q, op'[q])
  BY <1>1 DEF Shape, OperationsFit
<1>3. OperationsFit'
  BY <1>2, Zenon DEF OperationsFit
<1> QED BY <1>1, <1>3

\* Whose step is next, and what it may rely on.
LEMMA AtWork ==
    ASSUME Shape, NEW p \in People, NEW u \in Members, NEW what, At(p, u, what)
    PROVE  /\ op[p] # Idle /\ op[p].who = u /\ op[p] \in Operation
           /\ op[p].todo \in PositionsOf(p) /\ op[p].todo # <<>>
           /\ Head(op[p].todo) = First(op[p].todo) /\ First(op[p].todo) \in Step
           /\ First(op[p].todo).do = what
           /\ what \in {"store", "online", "record"} => op[p].saw \in Entry
           /\ p # Host => u = p
<1>1. op[p].who = u /\ op[p].todo # <<>> /\ First(op[p].todo).do = what
  BY DEF At, First
<1>2. op[p] # Idle
  BY <1>1, IdleIsOperation
<1>3. op[p] \in Operation /\ Fits(p, op[p])
  BY DEF Shape, OperationsFit
<1>4. op[p].todo \in PositionsOf(p) /\ (p # Host => u = p)
  BY <1>1, <1>2, <1>3 DEF Fits, PositionsOf
<1>5. First(op[p].todo) \in Step /\ (what \in {"store", "online", "record"} => op[p].todo \in Holding)
  BY <1>1, <1>4, ProgramsRunOn DEF PositionsOf, RunsOn
<1>6. what \in {"store", "online", "record"} => op[p].saw \in Entry
  BY <1>2, <1>3, <1>5 DEF Fits
<1> QED BY <1>1, <1>2, <1>3, <1>4, <1>5, <1>6 DEF First

\* p goes on to what is left.
WentOn(p) ==
    op'[p] = IF Rest(op[p].todo) = <<>> THEN Idle
             ELSE [op[p] EXCEPT !.todo = Rest(op[p].todo)]

OthersKept(p) == \A q \in People : q # p => op'[q] = op[q]

LEMMA ProceedFits ==
    ASSUME Shape, NEW p \in People, op[p] # Idle, Proceed(p)
    PROVE  op' \in [People -> Operation] /\ OperationsFit' /\ WentOn(p) /\ OthersKept(p)
<1> DEFINE t == op[p].todo
           next == IF Rest(t) = <<>> THEN Idle ELSE [op[p] EXCEPT !.todo = Rest(t)]
<1>1. op[p] \in Operation /\ Fits(p, op[p])
  BY DEF Shape, OperationsFit
<1>2. t \in PositionsOf(p) /\ op[p].who \in Members /\ (p # Host => op[p].who = p)
      /\ (t \in Holding => op[p].saw \in Entry)
  BY <1>1 DEF Fits, PositionsOf
<1>3. /\ Rest(t) \in PositionsOf(p) \cup {<<>>}
      /\ Rest(t) \in Holding => t \in Holding
  BY <1>2, ProgramsRunOn DEF PositionsOf, RunsOn
<1>4. next \in Operation /\ Fits(p, next)
  <2>1. CASE Rest(t) = <<>>
    BY <2>1, IdleIsOperation DEF Fits
  <2>2. CASE Rest(t) # <<>>
    <3> DEFINE r == Rest(t)
    <3>1. r \in PositionsOf(p) /\ r \in Positions
      BY <1>3, <2>2 DEF PositionsOf, Positions
    <3>2. next = [op[p] EXCEPT !.todo = r]
      BY <2>2
    <3>3. r \in Holding => t \in Holding
      BY <1>3
    <3> HIDE DEF r, next
    <3>4. next \in Operation /\ next.todo = r /\ next.who = op[p].who /\ next.saw = op[p].saw
      BY <1>1, <3>1, <3>2 DEF Operation
    <3> QED BY <1>2, <3>1, <3>3, <3>4 DEF Fits, PositionsOf
  <2> QED BY <2>1, <2>2
<1>5. op' = [op EXCEPT ![p] = next]
  BY DEF Proceed, Rest, Shape
<1>6. WentOn(p) <=> op'[p] = next
  BY DEF WentOn
<1> HIDE DEF next
<1> QED BY <1>4, <1>5, <1>6, OneOperationMoves DEF OthersKept

LEMMA LoadFits ==
    ASSUME Shape, NEW p \in People, NEW u \in Members, Load(p, u)
    PROVE  /\ op' \in [People -> Operation] /\ OperationsFit' /\ OthersKept(p)
           /\ entry[u] = None => WentOn(p)
           /\ entry[u] # None =>
                op'[p] = [op[p] EXCEPT !.saw = entry[u], !.todo = Reread(op[p].todo)]
<1> DEFINE t == op[p].todo
           next == [op[p] EXCEPT !.saw = entry[u], !.todo = Reread(t)]
<1>0. At(p, u, "load")
  BY DEF Load
<1>1. CASE entry[u] = None
  BY <1>0, <1>1, AtWork, ProceedFits DEF Load
<1>2. CASE entry[u] # None
  <2>1. Reread(t) \in PositionsOf(p) /\ Reread(t) \in Positions
    BY <1>0, AtWork, ProgramsRunOn DEF PositionsOf, Positions, RunsOn
  <2>2. entry[u] \in Entry
    BY <1>2 DEF Shape
  <2>3. next \in Operation /\ next.who = u /\ next.saw = entry[u] /\ next.todo = Reread(t)
    <3>1. op[p] \in Operation /\ op[p].who = u
      BY <1>0, AtWork
    <3>2. ASSUME NEW r \in Positions
          PROVE  /\ [op[p] EXCEPT !.saw = entry[u], !.todo = r] \in Operation
                 /\ [op[p] EXCEPT !.saw = entry[u], !.todo = r].who = u
                 /\ [op[p] EXCEPT !.saw = entry[u], !.todo = r].saw = entry[u]
                 /\ [op[p] EXCEPT !.saw = entry[u], !.todo = r].todo = r
      BY <2>2, <3>1 DEF Operation
    <3> QED BY <2>1, <3>2
  <2>4. Fits(p, next)
    <3>1. p # Host => u = p
      BY <1>0, AtWork
    <3> HIDE DEF next
    <3> QED BY <2>1, <2>2, <2>3, <3>1 DEF Fits, PositionsOf
  <2>5. op' = [op EXCEPT ![p] = next]
    <3>1. op' = [op EXCEPT ![p].saw = entry[u],
                           ![p].todo = << [Head(t) EXCEPT !.do = "store"] >> \o Tail(@)]
      BY <1>2 DEF Load
    <3>2. << [Head(t) EXCEPT !.do = "store"] >> \o Tail(t) = Reread(t)
      BY DEF Reread, First, Rest
    <3> QED BY <3>1, <3>2 DEF Shape, Operation
  <2> HIDE DEF next
  <2>6. op' \in [People -> Operation] /\ OperationsFit' /\ OthersKept(p) /\ op'[p] = next
    BY <2>3, <2>4, <2>5, OneOperationMoves DEF OthersKept
  <2> QED BY <1>2, <2>6 DEF next
<1> QED BY <1>1, <1>2

\* An operation that has begun.
Began(p, u, todo, saw) ==
    op' = [op EXCEPT ![p] = [who |-> u, todo |-> todo, saw |-> saw]]

LEMMA BeganFits ==
    ASSUME Shape, NEW p \in People, NEW u \in Members, p # Host => u = p,
           NEW todo \in PositionsOf(p), NEW saw \in Entry \cup {None},
           todo \in Holding => saw \in Entry, Began(p, u, todo, saw)
    PROVE  /\ op' \in [People -> Operation] /\ OperationsFit' /\ OthersKept(p)
           /\ op'[p].who = u /\ op'[p].todo = todo /\ op'[p].saw = saw
<1> DEFINE next == [who |-> u, todo |-> todo, saw |-> saw]
<1>1. next \in Operation /\ next.who = u /\ next.todo = todo /\ next.saw = saw
  BY DEF Operation, PositionsOf, Positions
<1>2. op' = [op EXCEPT ![p] = next]
  BY DEF Began
<1> HIDE DEF next
<1>3. Fits(p, next)
  BY <1>1 DEF Fits, PositionsOf
<1> QED BY <1>1, <1>2, <1>3, OneOperationMoves DEF OthersKept


\* What the asked decide: whose operation it becomes and where it starts.
LEMMA Decisions ==
    ASSUME NEW u \in Members
    PROVE  /\ ApproveSpeaker(u) => Begin(Host, "approve", u, Approve1)
           /\ RemoveSpeaker(u) => Begin(Host, "remove", u, Demote1)
           /\ StepDown(u) => Begin(u, "stepDown", u, Demote1)
           /\ KickUser(u) => Begin(Host, "kick", u, Kick1)
           /\ LeaveRoom(u) => Begin(u, "leave", u, Leave1)
           /\ \A b \in BOOLEAN :
                /\ MuteSpeaker(u, b) =>
                     Begin(Host, "mute", u, IF entry[u].role = "listener" THEN Mute2(b) ELSE Mute1(b))
                /\ RaiseHand(u, b) => Begin(u, "hand", u, Hand1(b))
<1>1. ApproveSpeaker(u) => Begin(Host, "approve", u, Approve1)
  BY Zenon DEF ApproveSpeaker, Approve1, ToSpeaker, MirrorSpeaker, HandDown, Promote
<1>2. /\ RemoveSpeaker(u) => Begin(Host, "remove", u, Demote1)
      /\ StepDown(u) => Begin(u, "stepDown", u, Demote1)
  BY Zenon DEF RemoveSpeaker, StepDown, DemoteSteps, Demote1, Revoke, ToListener, MirrorListener
<1>3. /\ KickUser(u) => Begin(Host, "kick", u, Kick1)
      /\ LeaveRoom(u) => Begin(u, "leave", u, Leave1)
  BY Zenon DEF KickUser, LeaveRoom, Kick1, Leave1, Cut, Eject, Offline, Close
<1>4. ASSUME NEW b \in BOOLEAN
      PROVE  RaiseHand(u, b) => Begin(u, "hand", u, Hand1(b))
  BY Zenon DEF RaiseHand, Hand1, ToHand
<1>5. ASSUME NEW b \in BOOLEAN
      PROVE  MuteSpeaker(u, b) =>
               Begin(Host, "mute", u, IF entry[u].role = "listener" THEN Mute2(b) ELSE Mute1(b))
  <2>1. << [do |-> "mute", value |-> b] >> \o << Patch("muted", b), Mirror("muted", b) >> = Mute1(b)
    <3>1. << Silence(b) >> \o << ToMuted(b), MirrorMuted(b) >> = << Silence(b), ToMuted(b), MirrorMuted(b) >>
      BY Lists
    <3> QED BY <3>1, Zenon DEF Mute1, Silence, ToMuted, MirrorMuted
  <2>2. << Patch("muted", b), Mirror("muted", b) >> = Mute2(b)
    BY Zenon DEF Mute2, ToMuted, MirrorMuted
  <2> QED BY <2>1, <2>2, Zenon DEF MuteSpeaker
<1> QED BY <1>1, <1>2, <1>3, <1>4, <1>5

\* No operation starts at a position that relies on a reading, but a join's.
LEMMA StartsHoldNothing ==
    /\ Approve1 \notin Holding /\ Demote1 \notin Holding /\ Kick1 \notin Holding /\ Leave1 \notin Holding
    /\ \A b \in BOOLEAN : Mute1(b) \notin Holding /\ Mute2(b) \notin Holding /\ Hand1(b) \notin Holding
BY Heads, StepsDo, HoldingHeads

\* The operations of Begin: Shape is kept, whatever starts.
LEMMA BeginFits ==
    ASSUME Shape, NEW p \in People, NEW u \in Members, p # Host => u = p, NEW kind,
           NEW todo \in PositionsOf(p), todo \notin Holding, Begin(p, kind, u, todo)
    PROVE  /\ op' \in [People -> Operation] /\ OperationsFit' /\ OthersKept(p)
           /\ op'[p].who = u /\ op'[p].todo = todo /\ op'[p].saw = None
           /\ UNCHANGED <<entry, live, row, held, grant>>
           /\ disturbed' = IF Busy(u) THEN disturbed \cup {u} ELSE disturbed
<1>1. Began(p, u, todo, None)
  BY DEF Begin, Began
<1> QED BY <1>1, BeganFits DEF Begin, media

LEMMA AskKeepsShape ==
    ASSUME Shape, NEW u \in Members, Ask(u)
    PROVE  Shape'
<1> USE Decisions, StartsHoldNothing
<1>0. /\ Host \in People /\ u \in People /\ u # Host
      /\ Approve1 \in HostsPositions /\ Demote1 \in HostsPositions /\ Kick1 \in HostsPositions
      /\ Demote1 \in MembersPositions /\ Leave1 \in MembersPositions /\ Join1 \in MembersPositions
      /\ \A b \in BOOLEAN : /\ Mute1(b) \in HostsPositions /\ Mute2(b) \in HostsPositions
                            /\ Hand1(b) \in MembersPositions
  BY StageAssumption
  DEF People, HostsPositions, MembersPositions, Approving, Demoting, Kicking, Leaving, Joining,
      Muting, RaisingHand
<1>1. ASSUME NEW p \in People, p # Host => u = p, NEW kind,
             NEW todo \in PositionsOf(p), todo \notin Holding, Begin(p, kind, u, todo),
             approved' \subseteq Members
      PROVE  Shape'
  BY <1>1, BeginFits DEF Shape
<1>2. CASE ApproveSpeaker(u)
  BY <1>0, <1>1, <1>2 DEF ApproveSpeaker, PositionsOf, Shape
<1>3. CASE RemoveSpeaker(u)
  BY <1>0, <1>1, <1>3 DEF RemoveSpeaker, PositionsOf, Shape
<1>4. CASE StepDown(u)
  BY <1>0, <1>1, <1>4 DEF StepDown, PositionsOf, Shape
<1>5. CASE KickUser(u)
  BY <1>0, <1>1, <1>5 DEF KickUser, PositionsOf, Shape
<1>6. CASE LeaveRoom(u)
  BY <1>0, <1>1, <1>6 DEF LeaveRoom, PositionsOf, Shape
<1>7. CASE JoinRoom(u)
  <2>1. StandingOf(u) \in Entry
    BY DEF StandingOf, Visible, Newcomer, InitialRole, Entry, Role, Shape
  <2>2. Began(u, u, Join1, StandingOf(u))
    BY <1>7, Zenon DEF JoinRoom, Began, Join1, Online, Record, Issue
  <2>3. op' \in [People -> Operation] /\ OperationsFit'
    BY <1>0, <2>1, <2>2, BeganFits DEF PositionsOf
  <2> QED BY <1>7, <2>3 DEF JoinRoom, Shape, media
<1>8. ASSUME NEW b \in BOOLEAN, MuteSpeaker(u, b)
      PROVE  Shape'
  BY <1>0, <1>1, <1>8 DEF MuteSpeaker, PositionsOf, Shape
<1>9. ASSUME NEW b \in BOOLEAN, RaiseHand(u, b)
      PROVE  Shape'
  BY <1>0, <1>1, <1>9 DEF RaiseHand, PositionsOf, Shape
<1> QED BY <1>2, <1>3, <1>4, <1>5, <1>6, <1>7, <1>8, <1>9 DEF Ask


LEMMA ContinueKeepsShape ==
    ASSUME Shape, NEW p \in People, NEW u \in Members, Continue(p, u)
    PROVE  Shape' /\ OthersKept(p)
<1> USE AtWork
<1>p. ASSUME NEW what, At(p, u, what), Proceed(p)
      PROVE  op' \in [People -> Operation] /\ OperationsFit' /\ OthersKept(p)
  BY <1>p, ProceedFits
<1>1. CASE Load(p, u)
  BY <1>1, LoadFits DEF Load, Shape, media, history
<1>2. CASE Store(p, u)
  <2>1. entry' \in [Members -> Entry \cup {None}]
    <3> DEFINE new == [op[p].saw EXCEPT ![First(op[p].todo).field] = First(op[p].todo).value]
    <3>1. new \in Entry
      BY <1>2, Changed DEF Store
    <3>2. entry' = [entry EXCEPT ![u] = new]
      BY <1>2 DEF Store, First
    <3> HIDE DEF new
    <3> QED BY <3>1, <3>2 DEF Shape
  <2> QED BY <1>2, <1>p, <2>1 DEF Store, Shape, media, history
<1>3. CASE MirrorRow(p, u)
  <2>1. row' \in [Members -> Row \cup {None}]
    <3> DEFINE new == [row[u] EXCEPT ![First(op[p].todo).field] = First(op[p].todo).value]
    <3>1. row[u] # None => new \in Row
      <4>1. First(op[p].todo) \in Step /\ First(op[p].todo).do = "mirror"
        BY <1>3 DEF MirrorRow
      <4>2. row[u] # None => row[u] \in Row
        BY DEF Shape
      <4> QED BY <4>1, <4>2, MirroredRow
    <3>2. row' = IF row[u] = None THEN row ELSE [row EXCEPT ![u] = new]
      BY <1>3 DEF MirrorRow, First, Shape
    <3> HIDE DEF new
    <3> QED BY <3>1, <3>2 DEF Shape
  <2> QED BY <1>3, <1>p, <2>1 DEF MirrorRow, Shape, media, history
<1>4. CASE RevokePublish(p, u)
  <2>1. grant' \in [Members -> Grant]
    BY <1>4 DEF RevokePublish, UpdateGrant, Shape, Grant, Token
  <2> QED BY <1>4, <1>p, <2>1 DEF RevokePublish, Shape, history
<1>5. CASE MuteParticipant(p, u)
  <2>1. grant' \in [Members -> Grant]
    BY <1>5 DEF MuteParticipant, Shape, Grant, Token
  <2> QED BY <1>5, <1>p, <2>1 DEF MuteParticipant, Shape, history
<1>6. CASE RemoveParticipant(p, u)
  <2>1. grant' \in [Members -> Grant]
    BY <1>6 DEF RemoveParticipant, Shape, Grant, Token
  <2> QED BY <1>6, <1>p, <2>1 DEF RemoveParticipant, Shape, history
<1>7. CASE SetOnline(p, u)
  <2>1. op[p].saw \in Entry
    BY <1>7 DEF SetOnline
  <2>2. (Visible(u) /\ entry[u].hand) \in BOOLEAN
    BY DEF Visible, Shape, Entry
  <2> QED BY <1>7, <1>p, <2>1, <2>2 DEF SetOnline, Shape, Entry, media, history
<1>8. CASE RecordJoin(p, u)
  <2>1. op[p].saw \in Entry
    BY <1>8 DEF RecordJoin
  <2>2. row' \in [Members -> Row \cup {None}]
    BY <1>8, <2>1 DEF RecordJoin, Shape, Entry, Row
  <2> QED BY <1>8, <1>p, <2>2 DEF RecordJoin, Shape, media, history
<1>9. CASE IssueMediaToken(p, u)
  <2>1. held' \in [Members -> Token]
    BY <1>9 DEF IssueMediaToken, Shape, Token
  <2> QED BY <1>9, <1>p, <2>1 DEF IssueMediaToken, Shape, history
<1>10. CASE IssuePublishToken(p, u)
  <2>1. held' \in [Members -> Token]
    BY <1>10 DEF IssuePublishToken, Shape, Token
  <2> QED BY <1>10, <1>p, <2>1 DEF IssuePublishToken, Shape, history
<1>11. CASE SetOffline(p, u)
  BY <1>11, <1>p DEF SetOffline, Shape, media, history
<1>12. CASE RecordLeave(p, u)
  BY <1>12, <1>p DEF RecordLeave, Shape, media, history
<1> QED
  BY <1>1, <1>2, <1>3, <1>4, <1>5, <1>6, <1>7, <1>8, <1>9, <1>10, <1>11, <1>12 DEF Continue

LEMMA AbortFits ==
    ASSUME Shape, NEW p \in People, Abort(p)
    PROVE  /\ op' \in [People -> Operation] /\ OperationsFit' /\ OthersKept(p)
           /\ op'[p] = Idle /\ op[p].who \in Members
<1>1. Idle \in Operation /\ Fits(p, Idle) /\ op' = [op EXCEPT ![p] = Idle]
  BY IdleIsOperation DEF Abort, Fits
<1>2. op[p].who \in Members
  BY DEF Abort, Shape, OperationsFit, Fits
<1> QED BY <1>1, <1>2, OneOperationMoves DEF OthersKept

LEMMA StepKeepsShape ==
    ASSUME Shape, [Next]_vars
    PROVE  Shape'
<1>1. ASSUME NEW u \in Members, Ask(u)
      PROVE  Shape'
  BY <1>1, AskKeepsShape
<1>2. ASSUME NEW u \in Members, Lapse(u)
      PROVE  Shape'
  BY <1>2 DEF Lapse, Shape, OperationsFit, Fits, media
<1>3. ASSUME NEW u \in Members, ConnectMedia(u)
      PROVE  Shape'
  BY <1>3 DEF ConnectMedia, Shape, OperationsFit, Fits, Grant, history
<1>4. ASSUME NEW u \in Members, DropMedia(u)
      PROVE  Shape'
  BY <1>4 DEF DropMedia, Shape, OperationsFit, Fits, Grant, Token, history
<1>5. ASSUME NEW p \in People, NEW u \in Members, Continue(p, u)
      PROVE  Shape'
  BY <1>5, ContinueKeepsShape
<1>6. ASSUME NEW p \in People, Abort(p)
      PROVE  Shape'
  BY <1>6, AbortFits DEF Abort, Shape, media
<1>7. CASE UNCHANGED vars
  BY <1>7 DEF vars, Shape, OperationsFit, Fits
<1> QED BY <1>1, <1>2, <1>3, <1>4, <1>5, <1>6, <1>7 DEF Next

LEMMA InitShape == Init => Shape
<1> SUFFICES ASSUME Init PROVE Shape
  OBVIOUS
<1>1. op \in [People -> Operation] /\ OperationsFit
  BY IdleIsOperation DEF Init, OperationsFit, Fits
<1> QED BY <1>1 DEF Init, Shape, Token, Grant

LEMMA ShapeAlways == Spec => []Shape
BY InitShape, StepKeepsShape, PTL DEF Spec

LEMMA PositionsAreSteps == Positions \subseteq Seq(Step)
<1> USE StepsAreSteps
<1>1. Approving \subseteq Seq(Step)
  BY DEF Approving, Approve1, Approve1w, Approve2, Approve3, Approve3w, Approve4
<1>2. Demoting \subseteq Seq(Step)
  BY DEF Demoting, Demote1, Demote2, Demote2w, Demote3
<1>3. \A b \in BOOLEAN : /\ Mute1(b) \in Seq(Step) /\ Mute2(b) \in Seq(Step)
                         /\ Mute2w(b) \in Seq(Step) /\ Mute3(b) \in Seq(Step)
                         /\ Hand1(b) \in Seq(Step) /\ Hand1w(b) \in Seq(Step)
  BY DEF Mute1, Mute2, Mute2w, Mute3, Hand1, Hand1w
<1>4. Kicking \subseteq Seq(Step) /\ Leaving \subseteq Seq(Step)
  BY DEF Kicking, Leaving, Kick1, Kick2, Leave1, Leave2
<1>5. Joining \subseteq Seq(Step)
  BY DEF Joining, Join1, Join2, Join3
<1>6. Muting \subseteq Seq(Step) /\ RaisingHand \subseteq Seq(Step)
  BY <1>3 DEF Muting, RaisingHand
<1> QED
  BY <1>1, <1>2, <1>4, <1>5, <1>6 DEF Positions, HostsPositions, MembersPositions

\* Every reachable state is well typed: whatever the members ask for in
\* whatever order, and whichever call fails, every operation stands at a step
\* of the programs in app/speaking and app/safety/KickUser.ts.
THEOREM TypeCorrect == Spec => []TypeOK
<1>1. <<>> \in Seq(Step)
  OBVIOUS
<1>2. Shape => TypeOK
  <2> SUFFICES ASSUME Shape PROVE TypeOK
    OBVIOUS
  <2>1. \A p \in People : op[p] \in Operation
    BY DEF Shape
  <2>2. \A p \in People : /\ op[p].who \in Members \cup {NoOne}
                          /\ op[p].todo \in Seq(Step)
                          /\ op[p].saw \in Entry \cup {None}
    BY <1>1, <2>1, PositionsAreSteps DEF Operation
  <2> QED BY <2>2 DEF Shape, TypeOK
<1> QED BY <1>2, ShapeAlways, PTL


--------------------------------------------------------------------------------
(***************************************************************************)
(* Who was approved.                                                       *)
(***************************************************************************)

\* An operation that promotes, or holds a promoted entry, is about somebody approved.
Warranted(o) ==
    /\ o.todo \in Approving => o.who \in approved
    /\ o.saw \in Entry /\ o.saw.role = "speaker" => o.who \in approved

PromotionsAreApproved == \A p \in People : Warranted(op[p])

Approval == OnlyApprovedSpeak /\ PromotionsAreApproved

LEMMA ApprovingHeads ==
    ASSUME NEW t \in Approving
    PROVE  \/ First(t).do = "promote"
           \/ First(t).do \in {"load", "store", "mirror"} /\ First(t).field = "role" /\ First(t).value = "speaker"
           \/ First(t).do \in {"load", "store"} /\ First(t).field = "hand" /\ Rest(t) # <<>>
BY Heads, StepsDo DEF Approving

\* Only the program of an approval becomes one, and only it writes a speaker.
LEMMA OnlyApprovalsPromote ==
    ASSUME NEW t \in Positions
    PROVE  /\ Rest(t) \in Approving => t \in Approving
           /\ First(t).do = "load" /\ Reread(t) \in Approving => t \in Approving
           /\ /\ First(t).do \in {"store", "mirror"}
              /\ First(t).field = "role" /\ First(t).value = "speaker"
              => t \in Approving
<1> USE Heads, StepsDo, RereadAs
<1>0. <<>> \notin Approving
  BY DEF Approving
<1> SUFFICES ASSUME t \notin Approving
             PROVE  /\ Rest(t) \notin Approving
                    /\ First(t).do = "load" => Reread(t) \notin Approving
                    /\ ~ /\ First(t).do \in {"store", "mirror"}
                         /\ First(t).field = "role" /\ First(t).value = "speaker"
  OBVIOUS
<1>1. CASE t \in Demoting
  BY <1>0, <1>1, ApprovingHeads DEF Demoting
<1>2. CASE t \in Muting
  BY <1>0, <1>2, ApprovingHeads DEF Muting
<1>3. CASE t \in RaisingHand
  BY <1>0, <1>3, ApprovingHeads DEF RaisingHand
<1>4. CASE t \in Kicking \cup Leaving
  BY <1>0, <1>4, ApprovingHeads DEF Kicking, Leaving
<1>5. CASE t \in Joining
  BY <1>0, <1>5, ApprovingHeads DEF Joining
<1> QED
  BY <1>1, <1>2, <1>3, <1>4, <1>5 DEF Positions, HostsPositions, MembersPositions

LEMMA PositionsAre ==
    /\ \A p \in People : PositionsOf(p) \subseteq Positions
    /\ <<>> \notin Positions
<1>1. <<>> \notin Positions
  BY ProgramsRunOn DEF Positions, RunsOn
<1> QED BY <1>1 DEF PositionsOf, Positions

LEMMA WentOnWarranted ==
    ASSUME Shape, PromotionsAreApproved, NEW p \in People, op[p].todo \in Positions,
           WentOn(p), OthersKept(p), approved' = approved
    PROVE  PromotionsAreApproved'
<1>1. Warranted(op[p]) /\ op[p] \in Operation
  BY DEF PromotionsAreApproved, Shape
<1>2. op'[p].todo \in Approving => op[p].todo \in Approving /\ op'[p].who = op[p].who
  <2>1. CASE Rest(op[p].todo) = <<>>
    BY <2>1, IdleIsOperation, ProgramsRunOn DEF WentOn, RunsOn
  <2>2. CASE Rest(op[p].todo) # <<>>
    BY <1>1, <2>2, OnlyApprovalsPromote DEF WentOn, Operation
  <2> QED BY <2>1, <2>2
<1>3. op'[p].saw \in Entry => op'[p].saw = op[p].saw /\ op'[p].who = op[p].who
  BY <1>1, IdleIsOperation DEF WentOn, Operation
<1>4. \A q \in People : Warranted(op[q])'
  BY <1>1, <1>2, <1>3 DEF Warranted, PromotionsAreApproved, OthersKept
<1> QED BY <1>4 DEF PromotionsAreApproved

LEMMA BeganWarranted ==
    ASSUME Shape, PromotionsAreApproved, NEW p \in People, OthersKept(p), approved \subseteq approved',
           op'[p].todo \in Approving => op'[p].who \in approved',
           op'[p].saw \in Entry /\ op'[p].saw.role = "speaker" => op'[p].who \in approved'
    PROVE  PromotionsAreApproved'
<1>1. \A q \in People : Warranted(op[q])'
  BY DEF Warranted, PromotionsAreApproved, OthersKept
<1> QED BY <1>1 DEF PromotionsAreApproved

LEMMA ContinueKeepsApproval ==
    ASSUME Shape, Approval, NEW p \in People, NEW u \in Members, Continue(p, u)
    PROVE  Approval'
<1> USE AtWork
<1> DEFINE t == op[p].todo
           step == First(t)
           e == op[p].saw
<1>0. approved' = approved
  BY DEF Continue, Load, Store, MirrorRow, RevokePublish, MuteParticipant, RemoveParticipant,
         SetOnline, RecordJoin, IssueMediaToken, IssuePublishToken, SetOffline, RecordLeave, history
<1>p. ASSUME NEW what, At(p, u, what), Proceed(p)
      PROVE  PromotionsAreApproved'
  BY <1>0, <1>p, ProceedFits, WentOnWarranted, PositionsAre DEF Approval
<1>w. ASSUME NEW what, At(p, u, what)
      PROVE  /\ t \in Positions /\ op[p].who = u
             /\ t \in Approving => u \in approved
             /\ e \in Entry /\ e.role = "speaker" => u \in approved
  BY <1>w, PositionsAre DEF Approval, PromotionsAreApproved, Warranted
<1>1. CASE Load(p, u)
  <2>1. PromotionsAreApproved'
    <3>1. CASE entry[u] = None
      BY <1>0, <1>1, <1>w, <3>1, LoadFits, WentOnWarranted DEF Load, Approval
    <3>2. CASE entry[u] # None
      <4>1. /\ op'[p].todo = Reread(t) /\ op'[p].saw = entry[u] /\ op'[p].who = u
            /\ OthersKept(p)
        <5>1. At(p, u, "load")
          BY <1>1 DEF Load
        <5>2. op[p] \in Operation /\ op[p].who = u
          BY <5>1
        <5>3. /\ op'[p] = [op[p] EXCEPT !.saw = entry[u], !.todo = Reread(op[p].todo)]
              /\ OthersKept(p)
          BY <1>1, <3>2, LoadFits
        <5> QED BY <5>2, <5>3 DEF Operation
      <4>2. Reread(t) \in Approving => u \in approved
        BY <1>1, <1>w, OnlyApprovalsPromote DEF Load
      <4>3. entry[u].role = "speaker" => u \in approved
        BY <3>2 DEF Approval, OnlyApprovedSpeak
      <4> QED BY <1>0, <4>1, <4>2, <4>3, BeganWarranted DEF Approval
    <3> QED BY <3>1, <3>2
  <2> QED BY <1>1, <2>1 DEF Load, Approval, OnlyApprovedSpeak, media, history
<1>2. CASE Store(p, u)
  <2>1. entry' = [entry EXCEPT ![u] = [e EXCEPT ![step.field] = step.value]]
    BY <1>2 DEF Store, First
  <2>2. [e EXCEPT ![step.field] = step.value].role = "speaker" => u \in approved
    <3>1. e \in Entry /\ step \in Step /\ step.do = "store"
      BY <1>2 DEF Store
    <3>2. CASE step.field = "role"
      <4>1. [e EXCEPT ![step.field] = step.value].role = step.value
        BY <3>1, <3>2, Changed DEF Entry
      <4> QED BY <1>2, <1>w, <3>1, <3>2, <4>1, OnlyApprovalsPromote DEF Store
    <3>3. CASE step.field # "role"
      <4>1. [e EXCEPT ![step.field] = step.value].role = e.role
        BY <3>1, <3>3 DEF Entry
      <4> QED BY <1>2, <1>w, <3>1, <4>1 DEF Store
    <3> QED BY <3>2, <3>3
  <2>3. OnlyApprovedSpeak'
    <3> DEFINE new == [e EXCEPT ![step.field] = step.value]
    <3>1. new.role = "speaker" => u \in approved
      BY <2>2
    <3>2. entry' = [entry EXCEPT ![u] = new]
      BY <2>1
    <3> HIDE DEF new
    <3> QED
      BY <1>0, <1>2, <3>1, <3>2 DEF Store, Approval, OnlyApprovedSpeak, Shape, media
  <2> QED BY <1>2, <1>p, <2>3 DEF Store, Approval
<1>3. CASE MirrorRow(p, u)
  <2> DEFINE new == [row[u] EXCEPT ![step.field] = step.value]
  <2>1. row' = IF row[u] = None THEN row ELSE [row EXCEPT ![u] = new]
    BY <1>3 DEF MirrorRow, First, Shape
  <2>2. row[u] # None /\ new.role = "speaker" => u \in approved
    <3> SUFFICES ASSUME row[u] # None, new.role = "speaker"
                 PROVE  u \in approved
      OBVIOUS
    <3>1. row[u] \in Row /\ step \in Step /\ step.do = "mirror"
      BY <1>3 DEF MirrorRow, Shape
    <3>2. CASE step.field = "role"
      <4>1. new.role = step.value
        BY <3>1, <3>2, MirroredRow DEF Row
      <4> QED BY <1>3, <1>w, <3>1, <3>2, <4>1, OnlyApprovalsPromote DEF MirrorRow
    <3>3. CASE step.field # "role"
      <4>1. new.role = row[u].role
        BY <3>1, <3>3 DEF Row
      <4> QED BY <3>1, <4>1 DEF Approval, OnlyApprovedSpeak
    <3> QED BY <3>2, <3>3
  <2> HIDE DEF new
  <2>3. OnlyApprovedSpeak'
    BY <1>0, <1>3, <2>1, <2>2 DEF MirrorRow, Approval, OnlyApprovedSpeak, Shape, media
  <2> QED BY <1>3, <1>p, <2>3 DEF MirrorRow, Approval
<1>4. CASE RevokePublish(p, u)
  <2>1. OnlyApprovedSpeak'
    BY <1>0, <1>4 DEF RevokePublish, UpdateGrant, Approval, OnlyApprovedSpeak, Shape
  <2> QED BY <1>4, <1>p, <2>1 DEF RevokePublish, Approval
<1>5. CASE MuteParticipant(p, u)
  <2>1. OnlyApprovedSpeak'
    BY <1>0, <1>5 DEF MuteParticipant, Approval, OnlyApprovedSpeak, Shape
  <2> QED BY <1>5, <1>p, <2>1 DEF MuteParticipant, Approval
<1>6. CASE RemoveParticipant(p, u)
  <2>1. OnlyApprovedSpeak'
    BY <1>0, <1>6 DEF RemoveParticipant, Approval, OnlyApprovedSpeak, Shape
  <2> QED BY <1>6, <1>p, <2>1 DEF RemoveParticipant, Approval
<1>7. CASE SetOnline(p, u)
  <2>1. e \in Entry /\ (e.role = "speaker" => u \in approved)
    BY <1>7, <1>w DEF SetOnline
  <2>2. OnlyApprovedSpeak'
    BY <1>0, <1>7, <2>1 DEF SetOnline, Approval, OnlyApprovedSpeak, Shape, Entry, media
  <2> QED BY <1>7, <1>p, <2>2 DEF SetOnline, Approval
<1>8. CASE RecordJoin(p, u)
  <2>1. e \in Entry /\ (e.role = "speaker" => u \in approved)
    BY <1>8, <1>w DEF RecordJoin
  <2>2. OnlyApprovedSpeak'
    BY <1>0, <1>8, <2>1 DEF RecordJoin, Approval, OnlyApprovedSpeak, Shape, media
  <2> QED BY <1>8, <1>p, <2>2 DEF RecordJoin, Approval
<1>9. CASE IssueMediaToken(p, u)
  <2>1. OnlyApprovedSpeak'
    BY <1>0, <1>9 DEF IssueMediaToken, MayPublish, Visible, Approval, OnlyApprovedSpeak, Shape
  <2> QED BY <1>9, <1>p, <2>1 DEF IssueMediaToken, Approval
<1>10. CASE IssuePublishToken(p, u)
  <2>1. OnlyApprovedSpeak'
    BY <1>0, <1>10 DEF IssuePublishToken, MayPublish, Visible, Approval, OnlyApprovedSpeak, Shape
  <2> QED BY <1>10, <1>p, <2>1 DEF IssuePublishToken, Approval
<1>11. CASE SetOffline(p, u)
  <2>1. OnlyApprovedSpeak'
    BY <1>0, <1>11 DEF SetOffline, Approval, OnlyApprovedSpeak, Shape, media
  <2> QED BY <1>11, <1>p, <2>1 DEF SetOffline, Approval
<1>12. CASE RecordLeave(p, u)
  <2>1. OnlyApprovedSpeak'
    BY <1>0, <1>12 DEF RecordLeave, Approval, OnlyApprovedSpeak, Shape, media
  <2> QED BY <1>12, <1>p, <2>1 DEF RecordLeave, Approval
<1> QED
  BY <1>1, <1>2, <1>3, <1>4, <1>5, <1>6, <1>7, <1>8, <1>9, <1>10, <1>11, <1>12 DEF Continue


LEMMA AskKeepsApproval ==
    ASSUME Shape, Approval, NEW u \in Members, Ask(u)
    PROVE  Approval'
<1> USE Decisions, StartsHoldNothing
<1>0. /\ Host \in People /\ u \in People /\ u # Host
      /\ Approve1 \in HostsPositions /\ Demote1 \in HostsPositions /\ Kick1 \in HostsPositions
      /\ Demote1 \in MembersPositions /\ Leave1 \in MembersPositions /\ Join1 \in MembersPositions
      /\ \A b \in BOOLEAN : /\ Mute1(b) \in HostsPositions /\ Mute2(b) \in HostsPositions
                            /\ Hand1(b) \in MembersPositions
  BY StageAssumption
  DEF People, HostsPositions, MembersPositions, Approving, Demoting, Kicking, Leaving, Joining,
      Muting, RaisingHand
<1>a. /\ Demote1 \notin Approving /\ Kick1 \notin Approving /\ Leave1 \notin Approving
      /\ Join1 \notin Approving
      /\ \A b \in BOOLEAN : /\ Mute1(b) \notin Approving /\ Mute2(b) \notin Approving
                            /\ Hand1(b) \notin Approving
  BY Heads, StepsDo, ApprovingHeads
<1>1. ASSUME NEW p \in People, p # Host => u = p, NEW kind,
             NEW todo \in PositionsOf(p), todo \notin Holding, Begin(p, kind, u, todo),
             approved \subseteq approved', todo \in Approving => u \in approved'
      PROVE  Approval'
  <2>1. /\ OthersKept(p) /\ op'[p].who = u /\ op'[p].todo = todo /\ op'[p].saw = None
        /\ UNCHANGED <<entry, live, row, held, grant>>
    BY <1>1, BeginFits
  <2>2. PromotionsAreApproved'
    BY <1>1, <2>1, BeganWarranted, IdleIsOperation DEF Approval
  <2>3. OnlyApprovedSpeak'
    BY <1>1, <2>1 DEF Approval, OnlyApprovedSpeak
  <2> QED BY <2>2, <2>3 DEF Approval
<1>2. CASE ApproveSpeaker(u)
  BY <1>0, <1>1, <1>2 DEF ApproveSpeaker, PositionsOf
<1>3. CASE RemoveSpeaker(u)
  BY <1>0, <1>a, <1>1, <1>3 DEF RemoveSpeaker, PositionsOf
<1>4. CASE StepDown(u)
  BY <1>0, <1>a, <1>1, <1>4 DEF StepDown, PositionsOf
<1>5. CASE KickUser(u)
  BY <1>0, <1>a, <1>1, <1>5 DEF KickUser, PositionsOf
<1>6. CASE LeaveRoom(u)
  BY <1>0, <1>a, <1>1, <1>6 DEF LeaveRoom, PositionsOf
<1>7. CASE JoinRoom(u)
  <2>1. /\ StandingOf(u) \in Entry
        /\ StandingOf(u).role = "speaker" => u \in approved
    BY DEF StandingOf, Visible, Newcomer, InitialRole, Entry, Role, Shape, Approval, OnlyApprovedSpeak
  <2>2. Began(u, u, Join1, StandingOf(u))
    BY <1>7, Zenon DEF JoinRoom, Began, Join1, Online, Record, Issue
  <2>3. /\ OthersKept(u) /\ op'[u].who = u /\ op'[u].todo = Join1 /\ op'[u].saw = StandingOf(u)
    BY <1>0, <2>1, <2>2, BeganFits DEF PositionsOf
  <2>4. /\ UNCHANGED <<entry, live, row, held, grant, approved>>
    BY <1>7 DEF JoinRoom, media
  <2>5. PromotionsAreApproved'
    BY <1>0, <1>a, <2>1, <2>3, <2>4, BeganWarranted DEF Approval
  <2> QED BY <2>4, <2>5 DEF Approval, OnlyApprovedSpeak
<1>8. ASSUME NEW b \in BOOLEAN, MuteSpeaker(u, b)
      PROVE  Approval'
  BY <1>0, <1>a, <1>1, <1>8 DEF MuteSpeaker, PositionsOf
<1>9. ASSUME NEW b \in BOOLEAN, RaiseHand(u, b)
      PROVE  Approval'
  BY <1>0, <1>a, <1>1, <1>9 DEF RaiseHand, PositionsOf
<1> QED BY <1>2, <1>3, <1>4, <1>5, <1>6, <1>7, <1>8, <1>9 DEF Ask

LEMMA StepKeepsApproval ==
    ASSUME Shape, Approval, [Next]_vars
    PROVE  Approval'
<1>1. ASSUME NEW u \in Members, Ask(u)
      PROVE  Approval'
  BY <1>1, AskKeepsApproval
<1>p. ASSUME UNCHANGED <<op, approved>>
      PROVE  PromotionsAreApproved'
  BY <1>p DEF Approval, PromotionsAreApproved, Warranted
<1>2. ASSUME NEW u \in Members, Lapse(u)
      PROVE  Approval'
  <2>1. OnlyApprovedSpeak'
    BY <1>2 DEF Lapse, Approval, OnlyApprovedSpeak, Shape, media
  <2> QED BY <1>2, <1>p, <2>1 DEF Lapse, Approval
<1>3. ASSUME NEW u \in Members, ConnectMedia(u)
      PROVE  Approval'
  <2>1. OnlyApprovedSpeak'
    BY <1>3 DEF ConnectMedia, Approval, OnlyApprovedSpeak, Shape, Token, history
  <2> QED BY <1>3, <1>p, <2>1 DEF ConnectMedia, Approval, history
<1>4. ASSUME NEW u \in Members, DropMedia(u)
      PROVE  Approval'
  <2>1. OnlyApprovedSpeak'
    BY <1>4 DEF DropMedia, Approval, OnlyApprovedSpeak, Shape, history
  <2> QED BY <1>4, <1>p, <2>1 DEF DropMedia, Approval, history
<1>5. ASSUME NEW p \in People, NEW u \in Members, Continue(p, u)
      PROVE  Approval'
  BY <1>5, ContinueKeepsApproval
<1>6. ASSUME NEW p \in People, Abort(p)
      PROVE  Approval'
  <2>1. OnlyApprovedSpeak'
    BY <1>6 DEF Abort, Approval, OnlyApprovedSpeak, media
  <2>2. OthersKept(p) /\ op'[p] = Idle /\ approved' = approved
    BY <1>6, AbortFits DEF Abort
  <2>3. <<>> \notin Approving
    BY ProgramsRunOn DEF RunsOn
  <2> QED BY <2>1, <2>2, <2>3, BeganWarranted, IdleIsOperation DEF Approval
<1>7. CASE UNCHANGED vars
  BY <1>7, <1>p DEF vars, Approval, OnlyApprovedSpeak
<1> QED BY <1>1, <1>2, <1>3, <1>4, <1>5, <1>6, <1>7 DEF Next

\* "Everyone joins listen-only" (trustLadder.ts:176-179, ApproveSpeaker.ts:11-12):
\* for any number of members, whatever crosses or fails and whenever their
\* clients connect, nobody holds a publishing token, is let to publish or is
\* recorded as a speaker whom the host never approved.
THEOREM NobodySpeaksUnapproved == Spec => []OnlyApprovedSpeak
<1>1. Init => Approval
  <2> SUFFICES ASSUME Init PROVE Approval
    OBVIOUS
  <2>1. OnlyApprovedSpeak
    BY DEF Init, OnlyApprovedSpeak
  <2>2. \A p \in People : op[p] = Idle
    BY DEF Init
  <2>3. <<>> \notin Approving
    BY ProgramsRunOn DEF RunsOn
  <2> QED BY <2>1, <2>2, <2>3, IdleIsOperation DEF Approval, PromotionsAreApproved, Warranted
<1>2. Shape /\ Approval /\ [Next]_vars => Approval'
  BY StepKeepsApproval
<1>3. Approval => OnlyApprovedSpeak
  BY DEF Approval
<1> QED BY <1>1, <1>2, <1>3, ShapeAlways, PTL DEF Spec


--------------------------------------------------------------------------------
(***************************************************************************)
(* A member on whom no two operations met.                                 *)
(***************************************************************************)

RowOf(e) == [role |-> e.role, muted |-> e.muted]
HandFits(e) == e.role = "speaker" => ~e.hand

\* In the room, and the records agree.
Agree(u) == u \in live /\ entry[u] \in Entry /\ row[u] = RowOf(entry[u]) /\ HandFits(entry[u])

Gone(u) == u \notin live /\ entry[u] = None

Settled(u) == Agree(u) \/ Gone(u)

\* What p, at work for u, may rely on where it stands.
Approves(p, u) ==
    LET t == op[p].todo IN
    \/ t = Approve1 /\ Agree(u) /\ entry[u].role = "listener"
    \/ t = Approve1w /\ Agree(u) /\ entry[u].role = "listener" /\ op[p].saw = entry[u]
    \/ /\ t = Approve2 /\ u \in live /\ entry[u] \in Entry /\ entry[u].role = "speaker"
       /\ row[u] \in Row /\ row[u].muted = entry[u].muted
    \/ /\ t \in {Approve3, Approve3w} /\ u \in live /\ entry[u] \in Entry
       /\ entry[u].role = "speaker" /\ row[u] = RowOf(entry[u])
       /\ t = Approve3w => op[p].saw = entry[u]
    \/ t = Approve4 /\ Agree(u)

Demotes(p, u) ==
    LET t == op[p].todo IN
    \/ t \in {Demote1, Demote2} /\ Agree(u)
    \/ t = Demote2w /\ Agree(u) /\ op[p].saw = entry[u]
    \/ /\ t = Demote3 /\ u \in live /\ entry[u] \in Entry /\ entry[u].role = "listener"
       /\ row[u] \in Row /\ row[u].muted = entry[u].muted

Mutes(p, u) ==
    LET t == op[p].todo IN
    \E b \in BOOLEAN :
        \/ t \in {Mute1(b), Mute2(b)} /\ Agree(u)
        \/ t = Mute2w(b) /\ Agree(u) /\ op[p].saw = entry[u]
        \/ /\ t = Mute3(b) /\ u \in live /\ entry[u] \in Entry /\ HandFits(entry[u])
           /\ entry[u].muted = b /\ row[u] \in Row /\ row[u].role = entry[u].role

Raises(p, u) ==
    LET t == op[p].todo IN
    \E b \in BOOLEAN :
        /\ t \in {Hand1(b), Hand1w(b)} /\ Agree(u)
        /\ b => entry[u].role = "listener"
        /\ t = Hand1w(b) => op[p].saw = entry[u]

Leaves(p, u) ==
    LET t == op[p].todo IN
    \/ t \in {Kick1, Kick2} /\ Agree(u)
    \/ t = Leave1 /\ Settled(u)
    \/ t = Leave2 /\ Gone(u)

Joins(p, u) ==
    LET t == op[p].todo IN
    \/ t = Join1 /\ Settled(u) /\ op[p].saw = StandingOf(u)
    \/ /\ t = Join2 /\ u \in live /\ entry[u] \in Entry /\ HandFits(entry[u])
       /\ op[p].saw = entry[u]
    \/ t = Join3 /\ Agree(u)

Coherent(p, u) ==
    Approves(p, u) \/ Demotes(p, u) \/ Mutes(p, u) \/ Raises(p, u) \/ Leaves(p, u) \/ Joins(p, u)

\* One operation at most is at work for u, and u is as that operation relies on.
Orderly(u) ==
    /\ \A p, q \in People : op[p].who = u /\ op[q].who = u => p = q
    /\ \A p \in People : op[p].who = u => Coherent(p, u)
    /\ Busy(u) \/ Settled(u)

Undisturbed == \A u \in Members \ disturbed : Orderly(u)

--------------------------------------------------------------------------------
(***************************************************************************)
(* What a step does to the member it is about.                             *)
(***************************************************************************)

\* The step at hand decides which call is made.
LEMMA OneCall ==
    ASSUME Shape, NEW p \in People, NEW u \in Members, Continue(p, u), NEW d,
           d = First(op[p].todo).do
    PROVE  /\ op[p].who = u /\ op[p] \in Operation
           /\ d = "load" => Load(p, u)
           /\ d = "store" => Store(p, u)
           /\ d = "mirror" => MirrorRow(p, u)
           /\ d \in {"revoke", "cut"} => RevokePublish(p, u)
           /\ d = "mute" => MuteParticipant(p, u)
           /\ d = "eject" => RemoveParticipant(p, u)
           /\ d = "online" => SetOnline(p, u)
           /\ d = "record" => RecordJoin(p, u)
           /\ d = "token" => IssueMediaToken(p, u)
           /\ d = "promote" => IssuePublishToken(p, u)
           /\ d = "offline" => SetOffline(p, u)
           /\ d = "close" => RecordLeave(p, u)
<1>1. /\ Load(p, u) => At(p, u, "load")
      /\ Store(p, u) => At(p, u, "store")
      /\ MirrorRow(p, u) => At(p, u, "mirror")
  BY Zenon DEF Load, Store, MirrorRow
<1>2. /\ RevokePublish(p, u) => At(p, u, "revoke") \/ At(p, u, "cut")
      /\ MuteParticipant(p, u) => At(p, u, "mute")
      /\ RemoveParticipant(p, u) => At(p, u, "eject")
  BY Zenon DEF RevokePublish, MuteParticipant, RemoveParticipant
<1>3. /\ SetOnline(p, u) => At(p, u, "online")
      /\ RecordJoin(p, u) => At(p, u, "record")
      /\ IssueMediaToken(p, u) => At(p, u, "token")
  BY Zenon DEF SetOnline, RecordJoin, IssueMediaToken
<1>4. /\ IssuePublishToken(p, u) => At(p, u, "promote")
      /\ SetOffline(p, u) => At(p, u, "offline")
      /\ RecordLeave(p, u) => At(p, u, "close")
  BY Zenon DEF IssuePublishToken, SetOffline, RecordLeave
<1>5. ASSUME NEW what, At(p, u, what)
      PROVE  op[p].who = u /\ op[p] \in Operation /\ d = what
  BY <1>5, AtWork
<1> QED BY <1>1, <1>2, <1>3, <1>4, <1>5 DEF Continue

\* It is done when nothing is left, and stands at the rest otherwise.
LEMMA WentOnTo ==
    ASSUME Shape, NEW p \in People, NEW u \in Members, op[p].who = u, WentOn(p)
    PROVE  /\ Rest(op[p].todo) = <<>> => op'[p] = Idle
           /\ Rest(op[p].todo) # <<>> =>
                /\ op'[p].who = u /\ op'[p].todo = Rest(op[p].todo) /\ op'[p].saw = op[p].saw
<1>1. op[p] \in Operation
  BY DEF Shape
<1> QED BY <1>1 DEF WentOn, Operation

LEMMA LoadDoes ==
    ASSUME Shape, NEW p \in People, NEW u \in Members, Load(p, u), entry[u] \in Entry
    PROVE  /\ op'[p].who = u /\ op'[p].todo = Reread(op[p].todo) /\ op'[p].saw = entry[u]
           /\ UNCHANGED <<entry, live, row>>
<1>1. At(p, u, "load") /\ UNCHANGED <<entry, live, row>>
  BY DEF Load
<1>2. op[p] \in Operation /\ op[p].who = u
  BY <1>1, AtWork
<1>3. op'[p] = [op[p] EXCEPT !.saw = entry[u], !.todo = Reread(op[p].todo)]
  BY IdleIsOperation, LoadFits
<1> QED BY <1>1, <1>2, <1>3 DEF Operation

LEMMA StoreDoes ==
    ASSUME Shape, NEW p \in People, NEW u \in Members, Store(p, u)
    PROVE  /\ entry'[u] = [op[p].saw EXCEPT ![First(op[p].todo).field] = First(op[p].todo).value]
           /\ UNCHANGED <<live, row>> /\ WentOn(p)
           /\ op[p].saw \in Entry /\ First(op[p].todo) \in Step /\ First(op[p].todo).do = "store"
BY AtWork, ProceedFits DEF Store, First, Shape

\* A hand lowered, and the row it leaves alone.
LEMMA HandLowered ==
    ASSUME NEW e \in Entry, NEW v \in BOOLEAN, v = FALSE,
           NEW lowered, lowered = [e EXCEPT !.hand = v]
    PROVE  lowered \in Entry /\ lowered.hand = FALSE /\ RowOf(lowered) = RowOf(e)
           /\ lowered.role = e.role
BY DEF Entry, RowOf

LEMMA HandDownStored ==
    ASSUME Shape, NEW p \in People, NEW u \in Members, Store(p, u),
           First(op[p].todo) = WriteHandDown
    PROVE  /\ entry'[u] \in Entry /\ entry'[u].hand = FALSE
           /\ entry'[u].role = op[p].saw.role /\ RowOf(entry'[u]) = RowOf(op[p].saw)
<1> DEFINE v == WriteHandDown.value
<1>1. v \in BOOLEAN /\ v = FALSE
  BY StepsDo
<1>2. op[p].saw \in Entry /\ entry'[u] = [op[p].saw EXCEPT !.hand = v]
  BY SMTT(30), StoreDoes, Changed, StepsDo
<1> HIDE DEF v
<1> QED BY <1>1, <1>2, HandLowered

LEMMA HandKept ==
    ASSUME NEW e \in Entry, NEW v \in BOOLEAN, v = e.hand
    PROVE  [e EXCEPT !.hand = v] = e
BY DEF Entry

LEMMA NewcomerFits == Newcomer \in Entry /\ HandFits(Newcomer) /\ Newcomer.hand = FALSE
BY DEF Newcomer, InitialRole, Entry, Role, HandFits

LEMMA MirrorDoes ==
    ASSUME Shape, NEW p \in People, NEW u \in Members, MirrorRow(p, u), row[u] \in Row
    PROVE  /\ row'[u] = [row[u] EXCEPT ![First(op[p].todo).field] = First(op[p].todo).value]
           /\ UNCHANGED <<entry, live>> /\ WentOn(p)
           /\ First(op[p].todo) \in Step /\ First(op[p].todo).do = "mirror"
<1>1. At(p, u, "mirror") /\ Proceed(p) /\ UNCHANGED <<entry, live>>
  BY DEF MirrorRow
<1>2. WentOn(p) /\ First(op[p].todo) \in Step /\ First(op[p].todo).do = "mirror"
  BY <1>1, AtWork, ProceedFits
<1>3. row' = [row EXCEPT ![u] = [row[u] EXCEPT ![First(op[p].todo).field] = First(op[p].todo).value]]
  BY IdleIsOperation DEF MirrorRow, First
<1> QED BY <1>1, <1>2, <1>3 DEF Shape

LEMMA MuteMirrored ==
    ASSUME Shape, NEW p \in People, NEW u \in Members, MirrorRow(p, u), row[u] \in Row,
           NEW b \in BOOLEAN, First(op[p].todo) = MirrorMuted(b)
    PROVE  /\ row'[u] \in Row /\ row'[u].muted = b /\ row'[u].role = row[u].role
           /\ UNCHANGED <<entry, live>> /\ WentOn(p)
<1> DEFINE v == MirrorMuted(b).value
<1>1. v = b
  BY StepsDo
<1>2. row'[u] = [row[u] EXCEPT !.muted = v] /\ UNCHANGED <<entry, live>> /\ WentOn(p)
  BY SMTT(30), MirrorDoes, MirroredRow, StepsDo
<1> HIDE DEF v
<1> QED BY <1>1, <1>2 DEF Row

\* The media server's calls and the tokens leave the records as they are.
LEMMA MediaDoes ==
    ASSUME Shape, NEW p \in People, NEW u \in Members,
           \/ RevokePublish(p, u) \/ MuteParticipant(p, u) \/ RemoveParticipant(p, u)
           \/ IssueMediaToken(p, u) \/ IssuePublishToken(p, u)
    PROVE  UNCHANGED <<entry, live, row>> /\ WentOn(p)
<1>1. UNCHANGED <<entry, live, row>> /\ Proceed(p)
  BY DEF RevokePublish, MuteParticipant, RemoveParticipant, IssueMediaToken, IssuePublishToken
<1>2. op[p] # Idle
  BY AtWork
  DEF RevokePublish, MuteParticipant, RemoveParticipant, IssueMediaToken, IssuePublishToken
<1> QED BY <1>1, <1>2, ProceedFits

Advanced(p, u) ==
    \/ op'[p] = Idle /\ Settled(u)'
    \/ op'[p].who = u /\ Coherent(p, u)'

\* The third step of an approval lowers the hand.
LEMMA HandLowers ==
    ASSUME Shape, NEW p \in People, NEW u \in Members, op[p].who = u, Store(p, u), u \in live,
           op[p].todo = Approve3w, op[p].saw = entry[u], row[u] = RowOf(entry[u])
    PROVE  Advanced(p, u)
<1>1. First(op[p].todo) = WriteHandDown /\ Rest(op[p].todo) = Approve4 /\ Approve4 # <<>>
  BY Heads
<1>2. /\ entry'[u] \in Entry /\ entry'[u].hand = FALSE
      /\ RowOf(entry'[u]) = RowOf(entry[u])
  BY <1>1, HandDownStored
<1>3. UNCHANGED <<live, row>> /\ WentOn(p)
  BY StoreDoes
<1>4. op'[p].who = u /\ op'[p].todo = Approve4
  BY <1>1, <1>3, WentOnTo
<1>5. Agree(u)'
  BY <1>2, <1>3 DEF Agree, HandFits, RowOf
<1> QED BY <1>4, <1>5 DEF Advanced, Coherent, Approves

LEMMA ApprovalAdvances ==
    ASSUME Shape, NEW p \in People, NEW u \in Members, Continue(p, u), Approves(p, u)
    PROVE  Advanced(p, u)
<1> USE Heads, StepsDo, RereadAs, OneCall, WentOnTo
<1>0. entry[u] \in Entry /\ u \in live /\ op[p].who = u
  BY DEF Approves, Agree
<1>1. CASE op[p].todo = Approve1
  <2>1. Agree(u) /\ entry[u].role = "listener"
    BY <1>1 DEF Approves
  <2>2. /\ op'[p].who = u /\ op'[p].todo = Approve1w /\ op'[p].saw = entry[u]
        /\ UNCHANGED <<entry, live, row>>
    BY <1>0, <1>1, LoadDoes
  <2>3. Approves(p, u)'
    BY <2>1, <2>2 DEF Approves, Agree
  <2> QED BY <2>2, <2>3 DEF Advanced, Coherent
<1>2. CASE op[p].todo = Approve1w
  <2>1. Agree(u) /\ op[p].saw = entry[u]
    BY <1>2 DEF Approves
  <2>2. /\ op'[p].who = u /\ op'[p].todo = Approve2 /\ UNCHANGED <<live, row>>
        /\ entry'[u] = [entry[u] EXCEPT !.role = "speaker"]
    BY <1>2, <2>1, StoreDoes, Changed
  <2>3. Approves(p, u)'
    BY <1>0, <2>1, <2>2 DEF Approves, Agree, RowOf, Entry, Row, Role
  <2> QED BY <2>2, <2>3 DEF Advanced, Coherent
<1>3. CASE op[p].todo = Approve2
  <2>1. entry[u].role = "speaker" /\ row[u] \in Row /\ row[u].muted = entry[u].muted
    BY <1>3 DEF Approves
  <2>2. /\ op'[p].who = u /\ op'[p].todo = Approve3 /\ UNCHANGED <<entry, live>>
        /\ row'[u] = [row[u] EXCEPT !.role = "speaker"]
    <3>1. MirrorRow(p, u) /\ First(op[p].todo) = MirrorSpeaker
      BY <1>3
    <3>2. WentOn(p) /\ UNCHANGED <<entry, live>>
          /\ row'[u] = [row[u] EXCEPT !.role = "speaker"]
      BY SMTT(30), <2>1, <3>1, MirrorDoes, MirroredRow
    <3> QED BY <1>3, <3>1, <3>2
  <2>3. row'[u] = RowOf(entry[u])
    BY <2>1, <2>2 DEF RowOf, Row
  <2>4. Approves(p, u)'
    BY <1>0, <2>1, <2>2, <2>3 DEF Approves, RowOf
  <2> QED BY <2>2, <2>4 DEF Advanced, Coherent
<1>4. CASE op[p].todo = Approve3
  <2>1. entry[u].role = "speaker" /\ row[u] = RowOf(entry[u])
    BY <1>4 DEF Approves
  <2>2. /\ op'[p].who = u /\ op'[p].todo = Approve3w /\ op'[p].saw = entry[u]
        /\ UNCHANGED <<entry, live, row>>
    BY <1>0, <1>4, LoadDoes
  <2>3. Approves(p, u)'
    BY <1>0, <2>1, <2>2 DEF Approves, RowOf
  <2> QED BY <2>2, <2>3 DEF Advanced, Coherent
<1>5. CASE op[p].todo = Approve3w
  <2>1. entry[u].role = "speaker" /\ row[u] = RowOf(entry[u]) /\ op[p].saw = entry[u]
    BY <1>5 DEF Approves
  <2>2. Store(p, u)
    BY <1>5
  <2> QED BY <1>0, <1>5, <2>1, <2>2, HandLowers, ZenonT(30)
<1>6. CASE op[p].todo = Approve4
  <2>1. Agree(u)
    BY <1>6 DEF Approves
  <2>2. op'[p] = Idle /\ UNCHANGED <<entry, live, row>>
    BY <1>6, MediaDoes
  <2> QED BY <2>1, <2>2 DEF Advanced, Settled, Agree
<1> QED BY <1>1, <1>2, <1>3, <1>4, <1>5, <1>6 DEF Approves

LEMMA DemotionAdvances ==
    ASSUME Shape, NEW p \in People, NEW u \in Members, Continue(p, u), Demotes(p, u)
    PROVE  Advanced(p, u)
<1> USE Heads, StepsDo, RereadAs, OneCall, WentOnTo
<1>0. entry[u] \in Entry /\ u \in live
  BY DEF Demotes, Agree
<1>1. CASE op[p].todo = Demote1
  <2>1. Agree(u)
    BY <1>1 DEF Demotes
  <2>2. op'[p].who = u /\ op'[p].todo = Demote2 /\ UNCHANGED <<entry, live, row>>
    BY <1>1, MediaDoes
  <2> QED BY <2>1, <2>2 DEF Advanced, Coherent, Demotes, Agree
<1>2. CASE op[p].todo = Demote2
  <2>1. Agree(u)
    BY <1>2 DEF Demotes
  <2>2. /\ op'[p].who = u /\ op'[p].todo = Demote2w /\ op'[p].saw = entry[u]
        /\ UNCHANGED <<entry, live, row>>
    BY <1>0, <1>2, LoadDoes
  <2> QED BY <2>1, <2>2 DEF Advanced, Coherent, Demotes, Agree
<1>3. CASE op[p].todo = Demote2w
  <2>1. Agree(u) /\ op[p].saw = entry[u]
    BY <1>3 DEF Demotes
  <2>2. /\ op'[p].who = u /\ op'[p].todo = Demote3 /\ UNCHANGED <<live, row>>
        /\ entry'[u] = [entry[u] EXCEPT !.role = "listener"]
    BY <1>3, <2>1, StoreDoes, Changed
  <2>3. Demotes(p, u)'
    BY <1>0, <2>1, <2>2 DEF Demotes, Agree, RowOf, Entry, Row, Role
  <2> QED BY <2>2, <2>3 DEF Advanced, Coherent
<1>4. CASE op[p].todo = Demote3
  <2>1. entry[u].role = "listener" /\ row[u] \in Row /\ row[u].muted = entry[u].muted
    BY <1>4 DEF Demotes
  <2>2. /\ op'[p] = Idle /\ UNCHANGED <<entry, live>>
        /\ row'[u] = [row[u] EXCEPT !.role = "listener"]
    BY SMTT(30), <1>4, <2>1, MirrorDoes, MirroredRow
  <2>3. row'[u] = RowOf(entry[u])
    BY <2>1, <2>2 DEF RowOf, Row
  <2> QED BY <1>0, <2>1, <2>2, <2>3 DEF Advanced, Settled, Agree, RowOf, HandFits
<1> QED BY <1>1, <1>2, <1>3, <1>4 DEF Demotes

LEMMA MuteAdvances ==
    ASSUME Shape, NEW p \in People, NEW u \in Members, Continue(p, u), Mutes(p, u)
    PROVE  Advanced(p, u)
<1> USE Heads, StepsDo, RereadAs, OneCall, WentOnTo
<1>0. entry[u] \in Entry /\ u \in live
  BY DEF Mutes, Agree
<1>1. ASSUME NEW b \in BOOLEAN, op[p].todo = Mute1(b), Agree(u)
      PROVE  Advanced(p, u)
  <2>1. op'[p].who = u /\ op'[p].todo = Mute2(b) /\ UNCHANGED <<entry, live, row>>
    BY <1>1, MediaDoes
  <2> QED BY <1>1, <2>1 DEF Advanced, Coherent, Mutes, Agree
<1>2. ASSUME NEW b \in BOOLEAN, op[p].todo = Mute2(b), Agree(u)
      PROVE  Advanced(p, u)
  <2>1. /\ op'[p].who = u /\ op'[p].todo = Mute2w(b) /\ op'[p].saw = entry[u]
        /\ UNCHANGED <<entry, live, row>>
    BY <1>0, <1>2, LoadDoes
  <2> QED BY <1>2, <2>1 DEF Advanced, Coherent, Mutes, Agree
<1>3. ASSUME NEW b \in BOOLEAN, op[p].todo = Mute2w(b), Agree(u), op[p].saw = entry[u]
      PROVE  Advanced(p, u)
  <2>1. /\ op'[p].who = u /\ op'[p].todo = Mute3(b) /\ UNCHANGED <<live, row>>
        /\ entry'[u] = [entry[u] EXCEPT !.muted = b]
    BY <1>3, StoreDoes, Changed
  <2>2. /\ entry'[u] \in Entry /\ HandFits(entry'[u]) /\ entry'[u].muted = b
        /\ row'[u] \in Row /\ row'[u].role = entry'[u].role
    BY <1>0, <1>3, <2>1 DEF Agree, RowOf, HandFits, Entry, Row
  <2> QED BY <1>0, <2>1, <2>2 DEF Advanced, Coherent, Mutes, HandFits
<1>4. ASSUME NEW b \in BOOLEAN, op[p].todo = Mute3(b), HandFits(entry[u]),
             entry[u].muted = b, row[u] \in Row, row[u].role = entry[u].role
      PROVE  Advanced(p, u)
  <2>1. MirrorRow(p, u) /\ First(op[p].todo) = MirrorMuted(b) /\ op[p].who = u
    BY <1>4
  <2>2. /\ WentOn(p) /\ UNCHANGED <<entry, live>>
        /\ row'[u] \in Row /\ row'[u].muted = b /\ row'[u].role = row[u].role
    BY <1>4, <2>1, MuteMirrored
  <2>3. op'[p] = Idle
    BY <1>4, <2>1, <2>2
  <2>4. row'[u] = RowOf(entry[u])
    BY <1>4, <2>2 DEF RowOf, Row
  <2> QED BY <1>0, <1>4, <2>2, <2>3, <2>4 DEF Advanced, Settled, Agree, RowOf, HandFits
<1> QED BY <1>1, <1>2, <1>3, <1>4 DEF Mutes

LEMMA HandAdvances ==
    ASSUME Shape, NEW p \in People, NEW u \in Members, Continue(p, u), Raises(p, u)
    PROVE  Advanced(p, u)
<1> USE Heads, StepsDo, RereadAs, OneCall, WentOnTo
<1>0. entry[u] \in Entry /\ u \in live
  BY DEF Raises, Agree
<1>1. ASSUME NEW b \in BOOLEAN, op[p].todo = Hand1(b), Agree(u), b => entry[u].role = "listener"
      PROVE  Advanced(p, u)
  <2>1. /\ op'[p].who = u /\ op'[p].todo = Hand1w(b) /\ op'[p].saw = entry[u]
        /\ UNCHANGED <<entry, live, row>>
    BY <1>0, <1>1, LoadDoes
  <2> QED BY <1>1, <2>1 DEF Advanced, Coherent, Raises, Agree
<1>2. ASSUME NEW b \in BOOLEAN, op[p].todo = Hand1w(b), Agree(u), b => entry[u].role = "listener",
             op[p].saw = entry[u]
      PROVE  Advanced(p, u)
  <2>1. /\ op'[p] = Idle /\ UNCHANGED <<live, row>>
        /\ entry'[u] = [entry[u] EXCEPT !.hand = b]
    BY <1>2, StoreDoes, Changed
  <2>2. Agree(u)'
    BY <1>0, <1>2, <2>1 DEF Agree, RowOf, HandFits, Entry
  <2> QED BY <2>1, <2>2 DEF Advanced, Settled
<1> QED BY <1>1, <1>2 DEF Raises

LEMMA LeaveAdvances ==
    ASSUME Shape, NEW p \in People, NEW u \in Members, Continue(p, u), Leaves(p, u)
    PROVE  Advanced(p, u)
<1> USE Heads, StepsDo, OneCall, WentOnTo
<1>1. CASE op[p].todo = Kick1
  <2>1. Agree(u)
    BY <1>1 DEF Leaves
  <2>2. op'[p].who = u /\ op'[p].todo = Kick2 /\ UNCHANGED <<entry, live, row>>
    BY <1>1, MediaDoes
  <2> QED BY <2>1, <2>2 DEF Advanced, Coherent, Leaves, Agree
<1>2. CASE op[p].todo = Kick2
  <2>1. Agree(u)
    BY <1>2 DEF Leaves
  <2>2. op'[p].who = u /\ op'[p].todo = Leave1 /\ UNCHANGED <<entry, live, row>>
    BY <1>2, MediaDoes
  <2> QED BY <2>1, <2>2 DEF Advanced, Coherent, Leaves, Settled, Agree
<1>3. CASE op[p].todo = Leave1
  <2>1. SetOffline(p, u)
    BY <1>3
  <2>2. Proceed(p) /\ op[p] # Idle /\ entry'[u] = None /\ u \notin live'
    BY <2>1, AtWork DEF SetOffline, Shape
  <2>3. op'[p].who = u /\ op'[p].todo = Leave2
    BY <1>3, <2>2, ProceedFits
  <2> QED BY <2>2, <2>3 DEF Advanced, Coherent, Leaves, Gone
<1>4. CASE op[p].todo = Leave2
  <2>1. Gone(u) /\ RecordLeave(p, u)
    BY <1>4 DEF Leaves
  <2>2. Proceed(p) /\ op[p] # Idle /\ UNCHANGED <<entry, live>>
    BY <2>1, AtWork DEF RecordLeave
  <2>3. op'[p] = Idle
    BY <1>4, <2>2, ProceedFits
  <2> QED BY <2>1, <2>2, <2>3 DEF Advanced, Settled, Gone
<1> QED BY <1>1, <1>2, <1>3, <1>4 DEF Leaves

LEMMA JoinAdvances ==
    ASSUME Shape, NEW p \in People, NEW u \in Members, Continue(p, u), Joins(p, u)
    PROVE  Advanced(p, u)
<1> USE Heads, StepsDo, OneCall, WentOnTo
<1>1. CASE op[p].todo = Join1
  <2>1. Settled(u) /\ op[p].saw = StandingOf(u) /\ SetOnline(p, u)
    BY <1>1 DEF Joins
  <2>2. /\ Proceed(p) /\ op[p] # Idle /\ u \in live' /\ op[p].saw \in Entry
        /\ entry'[u] = [op[p].saw EXCEPT !.hand = Visible(u) /\ entry[u].hand]
    BY <2>1, AtWork DEF SetOnline, Shape
  <2>3. op'[p].who = u /\ op'[p].todo = Join2 /\ op'[p].saw = op[p].saw
    BY <1>1, <2>2, ProceedFits
  <2>4. entry'[u] = op[p].saw /\ HandFits(op[p].saw)
    <3>1. CASE Agree(u)
      <4>1. Visible(u) /\ op[p].saw = entry[u]
        BY <2>1, <3>1, IdleIsOperation DEF Agree, Visible, StandingOf
      <4> QED BY <2>2, <3>1, <4>1 DEF Agree, Entry
    <3>2. CASE Gone(u)
      <4>1. ~Visible(u) /\ op[p].saw = Newcomer
        BY <2>1, <3>2 DEF Gone, Visible, StandingOf
      <4> DEFINE v == Visible(u) /\ entry[u].hand
      <4>2. v \in BOOLEAN /\ v = Newcomer.hand
        <5>1. v = FALSE
          BY <4>1, ZenonT(30)
        <5> HIDE DEF v
        <5> QED BY <5>1, NewcomerFits
      <4>3. entry'[u] = [Newcomer EXCEPT !.hand = v]
        BY <2>2, <4>1
      <4> HIDE DEF v
      <4> QED BY <4>1, <4>2, <4>3, HandKept, NewcomerFits
    <3> QED BY <2>1, <3>1, <3>2 DEF Settled
  <2>5. Joins(p, u)'
    <3>1. /\ u \in live' /\ entry'[u] \in Entry /\ HandFits(entry'[u]) /\ op'[p].saw = entry'[u]
      BY <2>2, <2>3, <2>4
    <3> QED BY <2>3, <3>1 DEF Joins, HandFits
  <2> QED BY <2>3, <2>5 DEF Advanced, Coherent
<1>2. CASE op[p].todo = Join2
  <2>1. /\ u \in live /\ entry[u] \in Entry /\ HandFits(entry[u]) /\ op[p].saw = entry[u]
        /\ RecordJoin(p, u)
    BY <1>2 DEF Joins
  <2>2. /\ Proceed(p) /\ op[p] # Idle /\ UNCHANGED <<entry, live>>
        /\ row'[u] = RowOf(entry[u])
    BY <2>1, AtWork DEF RecordJoin, Shape, RowOf
  <2>3. op'[p].who = u /\ op'[p].todo = Join3
    BY <1>2, <2>2, ProceedFits
  <2> QED BY <2>1, <2>2, <2>3 DEF Advanced, Coherent, Joins, Agree, HandFits, RowOf
<1>3. CASE op[p].todo = Join3
  <2>1. Agree(u)
    BY <1>3 DEF Joins
  <2>2. op'[p] = Idle /\ UNCHANGED <<entry, live, row>>
    BY <1>3, MediaDoes
  <2> QED BY <2>1, <2>2 DEF Advanced, Settled, Agree
<1> QED BY <1>1, <1>2, <1>3 DEF Joins

--------------------------------------------------------------------------------
(***************************************************************************)
(* A member on whom no two operations met: every step.                     *)
(***************************************************************************)

\* Who is not touched stays in order.
LEMMA Untouched ==
    ASSUME Shape, NEW v \in Members, Orderly(v),
           entry'[v] = entry[v], row'[v] = row[v], v \in live' <=> v \in live,
           \A q \in People : op[q].who = v \/ op'[q].who = v => op'[q] = op[q]
    PROVE  Orderly(v)'
<1>1. Agree(v)' <=> Agree(v)
  BY DEF Agree
<1>2. Settled(v)' <=> Settled(v)
  BY <1>1 DEF Settled, Gone
<1>3. ASSUME NEW q \in People, op[q].who = v
      PROVE  Coherent(q, v)'
  <2>1. op'[q] = op[q] /\ Coherent(q, v)
    BY <1>3 DEF Orderly
  <2>2. Approves(q, v) => Approves(q, v)'
    BY <1>1, <2>1 DEF Approves
  <2>3. Demotes(q, v) => Demotes(q, v)'
    BY <1>1, <2>1 DEF Demotes
  <2>4. Mutes(q, v) => Mutes(q, v)'
    BY <1>1, <2>1 DEF Mutes
  <2>5. Raises(q, v) => Raises(q, v)'
    BY <1>1, <2>1 DEF Raises
  <2>6. Leaves(q, v) => Leaves(q, v)'
    BY <1>1, <1>2, <2>1 DEF Leaves, Gone
  <2>7. Joins(q, v) => Joins(q, v)'
    BY <1>1, <1>2, <2>1 DEF Joins, StandingOf, Visible
  <2> QED BY <2>1, <2>2, <2>3, <2>4, <2>5, <2>6, <2>7 DEF Coherent
<1>4. \A q \in People : op'[q].who = v <=> op[q].who = v
  OBVIOUS
<1>5. \A p, q \in People : op'[p].who = v /\ op'[q].who = v => p = q
  BY <1>4 DEF Orderly
<1>6. \A q \in People : op'[q].who = v => Coherent(q, v)'
  BY <1>3, <1>4
<1>7. Busy(v)' \/ Settled(v)'
  BY <1>2, <1>4 DEF Orderly, Busy
<1> QED BY <1>5, <1>6, <1>7 DEF Orderly

\* Nor is anybody an operation was not about and is not about now.
LEMMA ElsewhereOrderly ==
    ASSUME Shape, NEW p \in People, NEW v \in Members, Orderly(v), OthersKept(p),
           op[p].who # v, op'[p].who # v,
           entry'[v] = entry[v], row'[v] = row[v], v \in live' <=> v \in live
    PROVE  Orderly(v)'
<1>1. \A q \in People : op[q].who = v \/ op'[q].who = v => op'[q] = op[q]
  BY DEF OthersKept
<1> QED BY <1>1, Untouched

LEMMA NoOneIsNoMember == NoOne \notin Members
BY StageAssumption

\* An operation that advances leaves the member it is about in order.
LEMMA AdvancedOrderly ==
    ASSUME Shape, NEW p \in People, NEW u \in Members, Orderly(u), op[p].who = u,
           OthersKept(p), Advanced(p, u)
    PROVE  Orderly(u)'
<1>1. \A q \in People : q # p => op'[q].who # u
  BY DEF Orderly, OthersKept
<1>2. CASE op'[p] = Idle /\ Settled(u)'
  <2>1. \A q \in People : op'[q].who # u
    BY <1>1, <1>2, IdleIsOperation, NoOneIsNoMember
  <2> QED BY <1>2, <2>1 DEF Orderly
<1>3. CASE op'[p].who = u /\ Coherent(p, u)'
  <2>1. \A q \in People : op'[q].who = u => q = p
    BY <1>1
  <2>2. \A q \in People : op'[q].who = u => Coherent(q, u)'
    BY <1>3, <2>1
  <2>3. Busy(u)'
    BY <1>3 DEF Busy
  <2> QED BY <2>1, <2>2, <2>3 DEF Orderly
<1> QED BY <1>2, <1>3 DEF Advanced

LEMMA ContinueOrderly ==
    ASSUME Shape, Undisturbed, NEW p \in People, NEW u \in Members, Continue(p, u)
    PROVE  Undisturbed'
<1>1. op[p].who = u /\ OthersKept(p) /\ disturbed' = disturbed
  BY OneCall, ContinueKeepsShape
  DEF Continue, Load, Store, MirrorRow, RevokePublish, MuteParticipant, RemoveParticipant,
      SetOnline, RecordJoin, IssueMediaToken, IssuePublishToken, SetOffline, RecordLeave, history
<1>2. \A v \in Members : v # u =>
         entry'[v] = entry[v] /\ row'[v] = row[v] /\ (v \in live' <=> v \in live)
  BY DEF Continue, Load, Store, MirrorRow, RevokePublish, MuteParticipant, RemoveParticipant,
      SetOnline, RecordJoin, IssueMediaToken, IssuePublishToken, SetOffline, RecordLeave, Shape
<1>3. op'[p].who \in {u, NoOne}
  <2>1. CASE Load(p, u)
    <3>1. op[p] \in Operation /\ op[p] # Idle
      BY <2>1, AtWork DEF Load
    <3>2. CASE entry[u] = None
      BY <1>1, <2>1, <3>2, LoadFits, WentOnTo, IdleIsOperation
    <3>3. CASE entry[u] # None
      BY <2>1, <3>3, LoadDoes DEF Shape
    <3> QED BY <3>2, <3>3
  <2>2. CASE ~Load(p, u)
    <3>1. Proceed(p)
      BY <2>2 DEF Continue, Store, MirrorRow, RevokePublish, MuteParticipant, RemoveParticipant,
           SetOnline, RecordJoin, IssueMediaToken, IssuePublishToken, SetOffline, RecordLeave
    <3>2. op[p] # Idle
      BY <1>1, IdleIsOperation, NoOneIsNoMember
    <3> QED BY <1>1, <3>1, <3>2, ProceedFits, WentOnTo, IdleIsOperation
  <2> QED BY <2>1, <2>2
<1>4. ASSUME NEW v \in Members \ disturbed, v # u
      PROVE  Orderly(v)'
  BY <1>1, <1>2, <1>3, <1>4, ElsewhereOrderly, NoOneIsNoMember DEF Undisturbed
<1>5. ASSUME u \notin disturbed
      PROVE  Orderly(u)'
  <2>1. Orderly(u) /\ Coherent(p, u)
    BY <1>1, <1>5 DEF Undisturbed, Orderly
  <2>2. Advanced(p, u)
    BY <2>1, ApprovalAdvances, DemotionAdvances, MuteAdvances, HandAdvances, LeaveAdvances,
       JoinAdvances DEF Coherent
  <2> QED BY <1>1, <2>1, <2>2, AdvancedOrderly
<1>6. \A v \in Members \ disturbed' : Orderly(v)'
  BY <1>1, <1>4, <1>5
<1> QED BY <1>6 DEF Undisturbed

\* An operation that begins finds the member as it should, or has met another.
LEMMA BeginOrderly ==
    ASSUME Shape, Undisturbed, NEW p \in People, NEW u \in Members, OthersKept(p),
           op[p] = Idle, op'[p].who = u, UNCHANGED <<entry, live, row>>,
           disturbed' = IF Busy(u) THEN disturbed \cup {u} ELSE disturbed,
           Settled(u) => Coherent(p, u)'
    PROVE  Undisturbed'
<1>1. ASSUME NEW v \in Members \ disturbed, v # u
      PROVE  Orderly(v)'
  BY <1>1, ElsewhereOrderly, IdleIsOperation, NoOneIsNoMember DEF Undisturbed
<1>2. ASSUME u \notin disturbed'
      PROVE  Orderly(u)'
  <2>1. Orderly(u) /\ ~Busy(u) /\ Settled(u)
    BY <1>2 DEF Undisturbed, Orderly
  <2>2. \A q \in People : op'[q].who = u => q = p
    BY <2>1 DEF Busy, OthersKept
  <2>3. \A q \in People : op'[q].who = u => Coherent(q, u)'
    BY <2>1, <2>2
  <2>4. Busy(u)'
    BY DEF Busy
  <2> QED BY <2>2, <2>3, <2>4 DEF Orderly
<1>3. \A v \in Members \ disturbed' : Orderly(v)'
  BY <1>1, <1>2
<1> QED BY <1>3 DEF Undisturbed


\* Who was settled and is seen is in the room.
LEMMA SeenAgrees ==
    ASSUME Shape, NEW u \in Members, Settled(u), Visible(u)
    PROVE  Agree(u) /\ entry[u] \in Entry
BY DEF Settled, Gone, Visible, Agree

LEMMA AskOrderly ==
    ASSUME Shape, Undisturbed, NEW u \in Members, Ask(u)
    PROVE  Undisturbed'
<1> USE Decisions, StartsHoldNothing
<1>0. /\ Host \in People /\ u \in People /\ u # Host
      /\ Approve1 \in HostsPositions /\ Demote1 \in HostsPositions /\ Kick1 \in HostsPositions
      /\ Demote1 \in MembersPositions /\ Leave1 \in MembersPositions /\ Join1 \in MembersPositions
      /\ \A b \in BOOLEAN : /\ Mute1(b) \in HostsPositions /\ Mute2(b) \in HostsPositions
                            /\ Hand1(b) \in MembersPositions
  BY StageAssumption
  DEF People, HostsPositions, MembersPositions, Approving, Demoting, Kicking, Leaving, Joining,
      Muting, RaisingHand
<1>1. ASSUME NEW p \in People, p # Host => u = p, NEW kind,
             NEW todo \in PositionsOf(p), todo \notin Holding, Begin(p, kind, u, todo),
             Settled(u) /\ op'[p].todo = todo /\ UNCHANGED <<entry, live, row>> => Coherent(p, u)'
      PROVE  Undisturbed'
  <2>1. /\ OthersKept(p) /\ op'[p].who = u /\ op'[p].todo = todo
        /\ UNCHANGED <<entry, live, row>>
        /\ disturbed' = IF Busy(u) THEN disturbed \cup {u} ELSE disturbed
    BY <1>1, BeginFits
  <2>2. op[p] = Idle
    BY <1>1 DEF Begin
  <2> QED BY <1>1, <2>1, <2>2, BeginOrderly
<1>2. CASE ApproveSpeaker(u)
  <2>1. Visible(u) /\ entry[u].role = "listener" /\ Begin(Host, "approve", u, Approve1)
    BY <1>2 DEF ApproveSpeaker
  <2>2. Settled(u) /\ op'[Host].todo = Approve1 /\ UNCHANGED <<entry, live, row>>
        => Coherent(Host, u)'
    BY <2>1, SeenAgrees DEF Coherent, Approves, Agree
  <2> QED BY <1>0, <1>1, <2>1, <2>2 DEF PositionsOf
<1>3. CASE RemoveSpeaker(u)
  <2>1. Visible(u) /\ Begin(Host, "remove", u, Demote1)
    BY <1>3 DEF RemoveSpeaker, IsSpeaker
  <2>2. Settled(u) /\ op'[Host].todo = Demote1 /\ UNCHANGED <<entry, live, row>>
        => Coherent(Host, u)'
    BY <2>1, SeenAgrees DEF Coherent, Demotes, Agree
  <2> QED BY <1>0, <1>1, <2>1, <2>2 DEF PositionsOf
<1>4. CASE StepDown(u)
  <2>1. Visible(u) /\ Begin(u, "stepDown", u, Demote1)
    BY <1>4 DEF StepDown, IsSpeaker
  <2>2. Settled(u) /\ op'[u].todo = Demote1 /\ UNCHANGED <<entry, live, row>>
        => Coherent(u, u)'
    BY <2>1, SeenAgrees DEF Coherent, Demotes, Agree
  <2> QED BY <1>0, <1>1, <2>1, <2>2 DEF PositionsOf
<1>5. CASE KickUser(u)
  <2>1. Visible(u) /\ Begin(Host, "kick", u, Kick1)
    BY <1>5 DEF KickUser
  <2>2. Settled(u) /\ op'[Host].todo = Kick1 /\ UNCHANGED <<entry, live, row>>
        => Coherent(Host, u)'
    BY <2>1, SeenAgrees DEF Coherent, Leaves, Agree
  <2> QED BY <1>0, <1>1, <2>1, <2>2 DEF PositionsOf
<1>6. CASE LeaveRoom(u)
  <2>1. Begin(u, "leave", u, Leave1)
    BY <1>6
  <2>2. Settled(u) /\ op'[u].todo = Leave1 /\ UNCHANGED <<entry, live, row>>
        => Coherent(u, u)'
    BY DEF Coherent, Leaves, Settled, Agree, Gone
  <2> QED BY <1>0, <1>1, <2>1, <2>2 DEF PositionsOf
<1>7. CASE JoinRoom(u)
  <2>1. StandingOf(u) \in Entry
    BY NewcomerFits DEF StandingOf, Visible, Shape
  <2>2. Began(u, u, Join1, StandingOf(u))
    BY <1>7, Zenon DEF JoinRoom, Began, Join1, Online, Record, Issue
  <2>3. OthersKept(u) /\ op'[u].who = u /\ op'[u].todo = Join1 /\ op'[u].saw = StandingOf(u)
    BY <1>0, <2>1, <2>2, BeganFits DEF PositionsOf
  <2>4. /\ op[u] = Idle /\ UNCHANGED <<entry, live, row>>
        /\ disturbed' = IF Busy(u) THEN disturbed \cup {u} ELSE disturbed
    BY <1>7 DEF JoinRoom
  <2>5. Settled(u) => Coherent(u, u)'
    BY <2>3, <2>4 DEF Coherent, Joins, Settled, Agree, Gone, StandingOf, Visible
  <2> QED BY <1>0, <2>3, <2>4, <2>5, BeginOrderly
<1>8. ASSUME NEW b \in BOOLEAN, MuteSpeaker(u, b)
      PROVE  Undisturbed'
  <2> DEFINE start == IF entry[u].role = "listener" THEN Mute2(b) ELSE Mute1(b)
  <2>1. Visible(u) /\ Begin(Host, "mute", u, start)
    BY <1>8 DEF MuteSpeaker
  <2>2. start \in {Mute1(b), Mute2(b)}
    OBVIOUS
  <2> HIDE DEF start
  <2>3. Settled(u) /\ op'[Host].todo = start /\ UNCHANGED <<entry, live, row>>
        => Coherent(Host, u)'
    BY <2>1, <2>2, SeenAgrees DEF Coherent, Mutes, Agree
  <2>4. start \in HostsPositions /\ start \notin Holding
    BY <1>0, <2>2
  <2> QED BY <1>0, <1>1, <2>1, <2>3, <2>4 DEF PositionsOf
<1>9. ASSUME NEW b \in BOOLEAN, RaiseHand(u, b)
      PROVE  Undisturbed'
  <2>1. /\ Visible(u) /\ (b => entry[u].role = "listener")
        /\ Begin(u, "hand", u, Hand1(b))
    BY <1>9 DEF RaiseHand
  <2>2. Settled(u) /\ op'[u].todo = Hand1(b) /\ UNCHANGED <<entry, live, row>>
        => Coherent(u, u)'
    <3> SUFFICES ASSUME Settled(u), op'[u].todo = Hand1(b), UNCHANGED <<entry, live, row>>
                 PROVE  Raises(u, u)'
      BY DEF Coherent
    <3>1. Agree(u)'
      BY <2>1, SeenAgrees DEF Agree
    <3>2. Hand1(b) # Hand1w(b)
      BY Heads, StepsDo
    <3> QED BY <2>1, <3>1, <3>2 DEF Raises
  <2> QED BY <1>0, <1>1, <2>1, <2>2 DEF PositionsOf
<1> QED BY <1>2, <1>3, <1>4, <1>5, <1>6, <1>7, <1>8, <1>9 DEF Ask

LEMMA StepKeepsUndisturbed ==
    ASSUME Shape, Undisturbed, [Next]_vars
    PROVE  Undisturbed'
<1>1. ASSUME NEW u \in Members, Ask(u)
      PROVE  Undisturbed'
  BY <1>1, AskOrderly
<1>2. ASSUME NEW u \in Members, Lapse(u)
      PROVE  Undisturbed'
  <2>1. ASSUME NEW v \in Members \ disturbed, v # u
        PROVE  Orderly(v)'
    <3>1. /\ op' = op /\ entry'[v] = entry[v] /\ row'[v] = row[v]
          /\ v \in live' <=> v \in live
      BY <1>2, <2>1 DEF Lapse, Shape
    <3> QED BY <2>1, <3>1, Untouched DEF Undisturbed
  <2>2. ASSUME u \notin disturbed'
        PROVE  Orderly(u)'
    <3>1. ~Busy(u) /\ op' = op /\ entry'[u] = None /\ u \notin live'
      BY <1>2, <2>2 DEF Lapse, Shape
    <3>2. Settled(u)' /\ ~Busy(u)'
      BY <3>1 DEF Settled, Gone, Busy
    <3> QED BY <3>2 DEF Orderly, Busy
  <2>3. \A v \in Members \ disturbed' : Orderly(v)'
    BY <1>2, <2>1, <2>2 DEF Lapse
  <2> QED BY <2>3 DEF Undisturbed
<1>3. ASSUME UNCHANGED <<entry, live, row, op, disturbed>>
      PROVE  Undisturbed'
  <2>1. \A v \in Members \ disturbed : Orderly(v)'
    BY <1>3, Untouched DEF Undisturbed
  <2> QED BY <1>3, <2>1 DEF Undisturbed
<1>4. ASSUME NEW u \in Members, ConnectMedia(u) \/ DropMedia(u)
      PROVE  Undisturbed'
  BY <1>3, <1>4 DEF ConnectMedia, DropMedia, history
<1>5. ASSUME NEW p \in People, NEW u \in Members, Continue(p, u)
      PROVE  Undisturbed'
  BY <1>5, ContinueOrderly
<1>6. ASSUME NEW p \in People, Abort(p)
      PROVE  Undisturbed'
  <2>1. OthersKept(p) /\ op'[p] = Idle
    BY <1>6, AbortFits
  <2>2. UNCHANGED <<entry, live, row>> /\ disturbed' = disturbed \cup {op[p].who}
    BY <1>6 DEF Abort
  <2>3. \A v \in Members \ disturbed' : Orderly(v)'
    BY <2>1, <2>2, ElsewhereOrderly, IdleIsOperation, NoOneIsNoMember DEF Undisturbed
  <2> QED BY <2>3 DEF Undisturbed
<1>7. CASE UNCHANGED vars
  BY <1>3, <1>7 DEF vars
<1> QED BY <1>1, <1>2, <1>4, <1>5, <1>6, <1>7 DEF Next

LEMMA UndisturbedAlways == Spec => []Undisturbed
<1>1. Init => Undisturbed
  <2> SUFFICES ASSUME Init, NEW v \in Members PROVE Orderly(v)
    BY DEF Undisturbed
  <2>1. \A q \in People : op[q].who # v
    BY IdleIsOperation, NoOneIsNoMember DEF Init
  <2>2. Settled(v)
    BY DEF Init, Settled, Gone
  <2> QED BY <2>1, <2>2 DEF Orderly
<1>2. Shape /\ Undisturbed /\ [Next]_vars => Undisturbed'
  BY StepKeepsUndisturbed
<1> QED BY <1>1, <1>2, ShapeAlways, PTL DEF Spec

\* Between operations the presence record and the durable row tell the same of
\* a member, and a member on the stage has no hand up (ApproveSpeaker.ts:39):
\* for any number of members, of everybody on whom no two operations met.
THEOREM RecordsStayTogether == Spec => []RecordsAgree
<1>1. Shape /\ Undisturbed => RecordsAgree
  <2> SUFFICES ASSUME Shape, Undisturbed, NEW u \in live \ disturbed, ~Busy(u)
               PROVE  /\ entry[u] # None
                      /\ row[u] = [role |-> entry[u].role, muted |-> entry[u].muted]
                      /\ entry[u].role = "speaker" => ~entry[u].hand
    BY DEF RecordsAgree
  <2>1. u \in Members
    BY DEF Shape
  <2>2. Agree(u)
    BY <2>1 DEF Undisturbed, Orderly, Settled, Gone
  <2> QED BY <2>2, IdleIsOperation DEF Agree, RowOf, HandFits
<1> QED BY <1>1, ShapeAlways, UndisturbedAlways, PTL


\* What is written back is what the member's entry still is.
LEMMA StoresAreFresh ==
    ASSUME NEW p \in People, NEW u \in Members, Coherent(p, u)
    PROVE  /\ First(op[p].todo).do = "store" => op[p].saw = entry[u] /\ u \in live
           /\ First(op[p].todo).do = "online" => op[p].saw = StandingOf(u) /\ Settled(u)
<1> USE Heads, StepsDo
<1>1. CASE Approves(p, u)
  BY <1>1 DEF Approves, Agree
<1>2. CASE Demotes(p, u)
  BY <1>2 DEF Demotes, Agree
<1>3. CASE Mutes(p, u)
  BY <1>3 DEF Mutes, Agree
<1>4. CASE Raises(p, u)
  BY <1>4 DEF Raises, Agree
<1>5. CASE Leaves(p, u)
  BY <1>5 DEF Leaves
<1>6. CASE Joins(p, u)
  BY <1>6 DEF Joins
<1> QED BY <1>1, <1>2, <1>3, <1>4, <1>5, <1>6 DEF Coherent

\* No program of a member changes the mute.
LEMMA MembersNeverMute ==
    \A t \in MembersPositions : First(t).do = "store" => First(t).field \in {"role", "hand"}
BY Heads, StepsDo DEF MembersPositions, Demoting, RaisingHand, Leaving, Joining

LEMMA StepUnmutesByHostOnly ==
    ASSUME Shape, Undisturbed, [Next]_vars, NEW u \in Members \ disturbed,
           Visible(u), entry[u].muted, Visible(u)', op[Host].who # u
    PROVE  entry'[u].muted
<1>1. ASSUME entry'[u] = entry[u]
      PROVE  entry'[u].muted
  BY <1>1
<1>2. ASSUME NEW v \in Members, Ask(v)
      PROVE  entry'[u].muted
  BY <1>1, <1>2
  DEF Ask, ApproveSpeaker, RemoveSpeaker, StepDown, KickUser, LeaveRoom, JoinRoom, MuteSpeaker,
      RaiseHand, Begin
<1>3. ASSUME NEW v \in Members, Lapse(v)
      PROVE  entry'[u].muted
  BY <1>1, <1>3 DEF Lapse, Visible, Shape
<1>4. ASSUME NEW v \in Members, ConnectMedia(v) \/ DropMedia(v)
      PROVE  entry'[u].muted
  BY <1>1, <1>4 DEF ConnectMedia, DropMedia
<1>5. ASSUME NEW p \in People, Abort(p)
      PROVE  entry'[u].muted
  BY <1>1, <1>5 DEF Abort
<1>6. ASSUME NEW p \in People, NEW v \in Members, Continue(p, v)
      PROVE  entry'[u].muted
  <2>1. CASE v # u
    <3>1. entry'[u] = entry[u]
      BY <1>6, <2>1 DEF Continue, Load, Store, MirrorRow, RevokePublish, MuteParticipant,
           RemoveParticipant, SetOnline, RecordJoin, IssueMediaToken, IssuePublishToken,
           SetOffline, RecordLeave, Shape
    <3> QED BY <1>1, <3>1
  <2>2. CASE Store(p, u) /\ v = u
    <3>1. At(p, u, "store")
      BY <2>2 DEF Store
    <3>2. p # Host /\ op[p].who = u
      BY <3>1 DEF At
    <3>3. op[p].todo \in MembersPositions /\ First(op[p].todo).do = "store"
      BY <3>1, <3>2, AtWork DEF PositionsOf
    <3>4. Coherent(p, u)
      BY <3>2 DEF Undisturbed, Orderly
    <3>5. op[p].saw = entry[u] /\ First(op[p].todo).field \in {"role", "hand"}
      BY <3>3, <3>4, StoresAreFresh, MembersNeverMute
    <3>6. entry[u] \in Entry
      BY DEF Visible, Shape
    <3>7. entry'[u].muted = entry[u].muted
      <4> DEFINE f == First(op[p].todo).field
                 w == First(op[p].todo).value
      <4>1. entry'[u] = [entry[u] EXCEPT ![f] = w]
        BY <2>2, <3>5, StoreDoes
      <4>2. f \in {"role", "hand"}
        BY <3>5
      <4> HIDE DEF f, w
      <4> QED BY <3>6, <4>1, <4>2 DEF Entry
    <3> QED BY <3>7
  <2>3. CASE SetOnline(p, u) /\ v = u
    <3>1. At(p, u, "online")
      BY <2>3 DEF SetOnline
    <3>2. op[p].who = u /\ First(op[p].todo).do = "online"
      BY <3>1, AtWork
    <3>3. Coherent(p, u)
      BY <3>2 DEF Undisturbed, Orderly
    <3>4. op[p].saw = entry[u] /\ entry[u] \in Entry
      BY <3>2, <3>3, StoresAreFresh DEF StandingOf, Visible, Shape
    <3>5. entry'[u] = [entry[u] EXCEPT !.hand = Visible(u) /\ entry[u].hand]
      BY <2>3, <3>4 DEF SetOnline, Shape
    <3> QED BY <3>4, <3>5 DEF Entry
  <2>4. CASE SetOffline(p, u) /\ v = u
    BY <2>4 DEF SetOffline, Visible, Shape
  <2>5. CASE v = u /\ ~Store(p, u) /\ ~SetOnline(p, u) /\ ~SetOffline(p, u)
    <3>1. entry'[u] = entry[u]
      BY <1>6, <2>5 DEF Continue, Load, MirrorRow, RevokePublish, MuteParticipant,
           RemoveParticipant, RecordJoin, IssueMediaToken, IssuePublishToken, RecordLeave
    <3> QED BY <1>1, <3>1
  <2> QED BY <2>1, <2>2, <2>3, <2>4, <2>5
<1>7. CASE UNCHANGED vars
  BY <1>1, <1>7 DEF vars
<1> QED BY <1>2, <1>3, <1>4, <1>5, <1>6, <1>7 DEF Next

\* Role and host-mute survive a rejoin, "or a muted user could clear it by
\* rejoining" (JoinRoom.ts:81-82): for any number of members, who stays in the
\* room is unmuted by an operation of the host only, unless two operations met
\* on them.
THEOREM NobodyUnmutesThemselves == Spec => OnlyTheHostUnmutes
<1>1. Shape /\ Undisturbed /\ [Next]_vars =>
        [\A u \in Members \ disturbed :
            Visible(u) /\ entry[u].muted /\ Visible(u)' =>
                entry'[u].muted \/ op[Host].who = u]_vars
  BY StepUnmutesByHostOnly
<1> QED BY <1>1, ShapeAlways, UndisturbedAlways, PTL DEF Spec, OnlyTheHostUnmutes


--------------------------------------------------------------------------------
(***************************************************************************)
(* The places on the stage.                                                *)
(***************************************************************************)

\* On the stage, or about to be put there by an approval that counted.
Staged ==
    Speakers \cup {u \in Members : op[Host].who = u /\ op[Host].todo \in {Approve1, Approve1w}}

PlacesKept == disturbed = {} => IsFiniteSet(Staged) /\ Cardinality(Staged) <= MaxSpeakers

LEMMA DisturbanceStays ==
    ASSUME [Next]_vars
    PROVE  disturbed \subseteq disturbed'
<1>1. ASSUME NEW u \in Members, Ask(u)
      PROVE  disturbed \subseteq disturbed'
  BY <1>1 DEF Ask, ApproveSpeaker, RemoveSpeaker, StepDown, KickUser, LeaveRoom, JoinRoom,
      MuteSpeaker, RaiseHand, Begin
<1>2. ASSUME NEW u \in Members, Lapse(u) \/ ConnectMedia(u) \/ DropMedia(u)
      PROVE  disturbed \subseteq disturbed'
  BY <1>2 DEF Lapse, ConnectMedia, DropMedia, history
<1>3. ASSUME NEW p \in People, NEW u \in Members, Continue(p, u)
      PROVE  disturbed \subseteq disturbed'
  BY <1>3 DEF Continue, Load, Store, MirrorRow, RevokePublish, MuteParticipant, RemoveParticipant,
      SetOnline, RecordJoin, IssueMediaToken, IssuePublishToken, SetOffline, RecordLeave, history
<1>4. ASSUME NEW p \in People, Abort(p)
      PROVE  disturbed \subseteq disturbed'
  BY <1>4 DEF Abort
<1> QED BY <1>1, <1>2, <1>3, <1>4 DEF Next, vars

\* A promotion is written at the start of an approval and nowhere else.
LEMMA OnlyStartsPromote ==
    ASSUME NEW t \in Positions
    PROVE  /\ Rest(t) \notin {Approve1, Approve1w}
           /\ First(t).do = "load" /\ Reread(t) \in {Approve1, Approve1w} => t = Approve1
           /\ /\ First(t).do = "store" /\ First(t).field = "role" /\ First(t).value = "speaker"
              => t = Approve1w
<1> USE Heads, StepsDo, RereadAs
<1>1. CASE t \in Approving
  <2>1. Rest(t) \notin {Approve1, Approve1w}
    BY <1>1 DEF Approving
  <2>2. First(t).do = "load" /\ Reread(t) \in {Approve1, Approve1w} => t = Approve1
    BY <1>1 DEF Approving
  <2>3. First(t).do = "store" /\ First(t).field = "role" => t = Approve1w
    BY <1>1 DEF Approving
  <2> QED BY <2>1, <2>2, <2>3
<1>2. CASE t \notin Approving
  <2>1. Approve1 \in Approving /\ Approve1w \in Approving
    BY DEF Approving
  <2>2. Rest(t) \notin Approving
    BY <1>2, OnlyApprovalsPromote
  <2>3. First(t).do = "load" => Reread(t) \notin Approving
    BY <1>2, OnlyApprovalsPromote
  <2>4. ~(First(t).do = "store" /\ First(t).field = "role" /\ First(t).value = "speaker")
    BY <1>2, OnlyApprovalsPromote
  <2> HIDE Heads, StepsDo, RereadAs
  <2> QED BY <2>1, <2>2, <2>3, <2>4
<1> QED BY <1>1, <1>2

\* The host is about to put u on the stage.
Promoting(u) == op[Host].who = u /\ op[Host].todo \in {Approve1, Approve1w}

LEMMA StagedAre == \A u \in Members : u \in Staged <=> IsSpeaker(u) \/ Promoting(u)
BY DEF Staged, Speakers, Promoting

LEMMA MembersNeverPromote == Approve1w \notin MembersPositions
BY Heads, StepsDo DEF MembersPositions, Demoting, RaisingHand, Leaving, Joining

\* Only the approval that counted adds to the stage.
LEMMA ContinueAddsNobody ==
    ASSUME Shape, Undisturbed, disturbed = {}, NEW p \in People, NEW v \in Members, Continue(p, v),
           NEW u \in Members
    PROVE  /\ IsSpeaker(u)' => IsSpeaker(u) \/ Promoting(u)
           /\ Promoting(u)' => Promoting(u)
<1>0. op[p].who = v /\ OthersKept(p)
  BY OneCall, ContinueKeepsShape
<1>1. Coherent(p, v)
  BY <1>0 DEF Undisturbed, Orderly
<1>2. ASSUME NEW what, At(p, v, what)
      PROVE  /\ op[p].todo \in Positions /\ op[p].todo \in PositionsOf(p) /\ op[p] # Idle
             /\ First(op[p].todo).do = what /\ First(op[p].todo) \in Step
  BY <1>2, AtWork, PositionsAre
<1>3. Promoting(u)' => Promoting(u)
  <2>1. CASE p # Host
    <3>1. op'[Host] = op[Host]
      BY <1>0, <2>1 DEF OthersKept, People
    <3> QED BY <3>1 DEF Promoting
  <2>2. ASSUME p = Host, WentOn(p), op[p].todo \in Positions
        PROVE  ~Promoting(u)'
    <3>1. Rest(op[p].todo) \notin {Approve1, Approve1w} /\ <<>> \notin {Approve1, Approve1w}
      BY <2>2, OnlyStartsPromote, Heads
    <3> QED BY <1>0, <2>2, <3>1, WentOnTo, IdleIsOperation DEF Promoting
  <2>3. CASE p = Host /\ Load(p, v)
    <3>1. At(p, v, "load")
      BY <2>3 DEF Load
    <3>2. CASE entry[v] = None
      BY <1>2, <2>2, <2>3, <3>1, <3>2, LoadFits
    <3>3. CASE entry[v] # None
      <4>1. op'[p].who = v /\ op'[p].todo = Reread(op[p].todo)
        BY <2>3, <3>3, LoadDoes DEF Shape
      <4>2. Reread(op[p].todo) \in {Approve1, Approve1w} => op[p].todo = Approve1
        BY <1>2, <3>1, OnlyStartsPromote
      <4> QED BY <1>0, <2>3, <4>1, <4>2 DEF Promoting
    <3> QED BY <3>2, <3>3
  <2>4. CASE p = Host /\ ~Load(p, v)
    <3>1. Proceed(p)
      BY <2>4 DEF Continue, Store, MirrorRow, RevokePublish, MuteParticipant, RemoveParticipant,
           SetOnline, RecordJoin, IssueMediaToken, IssuePublishToken, SetOffline, RecordLeave
    <3>2. op[p] # Idle
      BY <1>0, IdleIsOperation, NoOneIsNoMember
    <3>3. op[p].todo \in Positions
      BY <3>2, PositionsAre DEF Shape, OperationsFit, Fits, PositionsOf
    <3> QED BY <2>2, <2>4, <3>1, <3>2, <3>3, ProceedFits
  <2> QED BY <2>1, <2>3, <2>4
<1>4. ASSUME entry'[u] = entry[u], u \in live' => u \in live
      PROVE  IsSpeaker(u)' => IsSpeaker(u)
  BY <1>4 DEF IsSpeaker, Visible
<1>5. IsSpeaker(u)' => IsSpeaker(u) \/ Promoting(u)
  <2>1. CASE Store(p, v) /\ u = v
    <3>1. At(p, v, "store")
      BY <2>1 DEF Store
    <3> DEFINE t == op[p].todo
               f == First(t).field
               w == First(t).value
    <3>2. op[p].saw = entry[u] /\ u \in live /\ entry[u] \in Entry
      BY <1>1, <1>2, <2>1, <3>1, StoresAreFresh, StoreDoes
    <3>3. entry'[u] = [entry[u] EXCEPT ![f] = w]
      BY <2>1, <3>2, StoreDoes
    <3>4. CASE f = "role" /\ w = "speaker"
      <4>1. t = Approve1w /\ t \in PositionsOf(p)
        BY <1>2, <3>1, <3>4, OnlyStartsPromote
      <4>2. p = Host
        BY <4>1, MembersNeverPromote DEF PositionsOf
      <4> QED BY <1>0, <2>1, <4>1, <4>2 DEF Promoting
    <3>5. CASE ~(f = "role" /\ w = "speaker")
      <4>1. entry'[u].role = "speaker" => entry[u].role = "speaker"
        <5> HIDE DEF f, w
        <5> QED BY <3>2, <3>3, <3>5 DEF Entry
      <4> QED BY <3>2, <4>1, IdleIsOperation DEF IsSpeaker, Visible
    <3> QED BY <3>4, <3>5
  <2>2. CASE SetOnline(p, v) /\ u = v
    <3>1. At(p, v, "online")
      BY <2>2 DEF SetOnline
    <3>2. op[p].saw = StandingOf(u) /\ op[p].saw \in Entry
      BY <1>1, <1>2, <2>2, <3>1, StoresAreFresh, AtWork
    <3>3. entry'[u].role = op[p].saw.role
      BY <2>2, <3>2 DEF SetOnline, Shape, Entry
    <3>4. StandingOf(u).role = "speaker" => IsSpeaker(u)
      BY DEF StandingOf, Newcomer, InitialRole, IsSpeaker
    <3> QED BY <3>2, <3>3, <3>4 DEF IsSpeaker
  <2>3. CASE SetOffline(p, v) /\ u = v
    BY <2>3 DEF SetOffline, IsSpeaker, Visible, Shape
  <2>4. CASE u # v \/ (~Store(p, v) /\ ~SetOnline(p, v) /\ ~SetOffline(p, v))
    <3>1. entry'[u] = entry[u] /\ (u \in live' => u \in live)
      BY <2>4 DEF Continue, Load, Store, MirrorRow, RevokePublish, MuteParticipant,
           RemoveParticipant, SetOnline, RecordJoin, IssueMediaToken, IssuePublishToken,
           SetOffline, RecordLeave, Shape
    <3> QED BY <1>4, <3>1
  <2> QED BY <2>1, <2>2, <2>3, <2>4
<1> QED BY <1>3, <1>5

LEMMA OthersAddNobody ==
    ASSUME Shape, Undisturbed, disturbed = {}, [Next]_vars,
           \A v \in Members : ~ApproveSpeaker(v)
    PROVE  Staged' \subseteq Staged
<1> SUFFICES ASSUME NEW u \in Members
             PROVE  /\ IsSpeaker(u)' => IsSpeaker(u) \/ Promoting(u)
                    /\ Promoting(u)' => Promoting(u)
  BY StagedAre DEF Staged, Speakers, Promoting, IsSpeaker
<1>1. ASSUME UNCHANGED <<entry, live>>
      PROVE  IsSpeaker(u)' => IsSpeaker(u)
  BY <1>1 DEF IsSpeaker, Visible
<1>2. ASSUME op'[Host] = op[Host]
      PROVE  Promoting(u)' => Promoting(u)
  BY <1>2 DEF Promoting
<1>h. Host \in People
  BY DEF People
<1>3. ASSUME NEW v \in Members, Ask(v)
      PROVE  /\ IsSpeaker(u)' => IsSpeaker(u)
             /\ Promoting(u)' => Promoting(u)
  <2>1. UNCHANGED <<entry, live>>
    BY <1>3 DEF Ask, ApproveSpeaker, RemoveSpeaker, StepDown, KickUser, LeaveRoom, JoinRoom,
        MuteSpeaker, RaiseHand, Begin
  <2>2. ASSUME NEW p \in People, NEW todo, todo \notin {Approve1, Approve1w}, NEW kind,
               Begin(p, kind, v, todo)
        PROVE  Promoting(u)' => Promoting(u)
    <3>1. op' = [op EXCEPT ![p] = [who |-> v, todo |-> todo, saw |-> None]]
      BY <2>2 DEF Begin
    <3>2. CASE p = Host
      BY <1>h, <2>2, <3>1, <3>2 DEF Promoting, Shape
    <3>3. CASE p # Host
      BY <1>2, <1>h, <3>1, <3>3 DEF Shape
    <3> QED BY <3>2, <3>3
  <2>3. /\ Demote1 \notin {Approve1, Approve1w} /\ Kick1 \notin {Approve1, Approve1w}
        /\ Leave1 \notin {Approve1, Approve1w}
        /\ \A b \in BOOLEAN : {Mute1(b), Mute2(b), Hand1(b)} \cap {Approve1, Approve1w} = {}
    BY Heads, StepsDo
  <2>4. v \in People
    BY DEF People
  <2>5. ASSUME RemoveSpeaker(v) \/ StepDown(v) \/ KickUser(v) \/ LeaveRoom(v)
        PROVE  Promoting(u)' => Promoting(u)
    BY <1>h, <2>2, <2>3, <2>4, <2>5, Decisions
  <2>6. ASSUME NEW b \in BOOLEAN, MuteSpeaker(v, b) \/ RaiseHand(v, b)
        PROVE  Promoting(u)' => Promoting(u)
    BY <1>h, <2>2, <2>3, <2>4, <2>6, Decisions
  <2>7. ASSUME JoinRoom(v)
        PROVE  Promoting(u)' => Promoting(u)
    <3>1. op'[Host] = op[Host]
      BY <2>7, StageAssumption DEF JoinRoom, Shape, People
    <3> QED BY <1>2, <3>1
  <2>8. Promoting(u)' => Promoting(u)
    BY <1>3, <2>5, <2>6, <2>7 DEF Ask
  <2> QED BY <1>1, <2>1, <2>8
<1>4. ASSUME NEW v \in Members, Lapse(v)
      PROVE  /\ IsSpeaker(u)' => IsSpeaker(u)
             /\ Promoting(u)' => Promoting(u)
  BY <1>2, <1>4 DEF Lapse, IsSpeaker, Visible, Shape
<1>5. ASSUME NEW v \in Members, ConnectMedia(v) \/ DropMedia(v)
      PROVE  /\ IsSpeaker(u)' => IsSpeaker(u)
             /\ Promoting(u)' => Promoting(u)
  BY <1>1, <1>2, <1>5 DEF ConnectMedia, DropMedia
<1>6. ASSUME NEW p \in People, Abort(p)
      PROVE  /\ IsSpeaker(u)' => IsSpeaker(u)
             /\ Promoting(u)' => Promoting(u)
  <2>1. OthersKept(p) /\ op'[p] = Idle /\ UNCHANGED <<entry, live>>
    BY <1>6, AbortFits DEF Abort
  <2>2. Promoting(u)' => Promoting(u)
    BY <1>h, <2>1, IdleIsOperation, NoOneIsNoMember DEF Promoting, OthersKept
  <2> QED BY <1>1, <2>1, <2>2
<1>7. ASSUME NEW p \in People, NEW v \in Members, Continue(p, v)
      PROVE  /\ IsSpeaker(u)' => IsSpeaker(u) \/ Promoting(u)
             /\ Promoting(u)' => Promoting(u)
  BY <1>7, ContinueAddsNobody
<1>8. CASE UNCHANGED vars
  BY <1>1, <1>2, <1>8 DEF vars
<1> QED BY <1>3, <1>4, <1>5, <1>6, <1>7, <1>8 DEF Next

\* The approval counts the stage while the host is at nothing else.
LEMMA ApprovalCounts ==
    ASSUME Shape, PlacesKept, disturbed = {}, NEW u \in Members, ApproveSpeaker(u)
    PROVE  IsFiniteSet(Staged') /\ Cardinality(Staged') <= MaxSpeakers
<1>1. Begin(Host, "approve", u, Approve1) /\ Cardinality(Speakers) < MaxSpeakers
  BY Decisions DEF ApproveSpeaker, HasFreeSlot
<1>2. op[Host] = Idle /\ UNCHANGED <<entry, live>>
  BY <1>1 DEF Begin
<1>3. op'[Host].who = u
  BY <1>1 DEF Begin, Shape, People
<1>4. Staged = Speakers
  BY <1>2, IdleIsOperation, NoOneIsNoMember DEF Staged
<1>5. Staged' \subseteq Speakers \cup {u}
  BY <1>2, <1>3 DEF Staged, Speakers, IsSpeaker, Visible
<1>6. IsFiniteSet(Speakers)
  BY <1>4 DEF PlacesKept
<1>7. /\ IsFiniteSet(Speakers \cup {u})
      /\ Cardinality(Speakers \cup {u}) \in {Cardinality(Speakers), Cardinality(Speakers) + 1}
  BY <1>6, FS_AddElement
<1>8. IsFiniteSet(Staged') /\ Cardinality(Staged') <= Cardinality(Speakers \cup {u})
  BY <1>5, <1>7, FS_Subset
<1>9. Cardinality(Speakers) \in Nat /\ Cardinality(Staged') \in Nat
  BY <1>6, <1>8, FS_CardinalityType
<1> QED BY <1>1, <1>7, <1>8, <1>9, StageAssumption

LEMMA StepKeepsPlaces ==
    ASSUME Shape, Undisturbed, PlacesKept, [Next]_vars
    PROVE  PlacesKept'
<1> SUFFICES ASSUME disturbed' = {}
             PROVE  IsFiniteSet(Staged') /\ Cardinality(Staged') <= MaxSpeakers
  BY DEF PlacesKept
<1>1. disturbed = {}
  BY DisturbanceStays
<1>2. IsFiniteSet(Staged) /\ Cardinality(Staged) <= MaxSpeakers
  BY <1>1 DEF PlacesKept
<1>3. CASE \E u \in Members : ApproveSpeaker(u)
  BY <1>1, <1>3, ApprovalCounts
<1>4. CASE \A u \in Members : ~ApproveSpeaker(u)
  <2>1. Staged' \subseteq Staged
    BY <1>1, <1>4, OthersAddNobody
  <2>2. IsFiniteSet(Staged') /\ Cardinality(Staged') <= Cardinality(Staged)
    BY <1>2, <2>1, FS_Subset
  <2>3. Cardinality(Staged) \in Nat /\ Cardinality(Staged') \in Nat
    BY <1>2, <2>2, FS_CardinalityType
  <2> QED BY <1>2, <2>2, <2>3, StageAssumption
<1> QED BY <1>3, <1>4

\* maxSpeakers is kept (ApproveSpeaker.ts:36-37) although it is counted some
\* steps before the promotion is written: for any number of members, finite or
\* not, and any number of places, as long as no two operations met on one
\* member.
THEOREM StageNeverOverflows == Spec => []StageLimit
<1>1. Init => PlacesKept
  <2> SUFFICES ASSUME Init PROVE PlacesKept
    OBVIOUS
  <2>1. Staged = {}
    BY IdleIsOperation, NoOneIsNoMember
    DEF Init, Staged, Speakers, IsSpeaker, Visible, People
  <2> QED BY <2>1, FS_EmptySet, StageAssumption DEF PlacesKept
<1>2. Shape /\ Undisturbed /\ PlacesKept /\ [Next]_vars => PlacesKept'
  BY StepKeepsPlaces
<1>3. PlacesKept => StageLimit
  <2> SUFFICES ASSUME PlacesKept, disturbed = {}
               PROVE  Cardinality(Speakers) <= MaxSpeakers
    BY DEF StageLimit
  <2>1. IsFiniteSet(Staged) /\ Cardinality(Staged) <= MaxSpeakers
    BY DEF PlacesKept
  <2>2. Speakers \subseteq Staged
    BY DEF Staged
  <2>3. IsFiniteSet(Speakers) /\ Cardinality(Speakers) <= Cardinality(Staged)
    BY <2>1, <2>2, FS_Subset
  <2>4. Cardinality(Staged) \in Nat /\ Cardinality(Speakers) \in Nat
    BY <2>1, <2>3, FS_CardinalityType
  <2> QED BY <2>1, <2>3, <2>4, StageAssumption
<1> QED BY <1>1, <1>2, <1>3, ShapeAlways, UndisturbedAlways, PTL DEF Spec

================================================================================
