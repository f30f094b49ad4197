------------------------------ MODULE ClientsProofs ----------------------------
(***************************************************************************)
(* The theorem about one tab of the web client, for any people, messages,  *)
(* SDK rooms and calls in flight and for any bounds: what the tab shows    *)
(* follows the room, and its audio is one connection.                      *)
(***************************************************************************)
EXTENDS MCClients, FiniteSetTheorems, WellFoundedInduction, TLAPS

\* A set of numbers has a least one.
LEMMA LeastOf ==
    ASSUME NEW T, T \subseteq Nat, T # {}
    PROVE  \E n \in T : \A m \in T : n <= m
<1>1. PICK n \in T : \A m \in T : ~(<<m, n>> \in OpToRel(<, Nat))
  BY WFMin, NatLessThanWellFounded
<1>2. \A m \in T : n \in Nat /\ m \in Nat /\ ~(m < n)
  BY <1>1 DEF OpToRel
<1> QED BY <1>2

--------------------------------------------------------------------------------
(* Lists. *)

Elem(x, list) == \E i \in 1..Len(list) : list[i] = x
Distinct(list) == \A i, j \in 1..Len(list) : list[i] = list[j] => i = j

LEMMA Elements ==
    ASSUME NEW S, NEW list \in Seq(S), NEW x
    PROVE  x \in Tab!ToSet(list) <=> Elem(x, list)
BY DEF Tab!ToSet, Elem

LEMMA Appended ==
    ASSUME NEW S, NEW list \in Seq(S), NEW x \in S
    PROVE  /\ Append(list, x) \in Seq(S)
           /\ Len(Append(list, x)) = Len(list) + 1 /\ Len(list) \in Nat
           /\ \A i \in 1..Len(list) : Append(list, x)[i] = list[i]
           /\ Append(list, x)[Len(list) + 1] = x
OBVIOUS

LEMMA Headed ==
    ASSUME NEW S, NEW list \in Seq(S), list # <<>>
    PROVE  /\ Tail(list) \in Seq(S) /\ Head(list) \in S /\ Head(list) = list[1]
           /\ Len(list) \in Nat \ {0} /\ Len(Tail(list)) = Len(list) - 1
           /\ \A i \in 1..Len(Tail(list)) : Tail(list)[i] = list[i + 1]
OBVIOUS

LEMMA AppendedElements ==
    ASSUME NEW S, NEW list \in Seq(S), NEW x \in S
    PROVE  /\ \A y : Elem(y, Append(list, x)) <=> Elem(y, list) \/ y = x
           /\ Distinct(list) /\ ~Elem(x, list) => Distinct(Append(list, x))
<1>0. /\ Len(Append(list, x)) = Len(list) + 1 /\ Len(list) \in Nat
      /\ \A i \in 1..Len(list) : Append(list, x)[i] = list[i]
      /\ Append(list, x)[Len(list) + 1] = x
  BY Appended
<1>1. \A i \in 1..Len(Append(list, x)) : i \in 1..Len(list) \/ i = Len(list) + 1
  BY <1>0
<1>2. \A i \in 1..Len(list) : i \in 1..Len(Append(list, x))
  BY <1>0
<1>3. Len(list) + 1 \in 1..Len(Append(list, x))
  BY <1>0
<1>4. ASSUME NEW y
      PROVE  Elem(y, Append(list, x)) <=> Elem(y, list) \/ y = x
  BY <1>0, <1>1, <1>2, <1>3 DEF Elem
<1>5. ASSUME Distinct(list), ~Elem(x, list)
      PROVE  Distinct(Append(list, x))
  <2> SUFFICES ASSUME NEW i \in 1..Len(Append(list, x)), NEW j \in 1..Len(Append(list, x)),
                      Append(list, x)[i] = Append(list, x)[j]
               PROVE  i = j
    BY DEF Distinct
  <2>1. CASE i \in 1..Len(list) /\ j \in 1..Len(list)
    BY <1>0, <1>5, <2>1 DEF Distinct
  <2>2. CASE i = Len(list) + 1 /\ j \in 1..Len(list)
    BY <1>0, <1>5, <2>2 DEF Elem
  <2>3. CASE i \in 1..Len(list) /\ j = Len(list) + 1
    BY <1>0, <1>5, <2>3 DEF Elem
  <2>4. CASE i = Len(list) + 1 /\ j = Len(list) + 1
    BY <2>4
  <2> QED BY <1>1, <2>1, <2>2, <2>3, <2>4
<1> QED BY <1>4, <1>5

\* A set is listed with no element twice.
LEMMA Listed ==
    ASSUME NEW T, IsFiniteSet(T), NEW S \in SUBSET T
    PROVE  /\ Tab!SetToSeq(S) \in Seq(T) /\ Distinct(Tab!SetToSeq(S))
           /\ \A x : Elem(x, Tab!SetToSeq(S)) <=> x \in S
<1> DEFINE n == Cardinality(S)
           list == Tab!SetToSeq(S)
<1>1. n \in Nat /\ ExistsBijection(1..n, S) /\ IsFiniteSet(S)
  BY FS_Subset, FS_CardinalityType
<1>2. Tab!Cardinality(S) = n
  BY DEF Tab!Cardinality, Cardinality
<1> HIDE DEF n
<1>3. PICK b \in [1..n -> S] : \A i, j \in 1..n : b[i] = b[j] => i = j
  BY <1>1 DEF ExistsBijection, Bijection, Injection, IsInjective
<1>4. list \in [1..n -> S] /\ \A i, j \in 1..n : list[i] = list[j] => i = j
  <2>1. Tab!IsInjective(b)
    BY <1>3 DEF Tab!IsInjective
  <2>2. list = CHOOSE g \in [1..n -> S] : Tab!IsInjective(g)
    BY <1>2 DEF Tab!SetToSeq
  <2>3. list \in [1..n -> S] /\ Tab!IsInjective(list)
    BY <1>3, <2>1, <2>2
  <2> HIDE DEF list
  <2> QED BY <2>3 DEF Tab!IsInjective
<1> HIDE DEF list
<1>5. list \in Seq(T) /\ Len(list) = n
  BY <1>1, <1>4
<1>6. Distinct(list)
  BY <1>4, <1>5 DEF Distinct
<1>7. list \in Injection(1..n, S)
  BY <1>4 DEF Injection, IsInjective
<1>8. list \in Surjection(1..n, S)
  <2>1. IsFiniteSet(1..n) /\ Cardinality(1..n) = n
    BY <1>1, FS_Interval
  <2> QED BY <1>1, <1>7, <2>1, FS_Injection DEF n
<1>9. \A x : Elem(x, list) <=> x \in S
  BY <1>4, <1>5, <1>8 DEF Elem, Surjection
<1> QED BY <1>5, <1>6, <1>9 DEF list

\* The function with which Without filters the first l of a list.
Keeps(f, list, o, l) ==
    f = [n \in 0..l |->
            IF n = 0 THEN <<>>
            ELSE IF list[n] = o THEN f[n - 1] ELSE Append(f[n - 1], list[n])]

LEMMA KeepsExists ==
    ASSUME NEW list, NEW o, NEW l \in Nat
    PROVE  \E f : Keeps(f, list, o, l)
<1> DEFINE T == {n \in Nat : ~\E f : Keeps(f, list, o, n)}
<1>1. SUFFICES ASSUME T # {}
               PROVE FALSE
  OBVIOUS
<1>2. PICK n \in T : \A m \in T : n <= m
  <2>1. T \subseteq Nat
    OBVIOUS
  <2> HIDE DEF T
  <2> QED BY <1>1, <2>1, LeastOf
<1>3. n # 0
  <2>1. Keeps([k \in 0..0 |-> <<>>], list, o, 0)
    BY DEF Keeps
  <2> QED BY <2>1
<1>4. n - 1 \in Nat /\ ~(n <= n - 1)
  BY <1>3
<1>5. PICK g : Keeps(g, list, o, n - 1)
  BY <1>2, <1>4
<1> DEFINE f == [k \in 0..n |-> IF k = n
                     THEN IF list[n] = o THEN g[n - 1] ELSE Append(g[n - 1], list[n])
                     ELSE g[k]]
<1>6. \A k \in 0..(n - 1) : f[k] = g[k]
  BY <1>3
<1>7. Keeps(f, list, o, n)
  <2>1. ASSUME NEW k \in 0..n
        PROVE  f[k] = IF k = 0 THEN <<>>
            ELSE IF list[k] = o THEN f[k - 1] ELSE Append(f[k - 1], list[k])
    <3>1. CASE k = n
      BY <1>3, <3>1
    <3>2. CASE k # n
      <4>1. k \in 0..(n - 1) /\ (k # 0 => k - 1 \in 0..(n - 1))
        BY <1>3, <3>2
      <4>2. f[k] = g[k] /\ (k # 0 => f[k - 1] = g[k - 1])
        BY <1>6, <4>1
      <4> HIDE DEF f
      <4> QED BY <1>5, <4>1, <4>2 DEF Keeps
    <3> QED BY <3>1, <3>2
  <2> QED BY <2>1 DEF Keeps
<1> QED BY <1>2, <1>7

\* Filtering somebody out of a list leaves the others, once each.
LEMMA Filtered ==
    ASSUME NEW S, NEW list \in Seq(S), NEW o
    PROVE  /\ Tab!Without(list, o) \in Seq(S)
           /\ \A x : Elem(x, Tab!Without(list, o)) <=> Elem(x, list) /\ x # o
           /\ Distinct(list) => Distinct(Tab!Without(list, o))
<1> DEFINE l == Len(list)
           f == CHOOSE g : Keeps(g, list, o, l)
           kept(n) == /\ f[n] \in Seq(S)
                      /\ \A x : Elem(x, f[n]) <=> x # o /\ \E i \in 1..n : list[i] = x
                      /\ Distinct(list) => Distinct(f[n])
           T == {n \in 0..l : ~kept(n)}
<1>0. l \in Nat /\ \A i \in 1..l : list[i] \in S
  OBVIOUS
<1>1. Keeps(f, list, o, l)
  BY <1>0, KeepsExists
<1>2. Tab!Without(list, o) = f[l]
  BY DEF Tab!Without, Keeps
<1> HIDE DEF l, f
<1>3. /\ f[0] = <<>>
      /\ \A n \in 1..l : f[n] = IF list[n] = o THEN f[n - 1] ELSE Append(f[n - 1], list[n])
  <2>1. \A n \in 0..l : f[n] = IF n = 0 THEN <<>>
                 ELSE IF list[n] = o THEN f[n - 1] ELSE Append(f[n - 1], list[n])
    BY <1>1 DEF Keeps
  <2>2. 0 \in 0..l /\ \A n \in 1..l : n \in 0..l /\ n # 0
    BY <1>0
  <2> QED BY <2>1, <2>2
<1>4. T = {}
  <2> SUFFICES ASSUME T # {}
               PROVE  FALSE
    OBVIOUS
  <2>1. PICK n \in T : \A m \in T : n <= m
    <3>1. T \subseteq Nat
      BY <1>0
    <3> HIDE DEF T
    <3> QED BY <3>1, LeastOf
  <2>2. n # 0
    <3>1. kept(0)
      BY <1>3 DEF Elem, Distinct
    <3> QED BY <3>1
  <2>3. n \in 1..l /\ n - 1 \in 0..l /\ n \in Nat /\ ~(n <= n - 1)
    BY <1>0, <2>2
  <2>4. kept(n - 1)
    BY <2>1, <2>3
  <2>5. \A x : (\E i \in 1..n : list[i] = x) <=> (\E i \in 1..(n - 1) : list[i] = x) \/ x = list[n]
    BY <2>3
  <2>6. CASE list[n] = o
    <3>1. f[n] = f[n - 1]
      BY <1>3, <2>3, <2>6
    <3> QED BY <2>1, <2>4, <2>5, <2>6, <3>1
  <2>7. CASE list[n] # o
    <3> DEFINE before == f[n - 1]
    <3>1. f[n] = Append(before, list[n]) /\ list[n] \in S
      BY <1>0, <1>3, <2>3, <2>7
    <3>2. before \in Seq(S)
      BY <2>4
    <3>3. /\ f[n] \in Seq(S)
          /\ \A x : Elem(x, f[n]) <=> Elem(x, before) \/ x = list[n]
          /\ Distinct(before) /\ ~Elem(list[n], before) => Distinct(f[n])
      <4> HIDE DEF before
      <4> QED BY <3>1, <3>2, Appended, AppendedElements
    <3>4. \A x : Elem(x, f[n]) <=> x # o /\ \E i \in 1..n : list[i] = x
      BY <2>4, <2>5, <2>7, <3>3
    <3>5. ASSUME Distinct(list)
          PROVE  Distinct(f[n])
      <4>1. ~\E i \in 1..(n - 1) : list[i] = list[n]
        BY <1>0, <2>3, <3>5 DEF Distinct, l
      <4>2. ~Elem(list[n], before)
        BY <2>4, <4>1
      <4> QED BY <2>4, <3>3, <3>5, <4>2
    <3>6. kept(n)
      BY <3>3, <3>4, <3>5
    <3> QED BY <2>1, <3>6
  <2> QED BY <2>6, <2>7
<1>5. kept(l)
  <2>1. l \in 0..l
    BY <1>0
  <2> HIDE DEF kept
  <2> QED BY <1>4, <2>1
<1> QED BY <1>2, <1>5 DEF Elem, l

--------------------------------------------------------------------------------
(* The room screen: Tab is RoomView with the names of MCClients. *)

Snapshots == [members : SUBSET Others, messages : SUBSET Messages]

PeopleNews == [kind : {"joined", "left"}, about : Others]
MessageNews == [kind : {"message"}, about : Messages]
StateNews == [kind : {"state"}, about : Snapshots]
ErrorNews == [kind : {"error"}, about : {"NOT_FOUND"}]
News == PeopleNews \cup MessageNews \cup StateNews \cup ErrorNews

Views == [known : BOOLEAN, members : Seq(Others), messages : Seq(Messages)]

RoomShape ==
    /\ others \subseteq Others /\ log \subseteq Messages
    /\ unsent \subseteq PeopleNews \cup MessageNews

ServerShape ==
    /\ present \in BOOLEAN /\ subscribed \in BOOLEAN /\ up \in BOOLEAN /\ missed \in BOOLEAN
    /\ cleanup \in {"none", "checking", "leaving"}
    /\ serving \in {"none", "online", "subscribed", "members", "read"}
    /\ late \in {"none", "join", "online"}
    /\ reading \in Snapshots

QueueShape ==
    /\ requests \in Seq({"join", "beat"}) /\ Len(requests) <= MaxQueue
    /\ events \in Seq(News) /\ Len(events) <= MaxQueue

ViewShape == view \in Views /\ Distinct(view.members) /\ Distinct(view.messages)

\* What is still to be broadcast says how things are: one person's events are sent in order.
InOrder ==
    /\ \A o \in Others : Tab!Pending({"joined"}, o) => o \in others
    /\ \A o \in Others : Tab!Pending({"left"}, o) => o \notin others
    /\ \A m \in Messages : Tab!Pending({"message"}, m) => m \in log

\* An event says whether somebody is there, or that a message was said.
Tells(e, o) == e.kind = "state" \/ (e.kind \in {"joined", "left"} /\ e.about = o)
Shows(e, o) == IF e.kind = "state" THEN o \in e.about.members ELSE e.kind = "joined"
Cites(e, m) == e.kind = "state" \/ (e.kind = "message" /\ e.about = m)
Quotes(e, m) == e.kind = "state" => m \in e.about.messages

\* The events on their way tell the truth in the end: the last of them about somebody does,
\* or the view where there is none.
LastTold(i, o) == Tells(events[i], o) /\ \A j \in 1..Len(events) : Tells(events[j], o) => j <= i
WillShow(o) ==
    /\ \A i \in 1..Len(events) : LastTold(i, o) => (Shows(events[i], o) <=> o \in others)
    /\ (\A i \in 1..Len(events) : ~Tells(events[i], o)) => (Elem(o, view.members) <=> o \in others)

LastCited(i, m) == Cites(events[i], m) /\ \A j \in 1..Len(events) : Cites(events[j], m) => j <= i
WillQuote(m) ==
    /\ \A i \in 1..Len(events) : LastCited(i, m) => (Quotes(events[i], m) <=> m \in log)
    /\ (\A i \in 1..Len(events) : ~Cites(events[i], m)) => (Elem(m, view.messages) <=> m \in log)

WillKnow == view.known \/ \E i \in 1..Len(events) : events[i].kind = "state"

\* Whom and what nothing is about that is still to be broadcast.
Told == {o \in Others \ Blocked : ~Tab!Pending({"joined", "left"}, o)}
Said == {m \in Messages : ~Tab!Pending({"message"}, m)}

\* A subscribed tab is told the truth, once its join is served,
Followed ==
    ~missed /\ subscribed /\ serving = "none" =>
        /\ WillKnow
        /\ \A o \in Told : WillShow(o)
        /\ \A m \in Said : WillQuote(m)

\* ... and the snapshot of a join is the truth until then.
Read ==
    ~missed =>
        /\ serving \in {"members", "read"} => \A o \in Told : o \in reading.members <=> o \in others
        /\ serving = "read" => \A m \in Said : m \in reading.messages <=> m \in log

TabInv ==
    /\ RoomShape /\ ServerShape /\ QueueShape /\ ViewShape
    /\ InOrder /\ Followed /\ Read

LEMMA NewsKinds ==
    ASSUME NEW e \in News
    PROVE  /\ e.kind \in {"joined", "left", "message", "state", "error"}
           /\ e.kind \in {"joined", "left"} => e.about \in Others
           /\ e.kind = "message" => e.about \in Messages
           /\ e.kind = "state" => e.about \in Snapshots
BY DEF News, PeopleNews, MessageNews, StateNews, ErrorNews

\* An event appended to the queue is the last word on what it is about.
LEMMA ToldLast ==
    ASSUME QueueShape, NEW e \in News, events' = Append(events, e), UNCHANGED view, NEW o,
           \/ Tells(e, o) /\ (Shows(e, o) <=> o \in others')
           \/ ~Tells(e, o) /\ (o \in others' <=> o \in others) /\ WillShow(o)
    PROVE  WillShow(o)'
<1> DEFINE n == Len(events)
<1>1. /\ n \in Nat /\ Len(events') = n + 1 /\ events'[n + 1] = e
      /\ \A i \in 1..n : events'[i] = events[i]
  BY Appended DEF QueueShape
<1>2. \A i : i \in 1..Len(events') <=> i \in 1..n \/ i = n + 1
  BY <1>1
<1>3. n + 1 \notin 1..n /\ \A i \in 1..n : i <= n + 1 /\ ~(n + 1 <= i)
  BY <1>1
<1> HIDE DEF n
<1>4. CASE Tells(e, o) /\ (Shows(e, o) <=> o \in others')
  <2>1. \A i \in 1..Len(events') : LastTold(i, o)' => i = n + 1
    BY <1>1, <1>2, <1>3, <1>4 DEF LastTold
  <2>2. ~\A i \in 1..Len(events') : ~Tells(events'[i], o)
    BY <1>1, <1>2, <1>4
  <2> QED BY <1>1, <1>4, <2>1, <2>2 DEF WillShow
<1>5. CASE ~Tells(e, o) /\ (o \in others' <=> o \in others) /\ WillShow(o)
  <2>1. \A i \in 1..Len(events') : LastTold(i, o)' => i \in 1..n /\ LastTold(i, o)
    BY <1>1, <1>2, <1>5 DEF LastTold, n
  <2>2. (\A i \in 1..Len(events') : ~Tells(events'[i], o)) =>
            \A i \in 1..Len(events) : ~Tells(events[i], o)
    BY <1>1, <1>2 DEF n
  <2> QED BY <1>1, <1>5, <2>1, <2>2 DEF WillShow, n
<1> QED BY <1>4, <1>5

\* ... of messages the same.
LEMMA CitedLast ==
    ASSUME QueueShape, NEW e \in News, events' = Append(events, e), UNCHANGED view, NEW m,
           \/ Cites(e, m) /\ (Quotes(e, m) <=> m \in log')
           \/ ~Cites(e, m) /\ (m \in log' <=> m \in log) /\ WillQuote(m)
    PROVE  WillQuote(m)'
<1> DEFINE n == Len(events)
<1>1. /\ n \in Nat /\ Len(events') = n + 1 /\ events'[n + 1] = e
      /\ \A i \in 1..n : events'[i] = events[i]
  BY Appended DEF QueueShape
<1>2. \A i : i \in 1..Len(events') <=> i \in 1..n \/ i = n + 1
  BY <1>1
<1>3. n + 1 \notin 1..n /\ \A i \in 1..n : i <= n + 1 /\ ~(n + 1 <= i)
  BY <1>1
<1> HIDE DEF n
<1>4. CASE Cites(e, m) /\ (Quotes(e, m) <=> m \in log')
  <2>1. \A i \in 1..Len(events') : LastCited(i, m)' => i = n + 1
    BY <1>1, <1>2, <1>3, <1>4 DEF LastCited
  <2>2. ~\A i \in 1..Len(events') : ~Cites(events'[i], m)
    BY <1>1, <1>2, <1>4
  <2> QED BY <1>1, <1>4, <2>1, <2>2 DEF WillQuote
<1>5. CASE ~Cites(e, m) /\ (m \in log' <=> m \in log) /\ WillQuote(m)
  <2>1. \A i \in 1..Len(events') : LastCited(i, m)' => i \in 1..n /\ LastCited(i, m)
    BY <1>1, <1>2, <1>5 DEF LastCited, n
  <2>2. (\A i \in 1..Len(events') : ~Cites(events'[i], m)) =>
            \A i \in 1..Len(events) : ~Cites(events[i], m)
    BY <1>1, <1>2 DEF n
  <2> QED BY <1>1, <1>5, <2>1, <2>2 DEF WillQuote, n
<1> QED BY <1>4, <1>5

\* The event at the head of the queue is shown: what it is about is as it says, the rest as it
\* was.
LEMMA ToldNext ==
    ASSUME QueueShape, events # <<>>, events' = Tail(events), UNCHANGED others, NEW o, WillShow(o),
           Tells(Head(events), o) =>
               \/ Elem(o, view'.members) <=> Shows(Head(events), o)
               \/ \E i \in 1..Len(events') : Tells(events'[i], o),
           ~Tells(Head(events), o) => (Elem(o, view'.members) <=> Elem(o, view.members))
    PROVE  WillShow(o)'
<1> DEFINE n == Len(events')
<1>1. /\ n \in Nat /\ Len(events) = n + 1 /\ Head(events) = events[1]
      /\ \A i \in 1..n : events'[i] = events[i + 1]
  BY Headed DEF QueueShape
<1>2. \A i \in 1..Len(events) : i = 1 \/ i - 1 \in 1..n
  BY <1>1
<1>3. \A i \in 1..n : i + 1 \in 1..Len(events) /\ ~(i + 1 <= 1)
  BY <1>1
<1>4. \A i \in 1..Len(events) : i # 1 => events[i] = events'[i - 1] /\ i - 1 \in 1..n
  <2> SUFFICES ASSUME NEW i \in 1..Len(events), i # 1
               PROVE  events[i] = events'[i - 1] /\ i - 1 \in 1..n
    OBVIOUS
  <2>1. i - 1 \in 1..n /\ (i - 1) + 1 = i
    BY <1>1, <1>2
  <2> QED BY <1>1, <2>1
<1>5. 1 \in 1..Len(events)
  BY <1>1
<1>6. ASSUME NEW i \in 1..n, LastTold(i, o)'
      PROVE  Shows(events'[i], o) <=> o \in others'
  <2>1. Tells(events[i + 1], o) /\ i + 1 \in 1..Len(events)
    BY <1>1, <1>3, <1>6 DEF LastTold
  <2>2. ASSUME NEW j \in 1..Len(events), Tells(events[j], o)
        PROVE  j <= i + 1
    <3>1. CASE j = 1
      BY <1>1, <3>1
    <3>2. CASE j # 1
      <4>1. j - 1 \in 1..n /\ Tells(events'[j - 1], o)
        BY <1>4, <2>2, <3>2
      <4>2. j - 1 <= i
        BY <1>6, <4>1 DEF LastTold
      <4> QED BY <1>1, <4>1, <4>2
    <3> QED BY <3>1, <3>2
  <2>3. LastTold(i + 1, o)
    BY <2>1, <2>2 DEF LastTold
  <2> QED BY <1>1, <2>1, <2>3 DEF WillShow
<1>7. ASSUME \A i \in 1..n : ~Tells(events'[i], o)
      PROVE  Elem(o, view'.members) <=> o \in others'
  <2>1. \A j \in 1..Len(events) : Tells(events[j], o) => j = 1
    BY <1>4, <1>7
  <2>2. CASE Tells(Head(events), o)
    <3>1. LastTold(1, o)
      BY <1>1, <2>1, <2>2 DEF LastTold
    <3>2. Shows(events[1], o) <=> o \in others
      BY <1>5, <3>1 DEF WillShow
    <3> QED BY <1>1, <1>7, <2>2, <3>2
  <2>3. CASE ~Tells(Head(events), o)
    <3>1. \A j \in 1..Len(events) : ~Tells(events[j], o)
      BY <1>1, <2>1, <2>3
    <3> QED BY <2>3, <3>1 DEF WillShow
  <2> QED BY <2>2, <2>3
<1> QED BY <1>6, <1>7 DEF WillShow

LEMMA CitedNext ==
    ASSUME QueueShape, events # <<>>, events' = Tail(events), UNCHANGED log, NEW m, WillQuote(m),
           Cites(Head(events), m) =>
               \/ Elem(m, view'.messages) <=> Quotes(Head(events), m)
               \/ \E i \in 1..Len(events') : Cites(events'[i], m),
           ~Cites(Head(events), m) => (Elem(m, view'.messages) <=> Elem(m, view.messages))
    PROVE  WillQuote(m)'
<1> DEFINE n == Len(events')
<1>1. /\ n \in Nat /\ Len(events) = n + 1 /\ Head(events) = events[1]
      /\ \A i \in 1..n : events'[i] = events[i + 1]
  BY Headed DEF QueueShape
<1>2. \A i \in 1..Len(events) : i = 1 \/ i - 1 \in 1..n
  BY <1>1
<1>3. \A i \in 1..n : i + 1 \in 1..Len(events) /\ ~(i + 1 <= 1)
  BY <1>1
<1>4. \A i \in 1..Len(events) : i # 1 => events[i] = events'[i - 1] /\ i - 1 \in 1..n
  <2> SUFFICES ASSUME NEW i \in 1..Len(events), i # 1
               PROVE  events[i] = events'[i - 1] /\ i - 1 \in 1..n
    OBVIOUS
  <2>1. i - 1 \in 1..n /\ (i - 1) + 1 = i
    BY <1>1, <1>2
  <2> QED BY <1>1, <2>1
<1>5. 1 \in 1..Len(events)
  BY <1>1
<1>6. ASSUME NEW i \in 1..n, LastCited(i, m)'
      PROVE  Quotes(events'[i], m) <=> m \in log'
  <2>1. Cites(events[i + 1], m) /\ i + 1 \in 1..Len(events)
    BY <1>1, <1>3, <1>6 DEF LastCited
  <2>2. ASSUME NEW j \in 1..Len(events), Cites(events[j], m)
        PROVE  j <= i + 1
    <3>1. CASE j = 1
      BY <1>1, <3>1
    <3>2. CASE j # 1
      <4>1. j - 1 \in 1..n /\ Cites(events'[j - 1], m)
        BY <1>4, <2>2, <3>2
      <4>2. j - 1 <= i
        BY <1>6, <4>1 DEF LastCited
      <4> QED BY <1>1, <4>1, <4>2
    <3> QED BY <3>1, <3>2
  <2>3. LastCited(i + 1, m)
    BY <2>1, <2>2 DEF LastCited
  <2> QED BY <1>1, <2>1, <2>3 DEF WillQuote
<1>7. ASSUME \A i \in 1..n : ~Cites(events'[i], m)
      PROVE  Elem(m, view'.messages) <=> m \in log'
  <2>1. \A j \in 1..Len(events) : Cites(events[j], m) => j = 1
    BY <1>4, <1>7
  <2>2. CASE Cites(Head(events), m)
    <3>1. LastCited(1, m)
      BY <1>1, <2>1, <2>2 DEF LastCited
    <3>2. Quotes(events[1], m) <=> m \in log
      BY <1>5, <3>1 DEF WillQuote
    <3> QED BY <1>1, <1>7, <2>2, <3>2
  <2>3. CASE ~Cites(Head(events), m)
    <3>1. \A j \in 1..Len(events) : ~Cites(events[j], m)
      BY <1>1, <2>1, <2>3
    <3> QED BY <2>3, <3>1 DEF WillQuote
  <2> QED BY <2>2, <2>3
<1> QED BY <1>6, <1>7 DEF WillQuote

\* An unchanged queue and view say the same.
LEMMA ToldStill ==
    ASSUME UNCHANGED <<events, view>>
    PROVE  /\ WillKnow => WillKnow'
           /\ \A o : (o \in others' <=> o \in others) /\ WillShow(o) => WillShow(o)'
           /\ \A m : (m \in log' <=> m \in log) /\ WillQuote(m) => WillQuote(m)'
BY DEF WillKnow, WillShow, WillQuote, LastTold, LastCited

\* Showing an event.
ShownOf(e) ==
    CASE e.kind = "state" -> Tab!Snapshot(view, e.about)
      [] e.kind = "joined" -> Tab!ShowArrival(view, e.about)
      [] e.kind = "left" -> Tab!ShowDeparture(view, e.about)
      [] OTHER -> Tab!ShowMessage(view, e.about)

LEMMA ViewMoves ==
    ASSUME ViewShape, NEW e \in News, e.kind # "error", view' = ShownOf(e)
    PROVE  /\ ViewShape'
           /\ view'.known <=> view.known \/ e.kind = "state"
           /\ \A o \in Others :
                /\ Tells(e, o) /\ (view.known \/ e.kind # "joined") =>
                       (Elem(o, view'.members) <=> Shows(e, o))
                /\ ~Tells(e, o) => (Elem(o, view'.members) <=> Elem(o, view.members))
           /\ \A m \in Messages :
                /\ Cites(e, m) => (Elem(m, view'.messages) <=> Quotes(e, m))
                /\ ~Cites(e, m) => (Elem(m, view'.messages) <=> Elem(m, view.messages))
<1>0. /\ view \in Views /\ Distinct(view.members) /\ Distinct(view.messages)
      /\ view.members \in Seq(Others) /\ view.messages \in Seq(Messages)
      /\ view.known \in BOOLEAN
  BY DEF ViewShape, Views
<1>1. CASE e.kind = "state"
  <2> DEFINE people == Tab!SetToSeq(e.about.members)
             said == Tab!SetToSeq(e.about.messages)
  <2>1. e.about.members \in SUBSET Others /\ e.about.messages \in SUBSET Messages
    BY <1>1, NewsKinds DEF Snapshots
  <2>2. /\ people \in Seq(Others) /\ Distinct(people)
        /\ \A x : Elem(x, people) <=> x \in e.about.members
    BY <2>1, Listed, ClientsAssumption
  <2>3. /\ said \in Seq(Messages) /\ Distinct(said)
        /\ \A x : Elem(x, said) <=> x \in e.about.messages
    BY <2>1, Listed, ClientsAssumption
  <2>4. view' = [known |-> TRUE, members |-> people, messages |-> said]
    BY <1>1 DEF ShownOf, Tab!Snapshot
  <2> HIDE DEF people, said
  <2>5. view'.known /\ view'.members = people /\ view'.messages = said /\ view' \in Views
    BY <2>2, <2>3, <2>4 DEF Views
  <2>6. ViewShape'
    BY <2>2, <2>3, <2>5 DEF ViewShape
  <2> QED BY <1>1, <2>2, <2>3, <2>5, <2>6 DEF Tells, Shows, Cites, Quotes
<1>2. CASE e.kind = "joined"
  <2> DEFINE o == e.about
  <2>1. o \in Others
    BY <1>2, NewsKinds
  <2>2. view' = Tab!ShowArrival(view, o)
    BY <1>2 DEF ShownOf
  <2>3. o \in Tab!ToSet(view.members) <=> Elem(o, view.members)
    BY <1>0, Elements
  <2> HIDE DEF o
  <2>4. CASE ~view.known \/ Elem(o, view.members)
    <3>1. view' = view
      BY <2>2, <2>3, <2>4 DEF Tab!ShowArrival
    <3>2. ViewShape'
      BY <3>1 DEF ViewShape
    <3> QED BY <1>2, <2>4, <3>1, <3>2 DEF Tells, Shows, Cites, Quotes, o
  <2>5. CASE view.known /\ ~Elem(o, view.members)
    <3> DEFINE longer == Append(view.members, o)
    <3>1. view' = [view EXCEPT !.members = longer]
      BY <2>2, <2>3, <2>5 DEF Tab!ShowArrival
    <3>2. /\ longer \in Seq(Others) /\ Distinct(longer)
          /\ \A y : Elem(y, longer) <=> Elem(y, view.members) \/ y = o
      BY <1>0, <2>1, <2>5, Appended, AppendedElements
    <3> HIDE DEF longer
    <3>3. /\ view'.known = view.known /\ view'.members = longer /\ view'.messages = view.messages
          /\ view' \in Views
      BY <1>0, <3>1, <3>2 DEF Views
    <3>4. ViewShape'
      BY <1>0, <3>2, <3>3 DEF ViewShape
    <3> QED BY <1>2, <2>5, <3>2, <3>3, <3>4 DEF Tells, Shows, Cites, Quotes, o
  <2> QED BY <1>0, <2>4, <2>5
<1>3. CASE e.kind = "left"
  <2> DEFINE o == e.about
             fewer == Tab!Without(view.members, o)
  <2>1. view' = [view EXCEPT !.members = fewer]
    BY <1>3 DEF ShownOf, Tab!ShowDeparture
  <2>2. /\ fewer \in Seq(Others) /\ Distinct(fewer)
        /\ \A y : Elem(y, fewer) <=> Elem(y, view.members) /\ y # o
    BY <1>0, Filtered
  <2> HIDE DEF fewer
  <2>3. /\ view'.known = view.known /\ view'.members = fewer /\ view'.messages = view.messages
        /\ view' \in Views
    BY <1>0, <2>1, <2>2 DEF Views
  <2>4. ViewShape'
    BY <1>0, <2>2, <2>3 DEF ViewShape
  <2> QED BY <1>3, <2>2, <2>3, <2>4 DEF Tells, Shows, Cites, Quotes
<1>4. CASE e.kind = "message"
  <2> DEFINE m == e.about
  <2>1. m \in Messages
    BY <1>4, NewsKinds
  <2>2. view' = Tab!ShowMessage(view, m)
    BY <1>4 DEF ShownOf
  <2>3. m \in Tab!ToSet(view.messages) <=> Elem(m, view.messages)
    BY <1>0, Elements
  <2> HIDE DEF m
  <2>4. CASE Elem(m, view.messages)
    <3>1. view' = view
      BY <2>2, <2>3, <2>4 DEF Tab!ShowMessage
    <3>2. ViewShape'
      BY <3>1 DEF ViewShape
    <3> QED BY <1>4, <2>4, <3>1, <3>2 DEF Tells, Shows, Cites, Quotes, m
  <2>5. CASE ~Elem(m, view.messages)
    <3> DEFINE longer == Append(view.messages, m)
    <3>1. view' = [view EXCEPT !.messages = longer]
      BY <2>2, <2>3, <2>5 DEF Tab!ShowMessage
    <3>2. /\ longer \in Seq(Messages) /\ Distinct(longer)
          /\ \A y : Elem(y, longer) <=> Elem(y, view.messages) \/ y = m
      BY <1>0, <2>1, <2>5, Appended, AppendedElements
    <3> HIDE DEF longer
    <3>3. /\ view'.known = view.known /\ view'.messages = longer /\ view'.members = view.members
          /\ view' \in Views
      BY <1>0, <3>1, <3>2 DEF Views
    <3>4. ViewShape'
      BY <1>0, <3>2, <3>3 DEF ViewShape
    <3> QED BY <1>4, <2>5, <3>2, <3>3, <3>4 DEF Tells, Shows, Cites, Quotes, m
  <2> QED BY <2>4, <2>5
<1> QED BY <1>1, <1>2, <1>3, <1>4, NewsKinds

LEMMA ShowKeeps ==
    ASSUME TabInv, Tab!Show
    PROVE  TabInv'
<1>0. RoomShape /\ ServerShape /\ QueueShape /\ ViewShape /\ InOrder /\ Followed /\ Read
  BY DEF TabInv
<1> DEFINE e == Head(events)
<1>1. /\ events # <<>> /\ e.kind # "error" /\ view' = ShownOf(e) /\ events' = Tail(events)
      /\ UNCHANGED <<others, log, unsent, moves, present, subscribed, cleanup, serving, reading,
                     late, missed, up, requests, drops>>
  BY DEF Tab!Show, ShownOf, Tab!roomVars, Tab!serverVars
<1>2. /\ e \in News /\ events' \in Seq(News) /\ Len(events') <= MaxQueue
      /\ Len(events) \in Nat \ {0} /\ e = events[1]
      /\ Len(events') = Len(events) - 1
      /\ \A i \in 1..Len(events') : events'[i] = events[i + 1]
  <2>1. /\ e \in News /\ events' \in Seq(News) /\ e = events[1]
        /\ Len(events) \in Nat \ {0} /\ Len(events') = Len(events) - 1
        /\ \A i \in 1..Len(events') : events'[i] = events[i + 1]
    BY <1>0, <1>1, Headed DEF QueueShape
  <2> QED BY <1>0, <2>1, ClientsAssumption DEF QueueShape
<1> HIDE DEF e
<1>3. /\ ViewShape'
      /\ view'.known <=> view.known \/ e.kind = "state"
      /\ \A o \in Others :
           /\ Tells(e, o) /\ (view.known \/ e.kind # "joined") =>
                  (Elem(o, view'.members) <=> Shows(e, o))
           /\ ~Tells(e, o) => (Elem(o, view'.members) <=> Elem(o, view.members))
      /\ \A m \in Messages :
           /\ Cites(e, m) => (Elem(m, view'.messages) <=> Quotes(e, m))
           /\ ~Cites(e, m) => (Elem(m, view'.messages) <=> Elem(m, view.messages))
  BY <1>0, <1>1, <1>2, ViewMoves
<1>4. RoomShape' /\ ServerShape' /\ QueueShape' /\ InOrder' /\ Read'
  <2>1. RoomShape' /\ ServerShape' /\ QueueShape'
    BY <1>0, <1>1, <1>2 DEF RoomShape, ServerShape, QueueShape
  <2>2. InOrder'
    BY <1>0, <1>1 DEF InOrder, Tab!Pending
  <2>3. Read'
    BY <1>0, <1>1 DEF Read, Told, Said, Tab!Pending
  <2> QED BY <2>1, <2>2, <2>3
<1>5. Followed'
  <2> SUFFICES ASSUME ~missed, subscribed, serving = "none"
               PROVE  /\ WillKnow' /\ \A o \in Told' : WillShow(o)'
                      /\ \A m \in Said' : WillQuote(m)'
    BY <1>1 DEF Followed
  <2>1. WillKnow /\ (\A o \in Told : WillShow(o)) /\ (\A m \in Said : WillQuote(m))
    BY <1>0 DEF Followed
  <2>2. Told' = Told /\ Said' = Said /\ Told \subseteq Others /\ Said \subseteq Messages
    BY <1>1 DEF Told, Said, Tab!Pending
  <2>3. view.known \/ e.kind = "state" \/ \E i \in 1..Len(events') : events'[i].kind = "state"
    <3>1. CASE view.known
      BY <3>1
    <3>2. CASE ~view.known
      <4>1. PICK j \in 1..Len(events) : events[j].kind = "state"
        BY <2>1, <3>2 DEF WillKnow
      <4>2. CASE j = 1
        BY <1>2, <4>1, <4>2
      <4>3. CASE j # 1
        <5>1. j - 1 \in 1..Len(events') /\ (j - 1) + 1 = j
          BY <1>2, <4>3
        <5> QED BY <1>2, <4>1, <5>1
      <4> QED BY <4>2, <4>3
    <3> QED BY <3>1, <3>2
  <2>4. WillKnow'
    BY <1>3, <2>3 DEF WillKnow
  <2>5. ASSUME NEW o \in Told
        PROVE  WillShow(o)'
    <3>1. Tells(e, o) => \/ Elem(o, view'.members) <=> Shows(e, o)
                         \/ \E i \in 1..Len(events') : Tells(events'[i], o)
      <4>1. CASE view.known \/ e.kind # "joined"
        BY <1>3, <2>2, <4>1
      <4>2. CASE ~view.known /\ e.kind = "joined"
        <5>1. \E i \in 1..Len(events') : events'[i].kind = "state"
          BY <2>3, <4>2
        <5> QED BY <5>1 DEF Tells
      <4> QED BY <4>1, <4>2
    <3>2. ~Tells(e, o) => (Elem(o, view'.members) <=> Elem(o, view.members))
      BY <1>3, <2>2
    <3> QED BY <1>0, <1>1, <2>1, <3>1, <3>2, ToldNext DEF e
  <2>6. ASSUME NEW m \in Said
        PROVE  WillQuote(m)'
    <3>1. /\ Cites(e, m) => (Elem(m, view'.messages) <=> Quotes(e, m))
          /\ ~Cites(e, m) => (Elem(m, view'.messages) <=> Elem(m, view.messages))
      BY <1>3, <2>2
    <3> QED BY <1>0, <1>1, <2>1, <3>1, CitedNext DEF e
  <2> QED BY <2>2, <2>4, <2>5, <2>6
<1> QED BY <1>3, <1>4, <1>5 DEF TabInv


\* What nothing happened to is followed, and read, as before.
LEMMA StillFollowed ==
    ASSUME Followed, UNCHANGED <<events, view>>,
           ~missed' /\ subscribed' /\ serving' = "none" =>
               ~missed /\ subscribed /\ serving = "none",
           Told' \subseteq Told, \A o \in Told' : o \in others' <=> o \in others,
           Said' \subseteq Said, \A m \in Said' : m \in log' <=> m \in log
    PROVE  Followed'
<1> SUFFICES ASSUME ~missed', subscribed', serving' = "none"
             PROVE  /\ WillKnow' /\ \A o \in Told' : WillShow(o)'
                    /\ \A m \in Said' : WillQuote(m)'
  BY DEF Followed
<1>1. WillKnow /\ (\A o \in Told : WillShow(o)) /\ (\A m \in Said : WillQuote(m))
  BY DEF Followed
<1> QED BY <1>1, ToldStill

LEMMA StillRead ==
    ASSUME Read, ~missed' => ~missed,
           serving' \in {"members", "read"} => serving' = serving /\ reading' = reading,
           Told' \subseteq Told, \A o \in Told' : o \in others' <=> o \in others,
           Said' \subseteq Said, \A m \in Said' : m \in log' <=> m \in log
    PROVE  Read'
<1> SUFFICES ASSUME ~missed'
             PROVE  /\ serving' \in {"members", "read"} =>
                           \A o \in Told' : o \in reading'.members <=> o \in others'
                    /\ serving' = "read" => \A m \in Said' : m \in reading'.messages <=> m \in log'
  BY DEF Read
<1>1. CASE serving' \in {"members", "read"}
  BY <1>1 DEF Read
<1>2. CASE serving' \notin {"members", "read"}
  BY <1>2
<1> QED BY <1>1, <1>2

\* The same people and messages are told and said as long as nothing is broadcast.
LEMMA StillTold ==
    ASSUME UNCHANGED unsent
    PROVE  Told' = Told /\ Said' = Said /\ (InOrder /\ UNCHANGED <<others, log>> => InOrder')
BY DEF Told, Said, InOrder, Tab!Pending

\* Somebody comes or goes, and it is to be broadcast.
LEMMA MoveKeeps ==
    ASSUME TabInv, NEW o \in Others, Tab!Arrive(o) \/ Tab!Depart(o)
    PROVE  TabInv'
<1>0. /\ RoomShape /\ ServerShape /\ QueueShape /\ ViewShape
      /\ InOrder /\ Followed /\ Read
  BY DEF TabInv
<1>1. UNCHANGED <<log, present, subscribed, cleanup, serving, reading, late, missed, up, requests,
                  events, view, drops>>
  BY DEF Tab!Arrive, Tab!Depart, Tab!serverVars
<1>2. \/ others' = others \cup {o} /\ unsent' = unsent \cup {Tab!Event("joined", o)}
      \/ others' = others \ {o} /\ unsent' = unsent \cup {Tab!Event("left", o)}
  BY DEF Tab!Arrive, Tab!Depart
<1>3. ~Tab!Pending({"joined", "left"}, o)
  BY DEF Tab!Arrive, Tab!Depart
<1>4. PICK k \in {"joined", "left"} :
          /\ unsent' = unsent \cup {Tab!Event(k, o)}
          /\ others' = IF k = "joined" THEN others \cup {o} ELSE others \ {o}
  BY <1>2
<1>5. \A kinds, p : Tab!Pending(kinds, p)' <=> Tab!Pending(kinds, p) \/ (k \in kinds /\ p = o)
  <2> DEFINE e == Tab!Event(k, o)
  <2>1. e.kind = k /\ e.about = o
    BY DEF Tab!Event
  <2> HIDE DEF e
  <2>2. \A d : d \in unsent' <=> d \in unsent \/ d = e
    BY <1>4 DEF e
  <2> QED BY <2>1, <2>2 DEF Tab!Pending
<1>6. RoomShape' /\ ServerShape' /\ QueueShape' /\ ViewShape'
  <2>1. Tab!Event(k, o) \in PeopleNews
    BY DEF PeopleNews, Tab!Event
  <2> QED BY <1>0, <1>1, <1>4, <2>1 DEF RoomShape, ServerShape, QueueShape, ViewShape
<1>7. InOrder'
  <2>1. \A p \in Others : Tab!Pending({"joined"}, p)' => p \in others'
    <3> SUFFICES ASSUME NEW p \in Others, Tab!Pending({"joined"}, p)'
                 PROVE  p \in others'
      OBVIOUS
    <3>1. CASE p = o /\ k = "joined"
      BY <1>4, <3>1
    <3>2. CASE Tab!Pending({"joined"}, p)
      <4>1. p \in others /\ p # o
        BY <1>0, <1>3, <3>2 DEF InOrder, Tab!Pending
      <4> QED BY <1>4, <4>1
    <3> QED BY <1>5, <3>1, <3>2
  <2>2. \A p \in Others : Tab!Pending({"left"}, p)' => p \notin others'
    <3> SUFFICES ASSUME NEW p \in Others, Tab!Pending({"left"}, p)'
                 PROVE  p \notin others'
      OBVIOUS
    <3>1. CASE p = o /\ k = "left"
      BY <1>4, <3>1
    <3>2. CASE Tab!Pending({"left"}, p)
      <4>1. p \notin others /\ p # o
        BY <1>0, <1>3, <3>2 DEF InOrder, Tab!Pending
      <4> QED BY <1>4, <4>1
    <3> QED BY <1>5, <3>1, <3>2
  <2>3. \A m \in Messages : Tab!Pending({"message"}, m)' => m \in log'
    BY <1>0, <1>1, <1>5 DEF InOrder
  <2> QED BY <2>1, <2>2, <2>3 DEF InOrder
<1>8. /\ Told' \subseteq Told /\ \A p \in Told' : p \in others' <=> p \in others
      /\ Said' \subseteq Said /\ \A m \in Said' : m \in log' <=> m \in log
  <2>1. Told' \subseteq Told \ {o} /\ Said' \subseteq Said
    BY <1>5 DEF Told, Said
  <2> QED BY <1>1, <1>4, <2>1
<1>9. Followed'
  BY <1>0, <1>1, <1>8, StillFollowed
<1>10. Read'
  BY <1>0, <1>1, <1>8, StillRead
<1> QED BY <1>6, <1>7, <1>9, <1>10 DEF TabInv

\* Somebody says something, and it is to be broadcast.
LEMMA SendChatMessageKeeps ==
    ASSUME TabInv, NEW m \in Messages, Tab!SendChatMessage(m)
    PROVE  TabInv'
<1>0. /\ RoomShape /\ ServerShape /\ QueueShape /\ ViewShape
      /\ InOrder /\ Followed /\ Read
  BY DEF TabInv
<1>1. /\ UNCHANGED <<others, present, subscribed, cleanup, serving, reading, late, missed, up,
                     requests, events, view, drops>>
      /\ log' = log \cup {m} /\ unsent' = unsent \cup {Tab!Event("message", m)}
  BY DEF Tab!SendChatMessage, Tab!serverVars
<1>2. \A kinds, p :
          Tab!Pending(kinds, p)' <=> Tab!Pending(kinds, p) \/ ("message" \in kinds /\ p = m)
  <2> DEFINE e == Tab!Event("message", m)
  <2>1. e.kind = "message" /\ e.about = m
    BY DEF Tab!Event
  <2> HIDE DEF e
  <2>2. \A d : d \in unsent' <=> d \in unsent \/ d = e
    BY <1>1 DEF e
  <2> QED BY <2>1, <2>2 DEF Tab!Pending
<1>3. RoomShape' /\ ServerShape' /\ QueueShape' /\ ViewShape'
  <2>1. Tab!Event("message", m) \in MessageNews
    BY DEF MessageNews, Tab!Event
  <2> QED BY <1>0, <1>1, <2>1 DEF RoomShape, ServerShape, QueueShape, ViewShape
<1>4. InOrder'
  BY <1>0, <1>1, <1>2 DEF InOrder
<1>5. /\ Told' \subseteq Told /\ \A p \in Told' : p \in others' <=> p \in others
      /\ Said' \subseteq Said /\ \A n \in Said' : n \in log' <=> n \in log
  <2>1. Told' \subseteq Told /\ Said' \subseteq Said \ {m}
    BY <1>2 DEF Told, Said
  <2> QED BY <1>1, <2>1
<1>6. Followed'
  BY <1>0, <1>1, <1>5, StillFollowed
<1>7. Read'
  BY <1>0, <1>1, <1>5, StillRead
<1> QED BY <1>3, <1>4, <1>6, <1>7 DEF TabInv

\* An event is broadcast: it is told to a subscribed tab.
LEMMA EmitToRoomKeeps ==
    ASSUME TabInv, NEW e \in unsent, Tab!EmitToRoom(e)
    PROVE  TabInv'
<1>0. /\ RoomShape /\ ServerShape /\ QueueShape /\ ViewShape
      /\ InOrder /\ Followed /\ Read
  BY DEF TabInv
<1>1. /\ UNCHANGED <<others, log, present, subscribed, cleanup, serving, reading, late, up,
                     requests, view, drops>>
      /\ unsent' = unsent \ {e}
      /\ missed' = (missed \/ serving \in {"members", "read"})
      /\ subscribed => Len(events) < MaxQueue /\ events' = Append(events, e)
      /\ ~subscribed => events' = events
  BY DEF Tab!EmitToRoom
<1>2. e \in News /\ e \in PeopleNews \cup MessageNews
  BY <1>0 DEF RoomShape, News
<1>3. \A kinds, p :
          Tab!Pending(kinds, p) <=> Tab!Pending(kinds, p)' \/ (e.kind \in kinds /\ p = e.about)
  BY <1>1 DEF Tab!Pending
<1>4. RoomShape' /\ ServerShape' /\ QueueShape' /\ ViewShape'
  <2>1. RoomShape' /\ ViewShape'
    BY <1>0, <1>1 DEF RoomShape, ViewShape
  <2>2. ServerShape'
    BY <1>0, <1>1 DEF ServerShape
  <2>3. QueueShape'
    <3>1. CASE subscribed
      <4>1. events \in Seq(News) /\ Len(events) \in Nat
        BY <1>0 DEF QueueShape
      <4>2. events' \in Seq(News) /\ Len(events') = Len(events) + 1
        BY <1>1, <1>2, <3>1, <4>1, Appended
      <4> QED BY <1>0, <1>1, <3>1, <4>1, <4>2, ClientsAssumption DEF QueueShape
    <3>2. CASE ~subscribed
      BY <1>0, <1>1, <3>2 DEF QueueShape
    <3> QED BY <3>1, <3>2
  <2> QED BY <2>1, <2>2, <2>3
<1>5. InOrder'
  BY <1>0, <1>1, <1>3 DEF InOrder
<1>6. Read'
  BY <1>1 DEF Read
<1>7. Followed'
  <2> SUFFICES ASSUME ~missed', subscribed', serving' = "none"
               PROVE  /\ WillKnow' /\ \A o \in Told' : WillShow(o)'
                      /\ \A m \in Said' : WillQuote(m)'
    BY DEF Followed
  <2>1. WillKnow /\ (\A o \in Told : WillShow(o)) /\ (\A m \in Said : WillQuote(m))
    BY <1>0, <1>1 DEF Followed
  <2>2. /\ Len(events) \in Nat /\ Len(events') = Len(events) + 1
        /\ \A i \in 1..Len(events) : events'[i] = events[i] /\ i \in 1..Len(events')
    BY <1>0, <1>1, <1>2, Appended DEF QueueShape
  <2>3. WillKnow'
    BY <1>1, <2>1, <2>2 DEF WillKnow
  <2>4. ASSUME NEW o \in Told'
        PROVE  WillShow(o)'
    <3>1. o \in Others \ Blocked
      BY <2>4 DEF Told
    <3>2. CASE Tells(e, o)
      <4>1. e \in PeopleNews /\ e.kind \in {"joined", "left"} /\ e.about = o
        BY <1>2, <3>2 DEF Tells, PeopleNews, MessageNews
      <4>2. (e.kind = "joined" => o \in others) /\ (e.kind = "left" => o \notin others)
        BY <1>0, <3>1, <4>1 DEF InOrder, Tab!Pending
      <4>3. Shows(e, o) <=> o \in others'
        BY <1>1, <4>1, <4>2 DEF Shows
      <4> QED BY <1>0, <1>1, <1>2, <3>2, <4>3, ToldLast
    <3>3. CASE ~Tells(e, o)
      <4>1. o \in Told
        BY <1>3, <2>4, <3>1, <3>3 DEF Told, Tells
      <4> QED BY <1>0, <1>1, <1>2, <2>1, <3>3, <4>1, ToldLast
    <3> QED BY <3>2, <3>3
  <2>5. ASSUME NEW m \in Said'
        PROVE  WillQuote(m)'
    <3>1. m \in Messages
      BY <2>5 DEF Said
    <3>2. CASE Cites(e, m)
      <4>1. e.kind = "message" /\ e.about = m
        BY <1>2, <3>2 DEF Cites, PeopleNews, MessageNews
      <4>2. m \in log
        BY <1>0, <3>1, <4>1 DEF InOrder, Tab!Pending
      <4>3. Quotes(e, m) <=> m \in log'
        BY <1>1, <4>1, <4>2 DEF Quotes
      <4> QED BY <1>0, <1>1, <1>2, <3>2, <4>3, CitedLast
    <3>3. CASE ~Cites(e, m)
      <4>1. m \in Said
        BY <1>3, <2>5, <3>1, <3>3 DEF Said, Cites
      <4> QED BY <1>0, <1>1, <1>2, <2>1, <3>3, <4>1, CitedLast
    <3> QED BY <3>2, <3>3
  <2> QED BY <2>3, <2>4, <2>5
<1> QED BY <1>4, <1>5, <1>6, <1>7 DEF TabInv

\* A request served, and a request sent.
LEMMA Served ==
    ASSUME QueueShape, requests # <<>>
    PROVE  Tail(requests) \in Seq({"join", "beat"}) /\ Len(Tail(requests)) <= MaxQueue
<1>1. /\ requests \in Seq({"join", "beat"}) /\ Len(requests) <= MaxQueue
      /\ MaxQueue \in Nat
  BY ClientsAssumption DEF QueueShape
<1>2. Tail(requests) \in Seq({"join", "beat"}) /\ Len(Tail(requests)) = Len(requests) - 1
  BY <1>1
<1>3. Len(requests) \in Nat
  BY <1>1
<1> QED BY <1>1, <1>2, <1>3

LEMMA Sent ==
    ASSUME QueueShape, Len(requests) < MaxQueue, NEW k \in {"join", "beat"}
    PROVE  Append(requests, k) \in Seq({"join", "beat"}) /\ Len(Append(requests, k)) <= MaxQueue
<1>1. requests \in Seq({"join", "beat"}) /\ MaxQueue \in Nat
  BY ClientsAssumption DEF QueueShape
<1>2. /\ Append(requests, k) \in Seq({"join", "beat"})
      /\ Len(Append(requests, k)) = Len(requests) + 1 /\ Len(requests) \in Nat
  BY <1>1
<1> QED BY <1>1, <1>2

\* A step that broadcasts nothing and tells the tab nothing.
LEMMA QuietKeeps ==
    ASSUME TabInv, UNCHANGED <<others, log, unsent, events, view>>, ServerShape',
           requests' \in Seq({"join", "beat"}), Len(requests') <= MaxQueue,
           ~missed' => ~missed,
           ~missed' /\ subscribed' /\ serving' = "none" => subscribed /\ serving = "none",
           serving' \in {"members", "read"} => serving' = serving /\ reading' = reading
    PROVE  TabInv'
<1>0. /\ RoomShape /\ ServerShape /\ QueueShape /\ ViewShape
      /\ InOrder /\ Followed /\ Read
  BY DEF TabInv
<1>1. RoomShape' /\ QueueShape' /\ ViewShape'
  BY <1>0 DEF RoomShape, QueueShape, ViewShape
<1>2. Told' = Told /\ Said' = Said /\ InOrder'
  BY <1>0, StillTold
<1>3. Followed'
  BY <1>0, <1>2, StillFollowed
<1>4. Read'
  BY <1>0, <1>2, StillRead
<1> QED BY <1>1, <1>2, <1>3, <1>4 DEF TabInv

LEMMA JoinRoomKeeps ==
    ASSUME TabInv, Tab!JoinRoom
    PROVE  TabInv'
<1>0. ServerShape /\ QueueShape
  BY DEF TabInv
<1>1. /\ requests # <<>> /\ requests' = Tail(requests) /\ present' = TRUE /\ serving' = "online"
      /\ UNCHANGED <<others, log, unsent, subscribed, cleanup, reading, late, missed, up, events,
                     view>>
  BY DEF Tab!JoinRoom, Tab!Serves, Tab!roomVars
<1>2. ServerShape'
  BY <1>0, <1>1 DEF ServerShape
<1>3. requests' \in Seq({"join", "beat"}) /\ Len(requests') <= MaxQueue
  BY <1>0, <1>1, Served
<1> QED BY <1>1, <1>2, <1>3, QuietKeeps

LEMMA JoinRoomChannelKeeps ==
    ASSUME TabInv, Tab!JoinRoomChannel
    PROVE  TabInv'
<1>0. ServerShape /\ QueueShape
  BY DEF TabInv
<1>1. /\ subscribed' = TRUE /\ serving' = "subscribed"
      /\ UNCHANGED <<others, log, unsent, present, cleanup, reading, late, missed, up, requests,
                     events, view>>
  BY DEF Tab!JoinRoomChannel, Tab!roomVars
<1>2. ServerShape'
  BY <1>0, <1>1 DEF ServerShape
<1>3. requests' \in Seq({"join", "beat"}) /\ Len(requests') <= MaxQueue
  BY <1>0, <1>1 DEF QueueShape
<1> QED BY <1>1, <1>2, <1>3, QuietKeeps

\* The snapshot is true of who is there, then of what was said.
LEMMA ReadMembersKeeps ==
    ASSUME TabInv, Tab!ReadMembers
    PROVE  TabInv'
<1>0. /\ RoomShape /\ ServerShape /\ QueueShape /\ ViewShape
      /\ InOrder /\ Followed /\ Read
  BY DEF TabInv
<1>1. /\ reading' = [members |-> others \ Blocked, messages |-> {}]
      /\ missed' = FALSE /\ serving' = "members"
      /\ UNCHANGED <<others, log, unsent, present, subscribed, cleanup, late, up, requests, events,
                     view>>
  BY DEF Tab!ReadMembers, Tab!NoSnapshot, Tab!roomVars
<1>2. reading' \in Snapshots /\ reading'.members = others \ Blocked
  BY <1>0, <1>1 DEF Snapshots, RoomShape
<1>3. RoomShape' /\ ServerShape' /\ QueueShape' /\ ViewShape'
  BY <1>0, <1>1, <1>2 DEF RoomShape, ServerShape, QueueShape, ViewShape
<1>4. Told' = Told /\ Told \subseteq Others \ Blocked /\ InOrder'
  BY <1>0, <1>1, StillTold DEF Told
<1>5. Followed'
  BY <1>1 DEF Followed
<1>6. Read'
  BY <1>1, <1>2, <1>4 DEF Read
<1> QED BY <1>3, <1>4, <1>5, <1>6 DEF TabInv

LEMMA ReadMessagesKeeps ==
    ASSUME TabInv, Tab!ReadMessages
    PROVE  TabInv'
<1>0. /\ RoomShape /\ ServerShape /\ QueueShape /\ ViewShape
      /\ InOrder /\ Followed /\ Read
  BY DEF TabInv
<1>1. /\ reading' = [reading EXCEPT !.messages = log]
      /\ serving = "members" /\ serving' = "read"
      /\ UNCHANGED <<others, log, unsent, present, subscribed, cleanup, late, missed, up, requests,
                     events, view>>
  BY DEF Tab!ReadMessages, Tab!roomVars
<1>2. /\ reading' \in Snapshots /\ reading'.members = reading.members /\ reading'.messages = log
  BY <1>0, <1>1 DEF Snapshots, RoomShape, ServerShape
<1>3. RoomShape' /\ ServerShape' /\ QueueShape' /\ ViewShape'
  BY <1>0, <1>1, <1>2 DEF RoomShape, ServerShape, QueueShape, ViewShape
<1>4. Told' = Told /\ Said' = Said /\ InOrder'
  BY <1>0, <1>1, StillTold
<1>5. Followed'
  BY <1>1 DEF Followed
<1>6. Read'
  BY <1>0, <1>1, <1>2, <1>4 DEF Read
<1> QED BY <1>3, <1>4, <1>5, <1>6 DEF TabInv

\* An event the server sends to the tab alone.
LEMMA Delivered ==
    ASSUME QueueShape, Len(events) < MaxQueue, NEW e \in News, events' = Append(events, e)
    PROVE  /\ events' \in Seq(News) /\ Len(events') <= MaxQueue
           /\ Len(events') = Len(events) + 1 /\ events'[Len(events) + 1] = e
           /\ \A i \in 1..Len(events) : events'[i] = events[i] /\ i \in 1..Len(events')
           /\ Len(events) + 1 \in 1..Len(events')
<1>1. /\ events \in Seq(News) /\ Len(events) \in Nat /\ MaxQueue \in Nat
  BY ClientsAssumption DEF QueueShape
<1>2. /\ events' \in Seq(News) /\ Len(events') = Len(events) + 1 /\ events'[Len(events) + 1] = e
      /\ \A i \in 1..Len(events) : events'[i] = events[i]
  BY <1>1, Appended
<1> QED BY <1>1, <1>2

\* The snapshot is sent: it says everything.
LEMMA EmitStateKeeps ==
    ASSUME TabInv, Tab!EmitState
    PROVE  TabInv'
<1> DEFINE e == Tab!Event("state", reading)
<1>0. /\ RoomShape /\ ServerShape /\ QueueShape /\ ViewShape
      /\ InOrder /\ Followed /\ Read
  BY DEF TabInv
<1>1. /\ Len(events) < MaxQueue /\ events' = Append(events, e)
      /\ serving = "read" /\ serving' = "none" /\ reading' = [members |-> {}, messages |-> {}]
      /\ UNCHANGED <<others, log, unsent, present, subscribed, cleanup, late, missed, up, requests,
                     view>>
  BY DEF Tab!EmitState, Tab!NoSnapshot, Tab!roomVars
<1>2. e.kind = "state" /\ e.about = reading /\ e \in News
  <2>1. reading \in Snapshots
    BY <1>0 DEF ServerShape
  <2> QED BY <2>1 DEF Tab!Event, News, StateNews
<1> HIDE DEF e
<1>3. RoomShape' /\ ServerShape' /\ QueueShape' /\ ViewShape'
  <2>1. reading' \in Snapshots
    BY <1>1 DEF Snapshots
  <2>2. events' \in Seq(News) /\ Len(events') <= MaxQueue
    BY <1>0, <1>1, <1>2, Delivered
  <2> QED BY <1>0, <1>1, <2>1, <2>2 DEF RoomShape, ServerShape, QueueShape, ViewShape
<1>4. Told' = Told /\ Said' = Said /\ InOrder'
  BY <1>0, <1>1, StillTold
<1>5. Read'
  BY <1>1 DEF Read
<1>6. Followed'
  <2> SUFFICES ASSUME ~missed
               PROVE  /\ WillKnow' /\ \A o \in Told : WillShow(o)'
                      /\ \A m \in Said : WillQuote(m)'
    BY <1>1, <1>4 DEF Followed
  <2>1. WillKnow'
    BY <1>0, <1>1, <1>2, Delivered DEF WillKnow
  <2>2. ASSUME NEW o \in Told
        PROVE  WillShow(o)'
    <3>1. Tells(e, o) /\ (Shows(e, o) <=> o \in others')
      BY <1>0, <1>1, <1>2 DEF Read, Tells, Shows
    <3> QED BY <1>0, <1>1, <1>2, <3>1, ToldLast
  <2>3. ASSUME NEW m \in Said
        PROVE  WillQuote(m)'
    <3>1. Cites(e, m) /\ (Quotes(e, m) <=> m \in log')
      BY <1>0, <1>1, <1>2 DEF Read, Cites, Quotes
    <3> QED BY <1>0, <1>1, <1>2, <3>1, CitedLast
  <2> QED BY <2>1, <2>2, <2>3
<1> QED BY <1>3, <1>4, <1>5, <1>6 DEF TabInv

\* A heartbeat is served: nothing, or the error, which is about nobody.
LEMMA HeartbeatKeeps ==
    ASSUME TabInv, Tab!Heartbeat
    PROVE  TabInv'
<1> DEFINE e == Tab!Event("error", "NOT_FOUND")
<1>0. /\ RoomShape /\ ServerShape /\ QueueShape /\ ViewShape
      /\ InOrder /\ Followed /\ Read
  BY DEF TabInv
<1>1. /\ requests # <<>> /\ requests' = Tail(requests)
      /\ present => events' = events
      /\ ~present => Len(events) < MaxQueue /\ events' = Append(events, e)
      /\ UNCHANGED <<others, log, unsent, present, subscribed, cleanup, serving, reading, late,
                     missed, up, view>>
  BY DEF Tab!Heartbeat, Tab!Serves, Tab!roomVars, Tab!serverVars
<1>2. e.kind = "error" /\ e \in News
  BY DEF Tab!Event, News, ErrorNews
<1> HIDE DEF e
<1>3. requests' \in Seq({"join", "beat"}) /\ Len(requests') <= MaxQueue
  BY <1>0, <1>1, Served
<1>4. ServerShape'
  BY <1>0, <1>1 DEF ServerShape
<1>5. CASE present
  <2>1. events' = events
    BY <1>1, <1>5
  <2> QED BY <1>1, <1>3, <1>4, <2>1, QuietKeeps
<1>6. CASE ~present
  <2>1. Len(events) < MaxQueue /\ events' = Append(events, e)
    BY <1>1, <1>6
  <2>2. RoomShape' /\ QueueShape' /\ ViewShape'
    <3>1. events' \in Seq(News) /\ Len(events') <= MaxQueue
      BY <1>0, <1>2, <2>1, Delivered
    <3> QED BY <1>0, <1>1, <1>3, <3>1 DEF RoomShape, QueueShape, ViewShape
  <2>3. Told' = Told /\ Said' = Said /\ InOrder'
    BY <1>0, <1>1, StillTold
  <2>4. Read'
    BY <1>0, <1>1, <2>3, StillRead
  <2>5. Followed'
    <3> SUFFICES ASSUME ~missed, subscribed, serving = "none"
                 PROVE  /\ WillKnow' /\ \A o \in Told : WillShow(o)'
                        /\ \A m \in Said : WillQuote(m)'
      BY <1>1, <2>3 DEF Followed
    <3>1. WillKnow /\ (\A o \in Told : WillShow(o)) /\ (\A m \in Said : WillQuote(m))
      BY <1>0 DEF Followed
    <3>2. WillKnow'
      BY <1>0, <1>1, <1>2, <2>1, <3>1, Delivered DEF WillKnow
    <3>3. \A x : ~Tells(e, x) /\ ~Cites(e, x)
      BY <1>2 DEF Tells, Cites
    <3>4. ASSUME NEW o \in Told
          PROVE  WillShow(o)'
      BY <1>0, <1>1, <1>2, <2>1, <3>1, <3>3, ToldLast
    <3>5. ASSUME NEW m \in Said
          PROVE  WillQuote(m)'
      BY <1>0, <1>1, <1>2, <2>1, <3>1, <3>3, CitedLast
    <3> QED BY <3>2, <3>4, <3>5
  <2> QED BY <1>4, <2>2, <2>3, <2>4, <2>5 DEF TabInv
<1> QED BY <1>5, <1>6

LEMMA CheckConnectionsKeeps ==
    ASSUME TabInv, Tab!CheckConnections
    PROVE  TabInv'
<1>0. ServerShape /\ QueueShape
  BY DEF TabInv
<1>1. /\ cleanup' = IF up THEN "none" ELSE "leaving"
      /\ UNCHANGED <<others, log, unsent, present, subscribed, serving, reading, late, missed, up,
                     requests, events, view>>
  BY DEF Tab!CheckConnections, Tab!roomVars
<1>2. ServerShape'
  BY <1>0, <1>1 DEF ServerShape
<1>3. requests' \in Seq({"join", "beat"}) /\ Len(requests') <= MaxQueue
  BY <1>0, <1>1 DEF QueueShape
<1> QED BY <1>1, <1>2, <1>3, QuietKeeps

LEMMA LeaveRoomKeeps ==
    ASSUME TabInv, Tab!LeaveRoom \/ Tab!Lapse
    PROVE  TabInv'
<1>0. ServerShape /\ QueueShape
  BY DEF TabInv
<1>1. /\ cleanup' \in {"none", cleanup} /\ present' = FALSE /\ subscribed' = FALSE
      /\ UNCHANGED <<others, log, unsent, serving, reading, late, missed, up, requests, events,
                     view>>
  BY DEF Tab!LeaveRoom, Tab!Lapse, Tab!roomVars
<1>2. ServerShape'
  BY <1>0, <1>1 DEF ServerShape
<1>3. requests' \in Seq({"join", "beat"}) /\ Len(requests') <= MaxQueue
  BY <1>0, <1>1 DEF QueueShape
<1> QED BY <1>1, <1>2, <1>3, QuietKeeps

\* A late join brings the tab back with no snapshot: it missed what it was not told.
LEMMA FinishLateJoinKeeps ==
    ASSUME TabInv, Tab!FinishLateJoin
    PROVE  TabInv'
<1>0. ServerShape /\ QueueShape
  BY DEF TabInv
<1>1. /\ Tab!LateJoin
      /\ UNCHANGED <<others, log, unsent, cleanup, serving, reading, up, requests, events, view>>
  BY DEF Tab!FinishLateJoin, Tab!roomVars
<1>2. \/ present' = TRUE /\ late' = "online" /\ UNCHANGED <<subscribed, missed>>
      \/ /\ late' = "none" /\ subscribed' = up /\ UNCHANGED present
         /\ missed' = (missed \/ (up /\ ~subscribed))
  BY <1>1 DEF Tab!LateJoin
<1>3. ServerShape'
  BY <1>0, <1>1, <1>2 DEF ServerShape
<1>4. requests' \in Seq({"join", "beat"}) /\ Len(requests') <= MaxQueue
  BY <1>0, <1>1 DEF QueueShape
<1>5. (~missed' => ~missed) /\ (~missed' /\ subscribed' => subscribed)
  BY <1>0, <1>2 DEF ServerShape
<1> QED BY <1>1, <1>3, <1>4, <1>5, QuietKeeps

LEMMA JoinAgainKeeps ==
    ASSUME TabInv, Tab!JoinAgain
    PROVE  TabInv'
<1> DEFINE e == Head(events)
<1>0. /\ RoomShape /\ ServerShape /\ QueueShape /\ ViewShape
      /\ InOrder /\ Followed /\ Read
  BY DEF TabInv
<1>1. /\ events # <<>> /\ e.kind = "error" /\ events' = Tail(events)
      /\ Len(requests) < MaxQueue /\ requests' = Append(requests, "join")
      /\ UNCHANGED <<others, log, unsent, present, subscribed, cleanup, serving, reading, late,
                     missed, up, view>>
  BY DEF Tab!JoinAgain, Tab!Received, Tab!roomVars, Tab!serverVars
<1>2. /\ events' \in Seq(News) /\ Len(events) = Len(events') + 1 /\ Len(events') \in Nat
      /\ e = events[1] /\ \A i \in 1..Len(events') : events'[i] = events[i + 1]
  BY <1>0, <1>1, Headed DEF QueueShape
<1>3. RoomShape' /\ ServerShape' /\ QueueShape' /\ ViewShape'
  <2>1. requests' \in Seq({"join", "beat"}) /\ Len(requests') <= MaxQueue
    BY <1>0, <1>1, Sent
  <2>2. Len(events') <= MaxQueue
    BY <1>0, <1>2, ClientsAssumption DEF QueueShape
  <2> QED BY <1>0, <1>1, <1>2, <2>1, <2>2 DEF RoomShape, ServerShape, QueueShape, ViewShape
<1>4. Told' = Told /\ Said' = Said /\ InOrder'
  BY <1>0, <1>1, StillTold
<1>5. Read'
  BY <1>0, <1>1, <1>4, StillRead
<1>6. Followed'
  <2> SUFFICES ASSUME ~missed, subscribed, serving = "none"
               PROVE  /\ WillKnow' /\ \A o \in Told : WillShow(o)'
                      /\ \A m \in Said : WillQuote(m)'
    BY <1>1, <1>4 DEF Followed
  <2>1. WillKnow /\ (\A o \in Told : WillShow(o)) /\ (\A m \in Said : WillQuote(m))
    BY <1>0 DEF Followed
  <2>2. WillKnow'
    <3>1. CASE view.known
      BY <1>1, <3>1 DEF WillKnow
    <3>2. CASE ~view.known
      <4>1. PICK j \in 1..Len(events) : events[j].kind = "state"
        BY <2>1, <3>2 DEF WillKnow
      <4>2. j # 1
        BY <1>1, <1>2, <4>1
      <4>3. j - 1 \in 1..Len(events') /\ (j - 1) + 1 = j
        BY <1>2, <4>2
      <4>4. events'[j - 1].kind = "state"
        BY <1>2, <4>1, <4>3
      <4> QED BY <4>3, <4>4 DEF WillKnow
    <3> QED BY <3>1, <3>2
  <2>3. \A x : ~Tells(e, x) /\ ~Cites(e, x)
    BY <1>1 DEF Tells, Cites
  <2> HIDE DEF e
  <2>4. ASSUME NEW o \in Told
        PROVE  WillShow(o)'
    BY <1>0, <1>1, <2>1, <2>3, ToldNext DEF e
  <2>5. ASSUME NEW m \in Said
        PROVE  WillQuote(m)'
    BY <1>0, <1>1, <2>1, <2>3, CitedNext DEF e
  <2> QED BY <2>2, <2>4, <2>5
<1> QED BY <1>3, <1>4, <1>5, <1>6 DEF TabInv

\* A heartbeat, and the join of a socket that came back, are only sent.
LEMMA SendKeeps ==
    ASSUME TabInv, Tab!SendHeartbeat \/ Tab!Reconnect
    PROVE  TabInv'
<1>0. ServerShape /\ QueueShape
  BY DEF TabInv
<1>1. PICK k \in {"join", "beat"} : Len(requests) < MaxQueue /\ requests' = Append(requests, k)
  BY DEF Tab!SendHeartbeat, Tab!Reconnect
<1>2. /\ up' \in {up, TRUE}
      /\ UNCHANGED <<others, log, unsent, present, subscribed, cleanup, serving, reading, late,
                     missed, events, view>>
  BY DEF Tab!SendHeartbeat, Tab!Reconnect, Tab!roomVars, Tab!serverVars
<1>3. ServerShape'
  BY <1>0, <1>2 DEF ServerShape
<1>4. requests' \in Seq({"join", "beat"}) /\ Len(requests') <= MaxQueue
  BY <1>0, <1>1, Sent
<1> QED BY <1>2, <1>3, <1>4, QuietKeeps

\* A socket that dropped is in no channel, and serves no join.
LEMMA DropKeeps ==
    ASSUME TabInv, Tab!Drop
    PROVE  TabInv'
<1>0. /\ RoomShape /\ ServerShape /\ QueueShape /\ ViewShape
      /\ InOrder /\ Followed /\ Read
  BY DEF TabInv
<1>1. /\ up' = FALSE /\ subscribed' = FALSE /\ cleanup' = "checking" /\ serving' = "none"
      /\ reading' = [members |-> {}, messages |-> {}] /\ requests' = <<>> /\ events' = <<>>
      /\ late' \in {"none", "join", "online"}
      /\ UNCHANGED <<others, log, unsent, present, missed, view>>
  BY DEF Tab!Drop, Tab!NoSnapshot, Tab!roomVars
<1>2. RoomShape' /\ ServerShape' /\ QueueShape' /\ ViewShape'
  <2>1. reading' \in Snapshots
    BY <1>1 DEF Snapshots
  <2>2. /\ <<>> \in Seq({"join", "beat"}) /\ <<>> \in Seq(News)
        /\ Len(<<>>) = 0 /\ 0 <= MaxQueue
    BY ClientsAssumption
  <2> QED BY <1>0, <1>1, <2>1, <2>2 DEF RoomShape, ServerShape, QueueShape, ViewShape
<1>3. InOrder'
  BY <1>0, <1>1, StillTold
<1>4. Followed' /\ Read'
  BY <1>1 DEF Followed, Read
<1> QED BY <1>2, <1>3, <1>4 DEF TabInv

LEMMA TabStep == TabInv /\ [Tab!Next]_(Tab!vars) => TabInv'
<1> SUFFICES ASSUME TabInv, [Tab!Next]_(Tab!vars)
             PROVE  TabInv'
  OBVIOUS
<1>1. ASSUME NEW o \in Others, Tab!Arrive(o) \/ Tab!Depart(o)
      PROVE  TabInv'
  BY <1>1, MoveKeeps
<1>2. ASSUME NEW m \in Messages, Tab!SendChatMessage(m)
      PROVE  TabInv'
  BY <1>2, SendChatMessageKeeps
<1>3. ASSUME NEW e \in unsent, Tab!EmitToRoom(e)
      PROVE  TabInv'
  BY <1>3, EmitToRoomKeeps
<1>4. CASE Tab!JoinRoom \/ Tab!JoinRoomChannel \/ Tab!ReadMembers \/ Tab!ReadMessages
  BY <1>4, JoinRoomKeeps, JoinRoomChannelKeeps, ReadMembersKeeps, ReadMessagesKeeps
<1>5. CASE Tab!EmitState \/ Tab!Heartbeat \/ Tab!CheckConnections
  BY <1>5, EmitStateKeeps, HeartbeatKeeps, CheckConnectionsKeeps
<1>6. CASE Tab!LeaveRoom \/ Tab!Lapse \/ Tab!FinishLateJoin
  BY <1>6, LeaveRoomKeeps, FinishLateJoinKeeps
<1>7. CASE Tab!Show \/ Tab!JoinAgain \/ Tab!SendHeartbeat \/ Tab!Drop \/ Tab!Reconnect
  BY <1>7, ShowKeeps, JoinAgainKeeps, SendKeeps, DropKeeps
<1>8. CASE UNCHANGED Tab!vars
  <2>1. UNCHANGED <<others, log, unsent, present, subscribed, up, cleanup, requests, serving,
                    reading, events, view, late, missed>>
    BY <1>8 DEF Tab!vars, Tab!roomVars, Tab!serverVars
  <2>2. ServerShape /\ QueueShape
    BY DEF TabInv
  <2>3. ServerShape'
    BY <2>1, <2>2 DEF ServerShape
  <2>4. requests' \in Seq({"join", "beat"}) /\ Len(requests') <= MaxQueue
    BY <2>1, <2>2 DEF QueueShape
  <2> QED BY <2>1, <2>3, <2>4, QuietKeeps
<1> QED BY <1>1, <1>2, <1>3, <1>4, <1>5, <1>6, <1>7, <1>8 DEF Tab!Next

LEMMA TabInit == Tab!Init => TabInv
<1> SUFFICES ASSUME Tab!Init
             PROVE  TabInv
  OBVIOUS
<1>1. /\ others \in SUBSET Others /\ log = {} /\ unsent = {}
      /\ present = FALSE /\ subscribed = FALSE /\ up = TRUE /\ cleanup = "none"
      /\ requests = <<"join">> /\ serving = "none"
      /\ reading = [members |-> {}, messages |-> {}] /\ events = <<>>
      /\ view = [known |-> FALSE, members |-> <<>>, messages |-> <<>>]
      /\ late = "none" /\ missed = FALSE
  BY DEF Tab!Init, Tab!NoSnapshot, Tab!NoView
<1>2. RoomShape /\ InOrder
  BY <1>1 DEF RoomShape, InOrder, Tab!Pending
<1>3. ServerShape
  BY <1>1 DEF ServerShape, Snapshots
<1>4. QueueShape
  <2>1. MaxQueue \in Nat /\ 1 <= MaxQueue
    BY ClientsAssumption
  <2>2. <<"join">> \in Seq({"join", "beat"}) /\ Len(<<"join">>) = 1
    OBVIOUS
  <2>3. <<>> \in Seq(News) /\ Len(<<>>) = 0 /\ 0 <= MaxQueue
    BY <2>1
  <2> QED BY <1>1, <2>1, <2>2, <2>3 DEF QueueShape
<1>5. ViewShape
  BY <1>1 DEF ViewShape, Views, Distinct
<1>6. Followed /\ Read
  BY <1>1 DEF Followed, Read
<1> QED BY <1>2, <1>3, <1>4, <1>5, <1>6 DEF TabInv

LEMMA TabHolds == TabInv => Tab!TypeOK /\ Tab!RightAfterSnapshot
<1> SUFFICES ASSUME TabInv
             PROVE  Tab!TypeOK /\ Tab!RightAfterSnapshot
  OBVIOUS
<1>0. RoomShape /\ ServerShape /\ QueueShape /\ ViewShape /\ Followed
  BY DEF TabInv
<1>1. view.members \in Seq(Others) /\ view.messages \in Seq(Messages)
  BY <1>0 DEF ViewShape, Views
<1>2. /\ \A x : x \in Tab!ToSet(view.members) <=> Elem(x, view.members)
      /\ \A x : x \in Tab!ToSet(view.messages) <=> Elem(x, view.messages)
  BY <1>1, Elements
<1>3. /\ \A x : Elem(x, view.members) => x \in Others
      /\ \A x : Elem(x, view.messages) => x \in Messages
  BY <1>1 DEF Elem
<1>4. Tab!TypeOK
  <2>1. Tab!ToSet(view.members) \subseteq Others /\ Tab!ToSet(view.messages) \subseteq Messages
    BY <1>2, <1>3
  <2> QED BY <1>0, <2>1 DEF Tab!TypeOK, RoomShape, ServerShape, QueueShape
<1>5. /\ \A i, j \in DOMAIN view.members : view.members[i] = view.members[j] => i = j
      /\ \A i, j \in DOMAIN view.messages : view.messages[i] = view.messages[j] => i = j
  <2>1. DOMAIN view.members = 1..Len(view.members) /\ DOMAIN view.messages = 1..Len(view.messages)
    BY <1>1
  <2> QED BY <1>0, <2>1 DEF ViewShape, Distinct
<1>6. ASSUME Tab!Settled, ~missed
      PROVE  /\ Tab!ToSet(view.members) \ Blocked = others \ Blocked
             /\ Tab!ToSet(view.messages) = log
  <2>1. subscribed /\ serving = "none" /\ events = <<>> /\ unsent = {}
    BY <1>6 DEF Tab!Settled
  <2>2. Told = Others \ Blocked /\ Said = Messages
    BY <2>1 DEF Told, Said, Tab!Pending
  <2>3. (\A o \in Told : WillShow(o)) /\ (\A m \in Said : WillQuote(m))
    BY <1>0, <1>6, <2>1 DEF Followed
  <2>4. \A i \in 1..Len(events) : FALSE
    BY <2>1
  <2>5. /\ \A o \in Told : Elem(o, view.members) <=> o \in others
        /\ \A m \in Said : Elem(m, view.messages) <=> m \in log
    BY <2>3, <2>4 DEF WillShow, WillQuote
  <2>6. others \subseteq Others /\ log \subseteq Messages
    BY <1>0 DEF RoomShape
  <2>7. \A x : x \in Tab!ToSet(view.members) \ Blocked <=> x \in others \ Blocked
    BY <1>2, <1>3, <2>2, <2>5, <2>6
  <2>8. \A x : x \in Tab!ToSet(view.messages) <=> x \in log
    BY <1>2, <1>3, <2>2, <2>5, <2>6
  <2> QED BY <2>7, <2>8
<1> QED BY <1>4, <1>5, <1>6 DEF Tab!RightAfterSnapshot
--------------------------------------------------------------------------------
(* The audio: Sound is Audio with the names of MCClients. *)

Purposes == {"none", "room", "call"}
Steps == {"idle", "ending", "connecting", "mic", "ends call"}

Requests == [step : Steps, purpose : Purposes, granted : BOOLEAN, mic : BOOLEAN,
             sdk : SdkRooms \cup {NoSdkRoom}]

SdkRoom == [state : {"none", "connecting", "connected", "ended"}, purpose : Purposes,
            granted : BOOLEAN, mic : BOOLEAN]

SoundShape ==
    /\ screen \in {"elsewhere", "room"} /\ role \in {"listener", "speaker"}
    /\ call \in {"none", "dialling", "connected"}
    /\ sdk \in [SdkRooms -> SdkRoom]
    /\ task \in [Tasks -> Requests]
    /\ current \in SdkRooms \cup {NoSdkRoom}
    /\ publishAllowed \in BOOLEAN /\ shared \in BOOLEAN

Ending(t) == task[t].step = "ending"
Connecting(t) == task[t].step = "connecting"

\* What is current, awaited or being connected was made, and a connection has one call.
Made ==
    /\ current # NoSdkRoom => sdk[current].state # "none"
    /\ \A t \in Tasks : Ending(t) => /\ task[t].sdk \in SdkRooms
                                     /\ sdk[task[t].sdk].state # "none"
    /\ \A t \in Tasks : Connecting(t) => /\ task[t].sdk \in SdkRooms
                                         /\ sdk[task[t].sdk].state \in {"connecting", "ended"}
    /\ \A t, u \in Tasks :
           Connecting(t) /\ Connecting(u) /\ task[t].sdk = task[u].sdk => t = u

\* Every call that will connect finds an SDK room that is not made yet.
WillConnect == {t \in Tasks : Ending(t) /\ task[t].purpose # "none"}
Enough == Cardinality(WillConnect) <= Cardinality(Sound!Unused)

\* Nothing in the tab wants audio.
Outside == screen = "elsewhere" /\ call = "none"

\* Unless two calls awaited the end of one room: one call at most awaits an end, that of the
\* current room; no other room is live; the microphone follows the token; and outside of
\* rooms and calls the audio is left, or about to be.
Alone ==
    ~shared =>
        /\ \A t \in Tasks : Ending(t) => task[t].sdk = current
        /\ \A t, u \in Tasks : Ending(t) /\ Ending(u) => t = u
        /\ \A r \in Sound!Live : r = current
        /\ publishAllowed /\ current # NoSdkRoom /\ sdk[current].state = "connected" =>
               sdk[current].granted
        /\ \A r \in SdkRooms : sdk[r].mic => sdk[r].granted /\ sdk[r].state = "connected"
        /\ Outside => /\ \A t \in Tasks : Ending(t) => task[t].purpose = "none"
                      /\ Sound!Live # {} => \E t \in Tasks : Ending(t)

SoundInv == SoundShape /\ Made /\ Enough /\ Alone

\* What a step of the media client keeps.
SoundKept ==
    /\ sdk' \in [SdkRooms -> SdkRoom] /\ task' \in [Tasks -> Requests]
    /\ current' \in SdkRooms \cup {NoSdkRoom}
    /\ publishAllowed' \in BOOLEAN /\ shared' \in BOOLEAN
    /\ Made' /\ Enough' /\ Alone'

LEMMA SoundCounts ==
    ASSUME NEW S
    PROVE  Sound!Cardinality(S) = Cardinality(S)
BY DEF Sound!Cardinality, Cardinality

LEMMA IdleIsRequest ==
    /\ Sound!Idle \in Requests
    /\ Sound!Idle.step = "idle" /\ Sound!Idle.purpose = "none"
BY DEF Sound!Idle, Requests, Steps, Purposes

LEMMA LeastUnused ==
    ASSUME Sound!Unused # {}
    PROVE  (CHOOSE x \in Sound!Unused : \A y \in Sound!Unused : x <= y) \in Sound!Unused
<1>1. Sound!Unused \subseteq Nat
  BY ClientsAssumption DEF Sound!Unused
<1>2. \E x \in Sound!Unused : \A y \in Sound!Unused : x <= y
  BY <1>1, LeastOf
<1> QED BY <1>2

LEMMA Counted ==
    /\ IsFiniteSet(WillConnect) /\ IsFiniteSet(Sound!Unused)
    /\ Cardinality(WillConnect) \in Nat /\ Cardinality(Sound!Unused) \in Nat
<1>1. WillConnect \in SUBSET Tasks /\ Sound!Unused \in SUBSET SdkRooms
  BY DEF WillConnect, Sound!Unused
<1>2. IsFiniteSet(WillConnect) /\ IsFiniteSet(Sound!Unused)
  BY <1>1, FS_Subset, ClientsAssumption
<1> QED BY <1>2, FS_CardinalityType

\* A request awaits the end of the current room.
LEMMA WaitKeeps ==
    ASSUME SoundInv, NEW t \in Tasks, ~Ending(t), ~Connecting(t), NEW next \in Requests,
           current # NoSdkRoom, next.step = "ending", next.sdk = current,
           task' = [task EXCEPT ![t] = next], UNCHANGED <<sdk, current, publishAllowed>>,
           shared' = (shared \/ \E u \in Tasks : Sound!AwaitsEnd(u, current)),
           next.purpose = "none" \/ Cardinality(WillConnect) < Cardinality(Sound!Unused),
           next.purpose = "none" \/ ~Outside'
    PROVE  SoundKept
<1>0. SoundShape /\ Made /\ Enough /\ Alone
  BY DEF SoundInv
<1>1. /\ task' \in [Tasks -> Requests] /\ task'[t] = next
      /\ \A u \in Tasks \ {t} : task'[u] = task[u]
  BY <1>0 DEF SoundShape
<1>2. /\ Ending(t)' /\ ~Connecting(t)'
      /\ \A u \in Tasks \ {t} : (Ending(u)' <=> Ending(u)) /\ (Connecting(u)' <=> Connecting(u))
  BY <1>1 DEF Ending, Connecting
<1>3. Made'
  <2>1. current \in SdkRooms /\ sdk[current].state # "none"
    BY <1>0 DEF SoundShape, Made
  <2>2. \A u \in Tasks : Ending(u)' => /\ task'[u].sdk \in SdkRooms
                                       /\ sdk'[task'[u].sdk].state # "none"
    BY <1>0, <1>1, <1>2, <2>1 DEF Made
  <2>3. \A u \in Tasks : Connecting(u)' =>
            /\ task'[u].sdk \in SdkRooms
            /\ sdk'[task'[u].sdk].state \in {"connecting", "ended"}
    BY <1>0, <1>1, <1>2 DEF Made
  <2>4. \A u, w \in Tasks :
            Connecting(u)' /\ Connecting(w)' /\ task'[u].sdk = task'[w].sdk => u = w
    BY <1>0, <1>1, <1>2 DEF Made
  <2> QED BY <2>1, <2>2, <2>3, <2>4 DEF Made
<1>4. Enough'
  <2>1. Sound!Unused' = Sound!Unused
    BY DEF Sound!Unused
  <2>2. CASE next.purpose = "none"
    <3>1. WillConnect' = WillConnect
      BY <1>1, <1>2, <2>2 DEF WillConnect
    <3> QED BY <1>0, <2>1, <3>1 DEF Enough
  <2>3. CASE next.purpose # "none"
    <3>1. WillConnect' = WillConnect \cup {t}
      BY <1>1, <1>2, <2>3 DEF WillConnect
    <3>2. t \notin WillConnect
      BY DEF WillConnect
    <3>3. Cardinality(WillConnect') = Cardinality(WillConnect) + 1
      BY <3>1, <3>2, Counted, FS_AddElement
    <3> QED BY <2>1, <2>3, <3>3, Counted DEF Enough
  <2> QED BY <2>2, <2>3
<1>5. Alone'
  <2> SUFFICES ASSUME ~shared'
               PROVE  Alone'
    BY DEF Alone
  <2>1. ~shared /\ \A u \in Tasks : ~Sound!AwaitsEnd(u, current)
    OBVIOUS
  <2>2. \A u \in Tasks : ~Ending(u)
    BY <1>0, <2>1 DEF Alone, Ending, Sound!AwaitsEnd
  <2>3. \A u \in Tasks : Ending(u)' => u = t
    BY <1>2, <2>2
  <2>4. Sound!Live' = Sound!Live
    BY DEF Sound!Live
  <2>5. Outside' => next.purpose = "none"
    OBVIOUS
  <2>6. /\ \A u \in Tasks : Ending(u)' => task'[u].sdk = current'
        /\ \A u, w \in Tasks : Ending(u)' /\ Ending(w)' => u = w
        /\ Outside' => /\ \A u \in Tasks : Ending(u)' => task'[u].purpose = "none"
                       /\ \E u \in Tasks : Ending(u)'
    BY <1>1, <1>2, <2>3, <2>5
  <2>7. /\ \A r \in Sound!Live' : r = current'
        /\ publishAllowed' /\ current' # NoSdkRoom /\ sdk'[current'].state = "connected" =>
               sdk'[current'].granted
        /\ \A r \in SdkRooms : sdk'[r].mic => sdk'[r].granted /\ sdk'[r].state = "connected"
    BY <1>0, <2>1, <2>4 DEF Alone
  <2> QED BY <2>6, <2>7 DEF Alone
<1>6. /\ sdk' \in [SdkRooms -> SdkRoom] /\ current' \in SdkRooms \cup {NoSdkRoom}
      /\ publishAllowed' \in BOOLEAN /\ shared' \in BOOLEAN
  BY <1>0 DEF SoundShape
<1> QED BY <1>1, <1>3, <1>4, <1>5, <1>6 DEF SoundKept

\* The rooms when the current one was let go, or there was none: some ended, and unless two
\* calls shared an end none is live.
LetGo(rooms) ==
    /\ rooms \in [SdkRooms -> SdkRoom]
    /\ \A r \in SdkRooms :
        \/ rooms[r] = sdk[r]
        \/ sdk[r].state # "none" /\ rooms[r].state = "ended" /\ ~rooms[r].mic
    /\ ~shared => \A r \in SdkRooms : rooms[r].state \notin {"connecting", "connected"}

\* ... a disconnect ends there,
LEMMA LetGoKeeps ==
    ASSUME SoundInv, NEW t \in Tasks, ~Connecting(t), NEW rooms, LetGo(rooms),
           ~shared => \A u \in Tasks \ {t} : ~Ending(u),
           sdk' = rooms, current' = NoSdkRoom, publishAllowed' = FALSE,
           task' = [task EXCEPT ![t] = Sound!Idle], UNCHANGED shared
    PROVE  SoundKept
<1>0. SoundShape /\ Made /\ Enough /\ Alone
  BY DEF SoundInv
<1>1. /\ task' \in [Tasks -> Requests] /\ task'[t] = Sound!Idle
      /\ \A u \in Tasks \ {t} : task'[u] = task[u]
  BY <1>0, IdleIsRequest DEF SoundShape
<1>2. /\ ~Ending(t)' /\ ~Connecting(t)'
      /\ \A u \in Tasks \ {t} : (Ending(u)' <=> Ending(u)) /\ (Connecting(u)' <=> Connecting(u))
  BY <1>1, IdleIsRequest DEF Ending, Connecting
<1>3. \A r \in SdkRooms : /\ sdk'[r].state = "none" <=> sdk[r].state = "none"
                          /\ sdk'[r].state = sdk[r].state \/ sdk'[r].state = "ended"
  BY DEF LetGo
<1>4. Made'
  <2>1. \A u \in Tasks : Ending(u)' => /\ task'[u].sdk \in SdkRooms
                                       /\ sdk'[task'[u].sdk].state # "none"
    BY <1>0, <1>1, <1>2, <1>3 DEF Made
  <2>2. \A u \in Tasks : Connecting(u)' =>
            /\ task'[u].sdk \in SdkRooms
            /\ sdk'[task'[u].sdk].state \in {"connecting", "ended"}
    BY <1>0, <1>1, <1>2, <1>3 DEF Made
  <2>3. \A u, w \in Tasks :
            Connecting(u)' /\ Connecting(w)' /\ task'[u].sdk = task'[w].sdk => u = w
    BY <1>0, <1>1, <1>2 DEF Made
  <2> QED BY <2>1, <2>2, <2>3 DEF Made
<1>5. Enough'
  <2>1. Sound!Unused' = Sound!Unused
    BY <1>3 DEF Sound!Unused
  <2>2. WillConnect' \in SUBSET WillConnect
    BY <1>1, <1>2 DEF WillConnect
  <2>3. Cardinality(WillConnect') <= Cardinality(WillConnect) /\ Cardinality(WillConnect') \in Nat
    BY <2>2, Counted, FS_Subset, FS_CardinalityType
  <2> QED BY <1>0, <2>1, <2>3, Counted DEF Enough
<1>6. Alone'
  <2> SUFFICES ASSUME ~shared'
               PROVE  Alone'
    BY DEF Alone
  <2>1. \A u \in Tasks : ~Ending(u)'
    BY <1>2
  <2>2. Sound!Live' = {}
    BY DEF LetGo, Sound!Live
  <2>3. \A r \in SdkRooms : sdk'[r].mic => sdk'[r].granted /\ sdk'[r].state = "connected"
    BY <1>0 DEF Alone, LetGo
  <2> QED BY <2>1, <2>2, <2>3 DEF Alone
<1>7. sdk' \in [SdkRooms -> SdkRoom]
  BY DEF LetGo
<1> QED BY <1>0, <1>1, <1>4, <1>5, <1>6, <1>7 DEF SoundKept, SoundShape

\* ... and a connect makes the next.
LEMMA ConnectKeeps ==
    ASSUME SoundInv, NEW t \in Tasks, ~Connecting(t), NEW rooms, LetGo(rooms),
           ~shared => \A u \in Tasks \ {t} : ~Ending(u),
           NEW r \in Sound!Unused, NEW made \in SdkRoom, NEW next \in Requests,
           made.state = "connecting", ~made.mic, next.step = "connecting", next.sdk = r,
           Cardinality(WillConnect \ {t}) < Cardinality(Sound!Unused),
           shared \/ ~Outside',
           sdk' = [rooms EXCEPT ![r] = made], current' = r, publishAllowed' = FALSE,
           task' = [task EXCEPT ![t] = next], UNCHANGED shared
    PROVE  SoundKept
<1>0. SoundShape /\ Made /\ Enough /\ Alone
  BY DEF SoundInv
<1>1. /\ task' \in [Tasks -> Requests] /\ task'[t] = next
      /\ \A u \in Tasks \ {t} : task'[u] = task[u]
  BY <1>0 DEF SoundShape
<1>2. /\ ~Ending(t)' /\ Connecting(t)'
      /\ \A u \in Tasks \ {t} : (Ending(u)' <=> Ending(u)) /\ (Connecting(u)' <=> Connecting(u))
  BY <1>1 DEF Ending, Connecting
<1>3. r \in SdkRooms /\ sdk[r].state = "none"
  BY DEF Sound!Unused
<1>4. /\ sdk' \in [SdkRooms -> SdkRoom] /\ sdk'[r] = made
      /\ \A q \in SdkRooms \ {r} : sdk'[q] = rooms[q]
  BY <1>3 DEF LetGo
<1>5. \A q \in SdkRooms \ {r} : /\ sdk'[q].state = "none" <=> sdk[q].state = "none"
                                /\ sdk'[q].state = sdk[q].state \/ sdk'[q].state = "ended"
  BY <1>4 DEF LetGo
<1>6. Made'
  <2>1. \A u \in Tasks : Ending(u)' => /\ task'[u].sdk \in SdkRooms
                                       /\ sdk'[task'[u].sdk].state # "none"
    BY <1>0, <1>1, <1>2, <1>3, <1>4, <1>5 DEF Made
  <2>2. \A u \in Tasks \ {t} : Connecting(u)' =>
            /\ task'[u].sdk \in SdkRooms /\ task'[u].sdk # r
            /\ sdk'[task'[u].sdk].state \in {"connecting", "ended"}
    BY <1>0, <1>1, <1>2, <1>3, <1>5 DEF Made
  <2>3. task'[t].sdk = r /\ sdk'[r].state = "connecting"
    BY <1>1, <1>4
  <2>4. \A u, w \in Tasks :
            Connecting(u)' /\ Connecting(w)' /\ task'[u].sdk = task'[w].sdk => u = w
    <3> SUFFICES ASSUME NEW u \in Tasks, NEW w \in Tasks,
                        Connecting(u)', Connecting(w)', task'[u].sdk = task'[w].sdk
                 PROVE  u = w
      OBVIOUS
    <3>1. CASE u = t \/ w = t
      BY <2>2, <2>3, <3>1
    <3>2. CASE u # t /\ w # t
      BY <1>0, <1>1, <1>2, <3>2 DEF Made
    <3> QED BY <3>1, <3>2
  <2>5. \A u \in Tasks : Connecting(u)' =>
            /\ task'[u].sdk \in SdkRooms
            /\ sdk'[task'[u].sdk].state \in {"connecting", "ended"}
    BY <1>3, <2>2, <2>3
  <2>6. current' # NoSdkRoom => sdk'[current'].state # "none"
    BY <2>3
  <2> QED BY <2>1, <2>4, <2>5, <2>6 DEF Made
<1>7. Enough'
  <2>1. Sound!Unused' = Sound!Unused \ {r}
    BY <1>3, <1>4, <1>5 DEF Sound!Unused
  <2>2. WillConnect' = WillConnect \ {t}
    BY <1>1, <1>2 DEF WillConnect
  <2>3. Cardinality(Sound!Unused') = Cardinality(Sound!Unused) - 1
    BY <2>1, Counted, FS_RemoveElement
  <2>4. Cardinality(WillConnect') \in Nat
    BY <2>2, Counted, FS_RemoveElement, FS_CardinalityType
  <2> QED BY <2>2, <2>3, <2>4, Counted DEF Enough
<1>8. Alone'
  <2> SUFFICES ASSUME ~shared'
               PROVE  Alone'
    BY DEF Alone
  <2>1. \A u \in Tasks : ~Ending(u)'
    BY <1>2
  <2>2. \A q \in Sound!Live' : q = current'
    BY <1>4 DEF LetGo, Sound!Live
  <2>3. ASSUME NEW q \in SdkRooms, sdk'[q].mic
        PROVE  sdk'[q].granted /\ sdk'[q].state = "connected"
    <3>1. q # r /\ sdk'[q] = sdk[q]
      BY <1>4, <2>3 DEF LetGo
    <3> QED BY <1>0, <2>3, <3>1 DEF Alone
  <2>4. ~Outside'
    OBVIOUS
  <2> QED BY <2>1, <2>2, <2>3, <2>4 DEF Alone
<1>9. current' \in SdkRooms \cup {NoSdkRoom} /\ publishAllowed' \in BOOLEAN
  BY <1>3
<1> QED BY <1>0, <1>1, <1>4, <1>6, <1>7, <1>8, <1>9 DEF SoundKept, SoundShape

\* A call of the client begins: it awaits the end of the current room, or goes on at once.
LEMMA BeginKeeps ==
    ASSUME SoundInv, NEW t \in Tasks, ~Ending(t), ~Connecting(t),
           NEW asked \in Requests, asked.step = "idle", Sound!Begin(t, asked),
           asked.purpose = "none" \/ Cardinality(WillConnect) < Cardinality(Sound!Unused),
           asked.purpose = "none" \/ ~Outside'
    PROVE  SoundKept
<1>0. SoundShape /\ Made /\ Enough /\ Alone
  BY DEF SoundInv
<1>1. CASE current # NoSdkRoom
  <2> DEFINE next == [asked EXCEPT !.step = "ending", !.sdk = current]
  <2>1. /\ task' = [task EXCEPT ![t] = next]
        /\ shared' = (shared \/ \E u \in Tasks : Sound!AwaitsEnd(u, current))
        /\ UNCHANGED <<sdk, current, publishAllowed>>
    BY <1>1 DEF Sound!Begin
  <2>2. /\ next \in Requests /\ next.step = "ending" /\ next.sdk = current
        /\ next.purpose = asked.purpose
    BY <1>0 DEF Requests, Steps, SoundShape
  <2> HIDE DEF next
  <2> QED BY <1>1, <2>1, <2>2, WaitKeeps
<1>2. CASE current = NoSdkRoom
  <2>1. /\ Sound!Proceed(t, asked, sdk)
        /\ publishAllowed' = FALSE /\ UNCHANGED shared
    BY <1>2 DEF Sound!Begin
  <2>2. ~shared => \A r \in SdkRooms : sdk[r].state \notin {"connecting", "connected"}
    BY <1>0, <1>2, ClientsAssumption DEF Alone, Sound!Live
  <2>3. LetGo(sdk)
    BY <1>0, <2>2 DEF LetGo, SoundShape
  <2>4. ~shared => \A u \in Tasks : ~Ending(u)
    BY <1>0, <1>2, ClientsAssumption DEF Alone, Made
  <2>5. CASE asked.purpose = "none"
    BY <1>0, <2>1, <2>3, <2>4, <2>5, LetGoKeeps DEF Sound!Proceed
  <2>6. CASE asked.purpose # "none"
    <3> DEFINE r == CHOOSE x \in Sound!Unused : \A y \in Sound!Unused : x <= y
               made == [state |-> "connecting", purpose |-> asked.purpose,
                        granted |-> asked.granted, mic |-> FALSE]
               next == [asked EXCEPT !.step = "connecting", !.sdk = r]
    <3>1. /\ sdk' = [sdk EXCEPT ![r] = made] /\ current' = r
          /\ task' = [task EXCEPT ![t] = next]
      BY <2>1, <2>6 DEF Sound!Proceed
    <3>2. r \in Sound!Unused
      <4>1. Sound!Unused # {}
        BY <2>6, Counted, FS_EmptySet
      <4> QED BY <4>1, LeastUnused
    <3>3. made \in SdkRoom /\ made.state = "connecting" /\ ~made.mic
      BY DEF SdkRoom, Requests
    <3> HIDE DEF r
    <3>4. r \in SdkRooms
      BY <3>2 DEF Sound!Unused
    <3>5. next \in Requests /\ next.step = "connecting" /\ next.sdk = r
      BY <3>4 DEF Requests, Steps
    <3> HIDE DEF made, next
    <3>6. WillConnect \ {t} = WillConnect
      BY DEF WillConnect
    <3> QED BY <2>1, <2>3, <2>4, <2>6, <3>1, <3>2, <3>3, <3>5, <3>6, ConnectKeeps
  <2> QED BY <2>5, <2>6
<1> QED BY <1>1, <1>2

\* ... of which there are as many at once as SDK rooms are left.
LEMMA CallKeeps ==
    ASSUME SoundInv, NEW asked \in Requests, asked.step = "idle", Sound!Calls(asked),
           asked.purpose = "none" \/ ~Outside'
    PROVE  SoundKept
<1>1. PICK t \in Tasks : task[t].step = "idle" /\ Sound!Begin(t, asked)
  BY DEF Sound!Calls
<1>2. Cardinality(WillConnect) < Cardinality(Sound!Unused)
  <2> DEFINE ending == {u \in Tasks : task[u].step = "ending"}
  <2>1. Cardinality(Sound!Unused) > Cardinality(ending)
    BY SoundCounts DEF Sound!Calls
  <2>2. WillConnect \in SUBSET ending /\ ending \in SUBSET Tasks
    BY DEF WillConnect, Ending
  <2> HIDE DEF ending
  <2>3. IsFiniteSet(ending) /\ Cardinality(ending) \in Nat
    BY <2>2, FS_Subset, FS_CardinalityType, ClientsAssumption
  <2>4. Cardinality(WillConnect) <= Cardinality(ending)
    BY <2>2, <2>3, FS_Subset
  <2> QED BY <2>1, <2>3, <2>4, Counted
<1>3. ~Ending(t) /\ ~Connecting(t)
  BY <1>1 DEF Ending, Connecting
<1> QED BY <1>1, <1>2, <1>3, BeginKeeps

\* The room a call awaited has ended.
LEMMA EndedKeeps ==
    ASSUME SoundInv, NEW t \in Tasks, Sound!Ended(t)
    PROVE  SoundKept
<1>0. SoundShape /\ Made /\ Enough /\ Alone
  BY DEF SoundInv
<1> DEFINE asked == task[t]
           rooms == [sdk EXCEPT ![task[t].sdk].state = "ended", ![task[t].sdk].mic = FALSE]
<1>1. /\ Ending(t) /\ ~Connecting(t)
      /\ Sound!Proceed(t, asked, rooms)
      /\ publishAllowed' = FALSE /\ UNCHANGED <<shared, screen, call>>
  BY DEF Sound!Ended, Ending, Connecting
<1>2. asked \in Requests /\ asked.sdk \in SdkRooms /\ sdk[asked.sdk].state # "none"
  BY <1>0, <1>1 DEF SoundShape, Made
<1>3. /\ rooms \in [SdkRooms -> SdkRoom]
      /\ rooms[asked.sdk].state = "ended" /\ ~rooms[asked.sdk].mic
      /\ \A r \in SdkRooms \ {asked.sdk} : rooms[r] = sdk[r]
  BY <1>0, <1>2 DEF SoundShape, SdkRoom
<1> HIDE DEF rooms
<1>4. ~shared => \A r \in SdkRooms : rooms[r].state \notin {"connecting", "connected"}
  BY <1>0, <1>1, <1>3 DEF Alone, Sound!Live
<1>5. LetGo(rooms)
  BY <1>2, <1>3, <1>4 DEF LetGo
<1>6. ~shared => \A u \in Tasks \ {t} : ~Ending(u)
  BY <1>0, <1>1 DEF Alone
<1>7. CASE asked.purpose = "none"
  BY <1>1, <1>5, <1>6, <1>7, LetGoKeeps DEF Sound!Proceed
<1>8. CASE asked.purpose # "none"
  <2> DEFINE r == CHOOSE x \in Sound!Unused : \A y \in Sound!Unused : x <= y
             made == [state |-> "connecting", purpose |-> asked.purpose,
                      granted |-> asked.granted, mic |-> FALSE]
             next == [asked EXCEPT !.step = "connecting", !.sdk = r]
  <2>1. /\ sdk' = [rooms EXCEPT ![r] = made] /\ current' = r
        /\ task' = [task EXCEPT ![t] = next]
    BY <1>1, <1>8 DEF Sound!Proceed
  <2>2. t \in WillConnect
    BY <1>1, <1>8 DEF WillConnect
  <2>3. Cardinality(WillConnect \ {t}) < Cardinality(Sound!Unused)
    <3>1. Cardinality(WillConnect \ {t}) = Cardinality(WillConnect) - 1
      BY <2>2, Counted, FS_RemoveElement
    <3> QED BY <1>0, <3>1, Counted DEF Enough
  <2>4. r \in Sound!Unused
    <3>1. WillConnect # {}
      BY <2>2
    <3>2. Cardinality(WillConnect) # 0
      BY <3>1, Counted, FS_EmptySet
    <3>3. Cardinality(Sound!Unused) # 0
      BY <1>0, <3>2, Counted DEF Enough
    <3>4. Sound!Unused # {}
      BY <3>3, FS_EmptySet
    <3> QED BY <3>4, LeastUnused
  <2>5. made \in SdkRoom /\ made.state = "connecting" /\ ~made.mic
    BY <1>2 DEF SdkRoom, Requests
  <2> HIDE DEF r
  <2>6. r \in SdkRooms
    BY <2>4 DEF Sound!Unused
  <2>7. next \in Requests /\ next.step = "connecting" /\ next.sdk = r
    BY <1>2, <2>6 DEF Requests, Steps
  <2> HIDE DEF made, next
  <2>8. shared \/ ~Outside'
    BY <1>0, <1>1, <1>8 DEF Alone, Outside
  <2> QED BY <1>1, <1>5, <1>6, <2>1, <2>3, <2>4, <2>5, <2>7, <2>8, ConnectKeeps
<1> QED BY <1>7, <1>8

\* The room a call made is connected, and the media server ends an older one.
LEMMA ConnectedKeeps ==
    ASSUME SoundInv, NEW t \in Tasks, Sound!Connected(t)
    PROVE  SoundKept
<1>0. SoundShape /\ Made /\ Enough /\ Alone
  BY DEF SoundInv
<1> DEFINE r == task[t].sdk
           next == IF task[t].mic THEN [task[t] EXCEPT !.step = "mic"] ELSE Sound!Idle
<1>1. /\ Connecting(t) /\ sdk[r].state = "connecting"
      /\ sdk' = [x \in SdkRooms |->
                 IF x = r THEN [sdk[x] EXCEPT !.state = "connected"]
                 ELSE IF x \in Sound!Live /\ sdk[x].purpose = sdk[r].purpose
                 THEN [sdk[x] EXCEPT !.state = "ended", !.mic = FALSE] ELSE sdk[x]]
      /\ publishAllowed' = sdk[r].granted
      /\ UNCHANGED <<screen, call, current, shared>>
  BY DEF Sound!Connected, Connecting
<1>2. task' = [task EXCEPT ![t] = next]
  BY <1>0 DEF Sound!Connected, SoundShape
<1>3. next \in Requests /\ next.step \in {"idle", "mic"}
  BY <1>0, IdleIsRequest DEF SoundShape, Requests, Steps
<1> HIDE DEF next
<1>4. /\ task' \in [Tasks -> Requests] /\ task'[t] = next
      /\ \A u \in Tasks \ {t} : task'[u] = task[u]
  BY <1>0, <1>2, <1>3 DEF SoundShape
<1>5. /\ ~Ending(t)' /\ ~Connecting(t)' /\ ~Ending(t)
      /\ \A u \in Tasks \ {t} : (Ending(u)' <=> Ending(u)) /\ (Connecting(u)' <=> Connecting(u))
  BY <1>1, <1>3, <1>4 DEF Ending, Connecting
<1>6. r \in SdkRooms
  BY <1>0, <1>1 DEF Made
<1>7. /\ sdk' \in [SdkRooms -> SdkRoom]
      /\ sdk'[r].state = "connected" /\ sdk'[r].mic = sdk[r].mic
      /\ sdk'[r].granted = sdk[r].granted
      /\ \A x \in SdkRooms \ {r} :
            sdk'[x] = sdk[x] \/ (x \in Sound!Live /\ sdk'[x].state = "ended" /\ ~sdk'[x].mic)
  <2> DEFINE ended(x) == [sdk[x] EXCEPT !.state = "ended", !.mic = FALSE]
             opened == [sdk[r] EXCEPT !.state = "connected"]
  <2>1. \A x \in SdkRooms : /\ ended(x) \in SdkRoom /\ ended(x).state = "ended"
                            /\ ~ended(x).mic
    BY <1>0 DEF SoundShape, SdkRoom
  <2>2. /\ opened \in SdkRoom /\ opened.state = "connected" /\ opened.mic = sdk[r].mic
        /\ opened.granted = sdk[r].granted
    BY <1>0, <1>6 DEF SoundShape, SdkRoom
  <2>3. \A x \in SdkRooms : sdk[x] \in SdkRoom
    BY <1>0 DEF SoundShape
  <2>4. sdk' = [x \in SdkRooms |->
                  IF x = r THEN opened
                  ELSE IF x \in Sound!Live /\ sdk[x].purpose = sdk[r].purpose
                  THEN ended(x) ELSE sdk[x]]
    BY <1>1
  <2> HIDE DEF ended, opened
  <2> QED BY <1>6, <2>1, <2>2, <2>3, <2>4
<1>8. Made'
  <2>1. \A x \in SdkRooms : (x \in Sound!Live /\ sdk'[x].state = "ended") => sdk[x].state # "none"
    BY DEF Sound!Live
  <2>2. \A x \in SdkRooms : sdk[x].state # "none" => sdk'[x].state # "none"
    BY <1>7
  <2>3. current' # NoSdkRoom => sdk'[current'].state # "none"
    BY <1>0, <1>1, <2>2 DEF Made, SoundShape
  <2>4. \A u \in Tasks : Ending(u)' => /\ task'[u].sdk \in SdkRooms
                                       /\ sdk'[task'[u].sdk].state # "none"
    BY <1>0, <1>4, <1>5, <2>2 DEF Made
  <2>5. \A u \in Tasks : Connecting(u)' =>
            /\ task'[u].sdk \in SdkRooms /\ task'[u].sdk # r
            /\ sdk'[task'[u].sdk].state \in {"connecting", "ended"}
    <3> SUFFICES ASSUME NEW u \in Tasks, Connecting(u)'
                 PROVE  /\ task'[u].sdk \in SdkRooms \ {r}
                        /\ sdk'[task'[u].sdk].state \in {"connecting", "ended"}
      OBVIOUS
    <3>1. u # t /\ Connecting(u) /\ task'[u] = task[u]
      BY <1>4, <1>5
    <3> DEFINE x == task[u].sdk
    <3>2. x \in SdkRooms /\ x # r /\ sdk[x].state \in {"connecting", "ended"}
      BY <1>0, <1>1, <3>1 DEF Made
    <3> HIDE DEF x, r
    <3>3. sdk'[x].state \in {"connecting", "ended"}
      BY <1>7, <3>2
    <3> QED BY <3>1, <3>2, <3>3 DEF x
  <2>6. \A u, w \in Tasks :
            Connecting(u)' /\ Connecting(w)' /\ task'[u].sdk = task'[w].sdk => u = w
    BY <1>0, <1>4, <1>5 DEF Made
  <2> QED BY <2>3, <2>4, <2>5, <2>6 DEF Made
<1>9. Enough'
  <2>1. \A x \in SdkRooms : sdk'[x].state = "none" <=> sdk[x].state = "none"
    BY <1>1, <1>7 DEF Sound!Live
  <2>2. Sound!Unused' = Sound!Unused
    BY <2>1 DEF Sound!Unused
  <2>3. WillConnect' = WillConnect
    BY <1>4, <1>5 DEF WillConnect
  <2> QED BY <1>0, <2>2, <2>3 DEF Enough
<1>10. Alone'
  <2> SUFFICES ASSUME ~shared'
               PROVE  Alone'
    BY DEF Alone
  <2>1. ~shared /\ r \in Sound!Live /\ r = current
    BY <1>0, <1>1, <1>6 DEF Alone, Sound!Live
  <2>2. \A x \in Sound!Live' : x \in Sound!Live
    BY <1>7, <2>1 DEF Sound!Live
  <2>3. \A u \in Tasks : Ending(u)' => Ending(u) /\ task'[u] = task[u]
    BY <1>4, <1>5
  <2>4. /\ \A u \in Tasks : Ending(u)' => task'[u].sdk = current'
        /\ \A u, w \in Tasks : Ending(u)' /\ Ending(w)' => u = w
        /\ \A x \in Sound!Live' : x = current'
    BY <1>0, <1>1, <2>1, <2>2, <2>3 DEF Alone
  <2>5. publishAllowed' => sdk'[current'].granted
    BY <1>1, <1>7, <2>1
  <2>6. \A x \in SdkRooms : sdk'[x].mic => sdk'[x].granted /\ sdk'[x].state = "connected"
    BY <1>0, <1>1, <1>6, <1>7, <2>1 DEF Alone
  <2>7. Outside' => Outside
    BY <1>1 DEF Outside
  <2>8. Outside' => /\ \A u \in Tasks : Ending(u)' => task'[u].purpose = "none"
                    /\ Sound!Live' # {} => \E u \in Tasks : Ending(u)'
    <3> SUFFICES ASSUME Outside'
                 PROVE  /\ \A u \in Tasks : Ending(u)' => task'[u].purpose = "none"
                        /\ Sound!Live' # {} => \E u \in Tasks : Ending(u)'
      OBVIOUS
    <3>1. /\ \A u \in Tasks : Ending(u) => task[u].purpose = "none"
          /\ Sound!Live # {} => \E u \in Tasks : Ending(u)
      BY <1>0, <2>1, <2>7 DEF Alone
    <3>2. Sound!Live' # {} => Sound!Live # {}
      BY <2>2
    <3> QED BY <1>5, <2>3, <3>1, <3>2
  <2> QED BY <2>4, <2>5, <2>6, <2>8 DEF Alone
<1>11. publishAllowed' \in BOOLEAN /\ current' \in SdkRooms \cup {NoSdkRoom} /\ shared' \in BOOLEAN
  BY <1>0, <1>1, <1>6 DEF SoundShape, SdkRoom
<1> QED BY <1>4, <1>7, <1>8, <1>9, <1>10, <1>11 DEF SoundKept

\* What leaves the calls that await an end and those that connect as they are, and at most
\* ends a room or touches its microphone.
LEMMA RoomsKeep ==
    ASSUME SoundInv, sdk' \in [SdkRooms -> SdkRoom], task' \in [Tasks -> Requests],
           publishAllowed' \in BOOLEAN, UNCHANGED <<current, shared>>,
           \A r \in SdkRooms : \/ sdk'[r].state = sdk[r].state
                               \/ sdk[r].state # "none" /\ sdk'[r].state = "ended",
           \A u \in Tasks : /\ Ending(u)' <=> Ending(u)
                            /\ Connecting(u)' => Connecting(u)
                            /\ Ending(u)' \/ Connecting(u)' =>
                                   task'[u].sdk = task[u].sdk /\ task'[u].purpose = task[u].purpose,
           ~shared => /\ publishAllowed' /\ current # NoSdkRoom
                            /\ sdk'[current].state = "connected" => sdk'[current].granted
                      /\ \A r \in SdkRooms : sdk'[r].mic =>
                             sdk'[r].granted /\ sdk'[r].state = "connected",
           Outside' => Outside
    PROVE  SoundKept
<1>0. SoundShape /\ Made /\ Enough /\ Alone
  BY DEF SoundInv
<1>1. Made'
  <2>1. current' # NoSdkRoom => sdk'[current'].state # "none"
    BY <1>0 DEF Made, SoundShape
  <2>2. \A u \in Tasks : Ending(u)' => /\ task'[u].sdk \in SdkRooms
                                       /\ sdk'[task'[u].sdk].state # "none"
    BY <1>0 DEF Made
  <2>3. \A u \in Tasks : Connecting(u)' =>
            /\ task'[u].sdk \in SdkRooms
            /\ sdk'[task'[u].sdk].state \in {"connecting", "ended"}
    BY <1>0 DEF Made
  <2>4. \A u, w \in Tasks :
            Connecting(u)' /\ Connecting(w)' /\ task'[u].sdk = task'[w].sdk => u = w
    BY <1>0 DEF Made
  <2> QED BY <2>1, <2>2, <2>3, <2>4 DEF Made
<1>2. Enough'
  <2>1. Sound!Unused' = Sound!Unused
    BY DEF Sound!Unused
  <2>2. WillConnect' = WillConnect
    BY DEF WillConnect
  <2> QED BY <1>0, <2>1, <2>2 DEF Enough
<1>3. Alone'
  <2> SUFFICES ASSUME ~shared
               PROVE  Alone'
    BY DEF Alone
  <2>1. \A r \in Sound!Live' : r \in Sound!Live
    BY DEF Sound!Live
  <2>2. /\ \A u \in Tasks : Ending(u)' => task'[u].sdk = current'
        /\ \A u, w \in Tasks : Ending(u)' /\ Ending(w)' => u = w
        /\ \A r \in Sound!Live' : r = current'
    BY <1>0, <2>1 DEF Alone
  <2>3. ASSUME Outside'
        PROVE  /\ \A u \in Tasks : Ending(u)' => task'[u].purpose = "none"
               /\ Sound!Live' # {} => \E u \in Tasks : Ending(u)'
    <3>1. /\ \A u \in Tasks : Ending(u) => task[u].purpose = "none"
          /\ Sound!Live # {} => \E u \in Tasks : Ending(u)
      BY <1>0, <2>3 DEF Alone
    <3>2. Sound!Live' # {} => Sound!Live # {}
      BY <2>1
    <3> QED BY <3>1, <3>2
  <2> QED BY <2>2, <2>3 DEF Alone
<1>4. current' \in SdkRooms \cup {NoSdkRoom} /\ shared' \in BOOLEAN
  BY <1>0 DEF SoundShape
<1> QED BY <1>1, <1>2, <1>3, <1>4 DEF SoundKept

\* The connection fails.
LEMMA ConnectFailsKeeps ==
    ASSUME SoundInv, NEW t \in Tasks, Sound!ConnectFails(t)
    PROVE  SoundKept
<1>0. SoundShape /\ Made /\ Enough /\ Alone
  BY DEF SoundInv
<1> DEFINE r == task[t].sdk
           next == IF task[t].purpose = "call" THEN [Sound!Idle EXCEPT !.step = "ends call"]
                   ELSE Sound!Idle
           failed == [sdk[r] EXCEPT !.state = "ended"]
<1>1. /\ Connecting(t)
      /\ task' = [task EXCEPT ![t] = next]
      /\ UNCHANGED <<screen, call, current, publishAllowed, shared>>
  BY DEF Sound!ConnectFails, Connecting
<1>2. r \in SdkRooms /\ sdk[r].state \in {"connecting", "ended"}
  BY <1>0, <1>1 DEF Made
<1>3. sdk' = [sdk EXCEPT ![r] = failed]
  BY DEF Sound!ConnectFails
<1>4. next \in Requests /\ next.step \in {"idle", "ends call"}
  BY IdleIsRequest DEF Requests, Steps
<1>5. /\ failed \in SdkRoom /\ failed.state = "ended" /\ failed.mic = sdk[r].mic
  BY <1>0, <1>2 DEF SoundShape, SdkRoom
<1> HIDE DEF next, failed
<1>6. /\ task' \in [Tasks -> Requests] /\ task'[t] = next
      /\ \A u \in Tasks \ {t} : task'[u] = task[u]
  BY <1>0, <1>1, <1>4 DEF SoundShape
<1>7. /\ sdk' \in [SdkRooms -> SdkRoom] /\ sdk'[r] = failed
      /\ \A x \in SdkRooms \ {r} : sdk'[x] = sdk[x]
  BY <1>0, <1>2, <1>3, <1>5 DEF SoundShape
<1>8. \A u \in Tasks : /\ Ending(u)' <=> Ending(u)
                       /\ Connecting(u)' => Connecting(u)
                       /\ Ending(u)' \/ Connecting(u)' =>
                              task'[u].sdk = task[u].sdk /\ task'[u].purpose = task[u].purpose
  BY <1>1, <1>4, <1>6 DEF Ending, Connecting
<1>9. ~shared => /\ publishAllowed' /\ current # NoSdkRoom
                        /\ sdk'[current].state = "connected" => sdk'[current].granted
                 /\ \A x \in SdkRooms : sdk'[x].mic =>
                        sdk'[x].granted /\ sdk'[x].state = "connected"
  <2> SUFFICES ASSUME ~shared
               PROVE  /\ publishAllowed' /\ current # NoSdkRoom
                             /\ sdk'[current].state = "connected" => sdk'[current].granted
                      /\ \A x \in SdkRooms : sdk'[x].mic =>
                             sdk'[x].granted /\ sdk'[x].state = "connected"
    OBVIOUS
  <2>1. /\ publishAllowed /\ current # NoSdkRoom /\ sdk[current].state = "connected" =>
               sdk[current].granted
        /\ \A x \in SdkRooms : sdk[x].mic => sdk[x].granted /\ sdk[x].state = "connected"
    BY <1>0 DEF Alone
  <2>2. current # NoSdkRoom => current \in SdkRooms
    BY <1>0 DEF SoundShape
  <2>3. ~failed.mic
    BY <1>2, <1>5, <2>1
  <2> QED BY <1>1, <1>5, <1>7, <2>1, <2>2, <2>3
<1>10. \A x \in SdkRooms : \/ sdk'[x].state = sdk[x].state
                           \/ sdk[x].state # "none" /\ sdk'[x].state = "ended"
  BY <1>2, <1>5, <1>7
<1>11. publishAllowed' \in BOOLEAN /\ (Outside' => Outside)
  BY <1>0, <1>1 DEF SoundShape, Outside
<1> QED BY <1>1, <1>6, <1>7, <1>8, <1>9, <1>10, <1>11, RoomsKeep

\* The microphone of the current room is switched on or off, by a client that may.
LEMMA MicKeeps ==
    ASSUME SoundInv, NEW on \in BOOLEAN, current # NoSdkRoom, sdk[current].state = "connected",
           on => Sound!MayPublish, sdk' = [sdk EXCEPT ![current].mic = on],
           task' \in [Tasks -> Requests],
           \A u \in Tasks : /\ Ending(u)' <=> Ending(u)
                            /\ Connecting(u)' => Connecting(u)
                            /\ Ending(u)' \/ Connecting(u)' =>
                                   task'[u].sdk = task[u].sdk /\ task'[u].purpose = task[u].purpose,
           UNCHANGED <<screen, call, current, publishAllowed, shared>>
    PROVE  SoundKept
<1>0. SoundShape /\ Made /\ Enough /\ Alone
  BY DEF SoundInv
<1> DEFINE switched == [sdk[current] EXCEPT !.mic = on]
<1>1. current \in SdkRooms
  BY <1>0 DEF SoundShape
<1>2. sdk' = [sdk EXCEPT ![current] = switched]
  OBVIOUS
<1>3. /\ switched \in SdkRoom /\ switched.state = sdk[current].state
      /\ switched.granted = sdk[current].granted /\ switched.mic = on
  BY <1>0, <1>1 DEF SoundShape, SdkRoom
<1> HIDE DEF switched
<1>4. /\ sdk' \in [SdkRooms -> SdkRoom] /\ sdk'[current] = switched
      /\ \A x \in SdkRooms \ {current} : sdk'[x] = sdk[x]
  BY <1>0, <1>1, <1>2, <1>3 DEF SoundShape
<1>5. ~shared => /\ publishAllowed' /\ current # NoSdkRoom
                        /\ sdk'[current].state = "connected" => sdk'[current].granted
                 /\ \A x \in SdkRooms : sdk'[x].mic =>
                        sdk'[x].granted /\ sdk'[x].state = "connected"
  <2> SUFFICES ASSUME ~shared
               PROVE  /\ publishAllowed => sdk'[current].granted
                      /\ \A x \in SdkRooms : sdk'[x].mic =>
                             sdk'[x].granted /\ sdk'[x].state = "connected"
    OBVIOUS
  <2>1. /\ publishAllowed => sdk[current].granted
        /\ \A x \in SdkRooms : sdk[x].mic => sdk[x].granted /\ sdk[x].state = "connected"
    BY <1>0 DEF Alone
  <2>2. on => publishAllowed
    BY DEF Sound!MayPublish
  <2> QED BY <1>3, <1>4, <2>1, <2>2
<1>6. \A x \in SdkRooms : sdk'[x].state = sdk[x].state
  BY <1>3, <1>4
<1>7. publishAllowed' \in BOOLEAN /\ (Outside' => Outside)
  BY <1>0 DEF SoundShape, Outside
<1> QED BY <1>4, <1>5, <1>6, <1>7, RoomsKeep

LEMMA SetMicrophoneKeeps ==
    ASSUME SoundInv, NEW t \in Tasks, Sound!SetMicrophoneEnabled(t)
    PROVE  SoundKept
<1>0. SoundShape /\ Made /\ Enough /\ Alone
  BY DEF SoundInv
<1> DEFINE next == IF task[t].purpose = "call" /\ current # NoSdkRoom /\ ~Sound!MayPublish
                   THEN [Sound!Idle EXCEPT !.step = "ends call"] ELSE Sound!Idle
<1>1. /\ task[t].step = "mic" /\ task' = [task EXCEPT ![t] = next]
      /\ UNCHANGED <<screen, call, current, publishAllowed, shared>>
  BY DEF Sound!SetMicrophoneEnabled
<1>2. next \in Requests /\ next.step \in {"idle", "ends call"}
  BY IdleIsRequest DEF Requests, Steps
<1> HIDE DEF next
<1>3. /\ task' \in [Tasks -> Requests] /\ task'[t] = next
      /\ \A u \in Tasks \ {t} : task'[u] = task[u]
  BY <1>0, <1>1, <1>2 DEF SoundShape
<1>4. \A u \in Tasks : /\ Ending(u)' <=> Ending(u)
                       /\ Connecting(u)' => Connecting(u)
                       /\ Ending(u)' \/ Connecting(u)' =>
                              task'[u].sdk = task[u].sdk /\ task'[u].purpose = task[u].purpose
  BY <1>1, <1>2, <1>3 DEF Ending, Connecting
<1>5. CASE Sound!MayPublish /\ sdk[current].state = "connected"
  <2>1. sdk' = [sdk EXCEPT ![current].mic = TRUE] /\ current # NoSdkRoom
    BY <1>5 DEF Sound!SetMicrophoneEnabled, Sound!MayPublish
  <2> QED BY <1>1, <1>3, <1>4, <1>5, <2>1, MicKeeps
<1>6. CASE ~(Sound!MayPublish /\ sdk[current].state = "connected")
  <2>1. UNCHANGED sdk
    BY <1>6 DEF Sound!SetMicrophoneEnabled
  <2>2. sdk' \in [SdkRooms -> SdkRoom] /\ publishAllowed' \in BOOLEAN /\ (Outside' => Outside)
    BY <1>0, <1>1, <2>1 DEF SoundShape, Outside
  <2>3. ~shared => /\ publishAllowed' /\ current # NoSdkRoom
                          /\ sdk'[current].state = "connected" => sdk'[current].granted
                   /\ \A x \in SdkRooms : sdk'[x].mic =>
                          sdk'[x].granted /\ sdk'[x].state = "connected"
    BY <1>0, <1>1, <2>1 DEF Alone
  <2> QED BY <1>1, <1>3, <1>4, <2>1, <2>2, <2>3, RoomsKeep
<1> QED BY <1>5, <1>6

LEMMA ToggleKeeps ==
    ASSUME SoundInv, Sound!ToggleMic
    PROVE  SoundKept
<1>0. SoundShape /\ Made /\ Enough /\ Alone
  BY DEF SoundInv
<1> DEFINE on == ~sdk[current].mic /\ Sound!MayPublish
<1>1. /\ current # NoSdkRoom /\ sdk[current].state = "connected"
      /\ sdk' = [sdk EXCEPT ![current].mic = on]
      /\ UNCHANGED <<screen, call, current, publishAllowed, task, shared>>
  BY DEF Sound!ToggleMic
<1>2. on \in BOOLEAN /\ (on => Sound!MayPublish)
  OBVIOUS
<1> HIDE DEF on
<1>3. task' \in [Tasks -> Requests]
  BY <1>0, <1>1 DEF SoundShape
<1>4. \A u \in Tasks : (Ending(u)' <=> Ending(u)) /\ (Connecting(u)' <=> Connecting(u))
  BY <1>1 DEF Ending, Connecting
<1> QED BY <1>1, <1>2, <1>3, <1>4, MicKeeps

\* A demotion reaches the rooms, the calls on their way to one, and the client in one.
LEMMA DemotedKeeps ==
    ASSUME SoundInv, Sound!Demoted
    PROVE  SoundKept
<1>0. SoundShape /\ Made /\ Enough /\ Alone
  BY DEF SoundInv
<1> DEFINE revoked(r) == [sdk[r] EXCEPT !.granted = FALSE, !.mic = FALSE]
           without(u) == [task[u] EXCEPT !.granted = FALSE]
<1>1. /\ sdk' = [r \in SdkRooms |-> IF sdk[r].purpose = "room" THEN revoked(r) ELSE sdk[r]]
      /\ task' = [u \in Tasks |-> IF task[u].purpose = "room" THEN without(u) ELSE task[u]]
      /\ publishAllowed' =
             (publishAllowed /\ \A r \in SdkRooms :
                                   sdk[r].state = "connected" => sdk[r].purpose # "room")
      /\ UNCHANGED <<screen, call, current, shared>>
  BY DEF Sound!Demoted
<1>2. \A r \in SdkRooms : /\ revoked(r) \in SdkRoom /\ revoked(r).state = sdk[r].state
                          /\ ~revoked(r).mic /\ sdk[r] \in SdkRoom
  BY <1>0 DEF SoundShape, SdkRoom
<1>3. \A u \in Tasks : /\ without(u) \in Requests /\ without(u).step = task[u].step
                       /\ without(u).sdk = task[u].sdk /\ without(u).purpose = task[u].purpose
                       /\ task[u] \in Requests
  BY <1>0 DEF SoundShape, Requests
<1> HIDE DEF revoked, without
<1>4. /\ sdk' \in [SdkRooms -> SdkRoom]
      /\ \A r \in SdkRooms : /\ sdk'[r].state = sdk[r].state
                             /\ sdk'[r] = sdk[r] \/ (sdk[r].purpose = "room" /\ ~sdk'[r].mic)
  BY <1>1, <1>2
<1>5. /\ task' \in [Tasks -> Requests]
      /\ \A u \in Tasks : /\ task'[u].step = task[u].step
                          /\ task'[u].sdk = task[u].sdk /\ task'[u].purpose = task[u].purpose
  BY <1>1, <1>3
<1>6. \A u \in Tasks : (Ending(u)' <=> Ending(u)) /\ (Connecting(u)' <=> Connecting(u))
  BY <1>5 DEF Ending, Connecting
<1>7. ~shared => /\ publishAllowed' /\ current # NoSdkRoom
                        /\ sdk'[current].state = "connected" => sdk'[current].granted
                 /\ \A x \in SdkRooms : sdk'[x].mic =>
                        sdk'[x].granted /\ sdk'[x].state = "connected"
  <2> SUFFICES ASSUME ~shared
               PROVE  /\ publishAllowed' /\ current # NoSdkRoom
                             /\ sdk'[current].state = "connected" => sdk'[current].granted
                      /\ \A x \in SdkRooms : sdk'[x].mic =>
                             sdk'[x].granted /\ sdk'[x].state = "connected"
    OBVIOUS
  <2>1. /\ publishAllowed /\ current # NoSdkRoom /\ sdk[current].state = "connected" =>
               sdk[current].granted
        /\ \A x \in SdkRooms : sdk[x].mic => sdk[x].granted /\ sdk[x].state = "connected"
    BY <1>0 DEF Alone
  <2>2. current # NoSdkRoom => current \in SdkRooms
    BY <1>0 DEF SoundShape
  <2> QED BY <1>1, <1>4, <2>1, <2>2
<1>8. publishAllowed' \in BOOLEAN /\ (Outside' => Outside)
  BY <1>0, <1>1 DEF SoundShape, Outside
<1> QED BY <1>1, <1>4, <1>5, <1>6, <1>7, <1>8, RoomsKeep

\* What a connect asks for.
LEMMA Asks ==
    ASSUME NEW purpose \in Purposes, NEW granted \in BOOLEAN, NEW mic \in BOOLEAN
    PROVE  /\ Sound!Connect(purpose, granted, mic) \in Requests
           /\ Sound!Connect(purpose, granted, mic).step = "idle"
BY DEF Sound!Connect, Sound!Idle, Requests, Steps, Purposes

LEMMA SoundNext ==
    ASSUME SoundInv, Sound!Next
    PROVE  SoundInv'
<1>0. SoundShape /\ Made /\ Enough /\ Alone
  BY DEF SoundInv
<1>1. ASSUME NEW t \in Tasks, \/ Sound!Ended(t) \/ Sound!Connected(t) \/ Sound!ConnectFails(t)
                              \/ Sound!SetMicrophoneEnabled(t) \/ Sound!GiveUpCall(t)
      PROVE  SoundKept /\ UNCHANGED <<screen, role>> /\ call' \in {call, "none"}
  <2>1. CASE Sound!GiveUpCall(t)
    <3>1. /\ task[t].step = "ends call" /\ Sound!Begin(t, Sound!Idle)
          /\ UNCHANGED <<screen, role>> /\ call' = "none"
      BY <2>1 DEF Sound!GiveUpCall
    <3>2. ~Ending(t) /\ ~Connecting(t)
      BY <3>1 DEF Ending, Connecting
    <3> QED BY <3>1, <3>2, IdleIsRequest, BeginKeeps
  <2>2. CASE Sound!Ended(t)
    BY <2>2, EndedKeeps DEF Sound!Ended
  <2>3. CASE Sound!Connected(t)
    BY <2>3, ConnectedKeeps DEF Sound!Connected
  <2>4. CASE Sound!ConnectFails(t)
    BY <2>4, ConnectFailsKeeps DEF Sound!ConnectFails
  <2>5. CASE Sound!SetMicrophoneEnabled(t)
    BY <2>5, SetMicrophoneKeeps DEF Sound!SetMicrophoneEnabled
  <2> QED BY <1>1, <2>1, <2>2, <2>3, <2>4, <2>5
<1>2. CASE Sound!ToggleMic
  <2>1. UNCHANGED <<screen, role, call>>
    BY <1>2 DEF Sound!ToggleMic
  <2> QED BY <1>0, <1>2, <2>1, ToggleKeeps DEF SoundKept, SoundInv, SoundShape
<1>3. CASE Sound!Demoted
  <2>1. UNCHANGED <<screen, call>> /\ role' = "listener"
    BY <1>3 DEF Sound!Demoted
  <2> QED BY <1>0, <1>3, <2>1, DemotedKeeps DEF SoundKept, SoundInv, SoundShape
<1>4. CASE Sound!RoomState
  <2> DEFINE asked == Sound!Connect("room", role = "speaker", FALSE)
  <2>1. Sound!Calls(asked) /\ screen = "room" /\ UNCHANGED <<screen, role, call>>
    BY <1>4 DEF Sound!RoomState
  <2>2. asked \in Requests /\ asked.step = "idle"
    BY Asks DEF Purposes
  <2>3. ~Outside'
    BY <2>1 DEF Outside
  <2> HIDE DEF asked
  <2> QED BY <1>0, <2>1, <2>2, <2>3, CallKeeps DEF SoundKept, SoundInv, SoundShape
<1>5. CASE Sound!Promoted
  <2> DEFINE asked == Sound!Connect("room", TRUE, TRUE)
  <2>1. Sound!Calls(asked) /\ screen = "room" /\ role' = "speaker" /\ UNCHANGED <<screen, call>>
    BY <1>5 DEF Sound!Promoted
  <2>2. asked \in Requests /\ asked.step = "idle"
    BY Asks DEF Purposes
  <2>3. ~Outside'
    BY <2>1 DEF Outside
  <2> HIDE DEF asked
  <2> QED BY <1>0, <2>1, <2>2, <2>3, CallKeeps DEF SoundKept, SoundInv, SoundShape
<1>6. CASE Sound!CallAccepted
  <2> DEFINE asked == Sound!Connect("call", TRUE, TRUE)
  <2>1. Sound!Calls(asked) /\ call' = "connected" /\ UNCHANGED <<screen, role>>
    BY <1>6 DEF Sound!CallAccepted
  <2>2. asked \in Requests /\ asked.step = "idle"
    BY Asks DEF Purposes
  <2>3. ~Outside'
    BY <2>1 DEF Outside
  <2> HIDE DEF asked
  <2> QED BY <1>0, <2>1, <2>2, <2>3, CallKeeps DEF SoundKept, SoundInv, SoundShape
<1>7. CASE Sound!LeaveScreen \/ Sound!EndLocally
  <2>1. /\ Sound!Calls(Sound!Idle)
        /\ screen' \in {screen, "elsewhere"} /\ role' \in {role, "listener"}
        /\ call' \in {call, "none"}
    BY <1>7 DEF Sound!LeaveScreen, Sound!EndLocally
  <2>2. SoundKept
    BY <2>1, IdleIsRequest, CallKeeps
  <2> QED BY <1>0, <2>1, <2>2 DEF SoundKept, SoundInv, SoundShape
<1>8. CASE Sound!EnterRoom \/ Sound!PlaceCall
  <2>1. /\ screen' \in {screen, "room"} /\ call' \in {call, "dialling"}
        /\ UNCHANGED <<role, sdk, current, publishAllowed, task, shared>> /\ ~Outside'
    BY <1>8 DEF Sound!EnterRoom, Sound!PlaceCall, Outside
  <2>2. SoundShape'
    BY <1>0, <2>1 DEF SoundShape
  <2>3. Made' /\ Enough' /\ Alone'
    BY <1>0, <2>1 DEF Made, Enough, Alone, Ending, Connecting, WillConnect, Sound!Unused,
                      Sound!Live
  <2> QED BY <2>2, <2>3 DEF SoundInv
<1>9. ASSUME NEW t \in Tasks, \/ Sound!Ended(t) \/ Sound!Connected(t) \/ Sound!ConnectFails(t)
                              \/ Sound!SetMicrophoneEnabled(t) \/ Sound!GiveUpCall(t)
      PROVE  SoundInv'
  BY <1>0, <1>1, <1>9 DEF SoundKept, SoundInv, SoundShape
<1> QED BY <1>2, <1>3, <1>4, <1>5, <1>6, <1>7, <1>8, <1>9 DEF Sound!Next

LEMMA SoundStep == SoundInv /\ [Sound!Next]_(Sound!vars) => SoundInv'
<1>1. ASSUME SoundInv, UNCHANGED Sound!vars
      PROVE  SoundInv'
  BY <1>1 DEF Sound!vars, SoundInv, SoundShape, Made, Enough, Alone, Outside, Ending, Connecting,
              WillConnect, Sound!Unused, Sound!Live
<1> QED BY <1>1, SoundNext

LEMMA SoundInit == Sound!Init => SoundInv
<1> SUFFICES ASSUME Sound!Init
             PROVE  SoundInv
  OBVIOUS
<1>1. \A t \in Tasks : task[t] = Sound!Idle
  BY DEF Sound!Init
<1>2. \A r \in SdkRooms : sdk[r] = Sound!Unmade
  BY DEF Sound!Init
<1>3. /\ Sound!Unmade \in SdkRoom /\ Sound!Unmade.state = "none" /\ ~Sound!Unmade.mic
  BY DEF Sound!Unmade, SdkRoom, Purposes
<1>4. SoundShape
  BY <1>3, IdleIsRequest DEF Sound!Init, SoundShape
<1>5. \A t \in Tasks : ~Ending(t) /\ ~Connecting(t)
  BY <1>1, IdleIsRequest DEF Ending, Connecting
<1>6. Made
  BY <1>5 DEF Sound!Init, Made
<1>7. Enough
  <2>1. WillConnect = {}
    BY <1>5 DEF WillConnect
  <2> QED BY <2>1, FS_EmptySet, Counted DEF Enough
<1>8. Alone
  <2>1. Sound!Live = {}
    BY <1>2, <1>3 DEF Sound!Live
  <2> QED BY <1>2, <1>3, <1>5, <2>1 DEF Sound!Init, Alone
<1> QED BY <1>4, <1>6, <1>7, <1>8 DEF SoundInv

LEMMA SoundHolds ==
    SoundInv => Sound!TypeOK /\ Sound!OneAudio /\ Sound!MicrophoneIsGranted
<1> SUFFICES ASSUME SoundInv
             PROVE  Sound!TypeOK /\ Sound!OneAudio /\ Sound!MicrophoneIsGranted
  OBVIOUS
<1>0. SoundShape /\ Alone
  BY DEF SoundInv
<1>1. Sound!TypeOK
  BY <1>0 DEF Sound!TypeOK, SoundShape, Requests, Steps
<1>2. Sound!OneAudio
  BY <1>0 DEF Sound!OneAudio, Alone, Outside, Ending, Sound!Quiet
<1>3. Sound!MicrophoneIsGranted
  BY <1>0 DEF Sound!MicrophoneIsGranted, Alone
<1> QED BY <1>1, <1>2, <1>3


--------------------------------------------------------------------------------
(* One tab runs its screen or its audio. *)

Inv == TabInv /\ SoundInv

LEMMA Start == Init => Inv
BY TabInit, SoundInit DEF Init, Inv

LEMMA Step == Inv /\ [Next]_vars => Inv'
<1> SUFFICES ASSUME Inv, [Next]_vars
             PROVE  Inv'
  OBVIOUS
<1>1. CASE part = "view" /\ Tab!Next /\ UNCHANGED audioVars
  <2>1. UNCHANGED Sound!vars
    BY <1>1 DEF audioVars, Sound!vars
  <2> QED BY <1>1, <2>1, TabStep, SoundStep DEF Inv
<1>2. CASE part = "audio" /\ Sound!Next /\ UNCHANGED viewVars
  <2>1. UNCHANGED Tab!vars
    BY <1>2 DEF viewVars, Tab!vars, Tab!roomVars, Tab!serverVars
  <2> QED BY <1>2, <2>1, TabStep, SoundStep DEF Inv
<1>3. CASE UNCHANGED vars
  <2>1. UNCHANGED Sound!vars /\ UNCHANGED Tab!vars
    BY <1>3 DEF vars, viewVars, audioVars, Sound!vars, Tab!vars, Tab!roomVars, Tab!serverVars
  <2> QED BY <2>1, TabStep, SoundStep DEF Inv
<1> QED BY <1>1, <1>2, <1>3 DEF Next

\* The part a behaviour runs stays.
LEMMA PartStays == Spec => [](part \in {"view", "audio"})
<1>1. Init => part \in {"view", "audio"}
  BY DEF Init
<1>2. part \in {"view", "audio"} /\ [Next]_vars => (part \in {"view", "audio"})'
  BY DEF Next, vars
<1> QED BY <1>1, <1>2, PTL DEF Spec

\* Once a snapshot is in and everything is delivered, a tab shows who is in the room and what
\* was said, nobody and nothing twice (useRoom.ts:16-26), however often the socket dropped,
\* came back or lapsed, unless an event overtook the snapshot.  Unless two calls of the client
\* awaited the end of one SDK room, it is in one audio connection at most, none once its screen
\* and its call are left (useRoom.ts:308-310), and sends sound only where a token allowed it
\* (mediaClient.ts:19-26).
THEOREM TabIsRight == Spec => []ClientsHold
<1>1. Inv /\ part \in {"view", "audio"} => ClientsHold
  BY TabHolds, SoundHolds DEF Inv, ClientsHold
<1> QED BY <1>1, Start, Step, PartStays, PTL DEF Spec
================================================================================
