------------------------------ MODULE ClocksProofs -----------------------------
(***************************************************************************)
(* The theorems about what the server counts, for any rooms, servers,      *)
(* zones, people, scores and limits: the invariant of each part, and the   *)
(* parts put together.                                                     *)
(***************************************************************************)
EXTENDS MCClocks, Sequences, Functions, FiniteSetTheorems, WellFoundedInduction, TLAPS

\* A set of numbers has a least one.
LEMMA LeastOf ==
    ASSUME NEW T, T \subseteq Nat, T # {}
    PROVE  \E n \in T : \A m \in T : n <= m
<1>1. PICK n \in T : \A m \in T : ~(<<m, n>> \in OpToRel(<, Nat))
  BY WFMin, NatLessThanWellFounded
<1>2. \A m \in T : n \in Nat /\ m \in Nat /\ ~(m < n)
  BY <1>1 DEF OpToRel
<1> QED BY <1>2

--------------------------------------------------------------------------------
(* Sums over finite sets. *)

\* What holds of a set when it holds of that set less any one element holds of all the
\* subsets of a finite set.
LEMMA BySize ==
    ASSUME NEW T, IsFiniteSet(T), NEW P,
           \A s \in SUBSET T : (\A x \in s : s \ {x} \in P) => s \in P
    PROVE  \A s \in SUBSET T : s \in P
<1> DEFINE Bad == {s \in SUBSET T : s \notin P}
           Sizes == {Cardinality(s) : s \in Bad}
<1> SUFFICES ASSUME Bad # {}
             PROVE  FALSE
  OBVIOUS
<1>1. \A s \in SUBSET T : IsFiniteSet(s) /\ Cardinality(s) \in Nat
  BY FS_Subset, FS_CardinalityType
<1>2. Sizes \subseteq Nat /\ Sizes # {}
  BY <1>1
<1>3. PICK n \in Sizes : \A m \in Sizes : n <= m
  <2> HIDE DEF Sizes
  <2> QED BY <1>2, LeastOf
<1>4. PICK s \in Bad : n = Cardinality(s)
  BY <1>3
<1>5. PICK x \in s : s \ {x} \notin P
  BY <1>4
<1>6. Cardinality(s \ {x}) = n - 1 /\ n \in Nat
  BY <1>1, <1>4, <1>5, FS_RemoveElement
<1>7. s \ {x} \in Bad
  BY <1>4, <1>5
<1>8. n - 1 \in Sizes
  BY <1>6, <1>7
<1> QED BY <1>3, <1>6, <1>8

Pick(s) == CHOOSE x \in s : TRUE

\* g sums f over the subsets of T, an element at a time.
Sums(g, f, T) ==
    g = [s \in SUBSET T |-> IF s = {} THEN 0 ELSE f[Pick(s)] + g[s \ {Pick(s)}]]

LEMMA SumIsChosen ==
    ASSUME NEW f, NEW S
    PROVE  SumFunctionOnSet(f, S) = (CHOOSE g : Sums(g, f, S))[S]
BY DEF SumFunctionOnSet, FoldFunctionOnSet, MapThenFoldSet, Sums, Pick

Iter(f, s) == CHOOSE g : Sums(g, f, s)

\* What is summed of a set does not depend on the larger set it is summed in.
LEMMA Agree ==
    ASSUME NEW f, NEW T, IsFiniteSet(T), NEW U \in SUBSET T, NEW g, NEW h,
           Sums(g, f, T), Sums(h, f, U)
    PROVE  \A s \in SUBSET U : g[s] = h[s]
<1> DEFINE P == {s \in SUBSET U : g[s] = h[s]}
<1>1. ASSUME NEW s \in SUBSET U, \A x \in s : s \ {x} \in P
      PROVE  s \in P
  <2>1. CASE s = {}
    BY <2>1 DEF Sums
  <2>2. CASE s # {}
    <3>1. Pick(s) \in s
      BY <2>2 DEF Pick
    <3>2. g[s \ {Pick(s)}] = h[s \ {Pick(s)}]
      BY <1>1, <3>1
    <3>3. s \in SUBSET T
      BY <1>1
    <3>4. g[s] = f[Pick(s)] + g[s \ {Pick(s)}] /\ h[s] = f[Pick(s)] + h[s \ {Pick(s)}]
      BY <2>2, <3>3 DEF Sums
    <3> QED BY <3>2, <3>4
  <2> QED BY <2>1, <2>2
<1>2. IsFiniteSet(U)
  BY FS_Subset
<1> HIDE DEF P
<1>3. \A s \in SUBSET U : s \in P
  BY <1>1, <1>2, BySize
<1> QED BY <1>3 DEF P

LEMMA SumsWithin ==
    ASSUME NEW f, NEW T, NEW U \in SUBSET T, Sums(Iter(f, T), f, T)
    PROVE  Sums(Iter(f, U), f, U)
<1> DEFINE g == Iter(f, T)
           h == [s \in SUBSET U |-> g[s]]
<1>1. ASSUME NEW s \in SUBSET U
      PROVE  h[s] = IF s = {} THEN 0 ELSE f[Pick(s)] + h[s \ {Pick(s)}]
  <2>1. g[s] = IF s = {} THEN 0 ELSE f[Pick(s)] + g[s \ {Pick(s)}]
    BY DEF Sums
  <2>2. s \ {Pick(s)} \in SUBSET U
    OBVIOUS
  <2> QED BY <2>1, <2>2
<1> HIDE DEF g
<1>2. Sums(h, f, U)
  BY <1>1 DEF Sums
<1> QED BY <1>2 DEF Iter

\* A finite set can be summed, and its sum is that of all but one element and that element.
LEMMA SumsExist ==
    ASSUME NEW f, NEW T, IsFiniteSet(T)
    PROVE  Sums(Iter(f, T), f, T)
<1> DEFINE P == {s \in SUBSET T : Sums(Iter(f, s), f, s)}
<1>1. ASSUME NEW s \in SUBSET T, \A x \in s : s \ {x} \in P
      PROVE  Sums(Iter(f, s), f, s)
  <2>1. \A u \in SUBSET s : u # s => IsFiniteSet(u) /\ Sums(Iter(f, u), f, u)
    <3> SUFFICES ASSUME NEW u \in SUBSET s, u # s
                 PROVE  IsFiniteSet(u) /\ Sums(Iter(f, u), f, u)
      OBVIOUS
    <3>1. PICK x \in s : u \in SUBSET (s \ {x})
      OBVIOUS
    <3>2. Sums(Iter(f, s \ {x}), f, s \ {x})
      BY <1>1
    <3>3. u \in SUBSET T
      OBVIOUS
    <3> QED BY <3>1, <3>2, <3>3, SumsWithin, FS_Subset
  <2> DEFINE g == [u \in SUBSET s |->
                      IF u = {} THEN 0
                      ELSE f[Pick(u)] + Iter(f, u \ {Pick(u)})[u \ {Pick(u)}]]
  <2>2. ASSUME NEW u \in SUBSET s, u # {}
        PROVE  g[u \ {Pick(u)}] = Iter(f, u \ {Pick(u)})[u \ {Pick(u)}]
    <3> DEFINE w == u \ {Pick(u)}
    <3>1. w \in SUBSET s /\ w # s
      BY <2>2 DEF Pick
    <3> HIDE DEF w
    <3>2. Iter(f, w)[w] = IF w = {} THEN 0 ELSE f[Pick(w)] + Iter(f, w)[w \ {Pick(w)}]
      BY <2>1, <3>1 DEF Sums
    <3>3. Iter(f, w)[w \ {Pick(w)}] = Iter(f, w \ {Pick(w)})[w \ {Pick(w)}]
      <4>1. w \ {Pick(w)} \in SUBSET w /\ w \ {Pick(w)} \in SUBSET s /\ w \ {Pick(w)} # s
        BY <3>1
      <4>2. /\ IsFiniteSet(w) /\ Sums(Iter(f, w), f, w)
            /\ Sums(Iter(f, w \ {Pick(w)}), f, w \ {Pick(w)})
        BY <2>1, <3>1, <4>1
      <4> HIDE DEF Pick
      <4> QED BY <4>1, <4>2, Agree
    <3> QED BY <3>1, <3>2, <3>3 DEF w
  <2>3. Sums(g, f, s)
    BY <2>2 DEF Sums
  <2> QED BY <2>3 DEF Iter
<1>2. \A s \in SUBSET T : s \in P
  <2>1. \A s \in SUBSET T : (\A x \in s : s \ {x} \in P) => s \in P
    BY <1>1
  <2> HIDE DEF P
  <2> QED BY <2>1, BySize
<1> QED BY <1>2

LEMMA SumUnfolds ==
    ASSUME NEW f, NEW S, IsFiniteSet(S)
    PROVE  SumFunctionOnSet(f, S) =
               IF S = {} THEN 0 ELSE f[Pick(S)] + SumFunctionOnSet(f, S \ {Pick(S)})
<1>1. \A s : SumFunctionOnSet(f, s) = Iter(f, s)[s]
  BY SumIsChosen DEF Iter
<1>2. Sums(Iter(f, S), f, S)
  BY SumsExist
<1>3. Iter(f, S)[S] = IF S = {} THEN 0 ELSE f[Pick(S)] + Iter(f, S)[S \ {Pick(S)}]
  BY <1>2 DEF Sums
<1>4. Iter(f, S)[S \ {Pick(S)}] = Iter(f, S \ {Pick(S)})[S \ {Pick(S)}]
  <2>1. S \ {Pick(S)} \in SUBSET S
    OBVIOUS
  <2>2. Sums(Iter(f, S \ {Pick(S)}), f, S \ {Pick(S)})
    BY <1>2, <2>1, SumsWithin
  <2> QED BY <1>2, <2>1, <2>2, Agree
<1> QED BY <1>1, <1>3, <1>4

LEMMA SumsAlike ==
    ASSUME NEW S, IsFiniteSet(S), NEW f, NEW h, \A x \in S : f[x] = h[x]
    PROVE  SumFunctionOnSet(f, S) = SumFunctionOnSet(h, S)
<1> DEFINE P == {s \in SUBSET S : SumFunctionOnSet(f, s) = SumFunctionOnSet(h, s)}
<1>1. \A s \in SUBSET S : IsFiniteSet(s)
  BY FS_Subset
<1>2. ASSUME NEW s \in SUBSET S, \A x \in s : s \ {x} \in P
      PROVE  s \in P
  <2>1. s # {} => Pick(s) \in s
    BY DEF Pick
  <2>2. /\ SumFunctionOnSet(f, s) =
               IF s = {} THEN 0 ELSE f[Pick(s)] + SumFunctionOnSet(f, s \ {Pick(s)})
        /\ SumFunctionOnSet(h, s) =
               IF s = {} THEN 0 ELSE h[Pick(s)] + SumFunctionOnSet(h, s \ {Pick(s)})
    BY <1>1, SumUnfolds
  <2> QED BY <1>2, <2>1, <2>2
<1> HIDE DEF P
<1>3. \A s \in SUBSET S : s \in P
  BY <1>2, BySize
<1> QED BY <1>3 DEF P

LEMMA SumIsInteger ==
    ASSUME NEW S, IsFiniteSet(S), NEW f, \A x \in S : f[x] \in Int
    PROVE  /\ SumFunctionOnSet(f, S) \in Int
           /\ (\A x \in S : f[x] >= 0) => SumFunctionOnSet(f, S) >= 0
<1> DEFINE P == {s \in SUBSET S :
                    /\ SumFunctionOnSet(f, s) \in Int
                    /\ (\A x \in S : f[x] >= 0) => SumFunctionOnSet(f, s) >= 0}
<1>1. \A s \in SUBSET S : IsFiniteSet(s)
  BY FS_Subset
<1>2. ASSUME NEW s \in SUBSET S, \A x \in s : s \ {x} \in P
      PROVE  s \in P
  <2>1. s # {} => Pick(s) \in s
    BY DEF Pick
  <2>2. SumFunctionOnSet(f, s) =
            IF s = {} THEN 0 ELSE f[Pick(s)] + SumFunctionOnSet(f, s \ {Pick(s)})
    BY <1>1, SumUnfolds
  <2> QED BY <1>2, <2>1, <2>2
<1> HIDE DEF P
<1>3. \A s \in SUBSET S : s \in P
  BY <1>2, BySize
<1> QED BY <1>3 DEF P

LEMMA SumLess ==
    ASSUME NEW S, IsFiniteSet(S), NEW f, \A x \in S : f[x] \in Int, NEW y \in S
    PROVE  SumFunctionOnSet(f, S) = f[y] + SumFunctionOnSet(f, S \ {y})
<1> DEFINE Q(s, x) == SumFunctionOnSet(f, s) = f[x] + SumFunctionOnSet(f, s \ {x})
           P == {s \in SUBSET S : \A x \in s : Q(s, x)}
<1>1. \A s \in SUBSET S : IsFiniteSet(s) /\ SumFunctionOnSet(f, s) \in Int
  BY FS_Subset, SumIsInteger
<1>2. ASSUME NEW s \in SUBSET S, \A x \in s : s \ {x} \in P, NEW x \in s
      PROVE  Q(s, x)
  <2> DEFINE c == Pick(s)
  <2>1. c \in s
    BY DEF Pick
  <2>2. Q(s, c)
    BY <1>1, SumUnfolds
  <2> HIDE DEF c
  <2>3. CASE x = c
    BY <2>2, <2>3
  <2>4. CASE x # c
    <3>1. x \in s \ {c} /\ c \in s \ {x}
      BY <2>1, <2>4
    <3>2. Q(s \ {c}, x) /\ Q(s \ {x}, c)
      BY <1>2, <2>1, <3>1
    <3> DEFINE rest == SumFunctionOnSet(f, (s \ {x}) \ {c})
    <3>3. (s \ {c}) \ {x} = (s \ {x}) \ {c}
      OBVIOUS
    <3>4. f[x] \in Int /\ f[c] \in Int /\ rest \in Int
      BY <1>1, <2>1
    <3>5. /\ SumFunctionOnSet(f, s) = f[c] + (f[x] + rest)
          /\ SumFunctionOnSet(f, s \ {x}) = f[c] + rest
      BY <2>2, <3>2, <3>3
    <3> HIDE DEF rest
    <3> QED BY <3>4, <3>5
  <2> QED BY <2>3, <2>4
<1> HIDE DEF Q
<1>3. \A s \in SUBSET S : (\A x \in s : s \ {x} \in P) => s \in P
  BY <1>2
<1> HIDE DEF P
<1>4. \A s \in SUBSET S : s \in P
  BY <1>3, BySize
<1> QED BY <1>4 DEF P, Q

LEMMA SumOfBoth ==
    ASSUME NEW A, NEW B, IsFiniteSet(A), IsFiniteSet(B), A \cap B = {},
           NEW f, \A x \in A \cup B : f[x] \in Int
    PROVE  SumFunctionOnSet(f, A \cup B) = SumFunctionOnSet(f, A) + SumFunctionOnSet(f, B)
<1> DEFINE P == {s \in SUBSET A : SumFunctionOnSet(f, s \cup B) =
                                     SumFunctionOnSet(f, s) + SumFunctionOnSet(f, B)}
<1>1. \A s \in SUBSET A : /\ IsFiniteSet(s) /\ IsFiniteSet(s \cup B)
                           /\ SumFunctionOnSet(f, s) \in Int
                           /\ SumFunctionOnSet(f, s \cup B) \in Int
  BY FS_Subset, FS_Union, SumIsInteger
<1>2. SumFunctionOnSet(f, B) \in Int
  BY SumIsInteger
<1>3. ASSUME NEW s \in SUBSET A, \A x \in s : s \ {x} \in P
      PROVE  s \in P
  <2>1. CASE s = {}
    <3>1. SumFunctionOnSet(f, s) = 0
      BY <1>1, <2>1, SumUnfolds
    <3> QED BY <1>2, <2>1, <3>1
  <2>2. CASE s # {}
    <3>1. PICK x : x \in s
      BY <2>2
    <3>2. SumFunctionOnSet(f, s) = f[x] + SumFunctionOnSet(f, s \ {x})
      BY <1>1, <3>1, SumLess
    <3>3. SumFunctionOnSet(f, s \cup B) = f[x] + SumFunctionOnSet(f, (s \cup B) \ {x})
      BY <1>1, <3>1, SumLess
    <3>4. (s \cup B) \ {x} = (s \ {x}) \cup B
      BY <3>1
    <3>5. SumFunctionOnSet(f, (s \ {x}) \cup B) =
              SumFunctionOnSet(f, s \ {x}) + SumFunctionOnSet(f, B)
      BY <1>3, <3>1
    <3> DEFINE rest == SumFunctionOnSet(f, s \ {x})
               other == SumFunctionOnSet(f, B)
    <3>6. f[x] \in Int /\ rest \in Int /\ other \in Int
      BY <1>1, <1>2, <3>1
    <3>7. /\ SumFunctionOnSet(f, s) = f[x] + rest
          /\ SumFunctionOnSet(f, s \cup B) = f[x] + (rest + other)
      BY <3>2, <3>3, <3>4, <3>5
    <3>8. SumFunctionOnSet(f, s \cup B) = SumFunctionOnSet(f, s) + other
      <4> HIDE DEF rest, other
      <4> QED BY <3>6, <3>7
    <3> QED BY <3>8
  <2> QED BY <2>1, <2>2
<1> HIDE DEF P
<1>4. \A s \in SUBSET A : s \in P
  BY <1>3, BySize
<1> QED BY <1>4 DEF P

LEMMA SumOfPart ==
    ASSUME NEW B, IsFiniteSet(B), NEW A \in SUBSET B, NEW f, \A x \in B : f[x] \in Nat
    PROVE  SumFunctionOnSet(f, A) <= SumFunctionOnSet(f, B)
<1> DEFINE sumA == SumFunctionOnSet(f, A)
           sumB == SumFunctionOnSet(f, B)
           rest == SumFunctionOnSet(f, B \ A)
<1>1. IsFiniteSet(A) /\ IsFiniteSet(B \ A)
  BY FS_Subset
<1>2. A \cap (B \ A) = {} /\ A \cup (B \ A) = B
  OBVIOUS
<1>3. \A x \in B : f[x] \in Int /\ f[x] >= 0
  OBVIOUS
<1>4. sumB = sumA + rest
  BY <1>1, <1>2, <1>3, SumOfBoth
<1>5. sumA \in Int /\ rest \in Int /\ rest >= 0
  BY <1>1, <1>3, SumIsInteger
<1> HIDE DEF sumA, sumB, rest
<1>6. sumA <= sumB
  BY <1>4, <1>5
<1> QED BY <1>6 DEF sumA, sumB

LEMMA SumAdds ==
    ASSUME NEW S, IsFiniteSet(S), NEW y, NEW d \in Int, NEW f, NEW g,
           \A x \in S : f[x] \in Int /\ g[x] = f[x] + (IF x = y THEN d ELSE 0)
    PROVE  SumFunctionOnSet(g, S) = SumFunctionOnSet(f, S) + (IF y \in S THEN d ELSE 0)
<1>1. /\ \A x \in S : f[x] \in Int /\ g[x] \in Int
      /\ \A x \in S \ {y} : g[x] = f[x]
      /\ y \in S => g[y] = f[y] + d /\ f[y] \in Int
  OBVIOUS
<1>2. IsFiniteSet(S \ {y})
  BY FS_Subset
<1>3. SumFunctionOnSet(g, S \ {y}) = SumFunctionOnSet(f, S \ {y})
  BY <1>1, <1>2, SumsAlike
<1>4. SumFunctionOnSet(f, S \ {y}) \in Int
  BY <1>1, <1>2, SumIsInteger
<1>5. CASE y \in S
  <2> DEFINE rest == SumFunctionOnSet(f, S \ {y})
  <2>1. SumFunctionOnSet(g, S) = (f[y] + d) + rest /\ SumFunctionOnSet(f, S) = f[y] + rest
    BY <1>1, <1>3, <1>5, SumLess
  <2>2. rest \in Int /\ f[y] \in Int
    BY <1>1, <1>4, <1>5
  <2>3. SumFunctionOnSet(g, S) = SumFunctionOnSet(f, S) + d
    <3> HIDE DEF rest
    <3> QED BY <2>1, <2>2
  <2> QED BY <1>5, <2>3
<1>6. CASE y \notin S
  <2>1. S \ {y} = S
    BY <1>6
  <2>2. SumFunctionOnSet(f, S) \in Int /\ SumFunctionOnSet(g, S) = SumFunctionOnSet(f, S)
    BY <1>3, <1>4, <2>1
  <2> QED BY <1>6, <2>2
<1> QED BY <1>5, <1>6

--------------------------------------------------------------------------------
(* Rate limits. *)

Seconds == 0..LastSecond

\* What a log has from one second to another.
Within(log, from, to) == SumFunctionOnSet(log, Seconds \cap (from..to))

Start == counter.expires - WindowSec
End == LastSecond + WindowSec

\* A window in force has let through no more than its count and the limit, and has been
\* asked at least as often as that; the window's length before it let through the limit at
\* most.
InForce ==
    counter.count > 0 =>
        /\ Start \in 0..now
        /\ Within(allowed, Start, End) <= counter.count
        /\ Within(allowed, Start, End) <= Limit
        /\ Within(allowed, Start - WindowSec, Start - 1) <= Limit
        /\ \/ Within(allowed, Start, now) + Within(lost, Start, now) >= counter.count
           \/ Within(allowed, Start, now) + Within(lost, Start, now) >= Limit

Bursts == \A t \in Seconds : Within(allowed, t, t + WindowSec - 1) <= 2 * Limit

LimitInv ==
    /\ now \in Seconds
    /\ counter \in [count : 0..(Limit + 2), expires : 0..(LastSecond + WindowSec)]
    /\ allowed \in [Seconds -> Nat] /\ lost \in [Seconds -> Nat] /\ refused \in BOOLEAN
    /\ counter.count = 0 => counter.expires = 0
    /\ \A t \in Seconds : t >= counter.expires => allowed[t] = 0
    /\ InForce
    /\ Bursts
    /\ Calls!RefusedForCause

LEMMA TotalIsWithin ==
    ASSUME NEW log, DOMAIN log = Seconds, NEW from, NEW to
    PROVE  Calls!TotalOf(log, from, to) = Within(log, from, to)
BY DEF Calls!TotalOf, Within, Calls!SumFunctionOnSet, Calls!FoldFunctionOnSet,
       Calls!MapThenFoldSet, SumFunctionOnSet, FoldFunctionOnSet, MapThenFoldSet

LEMMA WithinFacts ==
    ASSUME NEW log \in [Seconds -> Nat], NEW from \in Int, NEW to \in Int
    PROVE  /\ Within(log, from, to) \in Nat
           /\ \A a, b \in Int : from <= a /\ b <= to => Within(log, a, b) <= Within(log, from, to)
           /\ \A a \in Int : Within(log, from, to) <=
                               Within(log, from, a - 1) + Within(log, a, to)
           /\ (\A t \in Seconds : from <= t /\ t <= to => log[t] = 0) => Within(log, from, to) = 0
<1>1. \A a, b \in Int : IsFiniteSet(Seconds \cap (a..b))
  <2>1. IsFiniteSet(Seconds)
    BY FS_Interval, ClocksAssumption DEF Seconds
  <2> QED BY <2>1, FS_Subset
<1>2. \A a, b \in Int : Within(log, a, b) \in Nat
  <2> SUFFICES ASSUME NEW a \in Int, NEW b \in Int
               PROVE  Within(log, a, b) \in Nat
    OBVIOUS
  <2>1. \A x \in Seconds \cap (a..b) : log[x] \in Int /\ log[x] >= 0
    OBVIOUS
  <2>2. Within(log, a, b) \in Int /\ Within(log, a, b) >= 0
    BY <1>1, <2>1, SumIsInteger DEF Within
  <2> QED BY <2>2
<1>3. ASSUME NEW a \in Int, NEW b \in Int, from <= a, b <= to
      PROVE  Within(log, a, b) <= Within(log, from, to)
  <2>1. Seconds \cap (a..b) \in SUBSET (Seconds \cap (from..to))
    BY <1>3
  <2>2. \A x \in Seconds \cap (from..to) : log[x] \in Nat
    OBVIOUS
  <2> QED BY <1>1, <2>1, <2>2, SumOfPart DEF Within
<1>4. ASSUME NEW a \in Int
      PROVE  Within(log, from, to) <= Within(log, from, a - 1) + Within(log, a, to)
  <2> DEFINE before == Seconds \cap (from..(a - 1))
             after == Seconds \cap (a..to)
             both == Seconds \cap (from..to)
  <2>1. IsFiniteSet(before) /\ IsFiniteSet(after)
    BY <1>1
  <2>2. before \cap after = {} /\ both \in SUBSET (before \cup after)
    BY DEF Seconds
  <2>3. \A x \in before \cup after : log[x] \in Nat /\ log[x] \in Int
    OBVIOUS
  <2> HIDE DEF before, after, both
  <2>4. SumFunctionOnSet(log, both) <= SumFunctionOnSet(log, before \cup after)
    <3>1. IsFiniteSet(before \cup after)
      BY <2>1, FS_Union
    <3> QED BY <2>2, <2>3, <3>1, SumOfPart
  <2>5. SumFunctionOnSet(log, before \cup after) =
            SumFunctionOnSet(log, before) + SumFunctionOnSet(log, after)
    BY <2>1, <2>2, <2>3, SumOfBoth
  <2> QED BY <2>4, <2>5 DEF before, after, both, Within
<1>5. ASSUME \A t \in Seconds : from <= t /\ t <= to => log[t] = 0
      PROVE  Within(log, from, to) = 0
  <2> DEFINE S == Seconds \cap (from..to)
             P == {s \in SUBSET S : SumFunctionOnSet(log, s) = 0}
  <2>1. \A s \in SUBSET S : IsFiniteSet(s)
    BY <1>1, FS_Subset
  <2>2. \A x \in S : log[x] = 0
    BY <1>5 DEF Seconds
  <2> HIDE DEF S
  <2>3. ASSUME NEW s \in SUBSET S, \A x \in s : s \ {x} \in P
        PROVE  s \in P
    <3>1. s # {} => Pick(s) \in s
      BY DEF Pick
    <3>2. SumFunctionOnSet(log, s) =
              IF s = {} THEN 0 ELSE log[Pick(s)] + SumFunctionOnSet(log, s \ {Pick(s)})
      BY <2>1, SumUnfolds
    <3> QED BY <2>2, <2>3, <3>1, <3>2
  <2> HIDE DEF P
  <2>4. \A s \in SUBSET S : s \in P
    BY <2>1, <2>3, BySize
  <2> QED BY <2>4 DEF P, S, Within
<1> QED BY <1>2, <1>3, <1>4, <1>5

LEMMA LimitNumbers ==
    Limit \in Nat /\ WindowSec \in Nat /\ WindowSec > 0 /\ LastSecond \in Nat
BY ClocksAssumption

LEMMA LimitInit == Calls!Init => LimitInv
<1> SUFFICES ASSUME Calls!Init
             PROVE  LimitInv
  OBVIOUS
<1>1. /\ now = 0 /\ counter = [count |-> 0, expires |-> 0] /\ refused = FALSE
      /\ allowed = [t \in Seconds |-> 0] /\ lost = [t \in Seconds |-> 0]
  BY DEF Calls!Init, Calls!NoKey, Seconds
<1>2. /\ now \in Seconds
      /\ counter \in [count : 0..(Limit + 2), expires : 0..(LastSecond + WindowSec)]
      /\ allowed \in [Seconds -> Nat] /\ lost \in [Seconds -> Nat]
  BY <1>1, ClocksAssumption DEF Seconds
<1>3. Bursts
  <2> SUFFICES ASSUME NEW t \in Seconds
               PROVE  Within(allowed, t, t + WindowSec - 1) <= 2 * Limit
    BY DEF Bursts
  <2>1. t \in Int /\ t + WindowSec - 1 \in Int /\ 2 * Limit >= 0
    BY ClocksAssumption DEF Seconds
  <2>2. Within(allowed, t, t + WindowSec - 1) = 0
    BY <1>1, <1>2, <2>1, WithinFacts
  <2> QED BY <2>1, <2>2
<1>4. /\ \A t \in Seconds : t >= counter.expires => allowed[t] = 0
      /\ counter.count = 0 /\ counter.expires = 0 /\ refused = FALSE
  BY <1>1
<1>5. InForce /\ Calls!RefusedForCause
  BY <1>4 DEF InForce, Calls!RefusedForCause
<1> QED BY <1>2, <1>3, <1>4, <1>5 DEF LimitInv

\* The log has d calls more at one second.
Grows(log, next, at, d) ==
    /\ log \in [Seconds -> Nat] /\ next \in [Seconds -> Nat] /\ at \in Seconds /\ d \in Int
    /\ \A t \in Seconds : next[t] = log[t] + (IF t = at THEN d ELSE 0)

LEMMA LogGrows ==
    ASSUME NEW log, NEW next, NEW at, NEW d, Grows(log, next, at, d)
    PROVE  \A from, to \in Int :
               /\ Within(log, from, to) \in Nat
               /\ Within(next, from, to) =
                      Within(log, from, to) + (IF at \in from..to THEN d ELSE 0)
<1> SUFFICES ASSUME NEW from \in Int, NEW to \in Int
             PROVE  /\ Within(log, from, to) \in Nat
                    /\ Within(next, from, to) =
                           Within(log, from, to) + (IF at \in from..to THEN d ELSE 0)
  OBVIOUS
<1> DEFINE S == Seconds \cap (from..to)
<1>1. Within(log, from, to) \in Nat
  BY WithinFacts DEF Grows
<1>2. IsFiniteSet(S)
  <2>1. IsFiniteSet(Seconds)
    BY FS_Interval, LimitNumbers DEF Seconds
  <2> QED BY <2>1, FS_Subset
<1>3. /\ d \in Int
      /\ \A t \in S : log[t] \in Int /\ next[t] = log[t] + (IF t = at THEN d ELSE 0)
  BY DEF Grows
<1>4. at \in S <=> at \in from..to
  BY DEF Grows
<1> HIDE DEF S
<1>5. SumFunctionOnSet(next, S) = SumFunctionOnSet(log, S) + (IF at \in S THEN d ELSE 0)
  BY <1>2, <1>3, SumAdds
<1> QED BY <1>1, <1>4, <1>5 DEF S, Within

\* A call, let through (a) or with its answer lost (b).
LEMMA CallKeeps ==
    ASSUME LimitInv, NEW a \in {0, 1}, NEW b \in {0, 1},
           counter' = Calls!Increment(counter), counter'.count <= Limit + 2,
           Grows(allowed, allowed', now, a), Grows(lost, lost', now, b),
           a = 1 => counter'.count <= Limit, counter'.count <= Limit => a = 1 \/ b = 1,
           refused' \in BOOLEAN, refused' => counter'.count > Limit, UNCHANGED now
    PROVE  LimitInv'
<1>1. /\ now \in Seconds /\ now \in Int /\ LastSecond \in Nat /\ now <= LastSecond /\ 0 <= now
      /\ Limit \in Nat /\ WindowSec \in Nat /\ WindowSec > 0
      /\ counter.count \in 0..(Limit + 2) /\ counter.expires \in 0..(LastSecond + WindowSec)
      /\ counter.count = 0 => counter.expires = 0
      /\ allowed \in [Seconds -> Nat] /\ lost \in [Seconds -> Nat]
  <2>1. /\ now \in Seconds
        /\ counter.count = 0 => counter.expires = 0
        /\ counter \in [count : 0..(Limit + 2), expires : 0..(LastSecond + WindowSec)]
        /\ allowed \in [Seconds -> Nat] /\ lost \in [Seconds -> Nat]
    BY DEF LimitInv
  <2>2. now \in Int /\ LastSecond \in Nat /\ now <= LastSecond /\ 0 <= now
    BY <2>1, LimitNumbers DEF Seconds
  <2> QED BY <2>1, <2>2, LimitNumbers
<1> DEFINE fresh == counter.count = 0 \/ counter.expires <= now
<1>3. /\ fresh => counter' = [count |-> 1, expires |-> now + WindowSec]
      /\ ~fresh => counter' = [counter EXCEPT !.count = @ + 1]
  BY DEF Calls!Increment
<1>4. /\ counter' \in [count : 0..(Limit + 2), expires : 0..(LastSecond + WindowSec)]
      /\ counter'.expires > now /\ counter'.count > 0
      /\ fresh => counter'.count = 1 /\ Start' = now
      /\ ~fresh => /\ counter'.count = counter.count + 1 /\ Start' = Start
                   /\ counter'.expires = counter.expires
  BY <1>1, <1>3 DEF LimitInv, Start
<1>5. Start' \in 0..now /\ Start' - WindowSec \in Int /\ Start' - 1 \in Int /\ End \in Int
  BY <1>1, <1>4 DEF LimitInv, InForce, Start, End
<1>6. /\ \A from, to \in Int :
             /\ Within(allowed, from, to) \in Nat
             /\ Within(allowed', from, to) =
                    Within(allowed, from, to) + (IF now \in from..to THEN a ELSE 0)
      /\ \A from, to \in Int :
             /\ Within(lost, from, to) \in Nat
             /\ Within(lost', from, to) =
                    Within(lost, from, to) + (IF now \in from..to THEN b ELSE 0)
  BY LogGrows
<1> HIDE DEF fresh
<1>7. \A t \in Seconds : t >= counter'.expires => allowed'[t] = 0
  <2>1. \A t \in Seconds : t >= counter.expires => allowed[t] = 0
    BY DEF LimitInv
  <2>2. \A t \in Seconds : t # now => allowed'[t] = allowed[t]
    <3> SUFFICES ASSUME NEW t \in Seconds, t # now
                 PROVE  allowed'[t] = allowed[t]
      OBVIOUS
    <3>1. allowed \in [Seconds -> Nat] /\ allowed'[t] = allowed[t] + 0
      BY DEF Grows
    <3>2. allowed[t] \in Nat
      BY <3>1
    <3> QED BY <3>1, <3>2
  <2>3. /\ counter'.expires \in Int /\ counter.expires \in Int
        /\ counter'.expires >= counter.expires /\ counter'.expires > now
    BY <1>1, <1>3, <1>4 DEF fresh
  <2>4. \A t \in Seconds : t >= counter'.expires => t >= counter.expires /\ t # now
    <3> SUFFICES ASSUME NEW t \in Seconds, t >= counter'.expires
                 PROVE  t >= counter.expires /\ t # now
      OBVIOUS
    <3>1. t \in Int /\ now \in Int
      BY <1>1 DEF Seconds
    <3> DEFINE old == counter.expires
               new == counter'.expires
    <3>2. new \in Int /\ old \in Int /\ new >= old /\ new > now /\ t >= new
      BY <2>3
    <3> HIDE DEF old, new
    <3>3. t >= old /\ t # now
      BY <3>1, <3>2
    <3> QED BY <3>3 DEF old
  <2>5. ASSUME NEW t \in Seconds, t >= counter'.expires
        PROVE  allowed'[t] = 0
    <3>1. t >= counter.expires /\ t # now
      BY <2>4, <2>5
    <3>2. allowed[t] = 0
      BY <2>1, <3>1
    <3>3. allowed'[t] = allowed[t]
      BY <2>2, <3>1
    <3> QED BY <3>2, <3>3, Zenon
  <2> QED BY <2>5
<1>8. ASSUME fresh
      PROVE  InForce'
  <2>1. Within(allowed, now, End) = 0
    <3>1. \A t \in Seconds : now <= t /\ t <= End => allowed[t] = 0
      BY <1>1, <1>8 DEF fresh, LimitInv, Seconds
    <3> QED BY <1>1, <1>5, <3>1, WithinFacts
  <2>2. Within(allowed, now - WindowSec, now - 1) <= Limit
    <3>1. CASE counter.count = 0
      <4>1. \A t \in Seconds : now - WindowSec <= t /\ t <= now - 1 => allowed[t] = 0
        BY <1>1, <3>1 DEF LimitInv, Seconds
      <4>2. Within(allowed, now - WindowSec, now - 1) = 0
        BY <1>1, <4>1, WithinFacts
      <4> QED BY <1>1, <4>2
    <3>2. CASE counter.count > 0
      <4>1. Within(allowed, Start, End) <= Limit
        BY <3>2 DEF LimitInv, InForce
      <4>2. Start \in Int /\ Start <= now - WindowSec /\ now - 1 <= End
        BY <1>1, <1>8, <3>2 DEF fresh, Start, End
      <4>3. /\ Within(allowed, now - WindowSec, now - 1) <= Within(allowed, Start, End)
            /\ Within(allowed, now - WindowSec, now - 1) \in Nat
            /\ Within(allowed, Start, End) \in Nat
        BY <1>1, <1>5, <4>2, WithinFacts
      <4> QED BY <1>1, <4>1, <4>3
    <3> QED BY <1>1, <3>1, <3>2
  <2>3. now \in now..End /\ now \notin (now - WindowSec)..(now - 1) /\ now \in now..now
    BY <1>1, <1>5 DEF End
  <2>4. Within(allowed', now, End) = a
    <3>1. Within(allowed', now, End) = Within(allowed, now, End) + a
      BY <1>1, <1>5, <1>6, <2>3
    <3> QED BY <2>1, <3>1
  <2>5. Within(allowed', now - WindowSec, now - 1) <= Limit
    <3>1. now - WindowSec \in Int /\ now - 1 \in Int
      BY <1>1
    <3>2. Within(allowed', now - WindowSec, now - 1) = Within(allowed, now - WindowSec, now - 1) + 0
      BY <1>6, <2>3, <3>1
    <3>3. Within(allowed, now - WindowSec, now - 1) \in Nat
      BY <1>6, <3>1
    <3> QED BY <1>1, <2>2, <3>2, <3>3
  <2>6. Within(allowed', now, now) + Within(lost', now, now) >= a + b
    <3>1. /\ Within(allowed', now, now) = Within(allowed, now, now) + a
          /\ Within(lost', now, now) = Within(lost, now, now) + b
          /\ Within(allowed, now, now) \in Nat /\ Within(lost, now, now) \in Nat
      BY <1>1, <1>6, <2>3
    <3> QED BY <3>1
  <2>7. /\ Within(allowed', Start', End') <= counter'.count
        /\ Within(allowed', Start', End') <= Limit
        /\ Within(allowed', Start' - WindowSec, Start' - 1) <= Limit
    BY <1>1, <1>4, <1>8, <2>4, <2>5 DEF End
  <2>8. \/ Within(allowed', Start', now') + Within(lost', Start', now') >= counter'.count
        \/ Within(allowed', Start', now') + Within(lost', Start', now') >= Limit
    <3> DEFINE w == Within(allowed', now, now)
               v == Within(lost', now, now)
    <3>1. w + v \in Int /\ w + v >= 0 /\ w + v >= a + b
      <4>1. w \in Nat /\ v \in Nat
        BY <1>1, WithinFacts DEF Grows
      <4> HIDE DEF w, v
      <4>2. w + v \in Int /\ w + v >= 0
        BY <4>1
      <4> QED BY <2>6, <4>2 DEF w, v
    <3>2. Start' = now /\ now' = now /\ counter'.count = 1
      BY <1>4, <1>8
    <3> HIDE DEF w, v
    <3>3. w + v >= 1 \/ w + v >= Limit
      <4>1. CASE Limit >= 1
        <5>1. a + b >= 1 /\ a + b \in Int
          BY <1>1, <3>2, <4>1
        <5> QED BY <3>1, <5>1
      <4>2. CASE ~(Limit >= 1)
        BY <1>1, <3>1, <4>2
      <4> QED BY <4>1, <4>2
    <3>4. \/ Within(allowed', now, now) + Within(lost', now, now) >= 1
          \/ Within(allowed', now, now) + Within(lost', now, now) >= Limit
      BY <3>3 DEF w, v
    <3> QED BY <3>2, <3>4
  <2> QED BY <1>5, <2>7, <2>8 DEF InForce
<1>9. ASSUME ~fresh
      PROVE  InForce'
  <2>1. counter.count > 0 /\ counter.expires > now /\ Start \in 0..now
    BY <1>1, <1>9 DEF fresh, LimitInv, InForce
  <2>2. /\ now \in Start..End /\ now \notin (Start - WindowSec)..(Start - 1)
        /\ now \in Start..now /\ Start \in Int /\ Start - WindowSec \in Int /\ Start - 1 \in Int
    BY <1>1, <2>1 DEF End
  <2>3. /\ Within(allowed, Start, End) <= counter.count
        /\ Within(allowed, Start, End) <= Limit
        /\ Within(allowed, Start - WindowSec, Start - 1) <= Limit
        /\ \/ Within(allowed, Start, now) + Within(lost, Start, now) >= counter.count
           \/ Within(allowed, Start, now) + Within(lost, Start, now) >= Limit
    BY <2>1 DEF LimitInv, InForce
  <2>4. /\ Within(allowed, Start, End) \in Nat
        /\ Within(allowed', Start, End) = Within(allowed, Start, End) + a
    BY <1>5, <1>6, <2>2
  <2>5. /\ Within(allowed, Start - WindowSec, Start - 1) \in Nat
        /\ Within(allowed', Start - WindowSec, Start - 1) =
               Within(allowed, Start - WindowSec, Start - 1) + 0
    BY <1>6, <2>2
  <2>6. /\ Within(allowed, Start, now) \in Nat /\ Within(lost, Start, now) \in Nat
        /\ Within(allowed', Start, now) = Within(allowed, Start, now) + a
        /\ Within(lost', Start, now) = Within(lost, Start, now) + b
    BY <1>1, <1>6, <2>2
  <2>7. /\ Within(allowed', Start, End) <= counter'.count
        /\ Within(allowed', Start, End) <= Limit
    <3> DEFINE w == Within(allowed, Start, End)
    <3>1. w \in Nat /\ w <= counter.count /\ w <= Limit
      BY <2>3, <2>4
    <3>2. Within(allowed', Start, End) = w + a
      BY <2>4
    <3>3. counter'.count = counter.count + 1 /\ counter.count \in Nat
      BY <1>1, <1>4, <1>9
    <3> HIDE DEF w
    <3>4. w + a <= counter'.count /\ w + a <= Limit
      <4>1. CASE a = 0
        BY <1>1, <3>1, <3>3, <4>1
      <4>2. CASE a = 1
        BY <1>1, <3>1, <3>3, <4>2
      <4> QED BY <4>1, <4>2
    <3> QED BY <3>2, <3>4
  <2>8. Within(allowed', Start - WindowSec, Start - 1) <= Limit
    BY <1>1, <2>3, <2>5
  <2>9. \/ Within(allowed', Start, now) + Within(lost', Start, now) >= counter'.count
        \/ Within(allowed', Start, now) + Within(lost', Start, now) >= Limit
    <3> DEFINE w == Within(allowed, Start, now)
               v == Within(lost, Start, now)
    <3>1. w \in Nat /\ v \in Nat /\ (w + v >= counter.count \/ w + v >= Limit)
      BY <2>3, <2>6
    <3>2. Within(allowed', Start, now) = w + a /\ Within(lost', Start, now) = v + b
      BY <2>6
    <3>3. counter'.count = counter.count + 1 /\ counter.count \in Nat
      BY <1>1, <1>4, <1>9
    <3> HIDE DEF w, v
    <3>4. (w + a) + (v + b) >= counter'.count \/ (w + a) + (v + b) >= Limit
      <4>1. CASE counter'.count <= Limit
        BY <1>1, <3>1, <3>3, <4>1
      <4>2. CASE ~(counter'.count <= Limit)
        BY <1>1, <3>1, <3>3, <4>2
      <4> QED BY <4>1, <4>2
    <3> QED BY <3>2, <3>4
  <2>10. Start' = Start /\ now' = now /\ End' = End
    BY <1>4, <1>9 DEF End
  <2>11. /\ Within(allowed', Start', End') <= counter'.count
         /\ Within(allowed', Start', End') <= Limit
         /\ Within(allowed', Start' - WindowSec, Start' - 1) <= Limit
         /\ \/ Within(allowed', Start', now') + Within(lost', Start', now') >= counter'.count
            \/ Within(allowed', Start', now') + Within(lost', Start', now') >= Limit
    BY <2>7, <2>8, <2>9, <2>10
  <2> QED BY <1>5, <2>11 DEF InForce
<1>10. InForce'
  BY <1>8, <1>9
<1>11. /\ Within(allowed', Start', End') <= Limit
       /\ Within(allowed', Start' - WindowSec, Start' - 1) <= Limit
       /\ \/ Within(allowed', Start', now) + Within(lost', Start', now) >= counter'.count
          \/ Within(allowed', Start', now) + Within(lost', Start', now) >= Limit
  BY <1>4, <1>10 DEF InForce
<1>12. allowed' \in [Seconds -> Nat] /\ lost' \in [Seconds -> Nat]
  BY DEF Grows
<1>13. Start' \in Int /\ End' = End /\ Start' <= now /\ now - WindowSec < Start'
  BY <1>1, <1>4, <1>5 DEF Start, End
<1>14. Bursts'
  <2> SUFFICES ASSUME NEW t \in Seconds
               PROVE  Within(allowed', t, t + WindowSec - 1) <= 2 * Limit
    BY DEF Bursts
  <2>1. t \in Int /\ t + WindowSec - 1 \in Int /\ t <= LastSecond /\ 0 <= t
    BY <1>1 DEF Seconds
  <2>2. CASE now \in t..(t + WindowSec - 1)
    <3>1. /\ t >= Start' - WindowSec /\ t + WindowSec - 1 <= End'
          /\ Start' - WindowSec \in Int /\ Start' - 1 \in Int /\ End' \in Int
      <4>1. End' = LastSecond + WindowSec
        BY DEF End
      <4> DEFINE st == Start'
      <4>2. st \in Int /\ st <= now
        BY <1>13
      <4> HIDE DEF st
      <4>3. /\ t >= st - WindowSec /\ t + WindowSec - 1 <= LastSecond + WindowSec
            /\ st - WindowSec \in Int /\ st - 1 \in Int
            /\ LastSecond + WindowSec \in Int
        BY <1>1, <2>1, <2>2, <4>2
      <4> QED BY <4>1, <4>3 DEF st
    <3> DEFINE before == Within(allowed', Start' - WindowSec, Start' - 1)
               after == Within(allowed', Start', End')
               part1 == Within(allowed', t, Start' - 1)
               part2 == Within(allowed', Start', t + WindowSec - 1)
               all == Within(allowed', t, t + WindowSec - 1)
    <3>2. all <= part1 + part2
      BY <1>12, <1>13, <2>1, WithinFacts
    <3>3. part1 <= before
      BY <1>12, <2>1, <3>1, WithinFacts
    <3>4. part2 <= after
      BY <1>12, <1>13, <2>1, <3>1, WithinFacts
    <3>5. /\ before \in Nat /\ after \in Nat /\ part1 \in Nat /\ part2 \in Nat /\ all \in Nat
          /\ before <= Limit /\ after <= Limit
      BY <1>11, <1>12, <1>13, <2>1, <3>1, WithinFacts
    <3> HIDE DEF before, after, part1, part2, all
    <3>6. all <= 2 * Limit
      BY <1>1, <3>2, <3>3, <3>4, <3>5
    <3> QED BY <3>6 DEF all
  <2>3. CASE now \notin t..(t + WindowSec - 1)
    <3>1. /\ Within(allowed', t, t + WindowSec - 1) = Within(allowed, t, t + WindowSec - 1) + 0
          /\ Within(allowed, t, t + WindowSec - 1) \in Nat
      BY <1>6, <2>1, <2>3
    <3>2. Within(allowed, t, t + WindowSec - 1) <= 2 * Limit
      BY DEF LimitInv, Bursts
    <3> QED BY <3>1, <3>2
  <2> QED BY <2>2, <2>3
<1>15. ASSUME refused'
       PROVE  /\ Within(allowed', now - WindowSec + 1, now) +
                     Within(lost', now - WindowSec + 1, now) >= Limit
  <2> DEFINE w == Within(allowed', Start', now)
             v == Within(lost', Start', now)
             w1 == Within(allowed', now - WindowSec + 1, now)
             v1 == Within(lost', now - WindowSec + 1, now)
  <2>1. now - WindowSec + 1 \in Int /\ now - WindowSec + 1 <= Start'
    BY <1>1, <1>13
  <2>2. w <= w1 /\ v <= v1 /\ w \in Nat /\ v \in Nat /\ w1 \in Nat /\ v1 \in Nat
    <3>1. w <= w1 /\ w \in Nat /\ w1 \in Nat
      BY <1>1, <1>12, <1>13, <2>1, WithinFacts
    <3>2. v <= v1 /\ v \in Nat /\ v1 \in Nat
      BY <1>1, <1>12, <1>13, <2>1, WithinFacts
    <3> QED BY <3>1, <3>2
  <2>3. w + v >= Limit \/ w + v >= counter'.count
    BY <1>11
  <2>4. counter'.count > Limit /\ counter'.count \in Int
    BY <1>4, <1>15
  <2> HIDE DEF w, v, w1, v1
  <2>5. w1 + v1 >= Limit
    BY <1>1, <2>2, <2>3, <2>4
  <2> QED BY <2>5 DEF w1, v1
<1>16. Calls!RefusedForCause'
  <2>1. DOMAIN allowed' = Seconds /\ DOMAIN lost' = Seconds
    BY <1>12
  <2>2. /\ Calls!TotalOf(allowed', now - WindowSec + 1, now) =
               Within(allowed', now - WindowSec + 1, now)
        /\ Calls!TotalOf(lost', now - WindowSec + 1, now) =
               Within(lost', now - WindowSec + 1, now)
    BY <2>1, TotalIsWithin
  <2> QED BY <1>15, <2>2 DEF Calls!RefusedForCause
<1>17. counter'.count = 0 => counter'.expires = 0
  BY <1>4
<1> QED BY <1>1, <1>4, <1>7, <1>10, <1>12, <1>14, <1>16, <1>17 DEF LimitInv

LEMMA LimitStep == LimitInv /\ [Calls!Next]_(Calls!vars) => LimitInv'
<1> SUFFICES ASSUME LimitInv, [Calls!Next]_(Calls!vars)
             PROVE  LimitInv'
  OBVIOUS
<1>1. /\ now \in Seconds /\ now \in Int /\ Limit \in Nat /\ WindowSec \in Nat /\ WindowSec > 0
      /\ LastSecond \in Nat /\ now <= LastSecond
      /\ allowed \in [Seconds -> Nat] /\ lost \in [Seconds -> Nat]
  BY LimitNumbers DEF LimitInv, Seconds
<1>2. Grows(allowed, allowed, now, 0) /\ Grows(lost, lost, now, 0)
  BY <1>1 DEF Grows
<1>3. CASE Calls!Check
  <2>1. counter' = Calls!Increment(counter) /\ lost' = lost /\ now' = now
    BY <1>3 DEF Calls!Check
  <2>2. counter'.count \in Int
    <3>1. counter.count \in Int
      BY DEF LimitInv
    <3>2. CASE counter.count = 0 \/ counter.expires <= now
      BY <2>1, <3>2 DEF Calls!Increment
    <3>3. CASE ~(counter.count = 0 \/ counter.expires <= now)
      <4>1. counter' = [counter EXCEPT !.count = @ + 1]
        BY <2>1, <3>3 DEF Calls!Increment
      <4>2. counter'.count = counter.count + 1
        BY <4>1 DEF LimitInv
      <4> QED BY <3>1, <4>2
    <3> QED BY <3>2, <3>3
  <2>3. CASE counter'.count <= Limit
    <3>1. allowed' = [allowed EXCEPT ![now] = @ + 1] /\ refused' = FALSE
      BY <1>3, <2>3 DEF Calls!Check
    <3>2. Grows(allowed, allowed', now, 1)
      BY <1>1, <3>1 DEF Grows
    <3>3. Grows(lost, lost', now, 0)
      BY <1>2, <2>1
    <3>4. counter'.count <= Limit + 2
      BY <1>1, <2>2, <2>3
    <3> QED BY <2>1, <2>3, <3>1, <3>2, <3>3, <3>4, CallKeeps
  <2>4. CASE ~(counter'.count <= Limit)
    <3>1. counter'.count <= Limit + 2 /\ refused' = TRUE /\ allowed' = allowed
      BY <1>3, <2>4 DEF Calls!Check
    <3>2. Grows(allowed, allowed', now, 0) /\ Grows(lost, lost', now, 0)
      BY <1>2, <2>1, <3>1
    <3>3. counter'.count > Limit
      BY <1>1, <2>2, <2>4
    <3> QED BY <2>1, <2>4, <3>1, <3>2, <3>3, CallKeeps
  <2> QED BY <2>3, <2>4
<1>4. CASE Calls!LoseAnswer
  <2>1. /\ counter' = Calls!Increment(counter) /\ counter'.count <= Limit + 2
        /\ lost' = [lost EXCEPT ![now] = @ + 1] /\ refused' = FALSE
        /\ now' = now /\ allowed' = allowed
    BY <1>4 DEF Calls!LoseAnswer
  <2>2. Grows(allowed, allowed', now, 0)
    BY <1>2, <2>1
  <2>3. Grows(lost, lost', now, 1)
    BY <1>1, <2>1 DEF Grows
  <2>4. /\ refused' \in BOOLEAN /\ ~refused'
        /\ 0 \in {0, 1} /\ 1 \in {0, 1} /\ ~(0 = 1)
    <3>1. refused' \in BOOLEAN /\ ~refused'
      BY <2>1, Zenon
    <3>2. 0 \in {0, 1} /\ 1 \in {0, 1} /\ ~(0 = 1)
      OBVIOUS
    <3> QED BY <3>1, <3>2
  <2>5. counter' = Calls!Increment(counter) /\ counter'.count <= Limit + 2 /\ UNCHANGED now
    BY <2>1
  <2> QED BY <2>2, <2>3, <2>4, <2>5, CallKeeps
<1>5. CASE Calls!Tick
  <2>1. /\ now < LastSecond /\ now' = now + 1 /\ refused' = FALSE
        /\ counter' = counter /\ allowed' = allowed /\ lost' = lost
    BY <1>5 DEF Calls!Tick
  <2>2. now' \in Seconds
    BY <1>1, <2>1 DEF Seconds
  <2>3. InForce'
    <3> SUFFICES ASSUME counter.count > 0
                 PROVE  /\ Start \in 0..(now + 1)
                        /\ \/ Within(allowed, Start, now + 1) + Within(lost, Start, now + 1)
                                  >= counter.count
                           \/ Within(allowed, Start, now + 1) + Within(lost, Start, now + 1)
                                  >= Limit
                        /\ Within(allowed, Start, End) <= counter.count
                        /\ Within(allowed, Start, End) <= Limit
                        /\ Within(allowed, Start - WindowSec, Start - 1) <= Limit
      BY <2>1 DEF InForce, Start, End
    <3>1. /\ Start \in 0..now
          /\ Within(allowed, Start, End) <= counter.count
          /\ Within(allowed, Start, End) <= Limit
          /\ Within(allowed, Start - WindowSec, Start - 1) <= Limit
          /\ \/ Within(allowed, Start, now) + Within(lost, Start, now) >= counter.count
             \/ Within(allowed, Start, now) + Within(lost, Start, now) >= Limit
      BY DEF LimitInv, InForce
    <3>2. Start \in Int /\ now + 1 \in Int /\ Start \in 0..(now + 1)
      BY <1>1, <3>1
    <3> DEFINE w == Within(allowed, Start, now)
               v == Within(lost, Start, now)
               w1 == Within(allowed, Start, now + 1)
               v1 == Within(lost, Start, now + 1)
    <3>3. w <= w1 /\ w \in Nat /\ w1 \in Nat
      BY <1>1, <3>2, WithinFacts
    <3>4. v <= v1 /\ v \in Nat /\ v1 \in Nat
      BY <1>1, <3>2, WithinFacts
    <3>5. w + v >= counter.count \/ w + v >= Limit
      BY <3>1
    <3>6. counter.count \in Int
      BY DEF LimitInv
    <3> HIDE DEF w, v, w1, v1
    <3>7. w1 + v1 >= counter.count \/ w1 + v1 >= Limit
      BY <1>1, <3>3, <3>4, <3>5, <3>6
    <3> QED BY <3>1, <3>2, <3>7 DEF w1, v1
  <2>4. Bursts' /\ Calls!RefusedForCause'
    BY <2>1 DEF LimitInv, Bursts, Calls!RefusedForCause
  <2> QED BY <2>1, <2>2, <2>3, <2>4 DEF LimitInv
<1>6. CASE UNCHANGED Calls!vars
  <2>1. /\ now' = now /\ counter' = counter /\ allowed' = allowed /\ lost' = lost
        /\ refused' = refused
    BY <1>6 DEF Calls!vars
  <2>2. InForce' /\ Bursts' /\ Calls!RefusedForCause'
    BY <2>1 DEF LimitInv, InForce, Bursts, Start, End, Calls!RefusedForCause, Calls!TotalOf
  <2> QED BY <2>1, <2>2 DEF LimitInv
<1> QED BY <1>3, <1>4, <1>5, <1>6 DEF Calls!Next

LEMMA LimitHolds ==
    LimitInv => Calls!TypeOK /\ Calls!BurstsAreBounded /\ Calls!RefusedForCause
<1> SUFFICES ASSUME LimitInv
             PROVE  Calls!TypeOK /\ Calls!BurstsAreBounded
  BY DEF LimitInv
<1>1. Calls!TypeOK
  BY DEF LimitInv, Calls!TypeOK, Seconds
<1>2. DOMAIN allowed = Seconds
  BY DEF LimitInv
<1>3. ASSUME NEW t \in 0..LastSecond
      PROVE  Calls!TotalOf(allowed, t, t + WindowSec - 1) <= 2 * Limit
  BY <1>2, TotalIsWithin DEF LimitInv, Bursts, Seconds
<1> QED BY <1>1, <1>3 DEF Calls!BurstsAreBounded

--------------------------------------------------------------------------------
(* Room pulse. *)

PulseInv ==
    /\ now \in 0..LastPulse /\ Mood!TypeOK
    /\ cast \in [Users -> Int]
    /\ \A u \in Users : cast[u] = -PulseWindow \/ cast[u] \in 0..now
    /\ \A u \in Users : cast[u] + PulseWindow <= expires
    /\ \A u \in Users : now - cast[u] < PulseWindow => ballots[u] # NoFeeling
    /\ \A u \in Users : ballots[u] # NoFeeling => cast[u] >= 0
    /\ Mood!Voters # {} =>
           expires > now /\ \E u \in Users : cast[u] + PulseWindow = expires
    /\ Mood!ToldOfEnough

LEMMA PulseNumbers ==
    /\ PulseWindow \in Nat /\ PulseWindow > 0 /\ LastPulse \in Nat /\ MinVoters \in Nat
    /\ IsFiniteSet(Users) /\ NoFeeling \notin Feelings
BY ClocksAssumption

LEMMA SilentTells == told = Mood!Silent => Mood!ToldOfEnough
<1>1. Mood!Silent.voters = 0
  BY DEF Mood!Silent
<1> QED BY <1>1 DEF Mood!ToldOfEnough

LEMMA PulseInit ==
    ASSUME now = 0, inside \in {Users, {}}, voting = {}, expires = 0, told = Mood!Silent,
           ballots = [u \in Users |-> NoFeeling], cast = [u \in Users |-> Mood!Ever]
    PROVE  PulseInv
<1>1. Mood!Ever = -PulseWindow /\ -PulseWindow \in Int
  BY PulseNumbers DEF Mood!Ever
<1>2. Mood!Voters = {}
  BY DEF Mood!Voters
<1>3. Mood!TypeOK
  BY PulseNumbers DEF Mood!TypeOK
<1>4. \A u \in Users : cast[u] = -PulseWindow
  BY <1>1
<1>5. cast \in [Users -> Int]
  BY <1>1
<1> QED BY <1>2, <1>3, <1>4, <1>5, PulseNumbers, SilentTells DEF PulseInv

\* Two shares of a whole, each rounded, are off it by less than one.
LEMMA SharesOfWhole ==
    ASSUME NEW x \in Nat, NEW y \in Nat, NEW n \in Nat, n > 0, x + y <= n
    PROVE  Mood!Share(x, n) + Mood!Share(y, n) <= 101
<1> DEFINE s == (200 * x + n) \div (2 * n)
           t == (200 * y + n) \div (2 * n)
<1>1. s \in Int /\ s * (2 * n) <= 200 * x + n
  OBVIOUS
<1>2. t \in Int /\ t * (2 * n) <= 200 * y + n
  OBVIOUS
<1> HIDE DEF s, t
<1>3. (s + t) * (2 * n) <= 202 * n
  BY <1>1, <1>2
<1>4. s + t <= 101
  <2> SUFFICES ASSUME s + t >= 102
               PROVE  FALSE
    BY <1>1, <1>2
  <2>1. (s + t) * (2 * n) >= 102 * (2 * n)
    BY <1>1, <1>2
  <2> QED BY <1>1, <1>2, <1>3, <2>1
<1> QED BY <1>4 DEF s, t, Mood!Share

LEMMA PulseIsTold ==
    ASSUME PulseInv, told' = Mood!SummarizePulse, cast' = cast
    PROVE  Mood!ToldOfEnough'
<1> DEFINE voters == Cardinality(Mood!Voters)
<1>1. Mood!Cardinality(Mood!Voters) = voters
  BY DEF Mood!Cardinality, Cardinality
<1>2. CASE voters = 0
  <2>1. told' = Mood!Silent
    BY <1>1, <1>2 DEF Mood!SummarizePulse
  <2>2. told'.voters = 0
    BY <2>1 DEF Mood!Silent
  <2> QED BY <2>2 DEF Mood!ToldOfEnough
<1>3. CASE voters # 0 /\ voters < MinVoters
  <2>1. told' = [Mood!Silent EXCEPT !.tooFew = TRUE]
    BY <1>1, <1>3 DEF Mood!SummarizePulse
  <2>2. told'.voters = 0
    BY <2>1 DEF Mood!Silent
  <2> QED BY <2>2 DEF Mood!ToldOfEnough
<1>4. CASE voters # 0 /\ ~(voters < MinVoters)
  <2>1. IsFiniteSet(Mood!Voters) /\ voters \in Nat
    BY PulseNumbers, FS_Subset, FS_CardinalityType DEF Mood!Voters
  <2>2. told' = [shares |-> [f \in Feelings |->
                               Mood!Share(Mood!Cardinality(Mood!Votes(f)), voters)],
                 voters |-> voters, tooFew |-> FALSE]
    BY <1>1, <1>4 DEF Mood!SummarizePulse
  <2>3. told'.voters >= MinVoters
    BY <1>4, <2>1, <2>2, PulseNumbers
  <2>4. Cardinality({u \in Users : cast[u] >= 0}) >= voters
    <3>1. Mood!Voters \subseteq {u \in Users : cast[u] >= 0}
      BY DEF PulseInv, Mood!Voters
    <3>2. IsFiniteSet({u \in Users : cast[u] >= 0})
      BY PulseNumbers, FS_Subset
    <3>3. Cardinality({u \in Users : cast[u] >= 0}) \in Nat
      BY <3>2, FS_CardinalityType
    <3>4. Cardinality(Mood!Voters) <= Cardinality({u \in Users : cast[u] >= 0})
      BY <3>1, <3>2, FS_Subset
    <3> QED BY <2>1, <3>3, <3>4
  <2>5. ASSUME NEW f \in Feelings, NEW g \in Feelings, f # g
        PROVE  told'.shares[f] + told'.shares[g] <= 101
    <3> DEFINE x == Cardinality(Mood!Votes(f))
               y == Cardinality(Mood!Votes(g))
    <3>1. /\ Mood!Votes(f) \cap Mood!Votes(g) = {}
          /\ Mood!Votes(f) \cup Mood!Votes(g) \subseteq Mood!Voters
      BY <2>5, PulseNumbers DEF Mood!Votes, Mood!Voters
    <3>2. IsFiniteSet(Mood!Votes(f)) /\ IsFiniteSet(Mood!Votes(g))
      BY <2>1, <3>1, FS_Subset
    <3>3. /\ x \in Nat /\ y \in Nat
          /\ Cardinality(Mood!Votes(f) \cup Mood!Votes(g)) = x + y
      <4>1. x \in Nat /\ y \in Nat
        BY <3>2, FS_CardinalityType
      <4>2. Cardinality(Mood!Votes(f) \cap Mood!Votes(g)) = 0
        BY <3>1, FS_EmptySet
      <4>3. Cardinality(Mood!Votes(f) \cup Mood!Votes(g)) = x + y - 0
        BY <3>2, <4>2, FS_Union
      <4> HIDE DEF x, y
      <4> QED BY <4>1, <4>3
    <3>4. x + y <= voters
      <4>1. Cardinality(Mood!Votes(f) \cup Mood!Votes(g)) <= voters
        BY <2>1, <3>1, FS_Subset
      <4> QED BY <3>3, <4>1
    <3>5. /\ Mood!Cardinality(Mood!Votes(f)) = x
          /\ Mood!Cardinality(Mood!Votes(g)) = y
      BY DEF Mood!Cardinality, Cardinality
    <3>6. told'.shares[f] = Mood!Share(x, voters) /\ told'.shares[g] = Mood!Share(y, voters)
      BY <2>2, <3>5
    <3> HIDE DEF x, y, voters
    <3>7. voters \in Nat /\ voters > 0
      BY <1>4, <2>1
    <3> QED BY <3>3, <3>4, <3>6, <3>7, SharesOfWhole
  <2>6. told'.voters = voters /\ {u \in Users : cast'[u] >= 0} = {u \in Users : cast[u] >= 0}
    BY <2>2
  <2>7. Mood!Cardinality({u \in Users : cast'[u] >= 0}) = Cardinality({u \in Users : cast[u] >= 0})
    BY <2>6 DEF Mood!Cardinality, Cardinality
  <2> HIDE DEF voters
  <2> QED BY <2>3, <2>4, <2>5, <2>6, <2>7 DEF Mood!ToldOfEnough
<1> QED BY <1>2, <1>3, <1>4

LEMMA PulseStep == PulseInv /\ [Mood!Next]_(Mood!vars) => PulseInv'
<1> SUFFICES ASSUME PulseInv, [Mood!Next]_(Mood!vars)
             PROVE  PulseInv'
  OBVIOUS
<1>1. /\ now \in Nat /\ now <= LastPulse /\ expires \in 0..(LastPulse + PulseWindow)
      /\ cast \in [Users -> Int] /\ ballots \in [Users -> Feelings \cup {NoFeeling}]
      /\ inside \subseteq Users /\ voting \subseteq Users
  BY PulseNumbers DEF PulseInv, Mood!TypeOK
\* Whoever comes, goes or is about to vote changes none of the votes.
<1>2. ASSUME inside' \subseteq Users, voting' \subseteq Users,
             UNCHANGED <<now, ballots, expires, cast>>, Mood!ToldOfEnough'
      PROVE  PulseInv'
  BY <1>2 DEF PulseInv, Mood!TypeOK, Mood!Voters
<1>3. ASSUME NEW u \in Users, Mood!MayVote(u) \/ Mood!Enter(u) \/ Mood!Leave(u)
      PROVE  PulseInv'
  <2>1. told' = Mood!Silent /\ UNCHANGED <<now, ballots, expires, cast>>
    BY <1>3 DEF Mood!MayVote, Mood!Enter, Mood!Leave
  <2>2. inside' \subseteq Users /\ voting' \subseteq Users
    BY <1>1, <1>3 DEF Mood!MayVote, Mood!Enter, Mood!Leave
  <2>3. Mood!ToldOfEnough'
    <3>1. told'.voters = 0
      BY <2>1 DEF Mood!Silent
    <3> QED BY <3>1 DEF Mood!ToldOfEnough
  <2> QED BY <1>2, <2>1, <2>2, <2>3
<1>4. ASSUME NEW u \in Users, Mood!GetRoomPulse(u)
      PROVE  PulseInv'
  <2>1. told' = Mood!SummarizePulse /\ UNCHANGED <<now, inside, voting, ballots, expires, cast>>
    BY <1>4 DEF Mood!GetRoomPulse
  <2>2. Mood!ToldOfEnough'
    BY <2>1, PulseIsTold
  <2> QED BY <1>1, <1>2, <2>1, <2>2
<1>5. ASSUME NEW u \in Users, NEW feeling \in Feelings, Mood!Vote(u, feeling)
      PROVE  PulseInv'
  <2>1. /\ voting' = voting \ {u} /\ ballots' = [ballots EXCEPT ![u] = feeling]
        /\ expires' = now + PulseWindow /\ cast' = [cast EXCEPT ![u] = now]
        /\ now' = now /\ inside' = inside /\ told'.voters = 0
    BY <1>5 DEF Mood!Vote, Mood!Kept, Mood!Silent
  <2>2. Mood!ToldOfEnough'
    BY <2>1 DEF Mood!ToldOfEnough
  <2>3. Mood!TypeOK' /\ cast' \in [Users -> Int]
    BY <1>1, <2>1, PulseNumbers DEF Mood!TypeOK
  <2>4. \A v \in Users : /\ cast'[v] = IF v = u THEN now ELSE cast[v]
                         /\ ballots'[v] = IF v = u THEN feeling ELSE ballots[v]
    BY <1>1, <2>1
  <2>5. \A v \in Users : /\ cast'[v] = -PulseWindow \/ cast'[v] \in 0..now
                         /\ cast'[v] + PulseWindow <= now + PulseWindow
                         /\ now - cast'[v] < PulseWindow => ballots'[v] # NoFeeling
                         /\ ballots'[v] # NoFeeling => cast'[v] >= 0
    BY <1>1, <2>4, PulseNumbers DEF PulseInv
  <2>6. expires' > now' /\ cast'[u] + PulseWindow = expires'
    BY <1>1, <2>1, <2>4, PulseNumbers
  <2> QED BY <2>1, <2>2, <2>3, <2>5, <2>6 DEF PulseInv
<1>6. CASE Mood!Tick
  <2>1. /\ now < LastPulse /\ now' = now + 1 /\ told'.voters = 0
        /\ ballots' = IF expires <= now' THEN [u \in Users |-> NoFeeling] ELSE ballots
        /\ inside' = inside /\ voting' = voting /\ expires' = expires /\ cast' = cast
    BY <1>6 DEF Mood!Tick, Mood!Silent
  <2>2. Mood!ToldOfEnough'
    BY <2>1 DEF Mood!ToldOfEnough
  <2>3. Mood!TypeOK' /\ now' \in 0..LastPulse
    BY <1>1, <2>1, PulseNumbers DEF Mood!TypeOK
  <2>4. \A v \in Users : cast[v] = -PulseWindow \/ cast[v] \in 0..(now + 1)
    BY <1>1 DEF PulseInv
  <2>5. CASE expires <= now + 1
    <3>1. ballots' = [u \in Users |-> NoFeeling] /\ Mood!Voters' = {}
      BY <2>1, <2>5 DEF Mood!Voters
    <3>2. \A v \in Users : ~(now + 1 - cast[v] < PulseWindow)
      <4> SUFFICES ASSUME NEW v \in Users
                   PROVE  ~(now + 1 - cast[v] < PulseWindow)
        OBVIOUS
      <4>1. cast[v] \in Int /\ cast[v] + PulseWindow <= expires
        BY <1>1 DEF PulseInv
      <4> QED BY <1>1, <2>5, <4>1, PulseNumbers
    <3> QED BY <2>1, <2>2, <2>3, <2>4, <3>1, <3>2 DEF PulseInv
  <2>6. CASE ~(expires <= now + 1)
    <3>1. ballots' = ballots /\ Mood!Voters' = Mood!Voters
      BY <2>1, <2>6 DEF Mood!Voters
    <3>2. \A v \in Users : now + 1 - cast[v] < PulseWindow => ballots[v] # NoFeeling
      <4> SUFFICES ASSUME NEW v \in Users, now + 1 - cast[v] < PulseWindow
                   PROVE  ballots[v] # NoFeeling
        OBVIOUS
      <4>1. now - cast[v] < PulseWindow
        BY <1>1, PulseNumbers
      <4> QED BY <4>1 DEF PulseInv
    <3>3. expires > now + 1
      BY <1>1, <2>6
    <3> QED BY <2>1, <2>2, <2>3, <2>4, <3>1, <3>2, <3>3 DEF PulseInv
  <2> QED BY <2>5, <2>6
<1>7. CASE UNCHANGED Mood!vars
  <2>1. UNCHANGED <<now, inside, voting, ballots, expires, cast, told>>
    BY <1>7 DEF Mood!vars
  <2> QED BY <1>1, <1>2, <2>1 DEF PulseInv, Mood!ToldOfEnough
<1> QED BY <1>3, <1>4, <1>5, <1>6, <1>7 DEF Mood!Next

LEMMA PulseHolds ==
    PulseInv => Mood!TypeOK /\ Mood!VotesLastTheirWindow /\ Mood!ToldOfEnough
<1> SUFFICES ASSUME PulseInv, Mood!Voters # {}
             PROVE  \E u \in Users : now - cast[u] < PulseWindow
  BY DEF PulseInv, Mood!VotesLastTheirWindow
<1>1. PICK u \in Users : cast[u] + PulseWindow = expires
  BY DEF PulseInv
<1>2. cast[u] \in Int /\ now \in Int /\ expires \in Int /\ expires > now
  BY PulseNumbers DEF PulseInv, Mood!TypeOK
<1> QED BY <1>1, <1>2, PulseNumbers

--------------------------------------------------------------------------------
(* The trust ledger. *)

\* What appends come to, and the score that is theirs.
TotalOf(ev, S) == SumFunctionOnSet([a \in Appends |-> Deltas[ev[a]]], S)
ScoreOf(ev, S) == Standing!ClampTrust(Deltas["account_created"] + TotalOf(ev, S))

LedgerTypes ==
    /\ event \in [Appends -> Reasons \cup {NoReason}]
    /\ tx \in [Appends -> {"none", "inserted", "waiting", "updated", "committed", "gone"}]
    /\ \A a \in Appends : tx[a] # "none" => event[a] \in Reasons
    /\ \A a, b \in Appends : tx[a] = "updated" /\ tx[b] = "updated" => a = b

\* Every score, written or about to be, is that of appends that are committed.
LedgerInv ==
    /\ LedgerTypes
    /\ summed \in [Appends -> Int]
    /\ \A a \in Appends : tx[a] \in {"waiting", "updated"} =>
           \E S \in SUBSET Standing!Committed : summed[a] = ScoreOf(event, S \cup {a})
    /\ \E S \in SUBSET Standing!Committed : trustScore = ScoreOf(event, S)
    /\ alone => trustScore = ScoreOf(event, Standing!Committed)

LEMMA TrustNumbers ==
    /\ IsFiniteSet(Appends) /\ NoReason \notin Reasons
    /\ TrustMin \in Int /\ TrustMax \in Int /\ TrustMin <= 0 /\ 0 <= TrustMax
    /\ RegularFrom \in Int /\ TrustedFrom \in Int /\ 0 <= RegularFrom /\ 0 <= TrustedFrom
    /\ Deltas["account_created"] \in Int /\ 0 <= Deltas["account_created"]
    /\ Deltas["account_created"] <= TrustMax
    /\ \A r \in Reasons : Deltas[r] \in Int
BY ClocksAssumption

LEMMA Clamps ==
    ASSUME NEW s \in Int
    PROVE  /\ Standing!ClampTrust(s) \in TrustMin..TrustMax
           /\ Standing!ClampTrust(s) < 0 => s < 0
           /\ s \in TrustMin..TrustMax => Standing!ClampTrust(s) = s
BY TrustNumbers DEF Standing!ClampTrust

LEMMA SumOfIsTotal ==
    ASSUME NEW S \in SUBSET Appends
    PROVE  Standing!SumOf(S) = TotalOf(event, S)
<1> DEFINE part1 == [a \in S |-> Deltas[event[a]]]
           all == [a \in Appends |-> Deltas[event[a]]]
<1>1. IsFiniteSet(S)
  BY TrustNumbers, FS_Subset
<1>2. \A a \in S : part1[a] = all[a]
  OBVIOUS
<1>3. DOMAIN part1 = S
  OBVIOUS
<1>4. Standing!SumOf(S) = Standing!SumFunction(part1)
  BY DEF Standing!SumOf
<1> HIDE DEF part1, all
<1>5. Standing!SumFunction(part1) = SumFunctionOnSet(part1, S)
  <2>1. Standing!SumFunction(part1) = Standing!SumFunctionOnSet(part1, S)
    BY <1>3 DEF Standing!SumFunction
  <2>2. Standing!SumFunctionOnSet(part1, S) = SumFunctionOnSet(part1, S)
    BY DEF Standing!SumFunctionOnSet, Standing!FoldFunctionOnSet, Standing!MapThenFoldSet,
           SumFunctionOnSet, FoldFunctionOnSet, MapThenFoldSet
  <2> QED BY <2>1, <2>2
<1>6. SumFunctionOnSet(part1, S) = SumFunctionOnSet(all, S)
  BY <1>1, <1>2, SumsAlike
<1> QED BY <1>4, <1>5, <1>6 DEF all, TotalOf

LEMMA TotalIsInteger ==
    ASSUME NEW ev, NEW S \in SUBSET Appends, \A a \in S : ev[a] \in Reasons
    PROVE  TotalOf(ev, S) \in Int /\ ScoreOf(ev, S) \in TrustMin..TrustMax
<1>1. IsFiniteSet(S)
  BY TrustNumbers, FS_Subset
<1>2. \A a \in S : [b \in Appends |-> Deltas[ev[b]]][a] \in Int
  BY TrustNumbers
<1>3. TotalOf(ev, S) \in Int
  BY <1>1, <1>2, SumIsInteger DEF TotalOf
<1> QED BY <1>3, Clamps, TrustNumbers DEF ScoreOf

LEMMA TotalsAlike ==
    ASSUME NEW ev, NEW other, NEW S \in SUBSET Appends, \A a \in S : ev[a] = other[a]
    PROVE  ScoreOf(ev, S) = ScoreOf(other, S)
<1> DEFINE f == [a \in Appends |-> Deltas[ev[a]]]
           g == [a \in Appends |-> Deltas[other[a]]]
<1>1. IsFiniteSet(S) /\ \A a \in S : f[a] = g[a]
  BY TrustNumbers, FS_Subset
<1> HIDE DEF f, g
<1>2. SumFunctionOnSet(f, S) = SumFunctionOnSet(g, S)
  BY <1>1, SumsAlike
<1> QED BY <1>2 DEF f, g, ScoreOf, TotalOf

LEMMA LedgerInit == Standing!Init => LedgerInv
<1> SUFFICES ASSUME Standing!Init
             PROVE  LedgerInv
  OBVIOUS
<1>1. /\ trustScore = Deltas["account_created"] /\ event = [a \in Appends |-> NoReason]
      /\ tx = [a \in Appends |-> "none"] /\ summed = [a \in Appends |-> 0]
  BY DEF Standing!Init
<1>2. Standing!Committed = {}
  BY <1>1 DEF Standing!Committed
<1>3. TotalOf(event, {}) = 0
  <2>1. IsFiniteSet({})
    BY FS_EmptySet
  <2> QED BY <2>1, SumUnfolds DEF TotalOf
<1>4. ScoreOf(event, {}) = Deltas["account_created"]
  BY <1>3, Clamps, TrustNumbers DEF ScoreOf
<1> QED BY <1>1, <1>2, <1>4 DEF LedgerInv, LedgerTypes

\* A step that commits nothing, and whose sums are those of its snapshot.
LEMMA LedgerKeeps ==
    ASSUME LedgerInv, LedgerTypes', summed' \in [Appends -> Int],
           UNCHANGED <<trustScore, alone>>, Standing!Committed' = Standing!Committed,
           \A a \in Appends : tx[a] # "none" => event'[a] = event[a],
           \A a \in Appends : tx'[a] \in {"waiting", "updated"} =>
               \/ tx[a] \in {"waiting", "updated"} /\ summed'[a] = summed[a]
               \/ tx[a] = "inserted" /\ summed'[a] = Standing!Projection(a)
    PROVE  LedgerInv'
<1>1. Standing!Committed \in SUBSET Appends /\ \A a \in Standing!Committed : tx[a] = "committed"
  BY DEF Standing!Committed
<1>2. \A S \in SUBSET Standing!Committed : ScoreOf(event', S) = ScoreOf(event, S)
  <2> SUFFICES ASSUME NEW S \in SUBSET Standing!Committed
               PROVE  ScoreOf(event', S) = ScoreOf(event, S)
    OBVIOUS
  <2>1. S \in SUBSET Appends /\ \A a \in S : event'[a] = event[a]
    BY <1>1
  <2> QED BY <2>1, TotalsAlike
<1>3. ASSUME NEW a \in Appends, tx'[a] \in {"waiting", "updated"}
      PROVE  \E S \in SUBSET Standing!Committed : summed'[a] = ScoreOf(event', S \cup {a})
  <2>1. tx[a] # "none"
    BY <1>3
  <2>2. \A S \in SUBSET Standing!Committed :
            ScoreOf(event', S \cup {a}) = ScoreOf(event, S \cup {a})
    <3> SUFFICES ASSUME NEW S \in SUBSET Standing!Committed
                 PROVE  ScoreOf(event', S \cup {a}) = ScoreOf(event, S \cup {a})
      OBVIOUS
    <3>1. S \cup {a} \in SUBSET Appends /\ \A b \in S \cup {a} : event'[b] = event[b]
      BY <1>1, <2>1
    <3> QED BY <3>1, TotalsAlike
  <2>3. CASE tx[a] \in {"waiting", "updated"} /\ summed'[a] = summed[a]
    <3>1. PICK S \in SUBSET Standing!Committed : summed[a] = ScoreOf(event, S \cup {a})
      BY <2>3 DEF LedgerInv
    <3>2. summed'[a] = ScoreOf(event', S \cup {a})
      BY <2>2, <2>3, <3>1
    <3> QED BY <3>2
  <2>4. CASE summed'[a] = Standing!Projection(a)
    <3>1. Standing!SumOf(Standing!Committed \cup {a}) = TotalOf(event, Standing!Committed \cup {a})
      BY <1>1, SumOfIsTotal
    <3>2. summed'[a] = ScoreOf(event, Standing!Committed \cup {a})
      BY <2>4, <3>1 DEF Standing!Projection, ScoreOf
    <3>3. summed'[a] = ScoreOf(event', Standing!Committed \cup {a})
      BY <2>2, <3>2
    <3> QED BY <3>3
  <2> QED BY <1>3, <2>3, <2>4
<1>4. \E S \in SUBSET Standing!Committed : trustScore = ScoreOf(event', S)
  BY <1>2 DEF LedgerInv
<1>5. alone => trustScore = ScoreOf(event', Standing!Committed)
  BY <1>2 DEF LedgerInv
<1> QED BY <1>3, <1>4, <1>5 DEF LedgerInv

LEMMA LedgerStep == LedgerInv /\ [Standing!Next]_(Standing!vars) => LedgerInv'
<1> SUFFICES ASSUME LedgerInv, [Standing!Next]_(Standing!vars)
             PROVE  LedgerInv'
  OBVIOUS
<1>1. /\ event \in [Appends -> Reasons \cup {NoReason}] /\ summed \in [Appends -> Int]
      /\ tx \in [Appends -> {"none", "inserted", "waiting", "updated", "committed", "gone"}]
      /\ \A a \in Appends : tx[a] # "none" => event[a] \in Reasons
      /\ \A a, b \in Appends : tx[a] = "updated" /\ tx[b] = "updated" => a = b
  BY DEF LedgerInv, LedgerTypes
<1>2. Standing!Committed \in SUBSET Appends /\ \A a \in Standing!Committed : event[a] \in Reasons
  BY <1>1 DEF Standing!Committed
<1>3. ASSUME NEW a \in Appends, NEW reason \in Reasons, Standing!Insert(a, reason)
      PROVE  LedgerInv'
  <2>1. /\ tx[a] = "none" /\ tx' = [tx EXCEPT ![a] = "inserted"]
        /\ event' = [event EXCEPT ![a] = reason]
        /\ trustScore' = trustScore /\ summed' = summed /\ alone' = alone
    BY <1>3 DEF Standing!Insert
  <2>2. Standing!Committed' = Standing!Committed
    BY <1>1, <2>1 DEF Standing!Committed
  <2>3. LedgerTypes'
    BY <1>1, <2>1 DEF LedgerTypes
  <2>4. \A b \in Appends : tx'[b] \in {"waiting", "updated"} =>
            tx[b] \in {"waiting", "updated"} /\ summed'[b] = summed[b]
    BY <1>1, <2>1
  <2>5. \A b \in Appends : tx[b] # "none" => event'[b] = event[b]
    BY <1>1, <2>1
  <2> QED BY <1>1, <2>1, <2>2, <2>3, <2>4, <2>5, LedgerKeeps
<1>4. ASSUME NEW a \in Appends, Standing!Recompute(a)
      PROVE  LedgerInv'
  <2> DEFINE turn == IF \E b \in Appends : tx[b] = "updated" THEN "waiting" ELSE "updated"
  <2>1. /\ tx[a] = "inserted" /\ tx' = [tx EXCEPT ![a] = turn]
        /\ summed' = [summed EXCEPT ![a] = Standing!Projection(a)]
        /\ trustScore' = trustScore /\ event' = event /\ alone' = alone
    BY <1>4 DEF Standing!Recompute
  <2>2. turn \in {"waiting", "updated"} /\ turn = "updated" => \A b \in Appends : tx[b] # "updated"
    OBVIOUS
  <2>3. turn \in {"waiting", "updated"}
    OBVIOUS
  <2> HIDE DEF turn
  <2>4. Standing!Committed' = Standing!Committed
    BY <1>1, <2>1, <2>3 DEF Standing!Committed
  <2>5. LedgerTypes'
    BY <1>1, <2>1, <2>2, <2>3 DEF LedgerTypes
  <2>6. Standing!Projection(a) \in Int
    <3>1. Standing!Committed \cup {a} \in SUBSET Appends
      BY <1>2
    <3>2. \A b \in Standing!Committed \cup {a} : event[b] \in Reasons
      BY <1>1, <1>2, <2>1
    <3>3. TotalOf(event, Standing!Committed \cup {a}) \in Int
      BY <3>1, <3>2, TotalIsInteger
    <3>4. Standing!SumOf(Standing!Committed \cup {a}) \in Int
      BY <3>1, <3>3, SumOfIsTotal
    <3> QED BY <3>4, Clamps, TrustNumbers DEF Standing!Projection
  <2>7. summed' \in [Appends -> Int]
    BY <1>1, <2>1, <2>6
  <2>8. \A b \in Appends : tx'[b] \in {"waiting", "updated"} =>
            \/ tx[b] \in {"waiting", "updated"} /\ summed'[b] = summed[b]
            \/ tx[b] = "inserted" /\ summed'[b] = Standing!Projection(b)
    BY <1>1, <2>1
  <2>9. UNCHANGED <<trustScore, alone>> /\ \A b \in Appends : tx[b] # "none" => event'[b] = event[b]
    BY <2>1
  <2> QED BY <2>4, <2>5, <2>7, <2>8, <2>9, LedgerKeeps
<1>5. ASSUME NEW a \in Appends, Standing!Acquire(a)
      PROVE  LedgerInv'
  <2>1. /\ tx[a] = "waiting" /\ tx' = [tx EXCEPT ![a] = "updated"]
        /\ \A b \in Appends : tx[b] # "updated"
        /\ trustScore' = trustScore /\ event' = event /\ alone' = alone /\ summed' = summed
    BY <1>5 DEF Standing!Acquire
  <2>2. Standing!Committed' = Standing!Committed
    BY <1>1, <2>1 DEF Standing!Committed
  <2>3. LedgerTypes'
    BY <1>1, <2>1 DEF LedgerTypes
  <2>4. \A b \in Appends : tx'[b] \in {"waiting", "updated"} =>
            tx[b] \in {"waiting", "updated"} /\ summed'[b] = summed[b]
    BY <1>1, <2>1
  <2> QED BY <1>1, <2>1, <2>2, <2>3, <2>4, LedgerKeeps
<1>6. ASSUME NEW a \in Appends, Standing!Commit(a)
      PROVE  LedgerInv'
  <2>1. /\ tx[a] = "updated" /\ tx' = [tx EXCEPT ![a] = "committed"]
        /\ trustScore' = summed[a] /\ alone' = (summed[a] = Standing!Projection(a))
        /\ event' = event /\ summed' = summed
    BY <1>6 DEF Standing!Commit
  <2>2. Standing!Committed' = Standing!Committed \cup {a}
    BY <1>1, <2>1 DEF Standing!Committed
  <2>3. LedgerTypes'
    BY <1>1, <2>1 DEF LedgerTypes
  <2>4. PICK S \in SUBSET Standing!Committed : summed[a] = ScoreOf(event, S \cup {a})
    BY <2>1 DEF LedgerInv
  <2>5. \E T \in SUBSET Standing!Committed' : trustScore' = ScoreOf(event', T)
    <3>1. S \cup {a} \in SUBSET Standing!Committed'
      BY <2>2
    <3> QED BY <2>1, <2>4, <3>1
  <2>6. alone' => trustScore' = ScoreOf(event', Standing!Committed')
    <3>1. Standing!SumOf(Standing!Committed \cup {a}) = TotalOf(event, Standing!Committed \cup {a})
      BY <1>2, SumOfIsTotal
    <3>2. Standing!Projection(a) = ScoreOf(event, Standing!Committed \cup {a})
      BY <3>1 DEF Standing!Projection, ScoreOf
    <3> QED BY <2>1, <2>2, <3>2
  <2>7. ASSUME NEW b \in Appends, tx'[b] \in {"waiting", "updated"}
        PROVE  \E T \in SUBSET Standing!Committed' : summed'[b] = ScoreOf(event', T \cup {b})
    <3>1. tx[b] \in {"waiting", "updated"}
      BY <1>1, <2>1, <2>7
    <3>2. PICK T \in SUBSET Standing!Committed : summed[b] = ScoreOf(event, T \cup {b})
      BY <3>1 DEF LedgerInv
    <3>3. T \in SUBSET Standing!Committed'
      BY <2>2
    <3> QED BY <2>1, <3>2, <3>3
  <2> QED BY <1>1, <2>1, <2>3, <2>5, <2>6, <2>7 DEF LedgerInv
<1>7. ASSUME NEW a \in Appends, Standing!Rollback(a)
      PROVE  LedgerInv'
  <2>1. /\ tx[a] \in {"inserted", "waiting", "updated"} /\ tx' = [tx EXCEPT ![a] = "gone"]
        /\ trustScore' = trustScore /\ event' = event /\ alone' = alone /\ summed' = summed
    BY <1>7 DEF Standing!Rollback
  <2>2. Standing!Committed' = Standing!Committed
    BY <1>1, <2>1 DEF Standing!Committed
  <2>3. LedgerTypes'
    BY <1>1, <2>1 DEF LedgerTypes
  <2>4. \A b \in Appends : tx'[b] \in {"waiting", "updated"} =>
            tx[b] \in {"waiting", "updated"} /\ summed'[b] = summed[b]
    BY <1>1, <2>1
  <2> QED BY <1>1, <2>1, <2>2, <2>3, <2>4, LedgerKeeps
<1>8. CASE UNCHANGED Standing!vars
  <2>1. /\ tx' = tx /\ trustScore' = trustScore /\ event' = event /\ alone' = alone
        /\ summed' = summed
    BY <1>8 DEF Standing!vars
  <2>2. Standing!Committed' = Standing!Committed
    BY <2>1 DEF Standing!Committed
  <2> QED BY <2>1, <2>2 DEF LedgerInv, LedgerTypes
<1> QED BY <1>3, <1>4, <1>5, <1>6, <1>7, <1>8 DEF Standing!Next

\* Up to two kicks leave the starting balance above zero.
LEMMA TwoKicks ==
    ASSUME NEW f, NEW K, IsFiniteSet(K), NEW d \in Int, \A x \in K : f[x] = d,
           Cardinality(K) <= 2
    PROVE  SumFunctionOnSet(f, K) \in {0, d, 2 * d}
<1>1. Cardinality(K) \in Nat /\ \A s \in SUBSET K : IsFiniteSet(s)
  BY FS_CardinalityType, FS_Subset
<1>2. \A s \in SUBSET K : SumFunctionOnSet(f, s) \in Int
  BY <1>1, SumIsInteger
<1>3. SumFunctionOnSet(f, {}) = 0
  BY <1>1, SumUnfolds
<1>4. CASE K = {}
  BY <1>3, <1>4
<1>5. CASE K # {}
  <2>1. PICK x \in K : TRUE
    BY <1>5
  <2>2. SumFunctionOnSet(f, K) = d + SumFunctionOnSet(f, K \ {x})
    BY <2>1, SumLess
  <2>3. Cardinality(K \ {x}) = Cardinality(K) - 1 /\ IsFiniteSet(K \ {x})
    BY <2>1, FS_RemoveElement
  <2>4. CASE K \ {x} = {}
    <3>1. SumFunctionOnSet(f, K) = d + 0
      BY <1>3, <2>2, <2>4
    <3> QED BY <3>1
  <2>5. CASE K \ {x} # {}
    <3>1. PICK y \in K \ {x} : TRUE
      BY <2>5
    <3>2. SumFunctionOnSet(f, K \ {x}) = d + SumFunctionOnSet(f, (K \ {x}) \ {y})
      BY <2>3, <3>1, SumLess
    <3>3. Cardinality((K \ {x}) \ {y}) = Cardinality(K) - 1 - 1 /\ IsFiniteSet((K \ {x}) \ {y})
      BY <2>3, <3>1, FS_RemoveElement
    <3>4. Cardinality((K \ {x}) \ {y}) = 0
      <4>1. Cardinality((K \ {x}) \ {y}) \in Nat
        BY <3>3, FS_CardinalityType
      <4> DEFINE c == Cardinality((K \ {x}) \ {y})
                 k == Cardinality(K)
      <4>2. c \in Nat /\ k \in Nat /\ k <= 2 /\ c = k - 1 - 1
        BY <1>1, <3>3, <4>1
      <4> HIDE DEF c, k
      <4>3. c = 0
        BY <4>2
      <4> QED BY <4>3 DEF c
    <3>5. (K \ {x}) \ {y} = {}
      BY <3>3, <3>4, FS_EmptySet
    <3>6. SumFunctionOnSet(f, K) = d + (d + 0)
      BY <1>3, <2>2, <3>2, <3>5
    <3> QED BY <3>6
  <2> QED BY <2>4, <2>5
<1> QED BY <1>4, <1>5

LEMMA KicksAreWeak ==
    ASSUME LedgerInv, trustScore < 0,
           \A a \in Standing!Committed : event[a] \notin {"report_upheld", "banned"}
    PROVE  Cardinality({a \in Standing!Committed : event[a] = "kicked_from_room"}) >= 3
<1> DEFINE Kicks == {a \in Standing!Committed : event[a] = "kicked_from_room"}
           f == [a \in Appends |-> Deltas[event[a]]]
           d == Deltas["kicked_from_room"]
<1>1. PICK S \in SUBSET Standing!Committed : trustScore = ScoreOf(event, S)
  BY DEF LedgerInv
<1>2. Standing!Committed \in SUBSET Appends /\ \A a \in Standing!Committed : event[a] \in Reasons
  BY DEF Standing!Committed, LedgerInv, LedgerTypes
<1>3. IsFiniteSet(Standing!Committed) /\ IsFiniteSet(Kicks) /\ IsFiniteSet(S)
  BY <1>1, <1>2, TrustNumbers, FS_Subset
<1> DEFINE K == S \cap Kicks
           R == S \ Kicks
<1>4. IsFiniteSet(K) /\ IsFiniteSet(R) /\ K \cap R = {} /\ K \cup R = S
  BY <1>3, FS_Subset
<1>5. \A a \in S : f[a] \in Int
  BY <1>1, <1>2, TrustNumbers
<1>6. \A a \in R : f[a] >= 0
  <2> SUFFICES ASSUME NEW a \in R
               PROVE  f[a] >= 0
    OBVIOUS
  <2>1. event[a] \in Reasons \ {"kicked_from_room", "report_upheld", "banned"} /\ a \in Appends
    BY <1>1, <1>2
  <2>2. Deltas[event[a]] >= 0
    BY <2>1, ClocksAssumption
  <2> QED BY <2>1, <2>2
<1>7. \A a \in K : f[a] = d
  BY <1>2
<1> DEFINE sum == SumFunctionOnSet(f, S)
           kicks == SumFunctionOnSet(f, K)
           rest == SumFunctionOnSet(f, R)
           first == Deltas["account_created"]
<1>8. first + sum < 0
  <2>1. sum \in Int
    BY <1>3, <1>5, SumIsInteger
  <2>2. Standing!ClampTrust(first + sum) < 0
    BY <1>1 DEF ScoreOf, TotalOf
  <2> HIDE DEF sum, first
  <2>3. first \in Int
    BY TrustNumbers DEF first
  <2> QED BY <2>1, <2>2, <2>3, Clamps
<1> HIDE DEF f, K, R, Kicks
<1>9. sum = kicks + rest
  BY <1>4, <1>5, SumOfBoth
<1>10. kicks \in Int /\ rest \in Int /\ rest >= 0
  BY <1>4, <1>5, <1>6, SumIsInteger
<1>11. first \in Int /\ first >= 0
  BY TrustNumbers
<1>12. first + kicks < 0
  <2> HIDE DEF first, kicks, sum, rest
  <2> QED BY <1>8, <1>9, <1>10, <1>11
<1>13. SUFFICES ASSUME ~(Cardinality(Kicks) >= 3)
                PROVE  FALSE
  BY DEF Kicks
<1>14. Cardinality(K) <= 2
  <2>1. Cardinality(K) <= Cardinality(Kicks) /\ Cardinality(Kicks) \in Nat
    BY <1>3, FS_Subset, FS_CardinalityType DEF K
  <2>2. Cardinality(K) \in Nat
    BY <1>4, FS_CardinalityType
  <2> QED BY <1>13, <2>1, <2>2
<1>15. CASE K = {}
  <2>1. kicks = 0
    BY <1>4, <1>15, SumUnfolds
  <2> QED BY <1>11, <1>12, <2>1
<1>16. CASE K # {}
  <2>1. "kicked_from_room" \in Reasons
    BY <1>2, <1>16 DEF K, Kicks
  <2>2. d \in Int /\ first + 2 * d >= 0
    BY <2>1, ClocksAssumption
  <2>3. kicks \in {0, d, 2 * d}
    BY <1>4, <1>7, <1>14, <2>2, TwoKicks
  <2> HIDE DEF first, kicks, d
  <2> QED BY <1>11, <1>12, <2>2, <2>3
<1> QED BY <1>15, <1>16

LEMMA LedgerHolds ==
    LedgerInv => Standing!TypeOK /\ Standing!ScoreIsProjected /\ Standing!WeakEvidence
<1> SUFFICES ASSUME LedgerInv
             PROVE  Standing!TypeOK /\ Standing!ScoreIsProjected /\ Standing!WeakEvidence
  OBVIOUS
<1>1. Standing!Committed \in SUBSET Appends /\ \A a \in Standing!Committed : event[a] \in Reasons
  BY DEF Standing!Committed, LedgerInv, LedgerTypes
<1>2. trustScore \in TrustMin..TrustMax
  <2>1. PICK S \in SUBSET Standing!Committed : trustScore = ScoreOf(event, S)
    BY DEF LedgerInv
  <2>2. S \in SUBSET Appends /\ \A a \in S : event[a] \in Reasons
    BY <1>1
  <2> QED BY <2>1, <2>2, TotalIsInteger
<1>3. Standing!Cardinality({a \in Appends : tx[a] = "updated"}) <= 1
  <2> DEFINE U == {a \in Appends : tx[a] = "updated"}
  <2>1. \A a, b \in U : a = b
    BY DEF LedgerInv, LedgerTypes
  <2>2. U = {} \/ \E a \in U : U = {a}
    BY <2>1
  <2>3. Cardinality(U) <= 1
    <3> HIDE DEF U
    <3>1. CASE U = {}
      BY <3>1, FS_EmptySet
    <3>2. CASE \E a \in U : U = {a}
      <4>1. PICK a : U = {a}
        BY <3>2
      <4>2. Cardinality({a}) = 1
        BY FS_Singleton
      <4> QED BY <4>1, <4>2
    <3> QED BY <2>2, <3>1, <3>2
  <2>4. Standing!Cardinality(U) = Cardinality(U)
    BY DEF Standing!Cardinality, Cardinality
  <2> QED BY <2>3, <2>4
<1>4. Standing!TypeOK
  BY <1>2, <1>3 DEF Standing!TypeOK, LedgerInv, LedgerTypes
<1>5. Standing!ScoreIsProjected
  <2>1. Standing!SumOf(Standing!Committed) = TotalOf(event, Standing!Committed)
    BY <1>1, SumOfIsTotal
  <2> QED BY <2>1 DEF Standing!ScoreIsProjected, LedgerInv, ScoreOf
<1>6. Standing!WeakEvidence
  <2> SUFFICES ASSUME Standing!TrustTier(trustScore) = "restricted",
                      \A a \in Standing!Committed : event[a] \notin {"report_upheld", "banned"}
               PROVE  Standing!Cardinality({a \in Standing!Committed :
                                                event[a] = "kicked_from_room"}) >= 3
    BY DEF Standing!WeakEvidence
  <2>1. trustScore < 0
    BY <1>2, TrustNumbers DEF Standing!TrustTier
  <2>2. Standing!Cardinality({a \in Standing!Committed : event[a] = "kicked_from_room"}) =
            Cardinality({a \in Standing!Committed : event[a] = "kicked_from_room"})
    BY DEF Standing!Cardinality, Cardinality
  <2> QED BY <2>1, <2>2, KicksAreWeak
<1> QED BY <1>4, <1>5, <1>6

--------------------------------------------------------------------------------
(* Streaks. *)

\* Every day a streak spans was counted, but for the one its freeze paid for.
Earned(state, days) ==
    state.lastDay # NoDay =>
        /\ state.since \in Int /\ state.since <= state.lastDay
        /\ state.lastDay - state.since + 1 = state.current + (IF state.freeze THEN 0 ELSE 1)
        /\ state.current <= Cardinality(days \cap (state.since..state.lastDay))
        /\ state.current <= state.longest

StreakState ==
    [current : Nat, longest : Nat, lastDay : Habit!Days \cup {NoDay}, freeze : BOOLEAN,
     since : Int \cup {NoDay}]

\* So it is of the streak that is stored, and of the one that each join holds.
StreakInv ==
    /\ now \in 0..LastStep /\ timeZone \in HomeZones
    /\ shown \subseteq Int /\ IsFiniteSet(shown)
    /\ stored \in StreakState /\ Earned(stored, shown)
    /\ \A j \in Joins : join[j].step \in {"idle", "loaded", "saving"}
    /\ DOMAIN join = Joins
    /\ \A j \in Joins : join[j].step # "idle" =>
           /\ join[j] = [step |-> join[j].step, streak |-> join[j].streak, zone |-> join[j].zone]
           /\ join[j].streak \in StreakState /\ Earned(join[j].streak, shown)
           /\ join[j].zone \in HomeZones

LEMMA DayNumbers ==
    /\ DaySteps \in Nat /\ DaySteps > 0 /\ LastStep \in Nat /\ NoDay \notin Int
    /\ HomeZones \subseteq Int /\ Habit!Days \subseteq Int
    /\ \A t \in 0..LastStep, z \in HomeZones : Habit!LocalDayOf(t, z) \in Habit!Days
<1>1. /\ DaySteps \in Nat /\ DaySteps > 0 /\ LastStep \in Nat /\ NoDay \notin Int
      /\ HomeZones \subseteq Int
  BY ClocksAssumption
<1>2. \A t \in 0..LastStep, z \in HomeZones : Habit!LocalDayOf(t, z) \in Int
  BY <1>1 DEF Habit!LocalDayOf
<1> QED BY <1>1, <1>2 DEF Habit!Days

LEMMA EarnedStill ==
    ASSUME NEW state \in StreakState, NEW days, NEW more, days \subseteq more, IsFiniteSet(more),
           Earned(state, days)
    PROVE  Earned(state, more)
<1> SUFFICES ASSUME state.lastDay # NoDay
             PROVE  state.current <= Cardinality(more \cap (state.since..state.lastDay))
  BY DEF Earned
<1> DEFINE span == state.since..state.lastDay
<1>1. IsFiniteSet(more \cap span) /\ days \cap span \in SUBSET (more \cap span)
  BY FS_Subset
<1>2. /\ Cardinality(days \cap span) <= Cardinality(more \cap span)
      /\ Cardinality(days \cap span) \in Nat /\ Cardinality(more \cap span) \in Nat
  BY <1>1, FS_Subset, FS_CardinalityType
<1>3. state.current <= Cardinality(days \cap span) /\ state.current \in Nat
  BY DEF Earned, StreakState
<1> DEFINE c1 == Cardinality(days \cap span)
           c2 == Cardinality(more \cap span)
<1>4. state.current <= c2
  <2>1. c1 <= c2 /\ c1 \in Nat /\ c2 \in Nat /\ state.current <= c1 /\ state.current \in Nat
    BY <1>2, <1>3
  <2> HIDE DEF c1, c2
  <2> QED BY <2>1
<1> QED BY <1>4

LEMMA StreakTypes ==
    ASSUME NEW state \in StreakState
    PROVE  /\ state.current \in Nat /\ state.longest \in Nat /\ state.freeze \in BOOLEAN
           /\ state.since \in Int \cup {NoDay}
           /\ state.lastDay # NoDay => state.lastDay \in Int /\ state.lastDay \in Habit!Days
           /\ state = [current |-> state.current, longest |-> state.longest,
                       lastDay |-> state.lastDay, freeze |-> state.freeze,
                       since |-> state.since]
<1>1. state.lastDay \in Habit!Days \cup {NoDay}
  BY DEF StreakState
<1>2. state.lastDay # NoDay => state.lastDay \in Int /\ state.lastDay \in Habit!Days
  BY <1>1, DayNumbers
<1>3. /\ state.current \in Nat /\ state.longest \in Nat /\ state.freeze \in BOOLEAN
      /\ state.since \in Int \cup {NoDay}
      /\ state = [current |-> state.current, longest |-> state.longest,
                  lastDay |-> state.lastDay, freeze |-> state.freeze, since |-> state.since]
  BY DEF StreakState
<1> QED BY <1>2, <1>3

LEMMA CountedIs ==
    ASSUME NEW state \in StreakState, NEW today \in Int
    PROVE  /\ state.lastDay = NoDay => Habit!Counted(state, today) = Habit!Begun(state, today)
           /\ state.lastDay # NoDay /\ today - state.lastDay <= 0 =>
                  Habit!Counted(state, today) = state
           /\ state.lastDay # NoDay /\ today - state.lastDay = 1 =>
                  Habit!Counted(state, today) = Habit!Extended(state, today, state.freeze)
           /\ state.lastDay # NoDay /\ today - state.lastDay = 2 /\ state.freeze =>
                  Habit!Counted(state, today) = Habit!Extended(state, today, FALSE)
           /\ state.lastDay # NoDay /\ today - state.lastDay = 2 /\ ~state.freeze =>
                  Habit!Counted(state, today) = Habit!Begun(state, today)
           /\ state.lastDay # NoDay /\ today - state.lastDay > 2 =>
                  Habit!Counted(state, today) = Habit!Begun(state, today)
<1>1. CASE state.lastDay = NoDay
  BY <1>1 DEF Habit!Counted
<1>2. CASE state.lastDay # NoDay
  <2> DEFINE gap == today - state.lastDay
  <2>1. gap \in Int
    BY <1>2, StreakTypes
  <2>2. Habit!Counted(state, today) =
            CASE gap <= 0 -> state
              [] gap = 1 -> Habit!Extended(state, today, state.freeze)
              [] gap = 2 /\ state.freeze -> Habit!Extended(state, today, FALSE)
              [] OTHER -> Habit!Begun(state, today)
    BY <1>2 DEF Habit!Counted
  <2> HIDE DEF gap
  <2>3. ASSUME gap <= 0
        PROVE  Habit!Counted(state, today) = state
    <3>1. gap # 1 /\ gap # 2
      BY <2>1, <2>3
    <3> QED BY <2>2, <2>3, <3>1
  <2>7. ASSUME gap = 1
        PROVE  Habit!Counted(state, today) = Habit!Extended(state, today, state.freeze)
    BY <2>2, <2>7
  <2>4. gap = 2 /\ state.freeze =>
            Habit!Counted(state, today) = Habit!Extended(state, today, FALSE)
    BY <2>1, <2>2
  <2>5. gap = 2 /\ ~state.freeze => Habit!Counted(state, today) = Habit!Begun(state, today)
    BY <2>1, <2>2
  <2>6. ASSUME gap > 2
        PROVE  Habit!Counted(state, today) = Habit!Begun(state, today)
    <3>1. ~(gap <= 0) /\ gap # 1 /\ gap # 2
      BY <2>1, <2>6
    <3> QED BY <2>2, <3>1
  <2> QED BY <1>2, <2>3, <2>4, <2>5, <2>6, <2>7 DEF gap
<1> QED BY <1>1, <1>2

LEMMA ExtendedIs ==
    ASSUME NEW state \in StreakState, NEW today, NEW freeze
    PROVE  Habit!Extended(state, today, freeze) =
               [current |-> state.current + 1,
                longest |-> IF state.longest < state.current + 1 THEN state.current + 1
                            ELSE state.longest,
                lastDay |-> today, freeze |-> freeze, since |-> state.since]
<1> DEFINE c == state.current
           l == state.longest
           d == state.lastDay
           f == state.freeze
           e == state.since
           more == IF l < c + 1 THEN c + 1 ELSE l
<1>1. state = [current |-> c, longest |-> l, lastDay |-> d, freeze |-> f, since |-> e]
  BY StreakTypes
<1>2. Habit!Extended(state, today, freeze) =
          [[[[state EXCEPT !.current = c + 1] EXCEPT !.longest = more]
               EXCEPT !.lastDay = today] EXCEPT !.freeze = freeze]
  BY <1>1 DEF Habit!Extended
<1> HIDE DEF c, l, d, f, e, more
<1>3. PICK one : one = [state EXCEPT !.current = c + 1]
  OBVIOUS
<1>4. PICK two : two = [one EXCEPT !.longest = more]
  OBVIOUS
<1>5. PICK three : three = [two EXCEPT !.lastDay = today]
  OBVIOUS
<1>6. one = [current |-> c + 1, longest |-> l, lastDay |-> d, freeze |-> f, since |-> e]
  BY <1>1, <1>3
<1>7. two = [current |-> c + 1, longest |-> more, lastDay |-> d, freeze |-> f, since |-> e]
  BY <1>4, <1>6
<1>8. three = [current |-> c + 1, longest |-> more, lastDay |-> today, freeze |-> f,
               since |-> e]
  BY <1>5, <1>7
<1>9. [three EXCEPT !.freeze = freeze] =
          [current |-> c + 1, longest |-> more, lastDay |-> today, freeze |-> freeze,
           since |-> e]
  BY <1>8
<1> QED BY <1>2, <1>3, <1>4, <1>5, <1>9 DEF c, l, e, more

\* A day that is counted leaves the streak earned.
LEMMA CountedIsEarned ==
    ASSUME NEW state \in StreakState, NEW today \in Habit!Days, NEW days,
           days \subseteq Int, IsFiniteSet(days), Earned(state, days),
           Habit!Counted(state, today) # state
    PROVE  /\ Habit!Counted(state, today) \in StreakState
           /\ Earned(Habit!Counted(state, today), days \cup {today})
<1> DEFINE next == Habit!Counted(state, today)
           more == days \cup {today}
<1>1. /\ today \in Int /\ IsFiniteSet(more) /\ today # NoDay
      /\ state.current \in Nat /\ state.longest \in Nat /\ state.freeze \in BOOLEAN
      /\ state.since \in Int \cup {NoDay} /\ state.lastDay \in Int \cup {NoDay}
      /\ state.lastDay \in Habit!Days \cup {NoDay}
  BY DayNumbers, FS_AddElement DEF StreakState
<1>2. ASSUME next = Habit!Begun(state, today)
      PROVE  next \in StreakState /\ Earned(next, more)
  <2>1. next = [current |-> 1, longest |-> IF state.longest < 1 THEN 1 ELSE state.longest,
                lastDay |-> today, freeze |-> TRUE, since |-> today]
    BY <1>2 DEF Habit!Begun
  <2> HIDE DEF next
  <2>2. next \in StreakState
    BY <1>1, <2>1 DEF StreakState
  <2>3. Cardinality(more \cap (today..today)) = 1
    <3>1. more \cap (today..today) = {today}
      BY <1>1
    <3> QED BY <3>1, FS_Singleton
  <2>4. /\ next.current = 1 /\ next.longest >= 1 /\ next.lastDay = today /\ next.since = today
        /\ next.freeze = TRUE
    BY <1>1, <2>1
  <2> QED BY <1>1, <2>2, <2>3, <2>4 DEF Earned
<1>3. ASSUME state.lastDay # NoDay, NEW freeze \in BOOLEAN,
             next = Habit!Extended(state, today, freeze),
             \/ today = state.lastDay + 1 /\ freeze = state.freeze
             \/ today = state.lastDay + 2 /\ state.freeze /\ ~freeze
      PROVE  next \in StreakState /\ Earned(next, more)
  <2>1. /\ next.current = state.current + 1 /\ next.lastDay = today /\ next.freeze = freeze
        /\ next.since = state.since /\ next.longest \in Nat /\ next.longest >= state.current + 1
        /\ next \in StreakState
    <3>1. next = [current |-> state.current + 1,
                  longest |-> IF state.longest < state.current + 1 THEN state.current + 1
                              ELSE state.longest,
                  lastDay |-> today, freeze |-> freeze, since |-> state.since]
      BY <1>3, ExtendedIs
    <3> HIDE DEF next
    <3>2. /\ next.current = state.current + 1 /\ next.lastDay = today
          /\ next.freeze = freeze /\ next.since = state.since
          /\ next.longest \in Nat /\ next.longest >= state.current + 1
      BY <1>1, <3>1
    <3>3. next \in StreakState
      BY <1>1, <1>3, <3>1 DEF StreakState
    <3> QED BY <3>2, <3>3
  <2>2. /\ state.since \in Int /\ state.lastDay \in Int /\ state.since <= state.lastDay
        /\ state.lastDay - state.since + 1 = state.current + (IF state.freeze THEN 0 ELSE 1)
        /\ state.current <= Cardinality(days \cap (state.since..state.lastDay))
    BY <1>1, <1>3 DEF Earned
  <2> HIDE DEF next
  <2>3. /\ next.since \in Int /\ next.since <= next.lastDay
        /\ next.lastDay - next.since + 1 = next.current + (IF next.freeze THEN 0 ELSE 1)
    <3>1. CASE today = state.lastDay + 1 /\ freeze = state.freeze
      BY <1>1, <2>1, <2>2, <3>1
    <3>2. CASE today = state.lastDay + 2 /\ state.freeze /\ ~freeze
      BY <1>1, <2>1, <2>2, <3>2
    <3> QED BY <1>3, <3>1, <3>2
  <2>4. next.current <= Cardinality(more \cap (next.since..next.lastDay))
    <3> DEFINE old == days \cap (state.since..state.lastDay)
               new == more \cap (state.since..today)
               c1 == Cardinality(old)
               c2 == Cardinality(old \cup {today})
               c3 == Cardinality(new)
    <3>1. IsFiniteSet(old) /\ IsFiniteSet(new)
      BY <1>1, FS_Subset
    <3>2. today \notin old /\ old \cup {today} \in SUBSET new
      BY <1>1, <1>3, <2>2
    <3>3. c2 = c1 + 1 /\ c1 \in Nat
      BY <3>1, <3>2, FS_AddElement, FS_CardinalityType
    <3>4. c2 <= c3 /\ c3 \in Nat
      BY <3>1, <3>2, FS_Subset, FS_CardinalityType
    <3>5. state.current <= c1
      BY <2>2
    <3> HIDE DEF c1, c2, c3
    <3>6. state.current + 1 <= c3
      BY <1>1, <3>3, <3>4, <3>5
    <3> QED BY <2>1, <3>6 DEF c3
  <2>5. next.current <= next.longest
    BY <2>1
  <2> QED BY <2>1, <2>3, <2>4, <2>5 DEF Earned
<1>4. \/ next = Habit!Begun(state, today)
      \/ /\ state.lastDay # NoDay /\ today = state.lastDay + 1
         /\ next = Habit!Extended(state, today, state.freeze)
      \/ /\ state.lastDay # NoDay /\ today = state.lastDay + 2 /\ state.freeze
         /\ next = Habit!Extended(state, today, FALSE)
  <2>1. CASE state.lastDay = NoDay
    BY <1>1, <2>1, CountedIs
  <2>2. CASE state.lastDay # NoDay
    <3>1. state.lastDay \in Int
      BY <1>1, <2>2
    <3>2. CASE today - state.lastDay <= 0
      BY <1>1, <2>2, <3>2, CountedIs
    <3>3. CASE today - state.lastDay = 1
      <4>1. next = Habit!Extended(state, today, state.freeze)
        BY <1>1, <2>2, <3>3, CountedIs
      <4>2. today = state.lastDay + 1
        BY <1>1, <3>1, <3>3
      <4> QED BY <2>2, <4>1, <4>2
    <3>4. CASE today - state.lastDay = 2 /\ state.freeze
      <4>1. next = Habit!Extended(state, today, FALSE)
        BY <1>1, <2>2, <3>4, CountedIs
      <4>2. today = state.lastDay + 2
        BY <1>1, <3>1, <3>4
      <4> QED BY <2>2, <3>4, <4>1, <4>2
    <3>5. CASE today - state.lastDay = 2 /\ ~state.freeze
      BY <1>1, <2>2, <3>5, CountedIs
    <3>6. CASE today - state.lastDay > 2
      BY <1>1, <2>2, <3>6, CountedIs
    <3>7. \/ today - state.lastDay <= 0 \/ today - state.lastDay = 1
          \/ today - state.lastDay = 2 \/ today - state.lastDay > 2
      BY <1>1, <3>1
    <3> QED BY <3>2, <3>3, <3>4, <3>5, <3>6, <3>7
  <2> QED BY <2>1, <2>2
<1> HIDE DEF next
<1>5. CASE next = Habit!Begun(state, today)
  BY <1>2, <1>5 DEF next
<1>6. CASE /\ state.lastDay # NoDay /\ today = state.lastDay + 1
           /\ next = Habit!Extended(state, today, state.freeze)
  BY <1>1, <1>3, <1>6 DEF next
<1>7. CASE /\ state.lastDay # NoDay /\ today = state.lastDay + 2 /\ state.freeze
           /\ next = Habit!Extended(state, today, FALSE)
  BY <1>3, <1>7 DEF next
<1> QED BY <1>4, <1>5, <1>6, <1>7

LEMMA StreakInit ==
    ASSUME now = 0, stored = Habit!EmptyStreak, timeZone \in HomeZones,
           join = [j \in Joins |-> Habit!Idle], shown = {}
    PROVE  StreakInv
<1>1. stored \in StreakState /\ stored.lastDay = NoDay
  BY DEF Habit!EmptyStreak, StreakState
<1>2. IsFiniteSet({})
  BY FS_EmptySet
<1> QED BY <1>1, <1>2, DayNumbers DEF StreakInv, Earned, Habit!Idle

\* A join moves on, perhaps with a day more that was shown.
LEMMA JoinMoves ==
    ASSUME StreakInv, NEW j \in Joins, NEW next, join' = [join EXCEPT ![j] = next],
           UNCHANGED <<now, timeZone>>, shown \subseteq shown', shown' \subseteq Int,
           IsFiniteSet(shown'), stored' \in StreakState, Earned(stored', shown'),
           next.step \in {"idle", "loaded", "saving"},
           next.step # "idle" =>
               /\ next = [step |-> next.step, streak |-> next.streak, zone |-> next.zone]
               /\ next.streak \in StreakState /\ Earned(next.streak, shown')
               /\ next.zone \in HomeZones
    PROVE  StreakInv'
<1>1. DOMAIN join = Joins
  BY DEF StreakInv
<1>2. ASSUME NEW k \in Joins
      PROVE  /\ join'[k].step \in {"idle", "loaded", "saving"}
             /\ join'[k].step # "idle" =>
                 /\ join'[k] = [step |-> join'[k].step, streak |-> join'[k].streak,
                                zone |-> join'[k].zone]
                 /\ join'[k].streak \in StreakState /\ Earned(join'[k].streak, shown')
                 /\ join'[k].zone \in HomeZones
  <2>1. CASE k = j
    <3>1. join'[k] = next
      BY <1>1, <2>1
    <3> QED BY <3>1
  <2>2. CASE k # j
    <3>1. join'[k] = join[k]
      BY <1>1, <2>2
    <3>2. /\ join[k].step \in {"idle", "loaded", "saving"}
          /\ join[k].step # "idle" =>
              /\ join[k] = [step |-> join[k].step, streak |-> join[k].streak,
                            zone |-> join[k].zone]
              /\ join[k].streak \in StreakState /\ Earned(join[k].streak, shown)
              /\ join[k].zone \in HomeZones
      BY DEF StreakInv
    <3>3. join[k].step # "idle" => Earned(join[k].streak, shown')
      BY <3>2, EarnedStill
    <3> QED BY <3>1, <3>2, <3>3
  <2> QED BY <2>1, <2>2
<1>3. DOMAIN join' = Joins
  BY <1>1
<1> QED BY <1>2, <1>3 DEF StreakInv, StreakState, Habit!Days, Habit!LocalDayOf

LEMMA StreakStep == StreakInv /\ [Habit!Next]_(Habit!vars) => StreakInv'
<1> SUFFICES ASSUME StreakInv, [Habit!Next]_(Habit!vars)
             PROVE  StreakInv'
  OBVIOUS
<1>1. /\ now \in 0..LastStep /\ timeZone \in HomeZones /\ shown \subseteq Int
      /\ IsFiniteSet(shown) /\ stored \in StreakState /\ Earned(stored, shown)
      /\ DOMAIN join = Joins
  BY DEF StreakInv
<1>2. Habit!Idle.step = "idle"
  BY DEF Habit!Idle
<1>3. ASSUME NEW j \in Joins, Habit!LoadUser(j)
      PROVE  StreakInv'
  <2> DEFINE next == [step |-> "loaded", streak |-> stored, zone |-> timeZone]
  <2>1. /\ join' = [join EXCEPT ![j] = next]
        /\ UNCHANGED <<now, timeZone>> /\ stored' = stored /\ shown' = shown
    BY <1>3 DEF Habit!LoadUser
  <2>2. /\ next.step = "loaded" /\ next.streak = stored /\ next.zone = timeZone
        /\ next = [step |-> next.step, streak |-> next.streak, zone |-> next.zone]
    OBVIOUS
  <2> HIDE DEF next
  <2> QED BY <1>1, <2>1, <2>2, JoinMoves
<1>4. ASSUME NEW j \in Joins, Habit!RecordShowUp(j)
      PROVE  StreakInv'
  <2> DEFINE today == Habit!LocalDayOf(now, join[j].zone)
             state == join[j].streak
             next == Habit!Counted(state, today)
  <2>1. /\ join[j].step = "loaded" /\ UNCHANGED <<now, timeZone>> /\ stored' = stored
    BY <1>4 DEF Habit!RecordShowUp
  <2>2. /\ join[j] = [step |-> join[j].step, streak |-> join[j].streak, zone |-> join[j].zone]
        /\ state \in StreakState /\ Earned(state, shown) /\ join[j].zone \in HomeZones
    BY <2>1 DEF StreakInv
  <2>3. today \in Habit!Days /\ today \in Int
    BY <1>1, <2>2, DayNumbers
  <2>4. CASE next = state
    <3>1. join' = [join EXCEPT ![j] = Habit!Idle] /\ shown' = shown
      BY <1>4, <2>4 DEF Habit!RecordShowUp
    <3> QED BY <1>1, <1>2, <2>1, <3>1, JoinMoves
  <2>5. CASE next # state
    <3>1. /\ join' = [join EXCEPT ![j].step = "saving", ![j].streak = next]
          /\ shown' = shown \cup {today}
      BY <1>4, <2>5 DEF Habit!RecordShowUp
    <3> DEFINE moved == [step |-> "saving", streak |-> next, zone |-> join[j].zone]
    <3>2. next \in StreakState /\ Earned(next, shown \cup {today})
      BY <1>1, <2>2, <2>3, <2>5, CountedIsEarned
    <3> HIDE DEF next, today
    <3>3. join' = [join EXCEPT ![j] = moved]
      <4>1. join'[j] = moved
        BY <1>1, <2>2, <3>1
      <4>2. [join EXCEPT ![j].step = "saving", ![j].streak = next] =
                [join EXCEPT ![j] = [[join[j] EXCEPT !.step = "saving"] EXCEPT !.streak = next]]
        BY <1>1
      <4>3. [[join[j] EXCEPT !.step = "saving"] EXCEPT !.streak = next] = moved
        <5> DEFINE was == join[j].step
                   held == join[j].streak
                   at == join[j].zone
        <5>1. join[j] = [step |-> was, streak |-> held, zone |-> at]
          BY <2>2
        <5>2. moved = [step |-> "saving", streak |-> next, zone |-> at]
          OBVIOUS
        <5> HIDE DEF was, held, at, moved
        <5>3. PICK one : one = [join[j] EXCEPT !.step = "saving"]
          OBVIOUS
        <5>4. one = [step |-> "saving", streak |-> held, zone |-> at]
          BY <5>1, <5>3
        <5>5. [one EXCEPT !.streak = next] = [step |-> "saving", streak |-> next, zone |-> at]
          BY <5>4
        <5> QED BY <5>2, <5>3, <5>5
      <4> QED BY <3>1, <4>2, <4>3
    <3>4. IsFiniteSet(shown \cup {today}) /\ shown \cup {today} \subseteq Int
      BY <1>1, <2>3, FS_AddElement
    <3>5. Earned(stored, shown \cup {today})
      BY <1>1, <3>4, EarnedStill
    <3>6. /\ moved.step = "saving" /\ moved.streak = next /\ moved.zone = join[j].zone
          /\ moved = [step |-> moved.step, streak |-> moved.streak, zone |-> moved.zone]
      OBVIOUS
    <3> HIDE DEF moved
    <3>7. /\ shown \subseteq shown' /\ shown' \subseteq Int /\ IsFiniteSet(shown')
          /\ stored' \in StreakState /\ Earned(stored', shown') /\ Earned(moved.streak, shown')
      BY <1>1, <2>1, <3>1, <3>2, <3>4, <3>5, <3>6
    <3> QED BY <2>1, <2>2, <3>2, <3>3, <3>6, <3>7, JoinMoves
  <2> QED BY <2>4, <2>5
<1>5. ASSUME NEW j \in Joins, Habit!SaveStreak(j)
      PROVE  StreakInv'
  <2>1. /\ join[j].step = "saving" /\ join' = [join EXCEPT ![j] = Habit!Idle]
        /\ UNCHANGED <<now, timeZone>> /\ stored' = join[j].streak /\ shown' = shown
    BY <1>5 DEF Habit!SaveStreak
  <2>2. stored' \in StreakState /\ Earned(stored', shown')
    BY <2>1 DEF StreakInv
  <2> QED BY <1>1, <1>2, <2>1, <2>2, JoinMoves
<1>6. ASSUME NEW j \in Joins, Habit!LoseStreak(j)
      PROVE  StreakInv'
  <2>1. /\ join' = [join EXCEPT ![j] = Habit!Idle]
        /\ UNCHANGED <<now, timeZone>> /\ stored' = stored /\ shown' = shown
    BY <1>6 DEF Habit!LoseStreak
  <2> QED BY <1>1, <1>2, <2>1, JoinMoves
<1>7. ASSUME UNCHANGED <<stored, join, shown>>, now' \in 0..LastStep, timeZone' \in HomeZones
      PROVE  StreakInv'
  BY <1>7 DEF StreakInv, StreakState, Habit!Days, Habit!LocalDayOf
<1>8. ASSUME NEW z \in HomeZones, Habit!SetTimeZone(z)
      PROVE  StreakInv'
  BY <1>1, <1>7, <1>8 DEF Habit!SetTimeZone
<1>9. CASE Habit!Tick
  <2>1. now < LastStep /\ now' = now + 1 /\ UNCHANGED <<stored, timeZone, join, shown>>
    BY <1>9 DEF Habit!Tick
  <2>2. now' \in 0..LastStep
    BY <1>1, <2>1, DayNumbers
  <2> QED BY <1>1, <1>7, <2>1, <2>2
<1>10. CASE UNCHANGED Habit!vars
  BY <1>1, <1>7, <1>10 DEF Habit!vars
<1> QED BY <1>3, <1>4, <1>5, <1>6, <1>8, <1>9, <1>10 DEF Habit!Next

LEMMA StreakHolds ==
    StreakInv => Habit!TypeOK /\ Habit!OneMissForgiven /\ Habit!ViewIsTrue
<1> SUFFICES ASSUME StreakInv
             PROVE  Habit!TypeOK /\ Habit!OneMissForgiven /\ Habit!ViewIsTrue
  OBVIOUS
<1>1. Habit!TypeOK
  BY DEF StreakInv, StreakState, Habit!TypeOK
<1>2. Habit!OneMissForgiven
  <2>1. Habit!Cardinality(shown \cap (stored.since..stored.lastDay)) =
            Cardinality(shown \cap (stored.since..stored.lastDay))
    BY DEF Habit!Cardinality, Cardinality
  <2> QED BY <2>1 DEF StreakInv, Earned, Habit!OneMissForgiven
<1>3. Habit!ViewIsTrue
  <2> DEFINE today == Habit!LocalDayOf(now, timeZone)
             view == Habit!StreakAsOf(stored, today)
             joined == Habit!Counted(stored, today)
  <2>0. stored \in StreakState
    BY DEF StreakInv
  <2>1. today \in Int
    BY DayNumbers DEF StreakInv
  <2>2. /\ stored.current \in Nat /\ stored.lastDay \in Int \cup {NoDay}
        /\ stored.freeze \in BOOLEAN /\ NoDay \notin Int
        /\ stored = [current |-> stored.current, longest |-> stored.longest,
                     lastDay |-> stored.lastDay, freeze |-> stored.freeze, since |-> stored.since]
    BY DayNumbers DEF StreakInv, StreakState
  <2> HIDE DEF today
  <2>3. view.showedUpToday = (stored.lastDay # NoDay /\ today - stored.lastDay <= 0)
    BY <2>1, <2>2 DEF Habit!StreakAsOf
  <2>4. view.showedUpToday => joined = stored
    BY <2>1, <2>2, <2>3, <2>0, CountedIs
  <2>5. ASSUME ~view.showedUpToday
        PROVE  joined.current = view.current + 1
    <3> DEFINE gap == today - stored.lastDay
    <3>0. /\ Habit!Begun(stored, today).current = 1
          /\ \A f : Habit!Extended(stored, today, f).current = stored.current + 1
      BY <2>0, ExtendedIs DEF Habit!Begun
    <3>1. CASE stored.lastDay = NoDay
      <4>1. joined.current = 1
        BY <2>0, <2>1, <3>0, <3>1, CountedIs
      <4>2. view.current = 0
        BY <3>1 DEF Habit!StreakAsOf
      <4> QED BY <4>1, <4>2
    <3>2. CASE stored.lastDay # NoDay /\ gap = 1
      <4>1. joined.current = stored.current + 1
        BY <2>0, <2>1, <3>0, <3>2, CountedIs
      <4>2. view.current = stored.current
        BY <3>2 DEF Habit!StreakAsOf
      <4> QED BY <4>1, <4>2
    <3>3. CASE stored.lastDay # NoDay /\ gap = 2 /\ stored.freeze
      <4>1. joined.current = stored.current + 1
        BY <2>0, <2>1, <3>0, <3>3, CountedIs
      <4>2. view.current = stored.current
        BY <3>3 DEF Habit!StreakAsOf
      <4> QED BY <4>1, <4>2
    <3>4. CASE stored.lastDay # NoDay /\ ~(gap <= 1) /\ ~(gap = 2 /\ stored.freeze)
      <4>1. gap \in Int
        BY <2>1, <2>2, <3>4
      <4>2. view.current = 0
        BY <3>4 DEF Habit!StreakAsOf
      <4>3. joined = Habit!Begun(stored, today)
        <5>1. (gap = 2 /\ ~stored.freeze) \/ gap > 2
          <6> HIDE DEF gap
          <6> QED BY <3>4, <4>1
        <5> QED BY <2>0, <2>1, <3>4, <5>1, CountedIs
      <4> QED BY <3>0, <4>2, <4>3
    <3>5. stored.lastDay # NoDay => ~(gap <= 0) /\ gap \in Int
      <4>1. ASSUME stored.lastDay # NoDay
            PROVE  ~(gap <= 0) /\ gap \in Int
        <5>1. stored.lastDay \in Int
          BY <2>0, <4>1, StreakTypes
        <5>2. gap \in Int
          BY <2>1, <5>1
        <5>3. ~(gap <= 0)
          <6> HIDE DEF view
          <6> QED BY <2>3, <2>5, <4>1
        <5> QED BY <5>2, <5>3
      <4> HIDE DEF gap
      <4> QED BY <4>1
    <3> HIDE DEF gap
    <3> QED BY <3>1, <3>2, <3>3, <3>4, <3>5
  <2>6. ASSUME view.atRisk
        PROVE  ~joined.freeze
    <3>1. /\ stored.lastDay # NoDay /\ today - stored.lastDay = 2
          /\ (today - stored.lastDay <= 1 \/ stored.freeze)
      BY <2>6 DEF Habit!StreakAsOf
    <3>2. stored.freeze
      BY <3>1
    <3>3. joined = Habit!Extended(stored, today, FALSE)
      BY <2>0, <2>1, <3>1, <3>2, CountedIs
    <3>4. Habit!Extended(stored, today, FALSE).freeze = FALSE
      <4> DEFINE r == Habit!Extended(stored, today, FALSE)
      <4>1. r = [current |-> stored.current + 1,
                 longest |-> IF stored.longest < stored.current + 1 THEN stored.current + 1
                             ELSE stored.longest,
                 lastDay |-> today, freeze |-> FALSE, since |-> stored.since]
        BY <2>0, ExtendedIs
      <4> HIDE DEF r
      <4>2. r.freeze = FALSE
        BY <4>1
      <4> QED BY <4>2 DEF r
    <3> QED BY <3>3, <3>4
  <2> HIDE DEF view, joined
  <2>7. /\ IF view.showedUpToday THEN joined = stored ELSE joined.current = view.current + 1
        /\ view.atRisk => ~joined.freeze
    BY <2>4, <2>5, <2>6
  <2> QED BY <2>7 DEF view, joined, today, Habit!ViewIsTrue
<1> QED BY <1>1, <1>2, <1>3

--------------------------------------------------------------------------------
(* Scheduled rooms. *)

Moments == Sched!Instants \cup {Never}

RoomState ==
    [slug : Sched!Slugs \cup {0}, pattern : Patterns \cup {{}}, scheduled : BOOLEAN,
     next : Moments, opened : Moments, status : {"none", "scheduled", "live"}]

DraftState ==
    [step : {"none", "probe", "insert"}, slug : Sched!Slugs \cup {0},
     pattern : Patterns \cup {{}}, next : Moments]

SweepState ==
    [phase : {"down", "resting", "sweeping", "announcing"}, at : 0..LastMinute,
     due : Seq(Rooms), wake : 0..LastMinute]

\* What is true of one room, the one a host is drafting in its place, and what it was opened
\* for: every occurrence it was opened for is past and before the one it waits for.
Booked(rm, dr, for, opened, t) ==
    /\ rm \in RoomState /\ dr \in DraftState
    /\ for \subseteq Nat /\ IsFiniteSet(for) /\ opened = Cardinality(for)
    /\ \A x \in for : x <= t /\ (rm.scheduled => x < rm.next)
    /\ rm.scheduled => rm.next # Never /\ rm.status # "none"
    /\ rm.scheduled /\ rm.opened # Never => rm.next > rm.opened
    /\ rm.status = "none" => for = {}
    /\ dr.step # "none" => rm.status = "none" /\ (dr.pattern # {} => dr.next # Never)
    /\ dr.step = "insert" => dr.slug \in Sched!Slugs
    /\ rm.status = "live" => rm.pattern = {} \/ opened > 0

\* What is true of one server: it announces the room at the head of its list.
Swept(srv, t) ==
    /\ srv \in SweepState /\ srv.at <= t /\ Len(srv.due) <= MaxPerSweep
    /\ srv.phase = "announcing" => srv.due # <<>>

Tells(srv, r) == srv.phase = "announcing" /\ Head(srv.due) = r
Telling(servers, r) == {s \in Servers : Tells(servers[s], r)}

\* An opening is announced, being announced, or was lost to a fault.
Told(servers, says, opened, lapses) ==
    \A r \in Rooms :
        /\ says[r] \in Nat
        /\ says[r] + Cardinality(Telling(servers, r)) <= opened[r]
        /\ opened[r] <= says[r] + Cardinality(Telling(servers, r)) + lapses

RoomsInv ==
    /\ now \in 0..LastMinute /\ faults \in 0..MaxFaults
    /\ DOMAIN room = Rooms /\ DOMAIN draft = Rooms /\ DOMAIN claimed = Rooms
    /\ DOMAIN openings = Rooms /\ DOMAIN announced = Rooms /\ DOMAIN server = Servers
    /\ \A r \in Rooms : Booked(room[r], draft[r], claimed[r], openings[r], now)
    /\ \A s \in Servers : Swept(server[s], now)
    /\ Told(server, announced, openings, faults)
    /\ Sched!SlugsAreUnique

LEMMA RoomNumbers ==
    /\ IsFiniteSet(Rooms) /\ IsFiniteSet(Servers)
    /\ \A p \in Patterns \cup {{}} : p \subseteq Nat
    /\ SlugAttempts \in Nat /\ MaxPerSweep \in Nat /\ MaxFaults \in Nat /\ LastMinute \in Nat
    /\ Horizon \in Nat /\ Never \notin Nat
    /\ Sched!Instants \subseteq Nat /\ Sched!Slugs \subseteq Nat /\ 0 \notin Sched!Slugs
    /\ 0..LastMinute \subseteq Sched!Instants
<1>1. /\ IsFiniteSet(Rooms) /\ IsFiniteSet(Servers)
      /\ \A p \in Patterns : p \subseteq Nat
      /\ {Horizon, SlugAttempts, MaxPerSweep, MaxFaults, LastMinute} \subseteq Nat
      /\ Never \notin Nat
  BY ClocksAssumption
<1>2. /\ SlugAttempts \in Nat /\ MaxPerSweep \in Nat /\ MaxFaults \in Nat
      /\ LastMinute \in Nat /\ Horizon \in Nat
  BY <1>1
<1>3. Sched!Instants \subseteq Nat /\ 0..LastMinute \subseteq Sched!Instants
  <2>1. UNION Patterns \subseteq Nat
    BY <1>1
  <2>2. 0..LastMinute \subseteq Nat
    OBVIOUS
  <2> QED BY <2>1, <2>2 DEF Sched!Instants
<1>4. Sched!Slugs \subseteq Nat /\ 0 \notin Sched!Slugs
  BY <1>2 DEF Sched!Slugs
<1>5. \A p \in Patterns \cup {{}} : p \subseteq Nat
  BY <1>1
<1> QED BY <1>1, <1>2, <1>3, <1>4, <1>5

LEMMA NextIsLater ==
    ASSUME NEW pattern \in Patterns \cup {{}}, NEW after \in Nat,
           Sched!NextOccurrence(pattern, after) # Never
    PROVE  /\ Sched!NextOccurrence(pattern, after) \in Sched!Instants
           /\ Sched!NextOccurrence(pattern, after) \in Nat
           /\ Sched!NextOccurrence(pattern, after) > after
<1> DEFINE later == {t \in pattern : after < t /\ t <= after + Horizon}
<1>1. later \subseteq Nat /\ later \subseteq pattern
  BY RoomNumbers
<1>2. later # {}
  BY DEF Sched!NextOccurrence
<1>3. \E n \in later : \A m \in later : n <= m
  <2> HIDE DEF later
  <2> QED BY <1>1, <1>2, LeastOf
<1>4. Sched!NextOccurrence(pattern, after) = CHOOSE t \in later : \A u \in later : t <= u
  BY <1>2 DEF Sched!NextOccurrence
<1>5. Sched!NextOccurrence(pattern, after) \in later
  <2> HIDE DEF later
  <2> QED BY <1>3, <1>4
<1>6. Sched!NextOccurrence(pattern, after) \in pattern
  BY <1>1, <1>5
<1>7. Sched!NextOccurrence(pattern, after) \in Sched!Instants
  BY <1>6 DEF Sched!Instants
<1> QED BY <1>1, <1>5, <1>7

LEMMA RoomsInit ==
    ASSUME now = 0, room = [r \in Rooms |-> Sched!NotCreated],
           draft = [r \in Rooms |-> Sched!NoDraft], server = [s \in Servers |-> Sched!Down],
           announced = [r \in Rooms |-> 0], claimed = [r \in Rooms |-> {}],
           openings = [r \in Rooms |-> 0], faults = 0
    PROVE  RoomsInv
<1>1. Cardinality({}) = 0 /\ IsFiniteSet({})
  BY FS_EmptySet
<1>2. ASSUME NEW r \in Rooms
      PROVE  Booked(room[r], draft[r], claimed[r], openings[r], now)
  <2>1. room[r] \in RoomState /\ draft[r] \in DraftState
    BY DEF RoomState, DraftState, Sched!NotCreated, Sched!NoDraft, Moments
  <2> QED BY <1>1, <2>1 DEF Booked, Sched!NotCreated, Sched!NoDraft
<1>3. ASSUME NEW s \in Servers
      PROVE  Swept(server[s], now)
  <2>1. server[s] = [phase |-> "down", at |-> 0, due |-> <<>>, wake |-> 0]
    BY DEF Sched!Down
  <2>2. <<>> \in Seq(Rooms) /\ Len(<<>>) = 0
    OBVIOUS
  <2>3. 0 \in 0..LastMinute /\ 0 <= MaxPerSweep
    BY RoomNumbers
  <2>4. server[s] \in SweepState
    <3>1. [phase |-> "down", at |-> 0, due |-> <<>>, wake |-> 0] \in SweepState
      BY <2>2, <2>3, Zenon DEF SweepState
    <3> QED BY <2>1, <3>1
  <2>5. server[s].at = 0 /\ server[s].due = <<>> /\ server[s].phase = "down"
    BY <2>1
  <2> QED BY <2>2, <2>3, <2>4, <2>5 DEF Swept
<1>4. \A r \in Rooms : Telling(server, r) = {}
  BY DEF Telling, Tells, Sched!Down
<1>5. Told(server, announced, openings, faults)
  BY <1>1, <1>4 DEF Told
<1>6. Sched!SlugsAreUnique
  BY DEF Sched!SlugsAreUnique, Sched!Created, Sched!NotCreated
<1> QED BY <1>2, <1>3, <1>5, <1>6, RoomNumbers DEF RoomsInv

\* How many announce a room, when one server moves on.
Moves(servers, next, s, srv) ==
    s \in Servers /\ DOMAIN servers = Servers /\ next = [servers EXCEPT ![s] = srv]

LEMMA OneMoves ==
    ASSUME NEW servers, NEW next, NEW s, NEW srv, Moves(servers, next, s, srv), NEW r
    PROVE  /\ Cardinality(Telling(servers, r)) \in Nat
           /\ Cardinality(Telling(next, r)) \in Nat
           /\ (Tells(servers[s], r) <=> Tells(srv, r)) =>
                  Cardinality(Telling(next, r)) = Cardinality(Telling(servers, r))
           /\ ~Tells(servers[s], r) /\ Tells(srv, r) =>
                  Cardinality(Telling(next, r)) = Cardinality(Telling(servers, r)) + 1
           /\ Tells(servers[s], r) /\ ~Tells(srv, r) =>
                  Cardinality(Telling(next, r)) = Cardinality(Telling(servers, r)) - 1
<1>1. s \in Servers /\ next[s] = srv /\ \A q \in Servers : q # s => next[q] = servers[q]
  BY DEF Moves
<1>2. IsFiniteSet(Telling(servers, r)) /\ IsFiniteSet(Telling(next, r))
  BY RoomNumbers, FS_Subset DEF Telling
<1>3. Cardinality(Telling(servers, r)) \in Nat /\ Cardinality(Telling(next, r)) \in Nat
  BY <1>2, FS_CardinalityType
<1>4. (Tells(servers[s], r) <=> Tells(srv, r)) => Telling(next, r) = Telling(servers, r)
  BY <1>1 DEF Telling
<1>5. ASSUME ~Tells(servers[s], r), Tells(srv, r)
      PROVE  Cardinality(Telling(next, r)) = Cardinality(Telling(servers, r)) + 1
  <2>1. Telling(next, r) = Telling(servers, r) \cup {s} /\ s \notin Telling(servers, r)
    BY <1>1, <1>5 DEF Telling
  <2> QED BY <1>2, <2>1, FS_AddElement
<1>6. ASSUME Tells(servers[s], r), ~Tells(srv, r)
      PROVE  Cardinality(Telling(next, r)) = Cardinality(Telling(servers, r)) - 1
  <2>1. Telling(next, r) = Telling(servers, r) \ {s} /\ s \in Telling(servers, r)
    BY <1>1, <1>6 DEF Telling
  <2> QED BY <1>2, <2>1, FS_RemoveElement
<1> QED BY <1>3, <1>4, <1>5, <1>6

\* Hosts: drafts and the room that comes of one.
LEMMA DraftKeeps ==
    ASSUME RoomsInv, NEW r \in Rooms, NEW dr, draft' = [draft EXCEPT ![r] = dr],
           UNCHANGED <<now, room, server, announced, claimed, openings, faults>>,
           Booked(room[r], dr, claimed[r], openings[r], now)
    PROVE  RoomsInv'
<1>1. DOMAIN draft' = Rooms /\ draft'[r] = dr /\ \A q \in Rooms : q # r => draft'[q] = draft[q]
  BY DEF RoomsInv
<1>2. \A q \in Rooms : Booked(room[q], draft'[q], claimed[q], openings[q], now)
  BY <1>1 DEF RoomsInv
<1>3. Sched!SlugsAreUnique'
  BY DEF RoomsInv, Sched!SlugsAreUnique, Sched!Created
<1> QED BY <1>1, <1>2, <1>3 DEF RoomsInv

LEMMA CreateKeeps ==
    ASSUME RoomsInv, NEW r \in Rooms, NEW pattern \in Patterns \cup {{}},
           Sched!CreateRoom(r, pattern)
    PROVE  RoomsInv'
<1> DEFINE next == IF pattern = {} THEN Never ELSE Sched!NextOccurrence(pattern, now)
           dr == [step |-> "probe", slug |-> 0, pattern |-> pattern, next |-> next]
<1>1. /\ room[r].status = "none"
      /\ pattern # {} => Sched!NextOccurrence(pattern, now) # Never
      /\ draft' = [draft EXCEPT ![r] =
             [Sched!NoDraft EXCEPT !.step = "probe", !.pattern = pattern, !.next = next]]
      /\ UNCHANGED <<now, room, server, announced, claimed, openings, faults>>
  BY DEF Sched!CreateRoom, Sched!Created
<1>2. [Sched!NoDraft EXCEPT !.step = "probe", !.pattern = pattern, !.next = next] = dr
  <2>1. PICK one : one = [Sched!NoDraft EXCEPT !.step = "probe"]
    OBVIOUS
  <2>2. PICK two : two = [one EXCEPT !.pattern = pattern]
    OBVIOUS
  <2> HIDE DEF next
  <2>3. [Sched!NoDraft EXCEPT !.step = "probe", !.pattern = pattern, !.next = next] =
            [two EXCEPT !.next = next]
    BY <2>1, <2>2 DEF Sched!NoDraft
  <2>4. one = [step |-> "probe", slug |-> 0, pattern |-> {}, next |-> Never]
    BY <2>1 DEF Sched!NoDraft
  <2>5. two = [step |-> "probe", slug |-> 0, pattern |-> pattern, next |-> Never]
    BY <2>2, <2>4
  <2>6. [two EXCEPT !.next = next] =
            [step |-> "probe", slug |-> 0, pattern |-> pattern, next |-> next]
    BY <2>5
  <2> QED BY <2>3, <2>6
<1>3. now \in Nat
  BY RoomNumbers DEF RoomsInv
<1>4. next \in Moments /\ (pattern # {} => next # Never)
  BY <1>1, <1>3, NextIsLater DEF Moments
<1> HIDE DEF next
<1>5. dr \in DraftState /\ dr.step = "probe" /\ dr.pattern = pattern /\ dr.next = next
  BY <1>4 DEF DraftState
<1> HIDE DEF dr
<1>6. Booked(room[r], draft[r], claimed[r], openings[r], now)
  BY DEF RoomsInv
<1>7. Booked(room[r], dr, claimed[r], openings[r], now)
  BY <1>1, <1>4, <1>5, <1>6 DEF Booked
<1> QED BY <1>1, <1>2, <1>7, DraftKeeps

LEMMA ReserveKeeps ==
    ASSUME RoomsInv, NEW r \in Rooms, Sched!ReserveSlug(r)
    PROVE  RoomsInv'
<1> DEFINE free == Sched!Slugs \ Sched!Taken
           least == CHOOSE i \in free : \A j \in free : i <= j
<1>1. /\ draft[r].step = "probe"
      /\ draft' = [draft EXCEPT ![r] = IF free = {} THEN Sched!NoDraft
                                       ELSE [draft[r] EXCEPT !.step = "insert", !.slug = least]]
      /\ UNCHANGED <<now, room, server, announced, claimed, openings, faults>>
  BY DEF Sched!ReserveSlug, RoomsInv
<1>2. Booked(room[r], draft[r], claimed[r], openings[r], now)
  BY DEF RoomsInv
<1>3. CASE free = {}
  <2>1. Sched!NoDraft \in DraftState /\ Sched!NoDraft.step = "none"
    BY DEF Sched!NoDraft, DraftState, Moments
  <2>2. Booked(room[r], Sched!NoDraft, claimed[r], openings[r], now)
    BY <1>2, <2>1 DEF Booked
  <2>3. draft' = [draft EXCEPT ![r] = Sched!NoDraft]
    BY <1>1, <1>3
  <2> QED BY <1>1, <2>2, <2>3, DraftKeeps
<1>4. CASE free # {}
  <2> DEFINE dr == [step |-> "insert", slug |-> least, pattern |-> draft[r].pattern,
                    next |-> draft[r].next]
  <2>1. least \in free
    <3>1. free \subseteq Nat
      BY RoomNumbers
    <3>2. \E i \in free : \A j \in free : i <= j
      <4> HIDE DEF free
      <4> QED BY <1>4, <3>1, LeastOf
    <3> HIDE DEF free
    <3> QED BY <3>2
  <2>2. least \in Sched!Slugs
    BY <2>1
  <2> HIDE DEF least
  <2>3. draft[r] \in DraftState
    BY <1>2 DEF Booked
  <2>4. [draft[r] EXCEPT !.step = "insert", !.slug = least] = dr
    <3> DEFINE a == draft[r].step
               b == draft[r].slug
               c == draft[r].pattern
               d == draft[r].next
    <3>1. draft[r] = [step |-> a, slug |-> b, pattern |-> c, next |-> d]
      BY <2>3 DEF DraftState
    <3>2. dr = [step |-> "insert", slug |-> least, pattern |-> c, next |-> d]
      OBVIOUS
    <3>3. PICK one : one = [draft[r] EXCEPT !.step = "insert"]
      OBVIOUS
    <3>4. [draft[r] EXCEPT !.step = "insert", !.slug = least] = [one EXCEPT !.slug = least]
      BY <3>1, <3>3
    <3> HIDE DEF a, b, c, d, dr
    <3>5. one = [step |-> "insert", slug |-> b, pattern |-> c, next |-> d]
      BY <3>1, <3>3
    <3>6. [one EXCEPT !.slug = least] = [step |-> "insert", slug |-> least, pattern |-> c,
                                         next |-> d]
      BY <3>5
    <3> QED BY <3>2, <3>4, <3>6
  <2>5. dr \in DraftState /\ dr.step = "insert" /\ dr.pattern = draft[r].pattern
        /\ dr.next = draft[r].next /\ dr.slug = least
    BY <2>2, <2>3 DEF DraftState
  <2>6. draft' = [draft EXCEPT ![r] = dr]
    BY <1>1, <1>4, <2>4
  <2> HIDE DEF dr
  <2>7. Booked(room[r], dr, claimed[r], openings[r], now)
    BY <1>1, <1>2, <2>2, <2>5 DEF Booked
  <2> QED BY <1>1, <2>6, <2>7, DraftKeeps
<1> QED BY <1>3, <1>4

LEMMA InsertKeeps ==
    ASSUME RoomsInv, NEW r \in Rooms, Sched!InsertRoom(r)
    PROVE  RoomsInv'
<1>1. Booked(room[r], draft[r], claimed[r], openings[r], now)
  BY DEF RoomsInv
<1>2. /\ draft[r].step = "insert" /\ draft' = [draft EXCEPT ![r] = Sched!NoDraft]
      /\ UNCHANGED <<now, server, announced, claimed, openings, faults>>
  BY DEF Sched!InsertRoom
<1>3. Sched!NoDraft \in DraftState /\ Sched!NoDraft.step = "none"
  BY DEF Sched!NoDraft, DraftState, Moments
<1>4. CASE ~Sched!SlugFree(draft[r].slug)
  <2>1. room' = room
    BY <1>4 DEF Sched!InsertRoom
  <2>2. Booked(room[r], Sched!NoDraft, claimed[r], openings[r], now)
    BY <1>1, <1>3 DEF Booked
  <2> QED BY <1>2, <2>1, <2>2, DraftKeeps
<1>5. CASE Sched!SlugFree(draft[r].slug)
  <2> DEFINE rm == [slug |-> draft[r].slug, pattern |-> draft[r].pattern,
                    scheduled |-> draft[r].pattern # {}, next |-> draft[r].next,
                    opened |-> Never,
                    status |-> IF draft[r].pattern = {} THEN "live" ELSE "scheduled"]
  <2>1. room' = [room EXCEPT ![r] = rm]
    BY <1>5 DEF Sched!InsertRoom
  <2>2. draft[r] \in DraftState /\ draft[r].slug \in Sched!Slugs
        /\ (draft[r].pattern # {} => draft[r].next # Never)
        /\ room[r].status = "none" /\ claimed[r] = {}
    BY <1>1, <1>2 DEF Booked
  <2>3. /\ rm.slug = draft[r].slug /\ rm.pattern = draft[r].pattern /\ rm.next = draft[r].next
        /\ rm.scheduled \in BOOLEAN /\ (rm.scheduled <=> draft[r].pattern # {})
        /\ rm.opened = Never /\ rm.status \in {"live", "scheduled"}
        /\ (rm.status = "live" => draft[r].pattern = {})
    OBVIOUS
  <2>4. rm \in RoomState
    BY <2>2 DEF RoomState, DraftState, Moments
  <2> HIDE DEF rm
  <2>5. Booked(rm, Sched!NoDraft, claimed[r], openings[r], now)
    BY <1>1, <1>3, <2>2, <2>3, <2>4 DEF Booked
  <2>6. /\ DOMAIN room = Rooms /\ DOMAIN draft = Rooms
        /\ DOMAIN room' = Rooms /\ DOMAIN draft' = Rooms
        /\ room'[r] = rm /\ draft'[r] = Sched!NoDraft
        /\ \A q \in Rooms : q # r => room'[q] = room[q] /\ draft'[q] = draft[q]
    BY <1>2, <2>1 DEF RoomsInv
  <2>7. \A q \in Rooms : Booked(room'[q], draft'[q], claimed[q], openings[q], now)
    BY <2>5, <2>6 DEF RoomsInv
  <2>8. Sched!SlugsAreUnique'
    <3>1. \A q \in Rooms : room[q].status # "none" => room[q].slug # rm.slug
      BY <1>5, <2>3 DEF Sched!SlugFree, Sched!Taken, Sched!Created
    <3>2. \A p, q \in Rooms : room[p].status # "none" /\ room[q].status # "none"
                                  /\ room[p].slug = room[q].slug => p = q
      BY DEF RoomsInv, Sched!SlugsAreUnique, Sched!Created
    <3>3. \A p, q \in Rooms : room'[p].status # "none" /\ room'[q].status # "none"
                                  /\ room'[p].slug = room'[q].slug => p = q
      BY <2>6, <3>1, <3>2
    <3> QED BY <3>3 DEF Sched!SlugsAreUnique, Sched!Created
  <2> QED BY <1>2, <2>6, <2>7, <2>8 DEF RoomsInv
<1> QED BY <1>4, <1>5

\* A server that announces nothing more, nor anything yet: what it was announcing is lost to
\* a fault.
LEMMA SweepKeeps ==
    ASSUME RoomsInv, NEW s \in Servers, NEW srv, server' = [server EXCEPT ![s] = srv],
           Swept(srv, now), srv.phase # "announcing",
           faults' \in 0..MaxFaults, faults' = faults \/ faults' = faults + 1,
           server[s].phase = "announcing" => faults' = faults + 1,
           UNCHANGED <<now, room, draft, announced, claimed, openings>>
    PROVE  RoomsInv'
<1>1. DOMAIN server' = Servers /\ \A q \in Servers : Swept(server'[q], now)
  BY DEF RoomsInv
<1>2. Told(server', announced, openings, faults')
  <2> SUFFICES ASSUME NEW r \in Rooms
               PROVE  /\ announced[r] + Cardinality(Telling(server', r)) <= openings[r]
                      /\ openings[r] <= announced[r] + Cardinality(Telling(server', r)) + faults'
                      /\ announced[r] \in Nat
    BY DEF Told
  <2> DEFINE c == Cardinality(Telling(server, r))
             d == Cardinality(Telling(server', r))
  <2>1. announced[r] \in Nat /\ announced[r] + c <= openings[r]
        /\ openings[r] <= announced[r] + c + faults /\ faults \in Nat
    BY RoomNumbers DEF RoomsInv, Told
  <2>2. openings[r] \in Nat
    <3>1. IsFiniteSet(claimed[r]) /\ openings[r] = Cardinality(claimed[r])
      BY DEF RoomsInv, Booked
    <3> QED BY <3>1, FS_CardinalityType
  <2>3. ~Tells(srv, r) /\ (Tells(server[s], r) => faults' = faults + 1)
    BY DEF Tells
  <2>4. c \in Nat /\ d \in Nat /\ (d = c \/ (Tells(server[s], r) /\ d = c - 1))
    <3>1. Moves(server, server', s, srv)
      BY DEF RoomsInv, Moves
    <3>2. c \in Nat /\ d \in Nat
      BY <3>1, OneMoves
    <3>3. CASE Tells(server[s], r)
      <4>1. d = c - 1
        BY <2>3, <3>1, <3>3, OneMoves
      <4> QED BY <3>2, <3>3, <4>1
    <3>4. CASE ~Tells(server[s], r)
      <4>1. d = c
        BY <2>3, <3>1, <3>4, OneMoves
      <4> HIDE DEF c, d
      <4> QED BY <3>2, <4>1
    <3> QED BY <3>3, <3>4
  <2> HIDE DEF c, d
  <2>5. announced[r] + d <= openings[r] /\ openings[r] <= announced[r] + d + faults'
    <3>1. CASE d = c
      BY <2>1, <2>2, <2>4, <3>1
    <3>2. CASE faults' = faults + 1 /\ d = c - 1
      BY <2>1, <2>2, <2>4, <3>2
    <3> QED BY <2>3, <2>4, <3>1, <3>2
  <2> QED BY <2>1, <2>5 DEF d
<1>3. Sched!SlugsAreUnique'
  BY DEF RoomsInv, Sched!SlugsAreUnique, Sched!Created
<1> QED BY <1>1, <1>2, <1>3 DEF RoomsInv

LEMMA SweepTypes ==
    ASSUME RoomsInv, NEW s \in Servers
    PROVE  /\ server[s] \in SweepState /\ server[s].at \in Nat /\ server[s].at <= now
           /\ server[s].due \in Seq(Rooms) /\ Len(server[s].due) <= MaxPerSweep
           /\ server[s].phase \in {"down", "resting", "sweeping", "announcing"}
           /\ now \in Nat /\ now <= LastMinute /\ faults \in Nat /\ DOMAIN server = Servers
           /\ server[s].due # <<>> => /\ Head(server[s].due) \in Rooms
                                      /\ Tail(server[s].due) \in Seq(Rooms)
                                      /\ Len(Tail(server[s].due)) <= MaxPerSweep
<1>1. Swept(server[s], now) /\ now \in 0..LastMinute /\ faults \in 0..MaxFaults
      /\ DOMAIN server = Servers
  BY DEF RoomsInv
<1>2. server[s] \in SweepState /\ server[s].at <= now /\ Len(server[s].due) <= MaxPerSweep
  BY <1>1 DEF Swept
<1>3. /\ server[s].at \in Nat /\ server[s].due \in Seq(Rooms) /\ now \in Nat
      /\ now <= LastMinute /\ faults \in Nat
      /\ server[s].phase \in {"down", "resting", "sweeping", "announcing"}
  BY <1>1, <1>2, RoomNumbers DEF SweepState
<1>4. ASSUME server[s].due # <<>>
      PROVE  /\ Head(server[s].due) \in Rooms /\ Tail(server[s].due) \in Seq(Rooms)
             /\ Len(Tail(server[s].due)) <= MaxPerSweep
  <2> DEFINE due == server[s].due
  <2>1. due \in Seq(Rooms) /\ due # <<>>
    BY <1>3, <1>4
  <2> HIDE DEF due
  <2>2. Head(due) \in Rooms /\ Tail(due) \in Seq(Rooms) /\ Len(Tail(due)) = Len(due) - 1
        /\ Len(due) \in Nat
    BY <2>1
  <2>3. Len(due) <= MaxPerSweep
    BY <1>2 DEF due
  <2>4. Len(Tail(due)) <= MaxPerSweep
    BY <2>2, <2>3, RoomNumbers
  <2> QED BY <2>2, <2>4 DEF due
<1> QED BY <1>1, <1>2, <1>3, <1>4

\* A server at rest, or down.
LEMMA AtRest ==
    ASSUME NEW phase \in {"down", "resting"}, NEW wake \in 0..LastMinute, NEW t \in Nat
    PROVE  /\ Swept([phase |-> phase, at |-> 0, due |-> <<>>, wake |-> wake], t)
           /\ Sched!Down = [phase |-> "down", at |-> 0, due |-> <<>>, wake |-> 0]
           /\ [Sched!Down EXCEPT !.phase = phase, !.wake = wake] =
                  [phase |-> phase, at |-> 0, due |-> <<>>, wake |-> wake]
<1> DEFINE srv == [phase |-> phase, at |-> 0, due |-> <<>>, wake |-> wake]
<1>1. <<>> \in Seq(Rooms) /\ Len(<<>>) = 0 /\ 0 \in 0..LastMinute /\ 0 <= MaxPerSweep
  BY RoomNumbers
<1>2. srv \in SweepState
  BY <1>1, Zenon DEF SweepState
<1>3. srv.at = 0 /\ srv.due = <<>> /\ srv.phase = phase
  OBVIOUS
<1>4. Swept(srv, t)
  <2> HIDE DEF srv
  <2> QED BY <1>1, <1>2, <1>3 DEF Swept
<1>5. PICK one : one = [Sched!Down EXCEPT !.phase = phase]
  OBVIOUS
<1>6. [Sched!Down EXCEPT !.phase = phase, !.wake = wake] = [one EXCEPT !.wake = wake]
  BY <1>5 DEF Sched!Down
<1>7. one = [phase |-> phase, at |-> 0, due |-> <<>>, wake |-> 0]
  BY <1>5 DEF Sched!Down
<1>8. [one EXCEPT !.wake = wake] = srv
  BY <1>7
<1> QED BY <1>4, <1>6, <1>8 DEF Sched!Down

\* What a server was about, and the rest of its list.
LEMMA NextOnList ==
    ASSUME RoomsInv, NEW s \in Servers, server[s].due # <<>>, NEW phase \in {"sweeping"}
    PROVE  /\ [server EXCEPT ![s].due = Tail(server[s].due)] =
                  [server EXCEPT ![s] = [phase |-> server[s].phase, at |-> server[s].at,
                                         due |-> Tail(server[s].due), wake |-> server[s].wake]]
           /\ [server EXCEPT ![s].phase = phase, ![s].due = Tail(server[s].due)] =
                  [server EXCEPT ![s] = [phase |-> phase, at |-> server[s].at,
                                         due |-> Tail(server[s].due), wake |-> server[s].wake]]
           /\ Swept([phase |-> phase, at |-> server[s].at, due |-> Tail(server[s].due),
                     wake |-> server[s].wake], now)
<1>1. /\ server[s] \in SweepState /\ server[s].at <= now /\ DOMAIN server = Servers
      /\ Tail(server[s].due) \in Seq(Rooms) /\ Len(Tail(server[s].due)) <= MaxPerSweep
  BY SweepTypes
<1> DEFINE a == server[s].phase
           b == server[s].at
           c == server[s].due
           d == server[s].wake
           rest == Tail(server[s].due)
<1>2. server[s] = [phase |-> a, at |-> b, due |-> c, wake |-> d]
      /\ b \in 0..LastMinute /\ d \in 0..LastMinute
  BY <1>1 DEF SweepState
<1>3. rest \in Seq(Rooms) /\ Len(rest) <= MaxPerSweep /\ b <= now
  BY <1>1
<1> HIDE DEF a, b, c, d, rest
<1>4. [server EXCEPT ![s].due = rest] = [server EXCEPT ![s] = [server[s] EXCEPT !.due = rest]]
  BY <1>1
<1>5. [server[s] EXCEPT !.due = rest] = [phase |-> a, at |-> b, due |-> rest, wake |-> d]
  BY <1>2
<1>6. PICK one : one = [server[s] EXCEPT !.phase = phase]
  OBVIOUS
<1>7. one = [phase |-> phase, at |-> b, due |-> c, wake |-> d]
  BY <1>2, <1>6
<1>8. [one EXCEPT !.due = rest] = [phase |-> phase, at |-> b, due |-> rest, wake |-> d]
  BY <1>7
<1>9. [server EXCEPT ![s].phase = phase, ![s].due = rest] =
          [server EXCEPT ![s] = [[server[s] EXCEPT !.phase = phase] EXCEPT !.due = rest]]
  BY <1>1
<1>10. Swept([phase |-> phase, at |-> b, due |-> rest, wake |-> d], now)
  <2> DEFINE srv == [phase |-> phase, at |-> b, due |-> rest, wake |-> d]
  <2>1. srv \in SweepState
    BY <1>2, <1>3 DEF SweepState
  <2>2. srv.at = b /\ srv.due = rest /\ srv.phase = "sweeping"
    OBVIOUS
  <2> HIDE DEF srv
  <2> QED BY <1>3, <2>1, <2>2 DEF Swept, srv
<1> QED BY <1>4, <1>5, <1>6, <1>8, <1>9, <1>10 DEF a, b, c, d, rest

LEMMA ListKeeps ==
    ASSUME RoomsInv, NEW s \in Servers, Sched!ListDueSchedules(s)
    PROVE  RoomsInv'
<1>1. PICK due \in Sched!Oldest(now) :
          server' = [server EXCEPT ![s] =
                        [phase |-> "sweeping", at |-> now, due |-> due, wake |-> 0]]
  BY DEF Sched!ListDueSchedules
<1>2. server[s].phase = "resting"
      /\ UNCHANGED <<now, room, draft, announced, claimed, openings, faults>>
  BY DEF Sched!ListDueSchedules
<1>3. due \in Seq(Rooms) /\ Len(due) <= MaxPerSweep
  <2>1. PICK n \in 0..MaxPerSweep : due \in [1..n -> Sched!Due(now)]
    BY <1>1 DEF Sched!Oldest
  <2>2. Sched!Due(now) \subseteq Rooms /\ n \in Nat /\ n <= MaxPerSweep
    BY <2>1, RoomNumbers DEF Sched!Due, Sched!Created
  <2>3. due \in [1..n -> Rooms]
    BY <2>1, <2>2
  <2>4. due \in Seq(Rooms) /\ Len(due) = n
    BY <2>2, <2>3
  <2> QED BY <2>2, <2>4
<1>4. now \in 0..LastMinute /\ 0 \in 0..LastMinute /\ now \in Nat
  BY RoomNumbers DEF RoomsInv
<1> DEFINE srv == [phase |-> "sweeping", at |-> now, due |-> due, wake |-> 0]
<1>5. Swept(srv, now) /\ srv.phase # "announcing"
  <2>1. srv \in SweepState
    BY <1>3, <1>4 DEF SweepState
  <2>2. srv.at = now /\ srv.due = due /\ srv.phase = "sweeping"
    OBVIOUS
  <2> HIDE DEF srv
  <2> QED BY <1>3, <1>4, <2>1, <2>2 DEF Swept
<1>6. faults' = faults /\ faults' \in 0..MaxFaults
  BY <1>2 DEF RoomsInv
<1> HIDE DEF srv
<1> QED BY <1>1, <1>2, <1>5, <1>6, SweepKeeps DEF srv

LEMMA RestKeeps ==
    ASSUME RoomsInv, NEW s \in Servers,
           \/ Sched!FinishSweep(s) \/ Sched!StartServer(s) \/ Sched!FailSweep(s)
           \/ Sched!StopServer(s) \/ Sched!CrashServer(s)
    PROVE  RoomsInv'
<1>1. now \in 0..LastMinute /\ now \in Nat /\ faults \in 0..MaxFaults /\ faults \in Nat
      /\ MaxFaults \in Nat /\ 0 \in 0..LastMinute /\ LastMinute \in Nat
  BY RoomNumbers DEF RoomsInv
<1>2. UNCHANGED <<now, room, draft, announced, claimed, openings>>
  BY DEF Sched!FinishSweep, Sched!StartServer, Sched!FailSweep, Sched!StopServer,
         Sched!CrashServer
<1>3. /\ faults' = faults \/ (faults < MaxFaults /\ faults' = faults + 1)
      /\ server[s].phase = "announcing" => faults' = faults + 1
  <2>1. CASE Sched!FinishSweep(s) \/ Sched!StartServer(s)
    <3>1. faults' = faults
      BY <2>1 DEF Sched!FinishSweep, Sched!StartServer
    <3>2. server[s].phase # "announcing"
      BY <2>1 DEF Sched!FinishSweep, Sched!StartServer
    <3> QED BY <3>1, <3>2
  <2>2. CASE Sched!FailSweep(s) \/ Sched!CrashServer(s) \/ Sched!StopServer(s)
    BY <2>2 DEF Sched!FailSweep, Sched!CrashServer, Sched!StopServer
  <2> QED BY <2>1, <2>2
<1>4. faults' \in 0..MaxFaults /\ (faults' = faults \/ faults' = faults + 1)
  BY <1>1, <1>3
<1>5. \E phase \in {"down", "resting"}, wake \in 0..LastMinute :
          server' = [server EXCEPT ![s] =
                        [phase |-> phase, at |-> 0, due |-> <<>>, wake |-> wake]]
  <2>1. CASE Sched!FinishSweep(s)
    <3> DEFINE wake == IF now < LastMinute THEN now + 1 ELSE now
    <3>1. wake \in 0..LastMinute
      BY <1>1
    <3>2. server' = [server EXCEPT ![s] =
                        [Sched!Down EXCEPT !.phase = "resting", !.wake = wake]]
      BY <2>1 DEF Sched!FinishSweep, Sched!Rest
    <3> HIDE DEF wake
    <3> QED BY <1>1, <3>1, <3>2, AtRest
  <2>2. CASE Sched!StartServer(s) \/ Sched!FailSweep(s)
    <3>1. server' = [server EXCEPT ![s] =
                        [Sched!Down EXCEPT !.phase = "resting", !.wake = now]]
      BY <2>2 DEF Sched!StartServer, Sched!FailSweep
    <3> QED BY <1>1, <3>1, AtRest
  <2>3. CASE Sched!StopServer(s) \/ Sched!CrashServer(s)
    <3>1. server' = [server EXCEPT ![s] = Sched!Down]
      BY <2>3 DEF Sched!StopServer, Sched!CrashServer
    <3> QED BY <1>1, <3>1, AtRest
  <2> QED BY <2>1, <2>2, <2>3
<1>6. PICK phase \in {"down", "resting"}, wake \in 0..LastMinute :
          server' = [server EXCEPT ![s] =
                        [phase |-> phase, at |-> 0, due |-> <<>>, wake |-> wake]]
  BY <1>5
<1> DEFINE srv == [phase |-> phase, at |-> 0, due |-> <<>>, wake |-> wake]
<1>7. Swept(srv, now)
  BY <1>1, AtRest
<1>8. srv.phase # "announcing"
  OBVIOUS
<1>9. server' = [server EXCEPT ![s] = srv]
  BY <1>6
<1> HIDE DEF srv
<1> QED BY <1>2, <1>3, <1>4, <1>7, <1>8, <1>9, SweepKeeps

\* The addresses stay while no room is created.
LEMMA SlugsStay ==
    ASSUME Sched!SlugsAreUnique,
           \A r \in Rooms : /\ room'[r].slug = room[r].slug
                            /\ room'[r].status # "none" => room[r].status # "none"
    PROVE  Sched!SlugsAreUnique'
BY DEF Sched!SlugsAreUnique, Sched!Created

LEMMA DisableKeeps ==
    ASSUME RoomsInv, NEW s \in Servers, Sched!DisableSchedule(s)
    PROVE  RoomsInv'
<1> DEFINE r == Head(server[s].due)
<1>1. /\ server[s].phase = "sweeping" /\ server[s].due # <<>>
      /\ room' = [room EXCEPT ![r].scheduled = FALSE, ![r].next = Never]
      /\ server' = [server EXCEPT ![s].due = Tail(server[s].due)]
      /\ UNCHANGED <<now, draft, announced, claimed, openings, faults>>
  BY DEF Sched!DisableSchedule, RoomsInv
<1>2. r \in Rooms /\ DOMAIN server = Servers
  BY <1>1, SweepTypes
<1> DEFINE srv == [phase |-> server[s].phase, at |-> server[s].at,
                   due |-> Tail(server[s].due), wake |-> server[s].wake]
<1>3. server' = [server EXCEPT ![s] = srv] /\ Swept(srv, now)
  BY <1>1, NextOnList
<1>4. srv.phase = "sweeping"
  BY <1>1
<1> HIDE DEF srv, r
<1>5. /\ DOMAIN server' = Servers /\ \A q \in Servers : Swept(server'[q], now)
  BY <1>3 DEF RoomsInv
<1>6. Told(server', announced, openings, faults)
  <2>1. \A q : ~Tells(server[s], q) /\ ~Tells(srv, q)
    BY <1>1, <1>4 DEF Tells
  <2>2. \A q \in Rooms : Cardinality(Telling(server', q)) = Cardinality(Telling(server, q))
    <3>1. Moves(server, server', s, srv)
      BY <1>2, <1>3 DEF Moves
    <3> QED BY <2>1, <3>1, OneMoves
  <2> QED BY <2>2 DEF RoomsInv, Told
<1>7. Booked(room[r], draft[r], claimed[r], openings[r], now) /\ DOMAIN room = Rooms
  BY <1>2 DEF RoomsInv
<1> DEFINE a == room[r].slug
           b == room[r].pattern
           c == room[r].scheduled
           d == room[r].next
           e == room[r].opened
           f == room[r].status
           rm == [slug |-> a, pattern |-> b, scheduled |-> FALSE, next |-> Never,
                  opened |-> e, status |-> f]
<1>8. room' = [room EXCEPT ![r] = rm]
  <2>1. room[r] = [slug |-> a, pattern |-> b, scheduled |-> c, next |-> d, opened |-> e,
                   status |-> f]
    BY <1>7 DEF Booked, RoomState
  <2> HIDE DEF a, b, c, d, e, f
  <2>0. PICK no : no = FALSE
    OBVIOUS
  <2>2. PICK one : one = [room[r] EXCEPT !.scheduled = no]
    OBVIOUS
  <2>3. one = [slug |-> a, pattern |-> b, scheduled |-> no, next |-> d, opened |-> e,
               status |-> f]
    BY <2>1, <2>2
  <2>6. [one EXCEPT !.next = Never] =
            [slug |-> a, pattern |-> b, scheduled |-> no, next |-> Never, opened |-> e,
             status |-> f]
    BY <2>3
  <2>4. [one EXCEPT !.next = Never] = rm
    BY <2>0, <2>6
  <2>5. [room EXCEPT ![r].scheduled = FALSE, ![r].next = Never] =
            [room EXCEPT ![r] = [[room[r] EXCEPT !.scheduled = FALSE] EXCEPT !.next = Never]]
    BY <1>2, <1>7
  <2> QED BY <1>1, <2>0, <2>2, <2>4, <2>5
<1>9. rm \in RoomState /\ rm.scheduled = FALSE /\ rm.pattern = b /\ rm.slug = a
      /\ rm.opened = e /\ rm.status = f
  BY <1>7 DEF Booked, RoomState, Moments
<1>10. Booked(rm, draft[r], claimed[r], openings[r], now)
  <2> HIDE DEF rm
  <2> QED BY <1>7, <1>9 DEF Booked
<1>11. /\ DOMAIN room' = Rooms /\ room'[r] = rm
       /\ \A q \in Rooms : q # r => room'[q] = room[q]
  <2> HIDE DEF rm
  <2> QED BY <1>2, <1>7, <1>8
<1>12. \A q \in Rooms : Booked(room'[q], draft[q], claimed[q], openings[q], now)
  BY <1>10, <1>11 DEF RoomsInv
<1>13. Sched!SlugsAreUnique'
  <2> HIDE DEF rm
  <2>1. \A q \in Rooms : /\ room'[q].slug = room[q].slug
                         /\ room'[q].status # "none" => room[q].status # "none"
    BY <1>9, <1>11
  <2> QED BY <2>1, SlugsStay DEF RoomsInv
<1> QED BY <1>1, <1>5, <1>6, <1>11, <1>12, <1>13 DEF RoomsInv

LEMMA ClaimKeeps ==
    ASSUME RoomsInv, NEW s \in Servers, Sched!ClaimOccurrence(s)
    PROVE  RoomsInv'
<1> DEFINE r == Head(server[s].due)
           at == server[s].at
           next == Sched!NextOccurrence(room[r].pattern, at)
<1>1. /\ server[s].phase = "sweeping" /\ server[s].due # <<>> /\ next # Never
      /\ UNCHANGED <<now, draft, announced, faults>>
  BY DEF Sched!ClaimOccurrence
<1>2. r \in Rooms /\ DOMAIN server = Servers /\ at \in Nat /\ at <= now /\ now \in Nat
      /\ now <= LastMinute
  BY <1>1, SweepTypes
<1>3. Booked(room[r], draft[r], claimed[r], openings[r], now) /\ DOMAIN room = Rooms
      /\ DOMAIN claimed = Rooms /\ DOMAIN openings = Rooms
  BY <1>2 DEF RoomsInv
<1>4. CASE ~Sched!MayClaim(r, at)
  <2>1. /\ server' = [server EXCEPT ![s].due = Tail(server[s].due)]
        /\ UNCHANGED <<room, claimed, openings>>
    BY <1>4 DEF Sched!ClaimOccurrence, RoomsInv
  <2> DEFINE srv == [phase |-> server[s].phase, at |-> server[s].at,
                     due |-> Tail(server[s].due), wake |-> server[s].wake]
  <2>2. server' = [server EXCEPT ![s] = srv] /\ Swept(srv, now)
    BY <1>1, <2>1, NextOnList
  <2>3. srv.phase # "announcing" /\ server[s].phase # "announcing"
    BY <1>1
  <2>4. faults' = faults /\ faults' \in 0..MaxFaults
    BY <1>1 DEF RoomsInv
  <2> HIDE DEF srv
  <2> QED BY <1>1, <2>1, <2>2, <2>3, <2>4, SweepKeeps
<1>5. CASE Sched!MayClaim(r, at)
  <2> DEFINE a == room[r].slug
             b == room[r].pattern
             c == room[r].scheduled
             d == room[r].next
             e == room[r].opened
             f == room[r].status
  <2>1. /\ room' = [room EXCEPT ![r].next = next, ![r].opened = at, ![r].status = "live"]
        /\ claimed' = [claimed EXCEPT ![r] = claimed[r] \cup {d}]
        /\ openings' = [openings EXCEPT ![r] = openings[r] + 1]
        /\ server' = [server EXCEPT ![s].phase = "announcing"]
    BY <1>3, <1>5 DEF Sched!ClaimOccurrence
  <2>2. /\ c /\ d # Never /\ d <= at /\ room[r] \in RoomState /\ draft[r] \in DraftState
        /\ f # "none"
    BY <1>3, <1>5 DEF Sched!MayClaim, Booked
  <2>3. /\ b \in Patterns \cup {{}} /\ d \in Nat /\ d <= now
        /\ room[r] = [slug |-> a, pattern |-> b, scheduled |-> c, next |-> d, opened |-> e,
                      status |-> f]
    <3>1. d \in Moments /\ b \in Patterns \cup {{}}
      BY <2>2 DEF RoomState
    <3>2. d \in Nat
      BY <2>2, <3>1, RoomNumbers DEF Moments
    <3>3. d <= now
      <4> HIDE DEF d, at
      <4> QED BY <1>2, <2>2, <3>2
    <3> QED BY <2>2, <3>1, <3>2, <3>3 DEF RoomState
  <2>4. next \in Nat /\ next > at /\ next \in Moments /\ at \in Moments
    <3>1. at \in Sched!Instants
      BY <1>2, RoomNumbers
    <3> QED BY <1>1, <1>2, <2>3, <3>1, NextIsLater DEF Moments
  <2> DEFINE rm == [slug |-> a, pattern |-> b, scheduled |-> c, next |-> next, opened |-> at,
                    status |-> "live"]
  <2>5. rm \in RoomState /\ rm.slug = a /\ rm.pattern = b /\ rm.scheduled = c /\ rm.next = next
        /\ rm.opened = at /\ rm.status = "live"
    BY <2>2, <2>4 DEF RoomState
  <2>6. room' = [room EXCEPT ![r] = rm]
    <3>1. [room EXCEPT ![r].next = next, ![r].opened = at, ![r].status = "live"] =
              [room EXCEPT ![r] = [[[room[r] EXCEPT !.next = next] EXCEPT !.opened = at]
                                       EXCEPT !.status = "live"]]
      BY <1>2, <1>3
    <3> HIDE DEF a, b, c, d, e, f, next, at
    <3>2. PICK one : one = [room[r] EXCEPT !.next = next]
      OBVIOUS
    <3>3. PICK two : two = [one EXCEPT !.opened = at]
      OBVIOUS
    <3>4. one = [slug |-> a, pattern |-> b, scheduled |-> c, next |-> next, opened |-> e,
                 status |-> f]
      BY <2>3, <3>2
    <3>5. two = [slug |-> a, pattern |-> b, scheduled |-> c, next |-> next, opened |-> at,
                 status |-> f]
      BY <3>3, <3>4
    <3>6. [two EXCEPT !.status = "live"] = rm
      BY <3>5
    <3> QED BY <2>1, <3>1, <3>2, <3>3, <3>6
  <2> DEFINE for == claimed[r] \cup {d}
             opened == openings[r] + 1
  <2>7. /\ for \subseteq Nat /\ IsFiniteSet(for) /\ opened = Cardinality(for) /\ opened > 0
    <3>1. /\ claimed[r] \subseteq Nat /\ IsFiniteSet(claimed[r])
          /\ openings[r] = Cardinality(claimed[r]) /\ \A x \in claimed[r] : x < d
      BY <1>3, <2>2 DEF Booked
    <3>2. d \notin claimed[r]
      BY <2>3, <3>1
    <3>3. Cardinality(for) = Cardinality(claimed[r]) + 1 /\ IsFiniteSet(for)
          /\ Cardinality(claimed[r]) \in Nat
      BY <3>1, <3>2, FS_AddElement, FS_CardinalityType
    <3>4. for \subseteq Nat
      BY <2>3, <3>1
    <3>5. opened = Cardinality(claimed[r]) + 1
      BY <3>1
    <3> HIDE DEF for, opened
    <3> QED BY <3>3, <3>4, <3>5
  <2>8. \A x \in for : x <= now /\ x < next
    <3>1. \A x \in claimed[r] : x \in Nat /\ x <= now /\ x < d
      BY <1>3, <2>2 DEF Booked
    <3>2. d < next
      <4> HIDE DEF d, next, at
      <4> QED BY <1>2, <2>2, <2>3, <2>4
    <3> HIDE DEF d, next, at
    <3> QED BY <1>2, <2>3, <2>4, <3>1, <3>2
  <2>9. draft[r].step = "none"
    BY <1>3, <2>2 DEF Booked, DraftState
  <2> HIDE DEF rm, for, opened, next, at, a, b, c, e, f
  <2>10. Booked(rm, draft[r], for, opened, now)
    <3>1. next # Never
      BY <2>4, RoomNumbers
    <3> QED BY <2>2, <2>4, <2>5, <2>7, <2>8, <2>9, <3>1 DEF Booked
  <2>11. /\ DOMAIN room' = Rooms /\ room'[r] = rm
         /\ DOMAIN claimed' = Rooms /\ claimed'[r] = for
         /\ DOMAIN openings' = Rooms /\ openings'[r] = opened
         /\ \A q \in Rooms : q # r => /\ room'[q] = room[q] /\ claimed'[q] = claimed[q]
                                      /\ openings'[q] = openings[q]
    BY <1>2, <1>3, <2>1, <2>6 DEF for, opened
  <2>12. \A q \in Rooms : Booked(room'[q], draft[q], claimed'[q], openings'[q], now)
    BY <2>10, <2>11 DEF RoomsInv
  <2>13. Sched!SlugsAreUnique'
    <3>1. \A q \in Rooms : /\ room'[q].slug = room[q].slug
                           /\ room'[q].status # "none" => room[q].status # "none"
      BY <2>2, <2>5, <2>11 DEF a, f
    <3> QED BY <3>1, SlugsStay DEF RoomsInv
  <2> DEFINE srv == [phase |-> "announcing", at |-> server[s].at, due |-> server[s].due,
                     wake |-> server[s].wake]
  <2>14. server' = [server EXCEPT ![s] = srv]
    <3>1. server[s] = [phase |-> server[s].phase, at |-> server[s].at, due |-> server[s].due,
                       wake |-> server[s].wake]
      BY SweepTypes DEF SweepState
    <3>2. [server[s] EXCEPT !.phase = "announcing"] = srv
      BY <3>1
    <3> HIDE DEF srv
    <3> QED BY <1>2, <2>1, <3>2
  <2>15. Swept(srv, now) /\ srv.phase = "announcing" /\ srv.due = server[s].due
    <3>1. Swept(server[s], now)
      BY DEF RoomsInv
    <3>2. srv \in SweepState
      BY <3>1 DEF Swept, SweepState
    <3>3. srv.phase = "announcing" /\ srv.due = server[s].due /\ srv.at = server[s].at
      OBVIOUS
    <3> HIDE DEF srv
    <3> QED BY <1>1, <3>1, <3>2, <3>3 DEF Swept
  <2> HIDE DEF srv
  <2>16. DOMAIN server' = Servers /\ \A q \in Servers : Swept(server'[q], now)
    BY <1>2, <2>14, <2>15 DEF RoomsInv
  <2>17. Told(server', announced, openings', faults)
    <3> SUFFICES ASSUME NEW q \in Rooms
                 PROVE  /\ announced[q] \in Nat
                        /\ announced[q] + Cardinality(Telling(server', q)) <= openings'[q]
                        /\ openings'[q] <= announced[q] + Cardinality(Telling(server', q))
                                               + faults
      BY DEF Told
    <3> DEFINE m == Cardinality(Telling(server, q))
               n == Cardinality(Telling(server', q))
    <3>1. /\ announced[q] \in Nat /\ announced[q] + m <= openings[q]
          /\ openings[q] <= announced[q] + m + faults
      BY DEF RoomsInv, Told
    <3>2. faults \in Nat /\ openings[q] \in Nat
      <4>1. IsFiniteSet(claimed[q]) /\ openings[q] = Cardinality(claimed[q])
        BY DEF RoomsInv, Booked
      <4> QED BY <4>1, RoomNumbers, FS_CardinalityType DEF RoomsInv
    <3>3. Moves(server, server', s, srv) /\ ~Tells(server[s], q)
      BY <1>1, <1>2, <2>14 DEF Moves, Tells
    <3>4. m \in Nat /\ n \in Nat
      BY <3>3, OneMoves
    <3>5. CASE q = r
      <4>1. Tells(srv, q)
        BY <2>15, <3>5 DEF Tells
      <4>2. n = m + 1
        BY <3>3, <4>1, OneMoves
      <4>3. openings'[q] = openings[q] + 1
        BY <2>11, <3>5 DEF opened
      <4> HIDE DEF m, n
      <4>4. announced[q] + n <= openings'[q] /\ openings'[q] <= announced[q] + n + faults
        BY <3>1, <3>2, <3>4, <4>2, <4>3
      <4> QED BY <3>1, <4>4 DEF n
    <3>6. CASE q # r
      <4>1. ~Tells(srv, q)
        BY <2>15, <3>6 DEF Tells
      <4>2. n = m
        BY <3>3, <4>1, OneMoves
      <4>3. openings'[q] = openings[q]
        BY <2>11, <3>6
      <4> HIDE DEF m, n
      <4>4. announced[q] + n <= openings'[q] /\ openings'[q] <= announced[q] + n + faults
        BY <3>1, <4>2, <4>3
      <4> QED BY <3>1, <4>4 DEF n
    <3> QED BY <3>5, <3>6
  <2> QED BY <1>1, <2>11, <2>12, <2>13, <2>16, <2>17 DEF RoomsInv
<1> QED BY <1>4, <1>5

LEMMA AnnounceKeeps ==
    ASSUME RoomsInv, NEW s \in Servers, Sched!Announce(s)
    PROVE  RoomsInv'
<1> DEFINE r == Head(server[s].due)
           srv == [phase |-> "sweeping", at |-> server[s].at,
                   due |-> Tail(server[s].due), wake |-> server[s].wake]
<1>1. /\ server[s].phase = "announcing" /\ server[s].due # <<>>
      /\ announced' = [announced EXCEPT ![r] = @ + 1]
      /\ server' = [server EXCEPT ![s].phase = "sweeping", ![s].due = Tail(server[s].due)]
      /\ UNCHANGED <<now, room, draft, claimed, openings, faults>>
  BY DEF Sched!Announce, RoomsInv, Swept
<1>2. r \in Rooms /\ DOMAIN server = Servers
  BY <1>1, SweepTypes
<1>3. server' = [server EXCEPT ![s] = srv] /\ Swept(srv, now)
  BY <1>1, NextOnList
<1>4. srv.phase = "sweeping"
  OBVIOUS
<1> HIDE DEF srv
<1>5. DOMAIN server' = Servers /\ \A q \in Servers : Swept(server'[q], now)
  BY <1>2, <1>3 DEF RoomsInv
<1>6. /\ DOMAIN announced' = Rooms /\ announced'[r] = announced[r] + 1
      /\ \A q \in Rooms : q # r => announced'[q] = announced[q]
  BY <1>1, <1>2 DEF RoomsInv
<1>7. Told(server', announced', openings, faults)
  <2> SUFFICES ASSUME NEW q \in Rooms
               PROVE  /\ announced'[q] \in Nat
                      /\ announced'[q] + Cardinality(Telling(server', q)) <= openings[q]
                      /\ openings[q] <= announced'[q] + Cardinality(Telling(server', q)) + faults
    BY DEF Told
  <2> DEFINE m == Cardinality(Telling(server, q))
             n == Cardinality(Telling(server', q))
  <2>1. /\ announced[q] \in Nat /\ announced[q] + m <= openings[q]
        /\ openings[q] <= announced[q] + m + faults
    BY DEF RoomsInv, Told
  <2>2. faults \in Nat /\ openings[q] \in Nat
    <3>1. IsFiniteSet(claimed[q]) /\ openings[q] = Cardinality(claimed[q])
      BY DEF RoomsInv, Booked
    <3> QED BY <3>1, RoomNumbers, FS_CardinalityType DEF RoomsInv
  <2>3. Moves(server, server', s, srv) /\ ~Tells(srv, q)
    BY <1>2, <1>3, <1>4 DEF Moves, Tells
  <2>4. m \in Nat /\ n \in Nat
    BY <2>3, OneMoves
  <2>5. CASE q = r
    <3>1. Tells(server[s], q)
      BY <1>1, <2>5 DEF Tells
    <3>2. n = m - 1
      BY <2>3, <3>1, OneMoves
    <3>3. announced'[q] = announced[q] + 1
      BY <1>6, <2>5
    <3> HIDE DEF m, n
    <3>4. /\ announced'[q] + n <= openings[q] /\ openings[q] <= announced'[q] + n + faults
          /\ announced'[q] \in Nat
      BY <2>1, <2>2, <2>4, <3>2, <3>3
    <3> QED BY <3>4 DEF n
  <2>6. CASE q # r
    <3>1. ~Tells(server[s], q)
      BY <2>6 DEF Tells
    <3>2. n = m
      BY <2>3, <3>1, OneMoves
    <3>3. announced'[q] = announced[q]
      BY <1>6, <2>6
    <3> HIDE DEF m, n
    <3>4. /\ announced'[q] + n <= openings[q] /\ openings[q] <= announced'[q] + n + faults
          /\ announced'[q] \in Nat
      BY <2>1, <3>2, <3>3
    <3> QED BY <3>4 DEF n
  <2> QED BY <2>5, <2>6
<1>8. Sched!SlugsAreUnique'
  BY <1>1 DEF RoomsInv, Sched!SlugsAreUnique, Sched!Created
<1> QED BY <1>1, <1>5, <1>6, <1>7, <1>8 DEF RoomsInv

LEMMA RoomsStep == RoomsInv /\ [Sched!Next]_(Sched!vars) => RoomsInv'
<1> SUFFICES ASSUME RoomsInv, [Sched!Next]_(Sched!vars)
             PROVE  RoomsInv'
  OBVIOUS
<1>1. ASSUME NEW r \in Rooms, NEW p \in Patterns \cup {{}}, Sched!CreateRoom(r, p)
      PROVE  RoomsInv'
  BY <1>1, CreateKeeps
<1>2. ASSUME NEW r \in Rooms, Sched!ReserveSlug(r)
      PROVE  RoomsInv'
  BY <1>2, ReserveKeeps
<1>3. ASSUME NEW r \in Rooms, Sched!InsertRoom(r)
      PROVE  RoomsInv'
  BY <1>3, InsertKeeps
<1>4. ASSUME NEW s \in Servers,
             \/ Sched!FinishSweep(s) \/ Sched!StartServer(s) \/ Sched!FailSweep(s)
             \/ Sched!StopServer(s) \/ Sched!CrashServer(s)
      PROVE  RoomsInv'
  BY <1>4, RestKeeps
<1>5. ASSUME NEW s \in Servers, Sched!ListDueSchedules(s)
      PROVE  RoomsInv'
  BY <1>5, ListKeeps
<1>6. ASSUME NEW s \in Servers, Sched!ClaimOccurrence(s)
      PROVE  RoomsInv'
  BY <1>6, ClaimKeeps
<1>7. ASSUME NEW s \in Servers, Sched!DisableSchedule(s)
      PROVE  RoomsInv'
  BY <1>7, DisableKeeps
<1>8. ASSUME NEW s \in Servers, Sched!Announce(s)
      PROVE  RoomsInv'
  BY <1>8, AnnounceKeeps
<1>9. ASSUME UNCHANGED <<room, draft, server, announced, claimed, openings, faults>>,
             now' \in 0..LastMinute, now' >= now
      PROVE  RoomsInv'
  <2>1. now \in Nat /\ now' \in Nat
    BY <1>9, RoomNumbers DEF RoomsInv
  <2>2. ASSUME NEW r \in Rooms
        PROVE  Booked(room[r], draft[r], claimed[r], openings[r], now')
    <3>1. Booked(room[r], draft[r], claimed[r], openings[r], now)
      BY DEF RoomsInv
    <3>2. \A x \in claimed[r] : x \in Nat /\ x <= now
      BY <3>1 DEF Booked
    <3>3. \A x \in claimed[r] : x <= now'
      BY <1>9, <2>1, <3>2
    <3> QED BY <3>1, <3>3 DEF Booked
  <2>3. ASSUME NEW s \in Servers
        PROVE  Swept(server[s], now')
    <3>1. Swept(server[s], now) /\ server[s].at \in Nat /\ server[s].at <= now
      BY SweepTypes DEF RoomsInv
    <3>2. server[s].at <= now'
      BY <1>9, <2>1, <3>1
    <3> QED BY <3>1, <3>2 DEF Swept
  <2>4. Sched!SlugsAreUnique'
    BY <1>9 DEF RoomsInv, Sched!SlugsAreUnique, Sched!Created
  <2> QED BY <1>9, <2>2, <2>3, <2>4 DEF RoomsInv
<1>10. CASE Sched!Tick
  <2>1. now < LastMinute /\ now' = now + 1
        /\ UNCHANGED <<room, draft, server, announced, claimed, openings, faults>>
    BY <1>10 DEF Sched!Tick
  <2>2. now' \in 0..LastMinute /\ now' >= now
    BY <2>1, RoomNumbers DEF RoomsInv
  <2> QED BY <1>9, <2>1, <2>2
<1>11. CASE UNCHANGED Sched!vars
  <2>1. UNCHANGED <<now, room, draft, server, announced, claimed, openings, faults>>
    BY <1>11 DEF Sched!vars
  <2>2. now' \in 0..LastMinute /\ now' >= now
    BY <2>1, RoomNumbers DEF RoomsInv
  <2> QED BY <1>9, <2>1, <2>2
<1> QED BY <1>1, <1>2, <1>3, <1>4, <1>5, <1>6, <1>7, <1>8, <1>10, <1>11 DEF Sched!Next, Sched!Runs

LEMMA RoomsHold ==
    RoomsInv =>
        /\ Sched!TypeOK /\ Sched!OpenedOncePerOccurrence /\ Sched!NothingReplayed
        /\ Sched!AnnouncedByTheWinner /\ Sched!LiveIsOpen /\ Sched!SlugsAreUnique
<1> SUFFICES ASSUME RoomsInv
             PROVE  /\ Sched!TypeOK /\ Sched!OpenedOncePerOccurrence /\ Sched!NothingReplayed
                    /\ Sched!AnnouncedByTheWinner /\ Sched!LiveIsOpen
  BY DEF RoomsInv
<1>1. \A r \in Rooms : Booked(room[r], draft[r], claimed[r], openings[r], now)
  BY DEF RoomsInv
<1>2. Sched!TypeOK
  <2>1. ASSUME NEW r \in Rooms
        PROVE  /\ room[r].slug \in Sched!Slugs \cup {0}
               /\ room[r].pattern \in Patterns \cup {{}}
               /\ room[r].scheduled \in BOOLEAN
               /\ room[r].next \in Sched!Instants \cup {Never}
               /\ room[r].opened \in Sched!Instants \cup {Never}
               /\ room[r].status \in {"none", "scheduled", "live"}
               /\ draft[r].step \in {"none", "probe", "insert"}
    BY <1>1 DEF Booked, RoomState, DraftState, Moments
  <2>2. ASSUME NEW s \in Servers
        PROVE  /\ server[s].phase \in {"down", "resting", "sweeping", "announcing"}
               /\ server[s].at \in 0..LastMinute
               /\ server[s].wake \in 0..LastMinute
               /\ Len(server[s].due) <= MaxPerSweep
    BY SweepTypes DEF SweepState
  <2> QED BY <2>1, <2>2 DEF RoomsInv, Sched!TypeOK
<1>3. Sched!OpenedOncePerOccurrence
  <2>1. \A r \in Rooms : Sched!Cardinality(claimed[r]) = Cardinality(claimed[r])
    BY DEF Sched!Cardinality, Cardinality
  <2> QED BY <1>1, <2>1 DEF Booked, Sched!OpenedOncePerOccurrence
<1>4. Sched!NothingReplayed
  BY <1>1 DEF Booked, Sched!NothingReplayed
<1>5. Sched!AnnouncedByTheWinner
  <2> SUFFICES ASSUME NEW r \in Rooms
               PROVE  LET telling == {s \in Servers : server[s].phase = "announcing"
                                                          /\ Head(server[s].due) = r}
                      IN /\ announced[r] + Sched!Cardinality(telling) <= openings[r]
                         /\ openings[r] <= announced[r] + Sched!Cardinality(telling) + faults
    BY DEF Sched!AnnouncedByTheWinner
  <2> DEFINE telling == {s \in Servers : server[s].phase = "announcing"
                                             /\ Head(server[s].due) = r}
  <2>1. telling = Telling(server, r)
    BY DEF Telling, Tells
  <2>2. Sched!Cardinality(telling) = Cardinality(telling)
    BY DEF Sched!Cardinality, Cardinality
  <2> HIDE DEF telling
  <2>3. /\ announced[r] + Sched!Cardinality(telling) <= openings[r]
        /\ openings[r] <= announced[r] + Sched!Cardinality(telling) + faults
    BY <2>1, <2>2 DEF RoomsInv, Told
  <2> QED BY <2>3 DEF telling
<1>6. Sched!LiveIsOpen
  BY <1>1 DEF Booked, Sched!LiveIsOpen, Sched!Created
<1> QED BY <1>2, <1>3, <1>4, <1>5, <1>6

--------------------------------------------------------------------------------
(* Schedules on the wall clock. *)

LEMMA ClockNumbers ==
    /\ DayLength \in Nat /\ DayLength > 0
    /\ SearchDays \in Nat /\ SearchDays >= 2
    /\ FirstDay \in Int /\ LastInstant \in Int /\ FirstDay <= LastInstant
    /\ \A z \in Zones : /\ z.before \in Int /\ z.after \in Int /\ z.change \in Int
                        /\ z.before - z.after <= DayLength /\ z.after - z.before <= DayLength
    /\ \A t \in Timetables : t # {} /\ t \subseteq 0..(DayLength - 1)
<1>1. \A z \in Zones : /\ z.before \in Int /\ z.after \in Int /\ z.change \in Int
                       /\ z.before - z.after \in -DayLength..DayLength
  BY ClocksAssumption
<1>2. /\ DayLength \in Nat /\ DayLength > 0
      /\ SearchDays \in Nat /\ SearchDays >= 2
      /\ FirstDay \in Int /\ LastInstant \in Int /\ FirstDay <= LastInstant
      /\ \A t \in Timetables : t # {} /\ t \subseteq 0..(DayLength - 1)
  BY ClocksAssumption
<1>3. ASSUME NEW z \in Zones
      PROVE  z.before - z.after <= DayLength /\ z.after - z.before <= DayLength
  BY <1>1, <1>2
<1> QED BY <1>1, <1>2, <1>3

\* Days and times of day.
LEMMA DaysDiffer ==
    ASSUME NEW k \in Int, NEW q \in Int, k > q
    PROVE  /\ k * DayLength \in Int /\ q * DayLength \in Int
           /\ k * DayLength >= q * DayLength + DayLength
<1>1. DayLength \in Int /\ DayLength > 0
  BY ClockNumbers
<1>2. (k - q - 1) * DayLength >= 0
  BY <1>1
<1>3. (k - q - 1) * DayLength = k * DayLength - q * DayLength - DayLength
  BY <1>1
<1> QED BY <1>1, <1>2, <1>3

LEMMA DayAndTime ==
    ASSUME NEW x \in Int
    PROVE  /\ x \div DayLength \in Int /\ x % DayLength \in 0..(DayLength - 1)
           /\ x = (x \div DayLength) * DayLength + (x % DayLength)
<1> DEFINE n == DayLength
<1>1. n \in Nat /\ n > 0
  BY ClockNumbers
<1> HIDE DEF n
<1>2. x \div n \in Int
  BY <1>1
<1>3. x % n \in 0..(n - 1)
  BY <1>1
<1>4. x = n * (x \div n) + (x % n)
  BY <1>1
<1>5. n * (x \div n) = (x \div n) * n
  BY <1>1, <1>2
<1> QED BY <1>2, <1>3, <1>4, <1>5 DEF n

LEMMA TimeOf ==
    ASSUME NEW k \in Int, NEW t \in 0..(DayLength - 1)
    PROVE  k * DayLength + t \in Int /\ (k * DayLength + t) % DayLength = t
<1> DEFINE x == k * DayLength + t
           q == x \div DayLength
           r == x % DayLength
           kd == k * DayLength
           qd == q * DayLength
<1>1. x \in Int /\ kd \in Int /\ DayLength \in Int /\ t \in Int /\ 0 <= t /\ t < DayLength
  BY ClockNumbers
<1>2. q \in Int /\ r \in Int /\ 0 <= r /\ r < DayLength /\ kd + t = qd + r /\ qd \in Int
  BY <1>1, ClockNumbers, DayAndTime
<1> HIDE DEF q, r, x
<1>3. CASE k > q
  <2>1. kd >= qd + DayLength
    BY <1>2, <1>3, DaysDiffer
  <2> HIDE DEF kd, qd
  <2> QED BY <1>1, <1>2, <2>1
<1>4. CASE q > k
  <2>1. qd >= kd + DayLength
    BY <1>2, <1>4, DaysDiffer
  <2> HIDE DEF kd, qd
  <2> QED BY <1>1, <1>2, <2>1
<1>5. CASE q = k
  <2>1. kd = qd
    BY <1>5
  <2> HIDE DEF kd, qd
  <2>2. r = t
    BY <1>1, <1>2, <2>1
  <2> QED BY <1>1, <2>2 DEF x, r
<1> QED BY <1>2, <1>3, <1>4, <1>5

\* The clocks of a zone differ by the hour that they move.
LEMMA Clocks ==
    ASSUME NEW z \in Zones
    PROVE  \A x \in Int :
               /\ Day!OffsetAt(z, x) = IF x < z.change THEN z.before ELSE z.after
               /\ Day!OffsetAt(z, x) \in {z.before, z.after}
               /\ Day!OffsetAt(z, x) \in Int
               /\ Day!LocalPartsOf(z, x) = x + Day!OffsetAt(z, x)
               /\ Day!InstantOf(z, x) \in {x - z.before, x - z.after}
               /\ Day!InstantOf(z, x) \in Int
<1>1. z.before \in Int /\ z.after \in Int /\ z.change \in Int
  BY ClockNumbers
<1>2. \A x \in Int : /\ Day!OffsetAt(z, x) = IF x < z.change THEN z.before ELSE z.after
                     /\ Day!OffsetAt(z, x) \in {z.before, z.after}
                     /\ Day!OffsetAt(z, x) \in Int
  BY <1>1 DEF Day!OffsetAt
<1>3. \A x \in Int : x - Day!OffsetAt(z, x) \in Int
  BY <1>2
<1>4. \A x \in Int : Day!OffsetAt(z, x - Day!OffsetAt(z, x)) \in {z.before, z.after}
  BY <1>2, <1>3
<1>5. \A x \in Int : Day!InstantOf(z, x) \in {x - z.before, x - z.after}
  BY <1>4 DEF Day!InstantOf
<1>6. \A x \in Int : Day!InstantOf(z, x) \in Int
  BY <1>1, <1>5
<1> QED BY <1>2, <1>5, <1>6 DEF Day!LocalPartsOf

Hour(z) == IF z.after > z.before THEN z.after - z.before ELSE z.before - z.after

LEMMA HourFacts ==
    ASSUME NEW z \in Zones
    PROVE  /\ Hour(z) \in Nat /\ Hour(z) <= DayLength
           /\ z.before - z.after <= Hour(z) /\ z.after - z.before <= Hour(z)
           /\ Hour(z) = z.before - z.after \/ Hour(z) = z.after - z.before
BY ClockNumbers DEF Hour

\* A booking is of the first candidate of those that are later, and there is one.
LEMMA FirstLater ==
    ASSUME NEW z \in Zones, NEW t \in Timetables, NEW after \in Int
    PROVE  \E l \in Day!Candidates(z, t, after) :
               /\ Day!InstantOf(z, l) > after
               /\ Day!NextOccurrence(z, t, after) = Day!InstantOf(z, l)
               /\ \A m \in Day!Candidates(z, t, after) : Day!InstantOf(z, m) > after => l <= m
<1> DEFINE local == Day!LocalPartsOf(z, after)
           today == local \div DayLength
           later == {m \in Day!Candidates(z, t, after) : Day!InstantOf(z, m) > after}
           first == today * DayLength
<1>1. local \in Int /\ today \in Int /\ first \in Int /\ first <= local
      /\ local < first + DayLength
  <2>1. local \in Int
    BY Clocks
  <2> HIDE DEF local
  <2>2. today \in Int /\ local = today * DayLength + (local % DayLength)
        /\ local % DayLength \in 0..(DayLength - 1)
    BY <2>1, DayAndTime
  <2> DEFINE r == local % DayLength
  <2>3. r \in Int /\ 0 <= r /\ r < DayLength /\ local = first + r
    <3>1. r \in 0..(DayLength - 1) /\ local = first + r
      BY <2>2
    <3> HIDE DEF r, first
    <3> QED BY <3>1, ClockNumbers
  <2>4. first \in Int
    BY <2>2, ClockNumbers
  <2> HIDE DEF today, r, first
  <2>5. first <= local /\ local < first + DayLength
    BY <2>1, <2>3, <2>4, ClockNumbers
  <2> QED BY <2>1, <2>2, <2>4, <2>5 DEF today
<1>2. t # {} /\ t \subseteq 0..(DayLength - 1)
  BY ClockNumbers
<1>3. Day!Candidates(z, t, after) =
          {(today + d) * DayLength + time : d \in 0..SearchDays, time \in t}
  BY DEF Day!Candidates
<1> HIDE DEF today, local
<1>4. \A m \in Day!Candidates(z, t, after) : m \in Int /\ m >= first
  <2> SUFFICES ASSUME NEW d \in 0..SearchDays, NEW time \in t
               PROVE  /\ (today + d) * DayLength + time \in Int
                      /\ (today + d) * DayLength + time >= first
    BY <1>3
  <2>1. time \in Nat /\ d \in Nat /\ DayLength \in Nat
    BY <1>2, ClockNumbers
  <2>2. d * DayLength \in Nat
    BY <2>1
  <2>3. (today + d) * DayLength = first + d * DayLength
    BY <1>1, <2>1
  <2> HIDE DEF first
  <2>4. first + d * DayLength + time \in Int /\ first + d * DayLength + time >= first
    BY <1>1, <2>1, <2>2
  <2> QED BY <2>3, <2>4
<1>5. later # {}
  <2>1. PICK time \in t : TRUE
    BY <1>2
  <2> DEFINE l == (today + SearchDays) * DayLength + time
             last == (today + SearchDays) * DayLength
  <2>2. l \in Day!Candidates(z, t, after)
    BY <1>3, ClockNumbers
  <2>3. time \in Nat /\ l \in Int
    BY <1>2, <1>4, <2>2
  <2>4. last \in Int /\ last >= first + 2 * DayLength
    <3>1. SearchDays - 2 \in Nat /\ DayLength \in Nat
      BY ClockNumbers
    <3>2. (SearchDays - 2) * DayLength \in Nat
      BY <3>1
    <3>3. last = first + 2 * DayLength + (SearchDays - 2) * DayLength
      BY <1>1, <3>1, ClockNumbers
    <3> DEFINE more == (SearchDays - 2) * DayLength
    <3> HIDE DEF first, last, more
    <3> QED BY <1>1, <3>1, <3>2, <3>3 DEF more
  <2>5. Day!InstantOf(z, l) > after
    <3>1. Day!InstantOf(z, l) \in {l - z.before, l - z.after}
      BY <2>3, Clocks
    <3>2. local = after + z.before \/ local = after + z.after
      BY Clocks DEF local
    <3>3. /\ z.before \in Int /\ z.after \in Int /\ DayLength \in Nat
          /\ z.before - z.after <= DayLength /\ z.after - z.before <= DayLength
      BY ClockNumbers
    <3>4. l = last + time
      OBVIOUS
    <3> DEFINE i == Day!InstantOf(z, l)
               b == z.before
               a == z.after
    <3>5. /\ i = l - b \/ i = l - a
          /\ local = after + b \/ local = after + a
          /\ b \in Int /\ a \in Int /\ b - a <= DayLength /\ a - b <= DayLength
      BY <3>1, <3>2, <3>3
    <3>6. DayLength > 0 /\ DayLength \in Nat
      BY ClockNumbers
    <3> HIDE DEF i, l, last, first, a, b
    <3>7. i > after
      BY <1>1, <2>3, <2>4, <3>4, <3>5, <3>6
    <3> QED BY <3>7 DEF i
  <2> QED BY <2>2, <2>5
<1>6. PICK l \in later : \A m \in later : l <= m
  <2> DEFINE T == {m - first : m \in later}
  <2>1. \A m \in later : m \in Int /\ m >= first
    BY <1>4
  <2> HIDE DEF later, first
  <2>2. T \subseteq Nat /\ T # {}
    BY <1>1, <1>5, <2>1
  <2>3. PICK n \in T : \A m \in T : n <= m
    <3> HIDE DEF T
    <3> QED BY <2>2, LeastOf
  <2>4. PICK l \in later : n = l - first
    BY <2>3
  <2>5. ASSUME NEW m \in later
        PROVE  l <= m
    <3>1. l - first <= m - first
      BY <2>3, <2>4
    <3> QED BY <1>1, <2>1, <3>1
  <2> QED BY <2>5
<1> DEFINE chosen == CHOOSE n \in later : \A m \in later : n <= m
<1>7. chosen \in later /\ \A m \in later : chosen <= m
  <2> HIDE DEF later
  <2> QED BY <1>6
<1>8. Day!NextOccurrence(z, t, after) = Day!InstantOf(z, chosen)
  BY DEF Day!NextOccurrence
<1> HIDE DEF chosen
<1> QED BY <1>7, <1>8

\* A candidate is a time of the timetable, on one of the days searched.
LEMMA CandidateDays ==
    ASSUME NEW z \in Zones, NEW t \in Timetables, NEW after \in Int,
           NEW l \in Day!Candidates(z, t, after)
    PROVE  \E q \in Int, time \in t :
               /\ l = q * DayLength + time
               /\ q >= Day!LocalPartsOf(z, after) \div DayLength
               /\ q <= (Day!LocalPartsOf(z, after) \div DayLength) + SearchDays
<1> DEFINE today == Day!LocalPartsOf(z, after) \div DayLength
<1>1. today \in Int
  BY Clocks, DayAndTime
<1>2. PICK d \in 0..SearchDays, time \in t : l = (today + d) * DayLength + time
  BY DEF Day!Candidates
<1>3. today + d \in Int /\ today + d >= today /\ today + d <= today + SearchDays
  <2> HIDE DEF today
  <2> QED BY <1>1, ClockNumbers
<1> QED BY <1>2, <1>3

\* What NextOccurrence returns.
LEMMA Bookings ==
    ASSUME NEW z \in Zones, NEW t \in Timetables, NEW after \in Int
    PROVE  \E q \in Int, time \in t :
               /\ Day!NextOccurrence(z, t, after) = Day!InstantOf(z, q * DayLength + time)
               /\ Day!NextOccurrence(z, t, after) \in Int
               /\ Day!NextOccurrence(z, t, after) > after
               /\ q * DayLength + time \in Int
<1>1. PICK l \in Day!Candidates(z, t, after) :
          /\ Day!InstantOf(z, l) > after
          /\ Day!NextOccurrence(z, t, after) = Day!InstantOf(z, l)
  BY FirstLater
<1>2. PICK q \in Int, time \in t : l = q * DayLength + time
  BY CandidateDays
<1>3. time \in 0..(DayLength - 1)
  BY ClockNumbers
<1>4. q * DayLength + time \in Int
  BY <1>3, TimeOf
<1>5. Day!InstantOf(z, l) \in Int
  BY <1>2, <1>4, Clocks
<1> QED BY <1>1, <1>2, <1>4, <1>5

\* The instant found for a local time shows it, or the clocks change within the hour of it.
LEMMA ShownOrChanging ==
    ASSUME NEW z \in Zones, NEW l \in Int
    PROVE  \/ Day!LocalPartsOf(z, Day!InstantOf(z, l)) = l
           \/ /\ z.change - Hour(z) <= Day!InstantOf(z, l)
              /\ Day!InstantOf(z, l) < z.change + Hour(z)
<1> DEFINE b == z.before
           a == z.after
           c == z.change
           h == Hour(z)
           o == Day!OffsetAt(z, l)
           x == l - o
           ox == Day!OffsetAt(z, x)
           i == l - ox
           oi == Day!OffsetAt(z, i)
<1>1. /\ b \in Int /\ a \in Int /\ c \in Int /\ h \in Int
      /\ b - a <= h /\ a - b <= h
  BY ClockNumbers, HourFacts
<1>2. o \in {b, a} /\ x \in Int
  BY Clocks
<1>3. ox = (IF x < c THEN b ELSE a) /\ i \in Int
  BY <1>2, Clocks
<1>4. oi = (IF i < c THEN b ELSE a) /\ Day!LocalPartsOf(z, i) = i + oi
  BY <1>3, Clocks
<1>5. Day!InstantOf(z, l) = i
  BY DEF Day!InstantOf
<1> HIDE DEF b, a, c, h, o, ox, oi
<1>6. i + oi = l \/ (c - h <= i /\ i < c + h)
  BY <1>1, <1>2, <1>3, <1>4
<1> QED BY <1>4, <1>5, <1>6 DEF c, h

\* An instant that shows a time of its own is the one found for it.
LEMMA FoundAgain ==
    ASSUME NEW z \in Zones, NEW i \in Int,
           \A j \in (i - Hour(z))..(i + Hour(z)) :
               Day!LocalPartsOf(z, j) = Day!LocalPartsOf(z, i) => j = i
    PROVE  Day!InstantOf(z, Day!LocalPartsOf(z, i)) = i
<1> DEFINE b == z.before
           a == z.after
           h == Hour(z)
           oi == Day!OffsetAt(z, i)
           m == i + oi
           o == Day!OffsetAt(z, m)
           x == m - o
           ox == Day!OffsetAt(z, x)
<1>1. b \in Int /\ a \in Int /\ h \in Int /\ b - a <= h /\ a - b <= h
  BY ClockNumbers, HourFacts
<1>2. oi \in {b, a} /\ m \in Int /\ Day!LocalPartsOf(z, i) = m
  BY Clocks
<1>3. o \in {b, a} /\ x \in Int
  BY <1>2, Clocks
<1>4. ox \in {b, a} /\ Day!LocalPartsOf(z, x) = x + ox
  BY <1>3, Clocks
<1>5. Day!InstantOf(z, m) = m - ox
  BY DEF Day!InstantOf
<1>6. x \in (i - h)..(i + h)
  <2> HIDE DEF b, a, h, oi, o
  <2> QED BY <1>1, <1>2, <1>3
<1>7. x + ox = m => x = i
  BY <1>2, <1>4, <1>6
<1> HIDE DEF b, a, h, oi, o, ox
<1>8. m - ox = i
  BY <1>1, <1>2, <1>3, <1>4, <1>7
<1> QED BY <1>2, <1>5, <1>8

\* A time that the clock shows once, and later than the sweep, is not on a day already searched.
LEMMA NotBefore ==
    ASSUME NEW z \in Zones, NEW i \in Int, NEW after \in Int, i > after,
           \A j \in (i - Hour(z))..(i + Hour(z)) :
               Day!LocalPartsOf(z, j) = Day!LocalPartsOf(z, i) => j = i
    PROVE  Day!LocalPartsOf(z, i) > Day!LocalPartsOf(z, after)
<1> DEFINE b == z.before
           a == z.after
           c == z.change
           h == Hour(z)
           j == i - h
           oi == Day!OffsetAt(z, i)
           oj == Day!OffsetAt(z, j)
           oa == Day!OffsetAt(z, after)
<1>1. /\ b \in Int /\ a \in Int /\ c \in Int /\ h \in Nat
      /\ h = b - a \/ h = a - b
      /\ b - a <= h /\ a - b <= h
  BY ClockNumbers, HourFacts
<1>2. j \in Int /\ j \in (i - h)..(i + h)
  BY <1>1
<1>3. /\ oi = (IF i < c THEN b ELSE a) /\ Day!LocalPartsOf(z, i) = i + oi
      /\ oa = (IF after < c THEN b ELSE a) /\ Day!LocalPartsOf(z, after) = after + oa
      /\ oj = (IF j < c THEN b ELSE a) /\ Day!LocalPartsOf(z, j) = j + oj
  BY <1>2, Clocks
<1>4. j + oj = i + oi => j = i
  BY <1>2, <1>3
<1>5. j = i - h
  OBVIOUS
<1> HIDE DEF b, a, c, h, j, oi, oj, oa
<1>6. i + oi > after + oa
  BY <1>1, <1>2, <1>3, <1>4, <1>5
<1> QED BY <1>3, <1>6

\* The booking is no later than a time that the clock shows once, but for the hour.
LEMMA BookedByThen ==
    ASSUME NEW z \in Zones, NEW t \in Timetables, NEW after \in Int, NEW i \in Int, i > after,
           Day!LocalPartsOf(z, i) % DayLength \in t,
           \A j \in (i - Hour(z))..(i + Hour(z)) :
               Day!LocalPartsOf(z, j) = Day!LocalPartsOf(z, i) => j = i
    PROVE  Day!NextOccurrence(z, t, after) <= i + Hour(z)
<1> DEFINE m == Day!LocalPartsOf(z, i)
           local == Day!LocalPartsOf(z, after)
           today == local \div DayLength
           k == m \div DayLength
           time == m % DayLength
<1>1. /\ m \in Int /\ local \in Int /\ Day!InstantOf(z, m) = i
      /\ m > local /\ time \in t
  <2>1. m \in Int /\ local \in Int
    BY Clocks
  <2>2. Day!InstantOf(z, m) = i
    BY FoundAgain
  <2>3. m > local
    BY NotBefore
  <2> QED BY <2>1, <2>2, <2>3
<1>2. /\ k \in Int /\ m = k * DayLength + time /\ time \in 0..(DayLength - 1)
      /\ today \in Int /\ local = today * DayLength + (local % DayLength)
      /\ local % DayLength \in 0..(DayLength - 1)
  <2> HIDE DEF m, local
  <2> QED BY <1>1, DayAndTime
<1>3. PICK l \in Day!Candidates(z, t, after) :
          /\ Day!NextOccurrence(z, t, after) = Day!InstantOf(z, l)
          /\ \A n \in Day!Candidates(z, t, after) : Day!InstantOf(z, n) > after => l <= n
  BY FirstLater
<1>4. PICK q \in Int, s \in t : l = q * DayLength + s /\ q <= today + SearchDays
  BY CandidateDays
<1>5. s \in 0..(DayLength - 1) /\ l \in Int
  <2>1. s \in 0..(DayLength - 1)
    BY ClockNumbers
  <2> QED BY <1>4, <2>1, TimeOf
<1>6. k >= today
  <2> SUFFICES ASSUME k < today PROVE FALSE
    BY <1>2
  <2>1. /\ k * DayLength \in Int /\ today * DayLength \in Int
        /\ today * DayLength >= k * DayLength + DayLength
    <3> HIDE DEF k, today
    <3> QED BY <1>2, DaysDiffer
  <2> DEFINE kd == k * DayLength
             td == today * DayLength
             r == local % DayLength
  <2>2. m = kd + time /\ local = td + r /\ time \in 0..(DayLength - 1) /\ r \in 0..(DayLength - 1)
    BY <1>2
  <2> HIDE DEF kd, td, r, time, m, local
  <2> QED BY <1>1, <2>1, <2>2, ClockNumbers DEF kd, td
<1>7. l <= m
  <2>1. CASE k <= today + SearchDays
    <3> DEFINE d == k - today
    <3>1. d \in 0..SearchDays /\ today + d = k
      <4> HIDE DEF k, today
      <4> QED BY <1>2, <1>6, <2>1, ClockNumbers
    <3>2. m = (today + d) * DayLength + time
      <4> HIDE DEF d, k, today, m, time
      <4> QED BY <1>2, <3>1
    <3>3. m \in Day!Candidates(z, t, after)
      <4> HIDE DEF d, m, time
      <4> QED BY <1>1, <3>1, <3>2 DEF Day!Candidates
    <3> QED BY <1>1, <1>3, <3>3
  <2>2. CASE k > today + SearchDays
    <3>1. k > q
      <4> HIDE DEF k, today
      <4> QED BY <1>2, <1>4, <2>2, ClockNumbers
    <3>2. /\ k * DayLength \in Int /\ q * DayLength \in Int
          /\ k * DayLength >= q * DayLength + DayLength
      <4> HIDE DEF k
      <4> QED BY <1>2, <3>1, DaysDiffer
    <3> DEFINE kd == k * DayLength
               qd == q * DayLength
    <3>3. m = kd + time /\ l = qd + s
      BY <1>2, <1>4
    <3> HIDE DEF kd, qd, m, time
    <3> QED BY <1>2, <1>5, <3>2, <3>3, ClockNumbers DEF kd, qd
  <2> QED BY <1>2, <2>1, <2>2, ClockNumbers
<1> DEFINE b == z.before
           a == z.after
           h == Hour(z)
           booking == Day!InstantOf(z, l)
<1>8. booking \in {l - b, l - a}
  BY <1>5, Clocks
<1>9. m = i + b \/ m = i + a
  BY Clocks
<1>10. b \in Int /\ a \in Int /\ h \in Nat /\ b - a <= h /\ a - b <= h
  BY ClockNumbers, HourFacts
<1> HIDE DEF b, a, h, booking, m
<1>11. booking <= i + h
  BY <1>1, <1>5, <1>7, <1>8, <1>9, <1>10
<1> QED BY <1>3, <1>11 DEF booking, h

\* Two bookings of one time of day are of different days, and a day is as long as it is.
LEMMA DaysApart ==
    ASSUME NEW z \in Zones, NEW p \in Int, NEW q \in Int, NEW time \in 0..(DayLength - 1),
           Day!InstantOf(z, q * DayLength + time) > Day!InstantOf(z, p * DayLength + time)
    PROVE  Day!InstantOf(z, q * DayLength + time) - Day!InstantOf(z, p * DayLength + time)
               >= DayLength - Hour(z)
<1> DEFINE pd == p * DayLength
           qd == q * DayLength
           first == Day!InstantOf(z, pd + time)
           second == Day!InstantOf(z, qd + time)
           b == z.before
           a == z.after
           h == Hour(z)
<1>1. pd \in Int /\ qd \in Int /\ pd + time \in Int /\ qd + time \in Int
  BY ClockNumbers, TimeOf
<1>2. /\ first \in {(pd + time) - b, (pd + time) - a}
      /\ second \in {(qd + time) - b, (qd + time) - a}
  <2> DEFINE f == pd + time
             g == qd + time
  <2>1. f \in Int /\ g \in Int
    BY <1>1
  <2> HIDE DEF f, g
  <2>2. Day!InstantOf(z, f) \in {f - b, f - a} /\ Day!InstantOf(z, g) \in {g - b, g - a}
    BY <2>1, Clocks
  <2> HIDE DEF pd, qd, b, a
  <2> QED BY <2>2, Zenon DEF f, g
<1>3. b \in Int /\ a \in Int /\ h \in Nat /\ b - a <= h /\ a - b <= h /\ h <= DayLength
  BY ClockNumbers, HourFacts
<1>4. p # q
  <2> SUFFICES ASSUME p = q PROVE FALSE
    OBVIOUS
  <2>1. first = second /\ second > first
    OBVIOUS
  <2>2. first \in Int
    <3> HIDE DEF pd, qd, first, second, b, a
    <3> QED BY <1>1, <1>2, <1>3
  <2> HIDE DEF first, second
  <2> QED BY <2>1, <2>2
<1>5. CASE q > p
  <2>1. qd >= pd + DayLength
    BY <1>5, DaysDiffer
  <2> HIDE DEF pd, qd, first, second, b, a, h
  <2>2. second - first >= DayLength - h
    BY <1>1, <1>2, <1>3, <2>1, ClockNumbers
  <2> QED BY <2>2 DEF pd, qd, first, second, h
<1>6. CASE p > q
  <2>1. pd >= qd + DayLength
    BY <1>6, DaysDiffer
  <2>2. second > first
    OBVIOUS
  <2> HIDE DEF pd, qd, first, second, b, a, h
  <2>3. FALSE
    BY <1>1, <1>2, <1>3, <2>1, <2>2, ClockNumbers
  <2> QED BY <2>3
<1> QED BY <1>4, <1>5, <1>6

\* The booking is the first occurrence after the sweep that made it, and the one before it
\* was an occurrence too.
DayInv ==
    /\ zone \in Zones /\ times \in Timetables
    /\ now \in Int /\ swept \in Int /\ previous \in Int
    /\ FirstDay <= previous /\ previous <= swept /\ swept <= now /\ now <= LastInstant
    /\ booked = Day!NextOccurrence(zone, times, swept)
    /\ \/ previous = FirstDay
       \/ \E p \in Int, time \in times : previous = Day!InstantOf(zone, p * DayLength + time)

LEMMA DayInit == Day!Init => DayInv
<1> SUFFICES ASSUME Day!Init PROVE DayInv
  OBVIOUS
<1>1. /\ zone \in Zones /\ times \in Timetables
      /\ now = FirstDay /\ previous = FirstDay /\ swept = FirstDay
      /\ booked = Day!NextOccurrence(zone, times, FirstDay)
  BY DEF Day!Init
<1>2. FirstDay \in Int /\ FirstDay <= LastInstant
  BY ClockNumbers
<1> QED BY <1>1, <1>2 DEF DayInv

LEMMA DayStep == DayInv /\ [Day!Next]_(Day!vars) => DayInv'
<1> SUFFICES ASSUME DayInv, [Day!Next]_(Day!vars) PROVE DayInv'
  OBVIOUS
<1>1. /\ zone \in Zones /\ times \in Timetables
      /\ now \in Int /\ swept \in Int /\ previous \in Int
      /\ FirstDay <= previous /\ previous <= swept /\ swept <= now /\ now <= LastInstant
      /\ booked = Day!NextOccurrence(zone, times, swept)
  BY DEF DayInv
<1>2. \/ previous = FirstDay
      \/ \E p \in Int, time \in times : previous = Day!InstantOf(zone, p * DayLength + time)
  BY DEF DayInv
<1>3. FirstDay \in Int /\ LastInstant \in Int
  BY ClockNumbers
<1>4. CASE Day!Reschedule
  <2>1. /\ booked <= now
        /\ booked' = Day!NextOccurrence(zone, times, now)
        /\ previous' = booked /\ swept' = now
        /\ zone' = zone /\ times' = times /\ now' = now
    BY <1>4 DEF Day!Reschedule
  <2>2. PICK p \in Int, time \in times :
            /\ booked = Day!InstantOf(zone, p * DayLength + time)
            /\ booked \in Int /\ booked > swept
    BY <1>1, Bookings
  <2>3. /\ zone' \in Zones /\ times' \in Timetables
        /\ now' \in Int /\ swept' \in Int /\ previous' \in Int
        /\ swept' <= now' /\ now' <= LastInstant
        /\ booked' = Day!NextOccurrence(zone', times', swept')
    BY <1>1, <2>1, <2>2
  <2>4. FirstDay <= previous' /\ previous' <= swept'
    BY <1>1, <1>3, <2>1, <2>2
  <2>5. \E r \in Int, s \in times' : previous' = Day!InstantOf(zone', r * DayLength + s)
    BY <2>1, <2>2
  <2> QED BY <2>3, <2>4, <2>5 DEF DayInv
<1>5. CASE Day!Tick
  <2>1. /\ now < LastInstant /\ now' = now + 1
        /\ zone' = zone /\ times' = times /\ booked' = booked
        /\ previous' = previous /\ swept' = swept
    BY <1>5 DEF Day!Tick
  <2>2. now' \in Int /\ swept' <= now' /\ now' <= LastInstant
    BY <1>1, <1>3, <2>1
  <2>3. /\ zone' \in Zones /\ times' \in Timetables
        /\ swept' \in Int /\ previous' \in Int
        /\ FirstDay <= previous' /\ previous' <= swept'
        /\ booked' = Day!NextOccurrence(zone', times', swept')
    BY <1>1, <2>1
  <2>4. \/ previous' = FirstDay
        \/ \E r \in Int, s \in times' : previous' = Day!InstantOf(zone', r * DayLength + s)
    BY <1>2, <2>1
  <2> QED BY <2>2, <2>3, <2>4 DEF DayInv
<1>6. CASE UNCHANGED Day!vars
  <2>1. /\ zone' = zone /\ times' = times /\ now' = now /\ booked' = booked
        /\ previous' = previous /\ swept' = swept
    BY <1>6 DEF Day!vars
  <2>2. /\ zone' \in Zones /\ times' \in Timetables
        /\ now' \in Int /\ swept' \in Int /\ previous' \in Int
        /\ FirstDay <= previous' /\ previous' <= swept' /\ swept' <= now' /\ now' <= LastInstant
        /\ booked' = Day!NextOccurrence(zone', times', swept')
    BY <1>1, <2>1
  <2>3. \/ previous' = FirstDay
        \/ \E r \in Int, s \in times' : previous' = Day!InstantOf(zone', r * DayLength + s)
    BY <1>2, <2>1
  <2> QED BY <2>2, <2>3 DEF DayInv
<1> QED BY <1>4, <1>5, <1>6 DEF Day!Next

LEMMA DayHolds ==
    DayInv => /\ Day!TypeOK /\ Day!BookedOnTheClock
              /\ Day!NothingPassedOver /\ Day!OncePerDay
<1> SUFFICES ASSUME DayInv
             PROVE  /\ Day!TypeOK /\ Day!BookedOnTheClock
                    /\ Day!NothingPassedOver /\ Day!OncePerDay
  OBVIOUS
<1>1. /\ zone \in Zones /\ times \in Timetables
      /\ now \in Int /\ swept \in Int /\ previous \in Int
      /\ FirstDay <= previous /\ previous <= swept /\ swept <= now /\ now <= LastInstant
      /\ booked = Day!NextOccurrence(zone, times, swept)
  BY DEF DayInv
<1>2. PICK q \in Int, time \in times :
          /\ booked = Day!InstantOf(zone, q * DayLength + time)
          /\ booked \in Int /\ booked > swept
          /\ q * DayLength + time \in Int
  BY <1>1, Bookings
<1>3. times \subseteq 0..(DayLength - 1) /\ FirstDay \in Int /\ LastInstant \in Int
  BY <1>1, ClockNumbers
<1>4. Day!Shift = Hour(zone)
  BY DEF Day!Shift, Hour
<1>5. Day!TypeOK
  <2>1. {now, previous, swept} \subseteq FirstDay..LastInstant
    BY <1>1, <1>3
  <2> QED BY <1>1, <1>2, <2>1 DEF Day!TypeOK
<1>6. Day!BookedOnTheClock
  <2> DEFINE l == q * DayLength + time
  <2>1. l % DayLength = time
    BY <1>3, TimeOf
  <2>2. \/ Day!LocalPartsOf(zone, booked) = l
        \/ zone.change - Hour(zone) <= booked /\ booked < zone.change + Hour(zone)
    <3>1. l \in Int /\ booked = Day!InstantOf(zone, l)
      BY <1>2
    <3> HIDE DEF l
    <3> QED BY <1>1, <3>1, ShownOrChanging
  <2> HIDE DEF l
  <2> QED BY <1>4, <2>1, <2>2 DEF Day!BookedOnTheClock
<1>7. Day!NothingPassedOver
  <2> SUFFICES ASSUME NEW i \in Day!Named, i > swept PROVE booked <= i + Day!Shift
    BY DEF Day!NothingPassedOver
  <2>1. /\ i \in FirstDay..(LastInstant + DayLength)
        /\ Day!LocalPartsOf(zone, i) % DayLength \in times
        /\ \A j \in (i - Hour(zone))..(i + Hour(zone)) :
               Day!LocalPartsOf(zone, j) = Day!LocalPartsOf(zone, i) => j = i
    BY <1>4 DEF Day!Named
  <2>2. i \in Int
    BY <1>3, <2>1, ClockNumbers
  <2> QED BY <1>1, <1>4, <2>1, <2>2, BookedByThen
<1>8. Day!OncePerDay
  <2> SUFFICES ASSUME Day!Cardinality(times) = 1, previous > FirstDay
               PROVE  booked - previous >= DayLength - Day!Shift
    BY DEF Day!OncePerDay
  <2>1. previous # FirstDay
    BY <1>1, <1>3
  <2>2. PICK p \in Int, s \in times : previous = Day!InstantOf(zone, p * DayLength + s)
    BY <2>1 DEF DayInv
  <2>3. s = time
    <3>1. Cardinality(times) = 1
      BY DEF Day!Cardinality, Cardinality
    <3>2. IsFiniteSet(times)
      <4>1. 0 \in Int /\ DayLength - 1 \in Int
        BY ClockNumbers
      <4>2. IsFiniteSet(0..(DayLength - 1))
        BY <4>1, FS_Interval
      <4> QED BY <1>3, <4>2, FS_Subset
    <3>3. times = {time}
      BY <3>1, <3>2, FS_Singleton
    <3> QED BY <3>3
  <2>4. booked > previous
    BY <1>1, <1>2
  <2> QED BY <1>1, <1>2, <1>3, <1>4, <2>2, <2>3, <2>4, DaysApart
<1> QED BY <1>5, <1>6, <1>7, <1>8

--------------------------------------------------------------------------------
(* A behaviour runs one part. *)

Inv ==
    /\ part \in {"sweeps", "addresses"} => RoomsInv
    /\ part = "zone" => DayInv
    /\ part = "streak" => StreakInv
    /\ part = "ledger" => LedgerInv
    /\ part = "limit" => LimitInv
    /\ part = "pulse" => PulseInv

LEMMA InitInv == Init => Inv
<1> HAVE Init
<1>1. part # "zone" => now = 0
  BY DEF Init
<1>2. part \in {"sweeps", "addresses"} => RoomsInv
  BY <1>1, RoomsInit DEF Init
<1>3. part = "zone" => DayInv
  BY DayInit DEF Init
<1>4. part = "streak" => StreakInv
  BY <1>1, StreakInit DEF Init
<1>5. part = "ledger" => LedgerInv
  BY LedgerInit DEF Init
<1>6. part = "limit" => LimitInv
  BY LimitInit DEF Init
<1>7. part = "pulse" => PulseInv
  BY <1>1, PulseInit DEF Init
<1> QED BY <1>2, <1>3, <1>4, <1>5, <1>6, <1>7 DEF Inv

\* A step of the module is one of the part that runs, or leaves it alone.
LEMMA OneRuns ==
    ASSUME [Next]_vars
    PROVE  /\ part' = part
           /\ part \in {"sweeps", "addresses"} => [Sched!Next]_(Sched!vars)
           /\ part = "zone" => [Day!Next]_(Day!vars)
           /\ part = "streak" => [Habit!Next]_(Habit!vars)
           /\ part = "ledger" => [Standing!Next]_(Standing!vars)
           /\ part = "limit" => [Calls!Next]_(Calls!vars)
           /\ part = "pulse" => [Mood!Next]_(Mood!vars)
<1>1. CASE Next
  <2>1. part' = part
    BY <1>1 DEF Next
  <2>2. part \in {"sweeps", "addresses"} => Sched!Next
    BY <1>1 DEF Next
  <2>3. part = "zone" => Day!Next
    BY <1>1 DEF Next
  <2>4. part = "streak" => Habit!Next
    BY <1>1 DEF Next
  <2>5. part = "ledger" => Standing!Next
    BY <1>1 DEF Next
  <2>6. part = "limit" => Calls!Next
    BY <1>1 DEF Next
  <2>7. part = "pulse" => Mood!Next
    BY <1>1 DEF Next
  <2> QED BY <2>1, <2>2, <2>3, <2>4, <2>5, <2>6, <2>7
<1>2. CASE UNCHANGED vars
  <2>1. /\ part' = part /\ now' = now /\ UNCHANGED scheduleVars /\ UNCHANGED zoneVars
        /\ UNCHANGED streakVars /\ UNCHANGED ledgerVars /\ UNCHANGED limitVars
        /\ UNCHANGED pulseVars
    BY <1>2 DEF vars
  <2>2. UNCHANGED Sched!vars
    BY <2>1 DEF scheduleVars, Sched!vars
  <2>3. UNCHANGED Day!vars
    BY <2>1 DEF zoneVars, Day!vars
  <2>4. UNCHANGED Habit!vars
    BY <2>1 DEF streakVars, Habit!vars
  <2>5. UNCHANGED Standing!vars
    BY <2>1 DEF ledgerVars, Standing!vars
  <2>6. UNCHANGED Calls!vars
    BY <2>1 DEF limitVars, Calls!vars
  <2>7. UNCHANGED Mood!vars
    BY <2>1 DEF pulseVars, Mood!vars
  <2> QED BY <2>1, <2>2, <2>3, <2>4, <2>5, <2>6, <2>7
<1> QED BY <1>1, <1>2

LEMMA StepInv == Inv /\ [Next]_vars => Inv'
<1> SUFFICES ASSUME Inv, [Next]_vars PROVE Inv'
  OBVIOUS
<1>1. part' = part
  BY OneRuns
<1>2. part \in {"sweeps", "addresses"} => RoomsInv'
  BY OneRuns, RoomsStep DEF Inv
<1>3. part = "zone" => DayInv'
  BY OneRuns, DayStep DEF Inv
<1>4. part = "streak" => StreakInv'
  BY OneRuns, StreakStep DEF Inv
<1>5. part = "ledger" => LedgerInv'
  BY OneRuns, LedgerStep DEF Inv
<1>6. part = "limit" => LimitInv'
  BY OneRuns, LimitStep DEF Inv
<1>7. part = "pulse" => PulseInv'
  BY OneRuns, PulseStep DEF Inv
<1> QED BY <1>1, <1>2, <1>3, <1>4, <1>5, <1>6, <1>7 DEF Inv

LEMMA Always == Spec => []Inv
<1>1. Init => Inv
  BY InitInv
<1>2. Inv /\ [Next]_vars => Inv'
  BY StepInv
<1> QED BY <1>1, <1>2, PTL DEF Spec

\* Servers that sweep at once, or come back after a crash, open a scheduled room once for an
\* occurrence, skip a backlog, and announce an opening once unless the winner of the claim failed
\* before it could: the claim is one statement that moves the occurrence it compares
\* (OpenScheduledRooms.ts:21-34, 97-115).  What is live is open, and no two rooms have one address,
\* however creations overlap (CreateRoom.ts:151-158).  For any rooms, servers and expressions.
THEOREM OpenOnce == Spec => []RoomsOpenOnce
<1>1. Inv => RoomsOpenOnce
  BY RoomsHold DEF Inv, RoomsOpenOnce
<1> QED BY <1>1, Always, PTL

\* Whichever way the clocks of its zone change, a room is booked for a time of its schedule or
\* within the hour of the change; a time that the clock shows once is not passed over by more
\* than that hour; and a room with one time of day opens once a day (schedule.ts:289-308).  For
\* any offsets no more than a day apart, any instant of the change and any timetable.
THEOREM FollowTheClock == Spec => []RoomsFollowTheClock
<1>1. Inv => RoomsFollowTheClock
  BY DayHolds DEF Inv, RoomsFollowTheClock
<1> QED BY <1>1, Always, PTL

\* Whatever joins overlapped, of a person who may move between zones, every day a streak spans
\* was shown up on but for one that the freeze paid for, and the screen shows a streak as alive
\* exactly when a join now would continue it (streaks.ts:166-179, 203-217).
THEOREM TrueStreaks == Spec => []StreaksAreTrue
<1>1. Inv => StreaksAreTrue
  BY StreakHolds DEF Inv, StreaksAreTrue
<1> QED BY <1>1, Always, PTL

\* The score is the clamped sum of the ledger whenever the last writer saw the whole of it
\* (trust.ts:11-13), and nobody is restricted by fewer than three kicks alone, in whatever order
\* and overlap the events were written (trust.ts:48-55).  For any deltas in which two kicks leave
\* the starting balance no lower than zero and only a report or a ban takes away besides.
THEOREM EarnedStanding == Spec => []StandingIsEarned
<1>1. Inv => StandingIsEarned
  BY LedgerHolds DEF Inv, StandingIsEarned
<1> QED BY <1>1, Always, PTL

\* No span as long as a window lets through more than twice the limit, and a call is refused
\* only when as many as the limit were used in the window before it, calls whose answer was lost
\* included (RedisRateLimiter.ts:21-28, 57-60).  For any limit and window.
THEOREM KeptLimits == Spec => []LimitsAreKept
<1>1. Inv => LimitsAreKept
  BY LimitHolds DEF Inv, LimitsAreKept
<1> QED BY <1>1, Always, PTL

\* A vote counts for its window, and a room where nobody voted for as long says nothing
\* (RedisRoomPulseStore.ts:26-31); what is told is of at least as many people as the floor asks,
\* all of whom voted, and its shares are of them (roomFeeling.ts:118-134).  For any people,
\* feelings, window and floor.
THEOREM CountedVotes == Spec => []VotesAreCounted
<1>1. Inv => VotesAreCounted
  BY PulseHolds DEF Inv, VotesAreCounted
<1> QED BY <1>1, Always, PTL

\* What the server counts is right: a room opened by a sweep (OpenScheduledRooms.ts:21-34), the
\* instant of a schedule (schedule.ts:289-308), a streak (streaks.ts:166-179), a score
\* (trust.ts:11-13, 48-55), a limit (RedisRateLimiter.ts:21-28) and a vote
\* (RedisRoomPulseStore.ts:26-31).
THEOREM CountsHold == Spec => []ClocksHold
<1>1. /\ RoomsOpenOnce /\ RoomsFollowTheClock /\ StreaksAreTrue
      /\ StandingIsEarned /\ LimitsAreKept /\ VotesAreCounted
      => ClocksHold
  BY DEF ClocksHold
<1> QED
  BY <1>1, OpenOnce, FollowTheClock, TrueStreaks, EarnedStanding, KeptLimits, CountedVotes, PTL

================================================================================
