--------------------------- MODULE AggregateProofs ---------------------------
(***************************************************************************)
(* What push returns and what the rules make of it, as facts to cite: the  *)
(* least and the greatest of a set of indices, the sum of temperatures     *)
(* over a set, and that a window and the same stretch of a longer history  *)
(* fire the same rules.                                                    *)
(*                                                                         *)
(* MapThenSumSet takes away one chosen element after the other.  That its  *)
(* value does not depend on the choices is by induction over the size of   *)
(* the set, each time with the set of the sizes for which it holds.        *)
(***************************************************************************)
EXTENDS SlidingWindow, SequenceTheorems, FiniteSetTheorems, WellFoundedInduction, TLAPS

(* A set of naturals with 0 and with every successor has all of them: what *)
(* is left out would have a least element.                                 *)
LEMMA NatSetInduction ==
    ASSUME NEW S \in SUBSET Nat, 0 \in S, \A n \in S : n + 1 \in S
    PROVE  S = Nat
<1> SUFFICES ASSUME S # Nat PROVE FALSE
  OBVIOUS
<1> DEFINE T == Nat \ S
<1>1. \E m \in T : \A k \in T : ~ (<<k, m>> \in OpToRel(<, Nat))
  <2>1. T \subseteq Nat /\ T # {}
    OBVIOUS
  <2> HIDE DEF T
  <2> QED
    BY <2>1, WFMin, NatLessThanWellFounded
<1>2. PICK m \in T : \A k \in T : ~ (k < m)
  BY <1>1 DEF OpToRel
<1>3. m - 1 \in S
  BY <1>2
<1>4. m - 1 + 1 \in S
  BY <1>3
<1> QED
  BY <1>4, <1>2

(* A set of indices that is not empty has a least and a greatest element.  *)
LEMMA MinOfIndices ==
    ASSUME NEW S \in SUBSET Nat, S # {}
    PROVE  Min(S) \in S /\ \A y \in S : Min(S) <= y
<1>1. \E m \in S : \A k \in S : ~ (<<k, m>> \in OpToRel(<, Nat))
  BY WFMin, NatLessThanWellFounded
<1>2. PICK m \in S : \A k \in S : ~ (k < m)
  BY <1>1 DEF OpToRel
<1>3. \A k \in S : m <= k
  BY <1>2
<1> QED
  BY <1>3 DEF Min

LEMMA MaxOfIndices ==
    ASSUME NEW n \in Nat, NEW S \in SUBSET (1 .. n), S # {}
    PROVE  Max(S) \in S /\ \A y \in S : y <= Max(S)
<1> DEFINE T == {n - x : x \in S}
<1>1. T \in SUBSET Nat /\ T # {}
  <2>1. \A x \in S : x \in 1 .. n
    OBVIOUS
  <2>2. \A x \in S : n - x \in Nat
    BY <2>1
  <2>3. PICK x \in S : TRUE
    OBVIOUS
  <2>4. n - x \in T
    OBVIOUS
  <2> QED
    BY <2>2, <2>4
<1>2. Min(T) \in T /\ \A y \in T : Min(T) <= y
  <2> HIDE DEF T
  <2> QED
    BY <1>1, MinOfIndices
<1>3. PICK x \in S : Min(T) = n - x
  BY <1>2
<1>4. \A y \in S : n - x <= n - y
  BY <1>2, <1>3
<1>5. \A y \in S : x >= y
  BY <1>4
<1> QED
  BY <1>5 DEF Max

(* What is in the set and not above the rest is its minimum; MaxIs the     *)
(* same for the maximum.                                                   *)
LEMMA MinIs ==
    ASSUME NEW S \in SUBSET Int, NEW x \in S, \A y \in S : x <= y
    PROVE  Min(S) = x
<1>1. Min(S) \in S /\ \A y \in S : Min(S) <= y
  BY DEF Min
<1>2. Min(S) \in Int /\ x \in Int /\ Min(S) <= x /\ x <= Min(S)
  BY <1>1
<1> QED
  BY <1>2

LEMMA MaxIs ==
    ASSUME NEW S \in SUBSET Int, NEW x \in S, \A y \in S : y <= x
    PROVE  Max(S) = x
<1>1. Max(S) \in S /\ \A y \in S : y <= Max(S)
  BY DEF Max
<1>2. Max(S) \in Int /\ x \in Int /\ Max(S) <= x /\ x <= Max(S)
  BY <1>1
<1> QED
  BY <1>2

(* The function by which MapThenSumSet sums the temperatures of h over the *)
(* subsets of I, and the sum itself.                                       *)
Iterates(h, I, g) ==
    g = [s \in SUBSET I |->
           IF s = {} THEN 0
           ELSE LET x == CHOOSE x \in s : TRUE
                IN h[x].temp + g[s \ {x}]]
SumTemp(h, I) == (CHOOSE g : Iterates(h, I, g))[I]

(* There is such a function: from one for the sets of n elements the one   *)
(* for n + 1 is defined outright.                                          *)
LEMMA IteratesExists ==
    ASSUME NEW h, NEW I, IsFiniteSet(I)
    PROVE  \E g : Iterates(h, I, g)
<1> DEFINE N == Cardinality(I)
           Sub(n) == {s \in SUBSET I : Cardinality(s) <= n}
           Step(g, s) == IF s = {} THEN 0
                         ELSE LET x == CHOOSE x \in s : TRUE
                              IN h[x].temp + g[s \ {x}]
           Good == {n \in Nat : \E g : g = [s \in Sub(n) |-> Step(g, s)]}
<1>1. \A s \in SUBSET I : IsFiniteSet(s) /\ Cardinality(s) \in Nat /\ Cardinality(s) <= N
  BY FS_Subset, FS_CardinalityType
<1>2. 0 \in Good
  <2>1. \A s \in Sub(0) : s = {}
    BY <1>1, FS_EmptySet
  <2> DEFINE g == [s \in Sub(0) |-> 0]
  <2>2. g = [s \in Sub(0) |-> Step(g, s)]
    <3>1. \A s \in Sub(0) : Step(g, s) = 0
      BY <2>1
    <3> HIDE DEF Step
    <3> QED
      BY <3>1
  <2> QED
    BY <2>2
<1>3. ASSUME NEW n \in Good PROVE n + 1 \in Good
  <2>1. PICK g : g = [s \in Sub(n) |-> Step(g, s)]
    OBVIOUS
  <2> DEFINE f == [s \in Sub(n + 1) |-> Step(g, s)]
  <2>2. ASSUME NEW s \in Sub(n) PROVE f[s] = g[s]
    <3>1. s \in Sub(n + 1)
      BY <1>1
    <3>2. f[s] = Step(g, s)
      BY <3>1
    <3>3. g[s] = Step(g, s)
      <4> HIDE DEF Step, Sub
      <4> QED
        BY <2>1
    <3> QED
      BY <3>2, <3>3
  <2>3. ASSUME NEW s \in Sub(n + 1) PROVE Step(f, s) = Step(g, s)
    <3>1. CASE s = {}
      BY <3>1
    <3>2. CASE s # {}
      <4> DEFINE x == CHOOSE x \in s : TRUE
      <4>1. x \in s
        BY <3>2
      <4>2. s \ {x} \in Sub(n)
        <5>1. Cardinality(s \ {x}) = Cardinality(s) - 1
          BY <1>1, <4>1, FS_RemoveElement
        <5> QED
          BY <1>1, <5>1
      <4>3. f[s \ {x}] = g[s \ {x}]
        BY <2>2, <4>2
      <4> QED
        BY <3>2, <4>3
    <3> QED
      BY <3>1, <3>2
  <2>4. f = [s \in Sub(n + 1) |-> Step(f, s)]
    <3> HIDE DEF Step, Sub
    <3> QED
      BY <2>3
  <2> HIDE DEF Step, Sub, f
  <2> QED
    BY <2>4
<1>4. N \in Good
  <2>1. N \in Nat
    BY FS_CardinalityType
  <2> HIDE DEF Sub, Step, N
  <2>2. Good \in SUBSET Nat
    OBVIOUS
  <2> HIDE DEF Good
  <2>3. Good = Nat
    BY <2>2, <1>2, <1>3, NatSetInduction
  <2> QED
    BY <2>1, <2>3
<1>5. Sub(N) = SUBSET I
  BY <1>1
<1>6. PICK g : g = [s \in Sub(N) |-> Step(g, s)]
  <2> HIDE DEF Sub, Step, N
  <2> QED
    BY <1>4
<1>7. Iterates(h, I, g)
  BY <1>5, <1>6 DEF Iterates
<1> QED
  BY <1>7

(* So the sum is the value of one of them at I,                            *)
LEMMA SumIterates ==
    ASSUME NEW h, NEW I, IsFiniteSet(I)
    PROVE  \E g : Iterates(h, I, g) /\ SumTemp(h, I) = g[I]
<1>1. Iterates(h, I, CHOOSE g : Iterates(h, I, g))
  BY IteratesExists
<1> QED
  BY <1>1 DEF SumTemp

(* and those for different sets agree where both are defined.              *)
LEMMA IteratesAgree ==
    ASSUME NEW h, NEW I, IsFiniteSet(I), NEW J \in SUBSET I,
           NEW f, Iterates(h, I, f), NEW g, Iterates(h, J, g)
    PROVE  \A s \in SUBSET J : f[s] = g[s]
<1> DEFINE Sub(n) == {s \in SUBSET J : Cardinality(s) <= n}
           Good == {n \in Nat : \A s \in Sub(n) : f[s] = g[s]}
           At(e, s) == IF s = {} THEN 0
                       ELSE LET x == CHOOSE x \in s : TRUE
                            IN h[x].temp + e[s \ {x}]
<1>1. \A s \in SUBSET J : IsFiniteSet(s) /\ Cardinality(s) \in Nat
  BY FS_Subset, FS_CardinalityType
<1>2. \A s \in SUBSET J : f[s] = At(f, s) /\ g[s] = At(g, s)
  BY DEF Iterates
<1>3. 0 \in Good
  <2>1. \A s \in Sub(0) : s = {}
    BY <1>1, FS_EmptySet
  <2>2. f[{}] = 0 /\ g[{}] = 0
    BY <1>2
  <2> QED
    BY <2>1, <2>2
<1>4. ASSUME NEW n \in Good PROVE n + 1 \in Good
  <2> SUFFICES ASSUME NEW s \in Sub(n + 1) PROVE f[s] = g[s]
    OBVIOUS
  <2>1. CASE s = {}
    BY <1>2, <2>1
  <2>2. CASE s # {}
    <3> DEFINE x == CHOOSE x \in s : TRUE
    <3>1. x \in s
      BY <2>2
    <3>2. s \ {x} \in Sub(n)
      <4>1. Cardinality(s \ {x}) = Cardinality(s) - 1
        BY <1>1, <3>1, FS_RemoveElement
      <4> QED
        BY <1>1, <4>1
    <3>3. f[s \ {x}] = g[s \ {x}]
      <4> HIDE DEF Sub
      <4> QED
        BY <3>2
    <3>4. f[s] = h[x].temp + f[s \ {x}] /\ g[s] = h[x].temp + g[s \ {x}]
      BY <1>2, <2>2
    <3> QED
      BY <3>3, <3>4
  <2> QED
    BY <2>1, <2>2
<1>5. Good = Nat
  <2>1. Good \in SUBSET Nat
    OBVIOUS
  <2> HIDE DEF Good
  <2> QED
    BY <1>3, <1>4, <2>1, NatSetInduction
<1>6. ASSUME NEW s \in SUBSET J PROVE f[s] = g[s]
  <2>1. Cardinality(s) \in Good
    BY <1>1, <1>5
  <2> QED
    BY <2>1, <1>1
<1> QED
  BY <1>6

(* The sum is the element chosen first and the sum of the rest.            *)
LEMMA SumChosen ==
    ASSUME NEW h, NEW I, IsFiniteSet(I), I # {}
    PROVE  LET x == CHOOSE x \in I : TRUE
           IN SumTemp(h, I) = h[x].temp + SumTemp(h, I \ {x})
<1> DEFINE x == CHOOSE x \in I : TRUE
<1>1. IsFiniteSet(I \ {x})
  BY FS_RemoveElement
<1>2. PICK f : Iterates(h, I, f) /\ SumTemp(h, I) = f[I]
  BY SumIterates
<1>3. PICK g : Iterates(h, I \ {x}, g) /\ SumTemp(h, I \ {x}) = g[I \ {x}]
  <2> HIDE DEF x
  <2> QED
    BY <1>1, SumIterates
<1>4. f[I \ {x}] = g[I \ {x}]
  <2> HIDE DEF x
  <2> QED
    BY <1>2, <1>3, IteratesAgree
<1>5. f[I] = h[x].temp + f[I \ {x}]
  BY <1>2 DEF Iterates
<1> QED
  BY <1>2, <1>3, <1>4, <1>5

(* Nothing sums to 0.                                                      *)
LEMMA SumEmpty == ASSUME NEW h PROVE SumTemp(h, {}) = 0
<1>1. IsFiniteSet({})
  BY FS_EmptySet
<1>2. PICK f : Iterates(h, {}, f) /\ SumTemp(h, {}) = f[{}]
  BY <1>1, SumIterates
<1> QED
  BY <1>2 DEF Iterates

(* Any element may be taken out first, not only the chosen one.            *)
LEMMA SumAny ==
    ASSUME NEW h, NEW I, IsFiniteSet(I), \A i \in I : h[i].temp \in Int
    PROVE  /\ SumTemp(h, I) \in Int
           /\ \A x \in I : SumTemp(h, I) = h[x].temp + SumTemp(h, I \ {x})
<1> DEFINE Sum(s) == SumTemp(h, s)
           Exact(s) == /\ Sum(s) \in Int
                       /\ \A x \in s : Sum(s) = h[x].temp + Sum(s \ {x})
           Good == {n \in Nat : \A s \in SUBSET I : Cardinality(s) <= n => Exact(s)}
<1>1. \A s \in SUBSET I : IsFiniteSet(s) /\ Cardinality(s) \in Nat
  BY FS_Subset, FS_CardinalityType
<1>2. 0 \in Good
  <2>1. \A s \in SUBSET I : Cardinality(s) <= 0 => s = {}
    BY <1>1, FS_EmptySet
  <2>2. Exact({})
    BY SumEmpty
  <2> HIDE DEF Exact
  <2> QED
    BY <2>1, <2>2
<1>3. ASSUME NEW n \in Good PROVE n + 1 \in Good
  <2> SUFFICES ASSUME NEW s \in SUBSET I, Cardinality(s) <= n + 1, s # {}
               PROVE  Exact(s)
    <3>1. Exact({})
      BY SumEmpty
    <3> HIDE DEF Exact
    <3> QED
      BY <3>1
  <2> DEFINE c == CHOOSE c \in s : TRUE
  <2>1. c \in s
    OBVIOUS
  <2>2. ASSUME NEW t \in SUBSET s, t # s PROVE Exact(t)
    <3>1. Cardinality(t) <= Cardinality(s) /\ Cardinality(t) # Cardinality(s)
      <4>1. IsFiniteSet(s)
        BY <1>1
      <4> QED
        BY <2>2, <4>1, FS_Subset
    <3>2. Cardinality(t) \in Nat /\ Cardinality(s) \in Nat /\ n \in Nat
      BY <1>1
    <3>3. Cardinality(t) <= n
      BY <3>1, <3>2
    <3> HIDE DEF Exact
    <3> QED
      BY <3>3
  <2>3. Sum(s) = h[c].temp + Sum(s \ {c})
    BY <1>1, SumChosen
  <2>4. \A x \in s : h[x].temp \in Int
    OBVIOUS
  <2> HIDE DEF c
  <2>5. \A t \in SUBSET s : t # s => /\ Sum(t) \in Int
                                    /\ \A x \in t : Sum(t) = h[x].temp + Sum(t \ {x})
    BY <2>2
  <2> HIDE DEF Sum
  <2>6. Sum(s) \in Int
    <3>1. s \ {c} \in SUBSET s /\ s \ {c} # s
      BY <2>1
    <3> QED
      BY <2>1, <2>3, <2>4, <2>5, <3>1
  <2>7. ASSUME NEW x \in s PROVE Sum(s) = h[x].temp + Sum(s \ {x})
    <3>1. CASE x = c
      BY <2>3, <3>1
    <3>2. CASE x # c
      <4> DEFINE rest == (s \ {c}) \ {x}
      <4>1. Sum(s \ {c}) = h[x].temp + Sum(rest)
        BY <2>1, <2>5, <3>2
      <4>2. Sum(s \ {x}) = h[c].temp + Sum(rest)
        <5>1. rest = (s \ {x}) \ {c}
          OBVIOUS
        <5>2. Sum(s \ {x}) = h[c].temp + Sum((s \ {x}) \ {c})
          BY <2>1, <2>5, <3>2
        <5> QED
          BY <5>1, <5>2
      <4>3. Sum(rest) \in Int
        BY <2>1, <2>5
      <4> HIDE DEF rest
      <4> QED
        BY <2>1, <2>3, <2>4, <4>1, <4>2, <4>3
    <3> QED
      BY <3>1, <3>2
  <2> QED
    BY <2>6, <2>7 DEF Sum
<1>4. Good = Nat
  <2>1. Good \in SUBSET Nat
    OBVIOUS
  <2> HIDE DEF Good
  <2> QED
    BY <1>2, <1>3, <2>1, NatSetInduction
<1>5. Exact(I)
  <2>1. Cardinality(I) \in Good
    BY <1>1, <1>4
  <2> HIDE DEF Exact
  <2> QED
    BY <2>1
<1> QED
  BY <1>5

(* Histories that agree on I have the same sum over it.                    *)
LEMMA SumSame ==
    ASSUME NEW h, NEW g, NEW I, IsFiniteSet(I), \A i \in I : h[i] = g[i]
    PROVE  SumTemp(h, I) = SumTemp(g, I)
<1>1. PICK e : Iterates(h, I, e) /\ SumTemp(h, I) = e[I]
  BY SumIterates
<1>2. PICK f : Iterates(g, I, f) /\ SumTemp(g, I) = f[I]
  BY SumIterates
<1>3. Iterates(g, I, e)
  <2>1. ASSUME NEW s \in SUBSET I, s # {}
        PROVE  h[CHOOSE x \in s : TRUE] = g[CHOOSE x \in s : TRUE]
    <3>1. (CHOOSE x \in s : TRUE) \in s
      BY <2>1
    <3> QED
      BY <3>1
  <2> DEFINE Step(k, s) == IF s = {} THEN 0
                           ELSE LET x == CHOOSE x \in s : TRUE
                                IN k[x].temp + e[s \ {x}]
  <2>2. \A s \in SUBSET I : Step(h, s) = Step(g, s)
    BY <2>1
  <2>3. e = [s \in SUBSET I |-> Step(h, s)]
    BY <1>1 DEF Iterates
  <2> HIDE DEF Step
  <2>4. e = [s \in SUBSET I |-> Step(g, s)]
    BY <2>2, <2>3
  <2> QED
    BY <2>4 DEF Iterates, Step
<1>4. e[I] = f[I]
  BY <1>2, <1>3, IteratesAgree
<1> QED
  BY <1>1, <1>2, <1>4

(* The first m entries of a window that are the entries k + 1 to k + m of  *)
(* a history have the same sum.                                            *)
LEMMA SumShifted ==
    ASSUME NEW w \in Seq(Readings), NEW h \in Seq(Readings),
           NEW k \in Nat, NEW m \in Nat,
           \A i \in 1 .. m : w[i] = h[k + i],
           \A i \in 1 .. m : w[i].temp \in Int
    PROVE  SumTemp(w, 1 .. m) = SumTemp(h, k + 1 .. k + m)
<1> DEFINE Good == {j \in Nat : j <= m =>
                      SumTemp(w, 1 .. j) = SumTemp(h, k + 1 .. k + j)}
<1>1. 0 \in Good
  <2>1. 1 .. 0 = {} /\ k + 1 .. k + 0 = {}
    OBVIOUS
  <2> QED
    BY <2>1, SumEmpty
<1>2. ASSUME NEW j \in Good PROVE j + 1 \in Good
  <2>0. j \in Nat /\ (j <= m => SumTemp(w, 1 .. j) = SumTemp(h, k + 1 .. k + j))
    OBVIOUS
  <2> HIDE DEF Good
  <2>1. SUFFICES ASSUME j + 1 <= m
                 PROVE  SumTemp(w, 1 .. j + 1) = SumTemp(h, k + 1 .. k + (j + 1))
    BY <2>0 DEF Good
  <2> DEFINE A == 1 .. j + 1
             B == k + 1 .. k + (j + 1)
  <2>2. IsFiniteSet(A) /\ j + 1 \in A /\ A \ {j + 1} = 1 .. j
    <3>1. j + 1 \in Int
      BY <2>0
    <3>2. IsFiniteSet(A)
      BY <3>1, FS_Interval
    <3> QED
      BY <2>0, <3>2
  <2>3. IsFiniteSet(B) /\ k + (j + 1) \in B /\ B \ {k + (j + 1)} = k + 1 .. k + j
    <3>1. k + 1 \in Int /\ k + (j + 1) \in Int
      BY <2>0
    <3>2. IsFiniteSet(B)
      BY <3>1, FS_Interval
    <3> QED
      BY <2>0, <3>2
  <2>4. \A i \in A : w[i].temp \in Int
    BY <2>0, <2>1
  <2>5. \A i \in B : h[i].temp \in Int
    <3> SUFFICES ASSUME NEW i \in B PROVE h[i].temp \in Int
      OBVIOUS
    <3>1. i - k \in 1 .. m /\ k + (i - k) = i
      BY <2>0, <2>1
    <3> QED
      BY <3>1
  <2> HIDE DEF A, B
  <2>6. SumTemp(w, A) = w[j + 1].temp + SumTemp(w, A \ {j + 1})
    BY <2>2, <2>4, SumAny
  <2>7. SumTemp(h, B) = h[k + (j + 1)].temp + SumTemp(h, B \ {k + (j + 1)})
    BY <2>3, <2>5, SumAny
  <2>8. w[j + 1] = h[k + (j + 1)]
    BY <2>0, <2>1
  <2>9. SumTemp(w, 1 .. j) = SumTemp(h, k + 1 .. k + j)
    BY <2>0, <2>1
  <2> QED
    BY <2>2, <2>3, <2>6, <2>7, <2>8, <2>9 DEF A, B
<1>3. Good = Nat
  <2>1. Good \in SUBSET Nat
    OBVIOUS
  <2> HIDE DEF Good
  <2> QED
    BY <1>1, <1>2, <2>1, NatSetInduction
<1>4. m \in Good
  BY <1>3
<1> QED
  BY <1>4

(* The rules on the sum, the number and the set of the temperatures.       *)
FiringOf(sum, count, temps) ==
    {t \in AlertTypes :
        \/ t = "TEMP_HIGH" /\ sum > TempHigh * count
        \/ t = "TEMP_LOW" /\ sum < TempLow * count
        \/ t = "SPIKE" /\ Max(temps) - Min(temps) > SpikeSpread}

(* The interval of an aggregate (window.go 90-95), its first and its last  *)
(* entry.                                                                  *)
LEMMA AggregateBounds ==
    ASSUME NEW h, NEW I
    PROVE  /\ Aggregate(h, I).windowStart = h[Min(I)].time
           /\ Aggregate(h, I).windowEnd = h[Max(I)].time
  BY DEF Aggregate

(* Only sum, number and set of the temperatures decide what fires.         *)
LEMMA FiringIs ==
    ASSUME NEW h, NEW I
    PROVE  Firing(Aggregate(h, I)) =
             FiringOf(SumTemp(h, I), Cardinality(I), {h[i].temp : i \in I})
<1> DEFINE a == Aggregate(h, I)
<1>1. /\ a.sumTemp = SumTemp(h, I) /\ a.sampleCount = Cardinality(I)
      /\ a.maxTemp = Max({h[i].temp : i \in I})
      /\ a.minTemp = Min({h[i].temp : i \in I})
  BY DEF Aggregate, MapThenSumSet, MapThenFoldSet, SumTemp, Iterates
<1> HIDE DEF a
<1>2. Firing(a) = FiringOf(SumTemp(h, I), Cardinality(I), {h[i].temp : i \in I})
  BY <1>1 DEF Firing, FiringOf
<1> QED
  BY <1>2 DEF a

(* A window fires what the stretch of the history that it holds fires.     *)
LEMMA SameFiring ==
    ASSUME NEW w \in Seq(Readings), NEW h \in Seq(Readings),
           NEW k \in Nat, NEW m \in Nat,
           \A i \in 1 .. m : w[i] = h[k + i],
           \A i \in 1 .. m : w[i].temp \in Int
    PROVE  Firing(Aggregate(w, 1 .. m)) = Firing(Aggregate(h, k + 1 .. k + m))
<1> DEFINE A == 1 .. m
           B == k + 1 .. k + m
<1>1. SumTemp(w, A) = SumTemp(h, B)
  BY SumShifted, ZenonT(30)
<1>2. Cardinality(A) = Cardinality(B)
  <2>1. Cardinality(1 .. m) = m
    BY FS_Interval
  <2>2. Cardinality(k + 1 .. k + m) = m
    <3>1. k + 1 \in Int /\ k + m \in Int
      OBVIOUS
    <3>2. Cardinality(k + 1 .. k + m) = IF k + 1 > k + m THEN 0 ELSE (k + m) - (k + 1) + 1
      BY <3>1, FS_Interval
    <3> QED
      BY <3>2
  <2> QED
    BY <2>1, <2>2
<1>3. {w[i].temp : i \in A} = {h[i].temp : i \in B}
  <2>1. ASSUME NEW i \in 1 .. m
        PROVE  w[i].temp \in {h[j].temp : j \in k + 1 .. k + m}
    <3>1. k + i \in k + 1 .. k + m /\ w[i] = h[k + i]
      OBVIOUS
    <3> QED
      BY <3>1
  <2>2. ASSUME NEW j \in k + 1 .. k + m
        PROVE  h[j].temp \in {w[i].temp : i \in 1 .. m}
    <3>1. j - k \in 1 .. m /\ k + (j - k) = j
      OBVIOUS
    <3>2. w[j - k] = h[j]
      BY <3>1
    <3> QED
      BY <3>1, <3>2
  <2> QED
    BY <2>1, <2>2
<1> HIDE DEF A, B
<1>4. Firing(Aggregate(w, A)) = Firing(Aggregate(h, B))
  BY <1>1, <1>2, <1>3, FiringIs
<1> QED
  BY <1>4 DEF A, B

(* Histories that agree on I fire the same over I.                         *)
LEMMA SameReadings ==
    ASSUME NEW h, NEW g, NEW I, IsFiniteSet(I), \A i \in I : h[i] = g[i]
    PROVE  Firing(Aggregate(h, I)) = Firing(Aggregate(g, I))
<1>1. SumTemp(h, I) = SumTemp(g, I)
  BY SumSame
<1>2. {h[i].temp : i \in I} = {g[i].temp : i \in I}
  OBVIOUS
<1> QED
  BY <1>1, <1>2, FiringIs
=============================================================================
