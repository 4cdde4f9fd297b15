-------------------------- MODULE KafkaTopicProofs --------------------------
(***************************************************************************)
(* What CommitRecords sends, proved once for both services.                *)
(***************************************************************************)
EXTENDS KafkaTopic, WellFoundedInduction, TLAPS

(* A set of offsets that is not empty has a greatest element.              *)
LEMMA MaxOfOffsets ==
    ASSUME NEW n \in Nat, NEW S, S \subseteq 0 .. n, S # {}
    PROVE  Max(S) \in S /\ \A y \in S : y <= Max(S)
<1> DEFINE T == {n - x : x \in S}
<1>1. T \subseteq Nat /\ T # {}
  <2>1. PICK x \in S : TRUE
    OBVIOUS
  <2>2. n - x \in T
    BY DEF T
  <2>3. T \subseteq Nat
    <3>1. SUFFICES ASSUME NEW y \in S PROVE n - y \in Nat
      BY DEF T
    <3> QED
      BY <3>1
  <2> QED
    BY <2>2, <2>3
<1>2. \E m \in T : \A k \in T : ~ (<<k, m>> \in OpToRel(<, Nat))
  <2> HIDE DEF T
  <2> QED BY <1>1, WFMin, NatLessThanWellFounded
<1>3. PICK m \in T : \A k \in T : ~ (k < m)
  <2> HIDE DEF T
  <2> QED BY <1>1, <1>2 DEF OpToRel
<1>4. PICK x \in S : m = n - x
  BY DEF T
<1>5. ASSUME NEW y \in S PROVE x >= y
  <2>1. n - y \in T
    BY DEF T
  <2>2. ~ (n - y < m)
    BY <2>1, <1>3
  <2> QED BY <2>2, <1>4
<1> QED
  BY <1>5 DEF Max

(* A partition-wise order of offsets orders the records below them.        *)
LEMMA BelowMonotone ==
    ASSUME NEW low \in [Partitions -> Offsets],
           NEW high \in [Partitions -> Offsets], NoneAbove(low, high)
    PROVE  Below(low) \subseteq Below(high)
<1> SUFFICES ASSUME NEW r \in Records, r[2] < low[r[1]] PROVE r[2] < high[r[1]]
  BY DEF Below
<1>1. r[1] \in Partitions /\ r[2] \in Int
  BY DEF Records
<1>2. low[r[1]] \in Int /\ high[r[1]] \in Int /\ low[r[1]] <= high[r[1]]
  BY <1>1 DEF NoneAbove, Offsets
<1> QED
  BY <1>1, <1>2

(* The offsets `target` cover the records of S in the partitions reached.  *)
Covers(S, target, parts) == \A r \in S : r[1] \in parts => r \in Below(target)

(* What `target` covers beyond `old` is in the partitions reached, and no  *)
(* later there than a record of S.                                         *)
EndsWith(S, old, target, parts) ==
    \A r \in Below(target) \ Below(old) :
        r[1] \in parts /\ \E s \in S : s[1] = r[1] /\ r[2] <= s[2]

(* The offsets of a commit lie between the committed ones and any limit    *)
(* above the batch.  In the partitions the commit reaches they cover the   *)
(* batch and end with its last record; in the others nothing changes.      *)
LEMMA CommitTargetFacts ==
    ASSUME NEW S \in SUBSET Records,
           NEW old \in [Partitions -> Offsets],
           NEW limit \in [Partitions -> Offsets],
           NEW parts \in SUBSET Partitions,
           NoneAbove(old, limit),
           S \subseteq Below(limit) \ Below(old)
    PROVE  /\ CommitTarget(S, old, parts) \in [Partitions -> Offsets]
           /\ NoneAbove(old, CommitTarget(S, old, parts))
           /\ NoneAbove(CommitTarget(S, old, parts), limit)
           /\ S = {} => CommitTarget(S, old, parts) = old
           /\ parts = {} => CommitTarget(S, old, parts) = old
           /\ Covers(S, CommitTarget(S, old, parts), parts)
           /\ EndsWith(S, old, CommitTarget(S, old, parts), parts)
<1> USE TopicAssumption DEF TopicAssumption
<1> DEFINE target == CommitTarget(S, old, parts)
<1>1. ASSUME NEW p \in Partitions, OffsetsIn(S, p) # {}
      PROVE  /\ Max(OffsetsIn(S, p)) \in OffsetsIn(S, p)
             /\ \A o \in OffsetsIn(S, p) : o <= Max(OffsetsIn(S, p))
  <2>1. OffsetsIn(S, p) \subseteq 0 .. MaxOffset
    BY DEF OffsetsIn, Records
  <2> QED
    BY <2>1, <1>1, MaxOfOffsets
<1>2. ASSUME NEW p \in Partitions, NEW o \in OffsetsIn(S, p)
      PROVE  o \in 0 .. MaxOffset - 1 /\ old[p] <= o /\ o < limit[p]
  <2>1. <<p, o>> \in S
    BY DEF OffsetsIn, Records
  <2>2. o \in 0 .. MaxOffset - 1 /\ old[p] \in Int /\ limit[p] \in Int
    BY <2>1 DEF Records, Offsets
  <2> QED
    BY <2>1, <2>2 DEF Below
<1>3. ASSUME NEW p \in Partitions
      PROVE  target[p] \in Offsets /\ old[p] <= target[p] /\ target[p] <= limit[p]
  <2>1. old[p] \in Offsets /\ limit[p] \in Offsets /\ old[p] <= limit[p]
    BY DEF NoneAbove
  <2>2. CASE p \in parts /\ OffsetsIn(S, p) # {}
    <3>1. PICK m \in OffsetsIn(S, p) : target[p] = 1 + m
      BY <2>2, <1>1 DEF CommitTarget
    <3>2. m \in 0 .. MaxOffset - 1 /\ old[p] <= m /\ m < limit[p]
      BY <1>2
    <3> QED
      BY <3>1, <3>2, <2>1 DEF Offsets
  <2>3. CASE ~(p \in parts /\ OffsetsIn(S, p) # {})
    <3>1. target[p] = old[p]
      BY <2>3 DEF CommitTarget
    <3> QED
      BY <3>1, <2>1 DEF Offsets
  <2> QED
    BY <2>2, <2>3
<1>4. target \in [Partitions -> Offsets]
  BY <1>3 DEF CommitTarget
<1>5. ASSUME S = {} \/ parts = {} PROVE target = old
  BY <1>5 DEF CommitTarget, OffsetsIn
<1>6. ASSUME NEW r \in S, r[1] \in parts PROVE r \in Below(target)
  <2>1. r \in Records /\ r[1] \in Partitions /\ r[2] \in 0 .. MaxOffset - 1
    BY DEF Records
  <2>2. r[2] \in OffsetsIn(S, r[1])
    BY <2>1 DEF OffsetsIn
  <2>3. PICK m \in OffsetsIn(S, r[1]) : target[r[1]] = 1 + m /\ r[2] <= m
    BY <2>1, <2>2, <1>1, <1>6 DEF CommitTarget
  <2>4. m \in 0 .. MaxOffset - 1
    BY <2>1, <1>2
  <2> QED
    BY <2>1, <2>3, <2>4 DEF Below
<1>7. ASSUME NEW r \in Below(target) \ Below(old)
      PROVE  r[1] \in parts /\ \E s \in S : s[1] = r[1] /\ r[2] <= s[2]
  <2>1. r \in Records /\ r[1] \in Partitions /\ r[2] \in 0 .. MaxOffset - 1
    BY DEF Below, Records
  <2>2. r[2] < target[r[1]] /\ ~(r[2] < old[r[1]])
    BY <2>1 DEF Below
  <2>3. r[1] \in parts /\ OffsetsIn(S, r[1]) # {}
    BY <2>1, <2>2 DEF CommitTarget
  <2>4. PICK m \in OffsetsIn(S, r[1]) : target[r[1]] = 1 + m
    BY <2>1, <2>3, <1>1 DEF CommitTarget
  <2>5. m \in 0 .. MaxOffset - 1
    BY <2>1, <1>2
  <2>6. r[2] <= m
    BY <2>1, <2>2, <2>4, <2>5
  <2>7. PICK s \in S : s[1] = r[1] /\ s[2] = m
    BY <2>4 DEF OffsetsIn
  <2> QED
    BY <2>3, <2>6, <2>7
<1> HIDE DEF target
<1>8. Covers(S, target, parts) /\ EndsWith(S, old, target, parts)
  BY <1>6, <1>7 DEF Covers, EndsWith
<1> QED
  BY <1>3, <1>4, <1>5, <1>8 DEF NoneAbove, target

(* A batch has no hole when it holds every record that is delivered, not   *)
(* yet committed and no later than one of its own.                         *)
NoHoles(S, old, limit) ==
    \A s \in S : \A r \in Below(limit) \ Below(old) :
        r[1] = s[1] /\ r[2] <= s[2] => r \in S

(* The commit of a batch without holes covers what was committed, the      *)
(* records of the batch in the partitions it reaches, and nothing else.    *)
(* A batch of the processor may have holes, the records whose commit       *)
(* failed before: its commit covers them as well.                          *)
THEOREM CommitIsExact ==
    ASSUME NEW S \in SUBSET Records,
           NEW old \in [Partitions -> Offsets],
           NEW limit \in [Partitions -> Offsets],
           NEW parts \in SUBSET Partitions,
           NoneAbove(old, limit),
           S \subseteq Below(limit) \ Below(old),
           NoHoles(S, old, limit)
    PROVE  Below(CommitTarget(S, old, parts))
             = Below(old) \union {r \in S : r[1] \in parts}
<1>1. PICK target \in [Partitions -> Offsets] :
        target = CommitTarget(S, old, parts)
  BY CommitTargetFacts
<1>2. /\ NoneAbove(old, target)
      /\ NoneAbove(target, limit)
      /\ Covers(S, target, parts)
      /\ EndsWith(S, old, target, parts)
  BY <1>1, CommitTargetFacts
<1>3. \A r \in S : r[1] \in parts => r \in Below(target)
  BY <1>2 DEF Covers
<1>4. Below(old) \subseteq Below(target) /\ Below(target) \subseteq Below(limit)
  BY <1>2, BelowMonotone
<1>5. ASSUME NEW r \in Below(target) \ Below(old)
      PROVE  r \in S /\ r[1] \in parts
  <2>1. r[1] \in parts /\ \E s \in S : s[1] = r[1] /\ r[2] <= s[2]
    BY <1>2 DEF EndsWith
  <2>2. r \in Below(limit) \ Below(old)
    BY <1>4
  <2> QED
    BY <2>1, <2>2 DEF NoHoles
<1> QED
  BY <1>1, <1>3, <1>4, <1>5
=============================================================================
