--------------------------- MODULE SimulatorProofs ---------------------------
(***************************************************************************)
(* Proofs about module Simulator, for any devices, partitions and lengths  *)
(* of spikes and drifts.  Theorems:                                        *)
(*   SimulatorTypes      Spec => []TypeOK                                  *)
(*   OrderKept           Spec => []OrderedPerDevice                        *)
(*   ProducerClosedLast  Spec => []ClosedLast                              *)
(*   LengthAsDrawn       Spec => ExcursionLength                           *)
(***************************************************************************)
EXTENDS Simulator, SequenceTheorems, TLAPS

(* A sequence without the element at i.                                    *)
LEMMA RemoveAtFacts ==
    ASSUME NEW S, NEW s \in Seq(S), NEW i \in 1 .. Len(s)
    PROVE  /\ RemoveAt(s, i) \in Seq(S)
           /\ Len(RemoveAt(s, i)) = Len(s) - 1
           /\ \A j \in 1 .. Len(s) - 1 :
                RemoveAt(s, i)[j] = IF j < i THEN s[j] ELSE s[j + 1]
<1> DEFINE n == Len(s)
           a == SubSeq(s, 1, i - 1)
           b == SubSeq(s, i + 1, n)
<1>1. n \in Nat /\ i \in Nat /\ 1 <= i /\ i <= n
  BY LenProperties
<1>2. \A j \in 1 .. n : s[j] \in S
  BY ElementOfSeq
<1> HIDE DEF n
<1>3. a \in Seq(S) /\ Len(a) = i - 1 /\ \A j \in 1 .. i - 1 : a[j] = s[j]
  <2>1. 1 \in Int /\ i - 1 \in Int /\ \A j \in 1 .. i - 1 : s[j] \in S
    BY <1>1, <1>2
  <2>2. /\ a \in Seq(S) /\ Len(a) = IF 1 <= i - 1 THEN (i - 1) - 1 + 1 ELSE 0
        /\ \A j \in 1 .. (i - 1) - 1 + 1 : a[j] = s[1 + j - 1]
    BY <2>1, SubSeqProperties
  <2> HIDE DEF a
  <2>3. \A j \in 1 .. i - 1 : 1 + j - 1 = j
    OBVIOUS
  <2>4. (i - 1) - 1 + 1 = i - 1 /\ Len(a) = i - 1
    BY <1>1, <2>2
  <2> QED
    BY <2>2, <2>3, <2>4
<1>4. b \in Seq(S) /\ Len(b) = n - i /\ \A j \in 1 .. n - i : b[j] = s[i + j]
  <2>1. i + 1 \in Int /\ n \in Int /\ \A j \in i + 1 .. n : s[j] \in S
    BY <1>1, <1>2
  <2>2. /\ b \in Seq(S) /\ Len(b) = IF i + 1 <= n THEN n - (i + 1) + 1 ELSE 0
        /\ \A j \in 1 .. n - (i + 1) + 1 : b[j] = s[(i + 1) + j - 1]
    BY <2>1, SubSeqProperties
  <2> HIDE DEF b
  <2>3. \A j \in 1 .. n - i : (i + 1) + j - 1 = i + j
    BY <1>1
  <2>4. n - (i + 1) + 1 = n - i /\ Len(b) = n - i
    BY <1>1, <2>2
  <2> QED
    BY <2>2, <2>3, <2>4
<1>5. RemoveAt(s, i) = a \o b
  BY DEF RemoveAt, n
<1> HIDE DEF a, b
<1>6. /\ a \o b \in Seq(S)
      /\ Len(a \o b) = Len(a) + Len(b)
      /\ \A j \in 1 .. Len(a) + Len(b) :
           (a \o b)[j] = IF j <= Len(a) THEN a[j] ELSE b[j - Len(a)]
  BY <1>3, <1>4, ConcatProperties
<1>7. Len(a) + Len(b) = n - 1
  BY <1>1, <1>3, <1>4
<1>8. ASSUME NEW j \in 1 .. n - 1
      PROVE  (a \o b)[j] = IF j < i THEN s[j] ELSE s[j + 1]
  <2>1. (a \o b)[j] = IF j <= i - 1 THEN a[j] ELSE b[j - (i - 1)]
    BY <1>3, <1>6, <1>7
  <2>2. CASE j < i
    <3>1. j \in 1 .. i - 1 /\ j <= i - 1
      BY <1>1, <2>2
    <3> QED
      BY <1>3, <2>1, <2>2, <3>1
  <2>3. CASE ~(j < i)
    <3>1. /\ j - (i - 1) \in 1 .. n - i /\ ~(j <= i - 1)
          /\ i + (j - (i - 1)) = j + 1
      BY <1>1, <2>3
    <3>2. b[j - (i - 1)] = s[i + (j - (i - 1))]
      BY <1>4, <3>1
    <3> QED
      BY <2>1, <2>3, <3>1, <3>2
  <2> QED
    BY <2>2, <2>3
<1> QED
  BY <1>5, <1>6, <1>7, <1>8 DEF n

-----------------------------------------------------------------------------
(* The inductive invariant, part by part.                                  *)

(* A record in a buffer is the last reading of its device, which waits for *)
(* it, and is on the partition of the device; so a device has one at most. *)
Waiting ==
    /\ \A p \in Partitions : \A i \in 1 .. Len(buffer[p]) :
         LET r == buffer[p][i]
         IN pc[r[1]] = "emit" /\ r[2] = sent[r[1]] /\ partitionOf[r[1]] = p
    /\ \A p \in Partitions : \A i, j \in 1 .. Len(buffer[p]) :
         buffer[p][i][1] = buffer[p][j][1] => i = j

(* What the broker has is older, in order, and on the same partition.      *)
Stored ==
    /\ \A p \in Partitions : \A i \in 1 .. Len(topic[p]) :
         LET r == topic[p][i]
         IN r[2] <= sent[r[1]] /\ partitionOf[r[1]] = p
    /\ \A p \in Partitions :
         \A i \in 1 .. Len(topic[p]), j \in 1 .. Len(buffer[p]) :
           topic[p][i][1] = buffer[p][j][1] => topic[p][i][2] < buffer[p][j][2]
    /\ \A p \in Partitions : \A i, j \in 1 .. Len(topic[p]) :
         topic[p][i][1] = topic[p][j][1] /\ i < j =>
           topic[p][i][2] < topic[p][j][2]

(* The readings of an excursion and the ticks it has left are its length.  *)
Excursions ==
    \A d \in Devices :
      /\ state[d] = "spike" => run[d] + stateTicksLeft[d] - 1 \in SpikeTicks
      /\ state[d] = "drift" => run[d] + stateTicksLeft[d] - 1 \in DriftTicks

Joined == main = "closed" => \A d \in Devices : pc[d] = "stopped"

SimulatorInv == TypeOK /\ Waiting /\ Stored /\ Excursions /\ Joined

-----------------------------------------------------------------------------
(* What TypeOK says of the state of the devices.                           *)
DeviceTypes ==
    /\ state \in [Devices -> States]
    /\ stateTicksLeft \in [Devices -> Nat]
    /\ \A d \in Devices : IF state[d] = "normal" THEN stateTicksLeft[d] = 0
                                                 ELSE stateTicksLeft[d] > 0
    /\ run \in [Devices -> Nat]

(* An excursion that ends has lasted as long as was drawn for it.          *)
EndsAsDrawn ==
    \A d \in Devices : state[d] # "normal" /\ state'[d] = "normal" =>
        run[d] \in IF state[d] = "spike" THEN SpikeTicks ELSE DriftTicks

LEMMA DeviceUnchanged ==
    ASSUME DeviceTypes, Excursions, UNCHANGED device
    PROVE  DeviceTypes' /\ Excursions' /\ EndsAsDrawn
BY DEF DeviceTypes, Excursions, EndsAsDrawn, device

(* A device enters a spike or a drift of n ticks.                          *)
LEMMA EnterKeeps ==
    ASSUME DeviceTypes, Excursions, NEW d \in Devices, state[d] = "normal",
           NEW s \in {"spike", "drift"}, NEW n \in Nat \ {0},
           s = "spike" => n \in SpikeTicks,
           s = "drift" => n \in DriftTicks,
           state' = [state EXCEPT ![d] = s],
           stateTicksLeft' = [stateTicksLeft EXCEPT ![d] = n],
           run' = [run EXCEPT ![d] = 1]
    PROVE  DeviceTypes' /\ Excursions' /\ EndsAsDrawn
<1>1. s # "normal" /\ s \in States
  BY DEF States
<1>2. DeviceTypes'
  BY <1>1 DEF DeviceTypes
<1>3. Excursions'
  <2> SUFFICES ASSUME NEW e \in Devices
               PROVE  /\ state'[e] = "spike" => run'[e] + stateTicksLeft'[e] - 1 \in SpikeTicks
                      /\ state'[e] = "drift" => run'[e] + stateTicksLeft'[e] - 1 \in DriftTicks
    BY DEF Excursions
  <2>1. CASE e = d
    <3>1. state'[e] = s /\ run'[e] + stateTicksLeft'[e] - 1 = n
      BY <2>1 DEF DeviceTypes
    <3> QED
      BY <3>1
  <2>2. CASE e # d
    BY <2>2 DEF DeviceTypes, Excursions
  <2> QED
    BY <2>1, <2>2
<1>4. EndsAsDrawn
  BY <1>1 DEF EndsAsDrawn, DeviceTypes
<1> QED
  BY <1>2, <1>3, <1>4

(* A tick of a spike or a drift.                                           *)
LEMMA CountdownKeeps ==
    ASSUME DeviceTypes, Excursions, NEW d \in Devices, state[d] # "normal",
           AdvanceState(d)
    PROVE  DeviceTypes' /\ Excursions' /\ EndsAsDrawn
<1> DEFINE left == stateTicksLeft[d] - 1
<1>1. /\ stateTicksLeft' = [stateTicksLeft EXCEPT ![d] = left]
      /\ IF left <= 0
         THEN /\ state' = [state EXCEPT ![d] = "normal"]
              /\ run' = [run EXCEPT ![d] = 0]
         ELSE run' = [run EXCEPT ![d] = run[d] + 1] /\ UNCHANGED state
  BY DEF AdvanceState, ExcursionOver
<1>2. /\ left \in Nat /\ run[d] \in Nat /\ run[d] + stateTicksLeft[d] - 1 = run[d] + left
      /\ state[d] \in {"spike", "drift"}
  BY DEF DeviceTypes, States
<1>3. /\ state[d] = "spike" => run[d] + left \in SpikeTicks
      /\ state[d] = "drift" => run[d] + left \in DriftTicks
  BY <1>2 DEF Excursions
<1> HIDE DEF left
<1>4. CASE left <= 0
  <2>1. left = 0 /\ run[d] + left = run[d]
    BY <1>2, <1>4
  <2>2. /\ stateTicksLeft' = [stateTicksLeft EXCEPT ![d] = 0]
        /\ state' = [state EXCEPT ![d] = "normal"]
        /\ run' = [run EXCEPT ![d] = 0]
    BY <1>1, <1>4, <2>1
  <2>3. DeviceTypes'
    BY <2>2 DEF DeviceTypes, States
  <2>4. Excursions'
    <3> SUFFICES ASSUME NEW e \in Devices
                 PROVE  /\ state'[e] = "spike" => run'[e] + stateTicksLeft'[e] - 1 \in SpikeTicks
                        /\ state'[e] = "drift" => run'[e] + stateTicksLeft'[e] - 1 \in DriftTicks
      BY DEF Excursions
    <3>1. CASE e = d
      BY <2>2, <3>1 DEF DeviceTypes
    <3>2. CASE e # d
      BY <2>2, <3>2 DEF DeviceTypes, Excursions
    <3> QED
      BY <3>1, <3>2
  <2>5. EndsAsDrawn
    <3> SUFFICES ASSUME NEW e \in Devices, state[e] # "normal", state'[e] = "normal"
                 PROVE  run[e] \in IF state[e] = "spike" THEN SpikeTicks ELSE DriftTicks
      BY DEF EndsAsDrawn
    <3>1. e = d
      BY <2>2 DEF DeviceTypes
    <3> QED
      BY <3>1, <1>2, <1>3, <2>1
  <2> QED
    BY <2>3, <2>4, <2>5
<1>5. CASE ~(left <= 0)
  <2>1. /\ stateTicksLeft' = [stateTicksLeft EXCEPT ![d] = left]
        /\ state' = state
        /\ run' = [run EXCEPT ![d] = run[d] + 1]
    BY <1>1, <1>5
  <2>2. left > 0 /\ run[d] + 1 \in Nat /\ (run[d] + 1) + left - 1 = run[d] + left
    BY <1>2, <1>5
  <2>3. DeviceTypes'
    BY <1>2, <2>1, <2>2 DEF DeviceTypes
  <2>4. Excursions'
    <3> SUFFICES ASSUME NEW e \in Devices
                 PROVE  /\ state[e] = "spike" => run'[e] + stateTicksLeft'[e] - 1 \in SpikeTicks
                        /\ state[e] = "drift" => run'[e] + stateTicksLeft'[e] - 1 \in DriftTicks
      BY <2>1 DEF Excursions
    <3>1. CASE e = d
      <4>1. run'[e] + stateTicksLeft'[e] - 1 = run[d] + left
        <5>1. run'[e] = run[d] + 1 /\ stateTicksLeft'[e] = left
          BY <2>1, <3>1 DEF DeviceTypes
        <5> QED
          BY <5>1, <2>2
      <4> QED
        BY <1>3, <3>1, <4>1
    <3>2. CASE e # d
      <4>1. run'[e] = run[e] /\ stateTicksLeft'[e] = stateTicksLeft[e]
        BY <2>1, <3>2 DEF DeviceTypes
      <4> QED
        BY <4>1 DEF Excursions
    <3> QED
      BY <3>1, <3>2
  <2>5. EndsAsDrawn
    BY <2>1 DEF EndsAsDrawn
  <2> QED
    BY <2>3, <2>4, <2>5
<1> QED
  BY <1>4, <1>5

LEMMA AdvanceKeeps ==
    ASSUME DeviceTypes, Excursions, NEW d \in Devices, AdvanceState(d)
    PROVE  DeviceTypes' /\ Excursions' /\ EndsAsDrawn
<1>1. CASE state[d] = "normal"
  <2>1. \/ UNCHANGED device
        \/ Enter(d, "spike", SpikeTicks)
        \/ Enter(d, "drift", DriftTicks)
    BY <1>1 DEF AdvanceState
  <2>2. CASE UNCHANGED device
    BY <2>2, DeviceUnchanged
  <2>3. CASE Enter(d, "spike", SpikeTicks)
    <3>1. PICK n \in SpikeTicks :
             stateTicksLeft' = [stateTicksLeft EXCEPT ![d] = n]
      BY <2>3 DEF Enter
    <3>2. /\ state' = [state EXCEPT ![d] = "spike"]
          /\ run' = [run EXCEPT ![d] = 1]
      BY <2>3 DEF Enter
    <3>3. n \in Nat \ {0} /\ "spike" # "drift"
      BY SimulatorAssumption DEF SimulatorAssumption
    <3> QED
      BY <1>1, <3>1, <3>2, <3>3, EnterKeeps
  <2>4. CASE Enter(d, "drift", DriftTicks)
    <3>1. PICK n \in DriftTicks :
             stateTicksLeft' = [stateTicksLeft EXCEPT ![d] = n]
      BY <2>4 DEF Enter
    <3>2. /\ state' = [state EXCEPT ![d] = "drift"]
          /\ run' = [run EXCEPT ![d] = 1]
      BY <2>4 DEF Enter
    <3>3. n \in Nat \ {0} /\ "spike" # "drift"
      BY SimulatorAssumption DEF SimulatorAssumption
    <3> QED
      BY <1>1, <3>1, <3>2, <3>3, EnterKeeps
  <2> QED
    BY <2>1, <2>2, <2>3, <2>4
<1>2. CASE state[d] # "normal"
  BY <1>2, CountdownKeeps
<1> QED
  BY <1>1, <1>2

-----------------------------------------------------------------------------
(* The buffers and the topic.                                              *)
KafkaTypes ==
    /\ sent \in [Devices -> 0 .. MaxReadings]
    /\ buffer \in [Partitions -> Seq(Readings)]
    /\ topic \in [Partitions -> Seq(Readings)]
    /\ partitionOf \in [Devices -> Partitions]

LEMMA ReadingFacts ==
    ASSUME KafkaTypes, NEW p \in Partitions
    PROVE  /\ buffer[p] \in Seq(Readings) /\ topic[p] \in Seq(Readings)
           /\ Len(buffer[p]) \in Nat /\ Len(topic[p]) \in Nat
           /\ \A i \in 1 .. Len(buffer[p]) :
                 /\ buffer[p][i] \in Readings
                 /\ buffer[p][i][1] \in Devices /\ buffer[p][i][2] \in Nat
           /\ \A i \in 1 .. Len(topic[p]) :
                 /\ topic[p][i] \in Readings
                 /\ topic[p][i][1] \in Devices /\ topic[p][i][2] \in Nat
<1>1. buffer[p] \in Seq(Readings) /\ topic[p] \in Seq(Readings)
  BY DEF KafkaTypes
<1>2. \A r \in Readings : r[1] \in Devices /\ r[2] \in Nat
  BY DEF Readings
<1> QED
  BY <1>1, <1>2, LenProperties, ElementOfSeq

(* Nothing happens in Kafka, and whoever waits goes on waiting.            *)
LEMMA KafkaUnchanged ==
    ASSUME KafkaTypes, Waiting, Stored, UNCHANGED kafka,
           \A e \in Devices : pc[e] = "emit" => pc'[e] = "emit"
    PROVE  KafkaTypes' /\ Waiting' /\ Stored'
<1>1. sent' = sent /\ buffer' = buffer /\ topic' = topic /\ partitionOf' = partitionOf
  BY DEF kafka
<1>2. KafkaTypes' /\ Stored'
  BY <1>1 DEF KafkaTypes, Stored
<1>3. ASSUME NEW p \in Partitions, NEW i \in 1 .. Len(buffer[p])
      PROVE  pc'[buffer[p][i][1]] = "emit"
  BY ReadingFacts DEF Waiting
<1> QED
  BY <1>1, <1>2, <1>3 DEF Waiting

(* A device that was not waiting has its next reading put in the buffer.   *)
LEMMA EmitKeeps ==
    ASSUME KafkaTypes, Waiting, Stored, NEW d \in Devices, Emit(d),
           pc \in [Devices -> {"jitter", "select", "emit", "stopped"}]
    PROVE  KafkaTypes' /\ Waiting' /\ Stored'
<1> DEFINE p == partitionOf[d]
           r == <<d, sent[d] + 1>>
           n == Len(buffer[p])
           b == Append(buffer[p], r)
<1>1. /\ pc[d] = "select" /\ sent[d] < MaxReadings
      /\ sent' = [sent EXCEPT ![d] = sent[d] + 1]
      /\ buffer' = [buffer EXCEPT ![p] = b]
      /\ pc' = [pc EXCEPT ![d] = "emit"]
      /\ topic' = topic /\ partitionOf' = partitionOf
  BY DEF Emit, PartitionsFor
<1>2. /\ p \in Partitions /\ sent[d] \in 0 .. MaxReadings /\ MaxReadings \in Nat
      /\ sent[d] + 1 \in 1 .. MaxReadings /\ r \in Readings
      /\ r[1] = d /\ r[2] = sent[d] + 1
  <2>1. /\ p \in Partitions /\ sent[d] \in 0 .. MaxReadings /\ MaxReadings \in Nat
    BY SimulatorAssumption DEF KafkaTypes, SimulatorAssumption
  <2>2. sent[d] + 1 \in 1 .. MaxReadings
    BY <1>1, <2>1
  <2> QED
    BY <2>1, <2>2 DEF Readings
<1> HIDE DEF p, r
<1>3. /\ b \in Seq(Readings) /\ n \in Nat /\ Len(b) = n + 1
      /\ \A i \in 1 .. n : b[i] = buffer[p][i]
      /\ b[n + 1] = r
  <2>1. buffer[p] \in Seq(Readings) /\ n \in Nat
    BY <1>2, ReadingFacts
  <2> QED
    BY <1>2, <2>1, AppendProperties
<1> HIDE DEF b
<1>4. KafkaTypes'
  BY <1>1, <1>2, <1>3 DEF KafkaTypes
<1>5. /\ sent'[d] = sent[d] + 1 /\ \A e \in Devices : e # d => sent'[e] = sent[e]
      /\ pc'[d] = "emit" /\ \A e \in Devices : e # d => pc'[e] = pc[e]
      /\ buffer'[p] = b /\ \A q \in Partitions : q # p => buffer'[q] = buffer[q]
      /\ \A e \in Devices : sent[e] \in Nat
  BY <1>1, <1>2 DEF KafkaTypes
<1>6. \A q \in Partitions : \A i \in 1 .. Len(buffer[q]) :
         /\ buffer[q][i][1] \in Devices /\ buffer[q][i][1] # d
         /\ pc[buffer[q][i][1]] = "emit"
         /\ buffer[q][i][2] = sent[buffer[q][i][1]]
         /\ partitionOf[buffer[q][i][1]] = q
  BY <1>1, ReadingFacts DEF Waiting
<1>7. ASSUME NEW q \in Partitions, NEW i \in 1 .. Len(buffer'[q])
      PROVE  \/ /\ i \in 1 .. Len(buffer[q]) /\ buffer'[q][i] = buffer[q][i]
             \/ q = p /\ i = n + 1 /\ buffer'[q][i] = r
  <2>1. CASE q # p
    BY <1>5, <2>1
  <2>2. CASE q = p
    <3>1. i \in 1 .. n + 1 /\ buffer'[q] = b
      BY <1>3, <1>5, <2>2
    <3>2. CASE i = n + 1
      BY <1>3, <2>2, <3>1, <3>2
    <3>3. CASE i # n + 1
      <4>1. i \in 1 .. n
        BY <1>3, <3>1, <3>3
      <4> QED
        BY <1>3, <2>2, <3>1, <4>1
    <3> QED
      BY <3>2, <3>3
  <2> QED
    BY <2>1, <2>2
<1>8. Waiting'
  <2>1. ASSUME NEW q \in Partitions, NEW i \in 1 .. Len(buffer'[q])
        PROVE  LET s == buffer'[q][i]
               IN pc'[s[1]] = "emit" /\ s[2] = sent'[s[1]] /\ partitionOf'[s[1]] = q
    <3>1. CASE i \in 1 .. Len(buffer[q]) /\ buffer'[q][i] = buffer[q][i]
      BY <1>1, <1>5, <1>6, <3>1
    <3>2. CASE q = p /\ i = n + 1 /\ buffer'[q][i] = r
      BY <1>1, <1>2, <1>5, <3>2 DEF p
    <3> QED
      BY <1>7, <3>1, <3>2
  <2>2. ASSUME NEW q \in Partitions, NEW i \in 1 .. Len(buffer'[q]),
               NEW j \in 1 .. Len(buffer'[q]), buffer'[q][i][1] = buffer'[q][j][1]
        PROVE  i = j
    <3>1. CASE /\ i \in 1 .. Len(buffer[q]) /\ buffer'[q][i] = buffer[q][i]
               /\ j \in 1 .. Len(buffer[q]) /\ buffer'[q][j] = buffer[q][j]
      BY <2>2, <3>1 DEF Waiting
    <3>2. CASE i \in 1 .. Len(buffer[q]) /\ buffer'[q][i] = buffer[q][i]
               /\ buffer'[q][j] = r
      BY <1>2, <1>6, <2>2, <3>2
    <3>3. CASE j \in 1 .. Len(buffer[q]) /\ buffer'[q][j] = buffer[q][j]
               /\ buffer'[q][i] = r
      BY <1>2, <1>6, <2>2, <3>3
    <3> QED
      BY <1>7, <3>1, <3>2, <3>3
  <2> QED
    BY <2>1, <2>2 DEF Waiting
<1>9. Stored'
  <2>1. ASSUME NEW q \in Partitions, NEW i \in 1 .. Len(topic[q])
        PROVE  topic[q][i][2] <= sent'[topic[q][i][1]] /\ partitionOf[topic[q][i][1]] = q
    <3>1. /\ topic[q][i][1] \in Devices /\ topic[q][i][2] \in Nat
          /\ topic[q][i][2] <= sent[topic[q][i][1]] /\ partitionOf[topic[q][i][1]] = q
      BY ReadingFacts DEF Stored
    <3> QED
      BY <3>1, <1>5
  <2>2. ASSUME NEW q \in Partitions, NEW i \in 1 .. Len(topic[q]),
               NEW j \in 1 .. Len(buffer'[q]), topic[q][i][1] = buffer'[q][j][1]
        PROVE  topic[q][i][2] < buffer'[q][j][2]
    <3>1. CASE j \in 1 .. Len(buffer[q]) /\ buffer'[q][j] = buffer[q][j]
      BY <2>2, <3>1 DEF Stored
    <3>2. CASE buffer'[q][j] = r
      <4>1. topic[q][i][1] = d /\ buffer'[q][j][2] = sent[d] + 1
        BY <1>2, <2>2, <3>2
      <4>2. topic[q][i][2] \in Nat /\ topic[q][i][2] <= sent[d]
        BY <4>1, ReadingFacts DEF Stored
      <4> QED
        BY <1>5, <4>1, <4>2
    <3> QED
      BY <1>7, <3>1, <3>2
  <2> QED
    BY <1>1, <2>1, <2>2 DEF Stored
<1> QED
  BY <1>4, <1>8, <1>9

(* The record at i leaves a buffer and its goroutine goes on.              *)
LEMMA LeaveKeeps ==
    ASSUME KafkaTypes, Waiting, Stored,
           pc \in [Devices -> {"jitter", "select", "emit", "stopped"}],
           NEW p \in Partitions, NEW i \in 1 .. Len(buffer[p]),
           NEW b \in Seq(Readings), Len(b) = Len(buffer[p]) - 1,
           \A j \in 1 .. Len(b) :
              b[j] = IF j < i THEN buffer[p][j] ELSE buffer[p][j + 1],
           buffer' = [buffer EXCEPT ![p] = b], Returns(buffer[p][i]),
           UNCHANGED <<sent, partitionOf>>
    PROVE  /\ buffer' \in [Partitions -> Seq(Readings)]
           /\ Waiting'
           /\ \A q \in Partitions : \A j \in 1 .. Len(buffer'[q]) :
                 \E k \in 1 .. Len(buffer[q]) :
                   buffer'[q][j] = buffer[q][k] /\ (q = p => k # i)
<1> DEFINE d == buffer[p][i][1]
           From(q, j) == IF q = p /\ ~(j < i) THEN j + 1 ELSE j
<1>1. /\ buffer[p] \in Seq(Readings) /\ Len(buffer[p]) \in Nat /\ d \in Devices
      /\ partitionOf[d] = p
  BY ReadingFacts DEF Waiting
<1>2. /\ buffer'[p] = b /\ \A q \in Partitions : q # p => buffer'[q] = buffer[q]
      /\ buffer' \in [Partitions -> Seq(Readings)]
  BY DEF KafkaTypes
<1>3. \A e \in Devices : e # d => pc'[e] = pc[e]
  BY DEF Returns
<1>4. ASSUME NEW q \in Partitions, NEW j \in 1 .. Len(buffer'[q])
      PROVE  /\ From(q, j) \in 1 .. Len(buffer[q])
             /\ buffer'[q][j] = buffer[q][From(q, j)]
             /\ q = p => From(q, j) # i
  <2>1. CASE q = p
    <3>1. j \in 1 .. Len(b) /\ Len(b) = Len(buffer[p]) - 1
      BY <1>2, <2>1
    <3>2. From(q, j) \in 1 .. Len(buffer[p]) /\ From(q, j) # i
      BY <1>1, <2>1, <3>1
    <3>3. b[j] = buffer[p][From(q, j)]
      BY <2>1, <3>1
    <3> QED
      BY <1>2, <2>1, <3>2, <3>3
  <2>2. CASE q # p
    BY <1>2, <2>2
  <2> QED
    BY <2>1, <2>2
<1>5. ASSUME NEW q \in Partitions, NEW j \in 1 .. Len(buffer'[q]),
             NEW k \in 1 .. Len(buffer'[q]), From(q, j) = From(q, k)
      PROVE  j = k
  BY <1>5
<1> HIDE DEF From
<1>6. ASSUME NEW q \in Partitions, NEW j \in 1 .. Len(buffer'[q])
      PROVE  LET r == buffer'[q][j]
             IN pc'[r[1]] = "emit" /\ r[2] = sent'[r[1]] /\ partitionOf'[r[1]] = q
  <2> DEFINE k == From(q, j)
             r == buffer[q][k]
  <2>1. k \in 1 .. Len(buffer[q]) /\ buffer'[q][j] = r /\ (q = p => k # i)
    BY <1>4
  <2> HIDE DEF k
  <2>2. /\ pc[r[1]] = "emit" /\ r[2] = sent[r[1]] /\ partitionOf[r[1]] = q
        /\ r[1] \in Devices
    <3>1. r[1] \in Devices
      BY <2>1, ReadingFacts
    <3>2. pc[r[1]] = "emit" /\ r[2] = sent[r[1]] /\ partitionOf[r[1]] = q
      BY <2>1 DEF Waiting
    <3> QED
      BY <3>1, <3>2
  <2>3. r[1] # d
    <3>1. CASE q = p
      BY <2>1, <3>1 DEF Waiting
    <3>2. CASE q # p
      BY <1>1, <2>2, <3>2
    <3> QED
      BY <3>1, <3>2
  <2> QED
    BY <1>3, <2>1, <2>2, <2>3
<1>7. ASSUME NEW q \in Partitions, NEW j \in 1 .. Len(buffer'[q]),
             NEW k \in 1 .. Len(buffer'[q]), buffer'[q][j][1] = buffer'[q][k][1]
      PROVE  j = k
  <2>1. From(q, j) = From(q, k)
    BY <1>4, <1>7 DEF Waiting
  <2> QED
    BY <1>5, <2>1
<1> QED
  BY <1>2, <1>4, <1>6, <1>7 DEF Waiting

LEMMA FailKeeps ==
    ASSUME KafkaTypes, Waiting, Stored, NEW p \in Partitions, ProduceFails(p),
           pc \in [Devices -> {"jitter", "select", "emit", "stopped"}]
    PROVE  KafkaTypes' /\ Waiting' /\ Stored'
<1>1. buffer[p] \in Seq(Readings) /\ DOMAIN buffer[p] = 1 .. Len(buffer[p])
  BY ReadingFacts, LenProperties
<1>2. PICK i \in 1 .. Len(buffer[p]) :
         /\ buffer' = [buffer EXCEPT ![p] = RemoveAt(buffer[p], i)]
         /\ Returns(buffer[p][i])
  BY <1>1 DEF ProduceFails
<1>3. topic' = topic /\ sent' = sent /\ partitionOf' = partitionOf
  BY DEF ProduceFails
<1> DEFINE b == RemoveAt(buffer[p], i)
<1>4. /\ b \in Seq(Readings) /\ Len(b) = Len(buffer[p]) - 1
      /\ \A j \in 1 .. Len(b) :
           b[j] = IF j < i THEN buffer[p][j] ELSE buffer[p][j + 1]
  BY <1>1, RemoveAtFacts
<1> HIDE DEF b
<1>5. /\ buffer' \in [Partitions -> Seq(Readings)]
      /\ Waiting'
      /\ \A q \in Partitions : \A j \in 1 .. Len(buffer'[q]) :
            \E k \in 1 .. Len(buffer[q]) :
               buffer'[q][j] = buffer[q][k] /\ (q = p => k # i)
  <2>1. buffer' = [buffer EXCEPT ![p] = b]
    BY <1>2 DEF b
  <2>2. UNCHANGED <<sent, partitionOf>>
    BY <1>3
  <2> QED
    BY <1>2, <1>4, <2>1, <2>2, LeaveKeeps
<1>6. KafkaTypes'
  BY <1>3, <1>5 DEF KafkaTypes
<1>7. Stored'
  <2>1. ASSUME NEW q \in Partitions, NEW j \in 1 .. Len(topic[q]),
               NEW l \in 1 .. Len(buffer'[q]), topic[q][j][1] = buffer'[q][l][1]
        PROVE  topic[q][j][2] < buffer'[q][l][2]
    <3>1. PICK k \in 1 .. Len(buffer[q]) : buffer'[q][l] = buffer[q][k]
      BY <1>5
    <3> QED
      BY <2>1, <3>1 DEF Stored
  <2> QED
    BY <1>3, <2>1 DEF Stored
<1> QED
  BY <1>5, <1>6, <1>7

LEMMA AcknowledgeKeeps ==
    ASSUME KafkaTypes, Waiting, Stored, NEW p \in Partitions, Acknowledge(p),
           pc \in [Devices -> {"jitter", "select", "emit", "stopped"}]
    PROVE  KafkaTypes' /\ Waiting' /\ Stored'
<1> DEFINE h == buffer[p][1]
           b == Tail(buffer[p])
           n == Len(topic[p])
           t == Append(topic[p], h)
<1>1. /\ buffer[p] # <<>> /\ buffer[p] \in Seq(Readings)
      /\ topic[p] \in Seq(Readings) /\ n \in Nat
  BY ReadingFacts DEF Acknowledge
<1>2. /\ 1 \in 1 .. Len(buffer[p]) /\ h \in Readings /\ h = Head(buffer[p])
      /\ h[1] \in Devices /\ h[2] = sent[h[1]] /\ partitionOf[h[1]] = p
      /\ h[2] \in Nat
  <2>1. 1 \in 1 .. Len(buffer[p])
    BY <1>1, EmptySeq
  <2>2. h = Head(buffer[p])
    OBVIOUS
  <2> QED
    BY <2>1, <2>2, ReadingFacts DEF Waiting
<1>3. /\ buffer' = [buffer EXCEPT ![p] = b]
      /\ topic' = [topic EXCEPT ![p] = t]
      /\ Returns(h)
      /\ sent' = sent /\ partitionOf' = partitionOf
  BY <1>2 DEF Acknowledge
<1>4. /\ b \in Seq(Readings) /\ Len(b) = Len(buffer[p]) - 1
      /\ \A j \in 1 .. Len(b) :
           b[j] = IF j < 1 THEN buffer[p][j] ELSE buffer[p][j + 1]
  <2>1. /\ b \in Seq(Readings) /\ Len(b) = Len(buffer[p]) - 1
        /\ \A j \in 1 .. Len(b) : b[j] = buffer[p][j + 1]
    BY <1>1, HeadTailProperties
  <2>2. \A j \in 1 .. Len(b) : ~(j < 1)
    OBVIOUS
  <2> QED
    BY <2>1, <2>2
<1> HIDE DEF b
<1>5. /\ buffer' \in [Partitions -> Seq(Readings)]
      /\ Waiting'
      /\ \A q \in Partitions : \A j \in 1 .. Len(buffer'[q]) :
            \E k \in 1 .. Len(buffer[q]) :
               buffer'[q][j] = buffer[q][k] /\ (q = p => k # 1)
  <2>1. UNCHANGED <<sent, partitionOf>> /\ Returns(buffer[p][1])
    BY <1>3
  <2> HIDE DEF h
  <2>2. PICK i \in 1 .. Len(buffer[p]) : i = 1
    BY <1>2
  <2>3. /\ buffer' = [buffer EXCEPT ![p] = b]
        /\ \A j \in 1 .. Len(b) :
             b[j] = IF j < i THEN buffer[p][j] ELSE buffer[p][j + 1]
        /\ Returns(buffer[p][i])
    BY <1>3, <1>4, <2>1, <2>2
  <2>4. /\ buffer' \in [Partitions -> Seq(Readings)]
        /\ Waiting'
        /\ \A q \in Partitions : \A j \in 1 .. Len(buffer'[q]) :
              \E k \in 1 .. Len(buffer[q]) :
                 buffer'[q][j] = buffer[q][k] /\ (q = p => k # i)
    BY <1>4, <2>1, <2>3, LeaveKeeps
  <2> QED
    BY <2>2, <2>4
<1> HIDE DEF h
<1>6. /\ t \in Seq(Readings) /\ Len(t) = n + 1
      /\ \A j \in 1 .. n : t[j] = topic[p][j]
      /\ t[n + 1] = h
  BY <1>1, <1>2, AppendProperties
<1> HIDE DEF t
<1>7. KafkaTypes'
  BY <1>3, <1>5, <1>6 DEF KafkaTypes
<1>8. topic'[p] = t /\ \A q \in Partitions : q # p => topic'[q] = topic[q]
  BY <1>3 DEF KafkaTypes
<1>9. ASSUME NEW q \in Partitions, NEW j \in 1 .. Len(topic'[q])
      PROVE  \/ j \in 1 .. Len(topic[q]) /\ topic'[q][j] = topic[q][j]
             \/ q = p /\ j = n + 1 /\ topic'[q][j] = h
  <2>1. CASE q # p
    BY <1>8, <2>1
  <2>2. CASE q = p
    <3>1. j \in 1 .. n + 1 /\ topic'[q] = t
      BY <1>6, <1>8, <2>2
    <3>2. CASE j = n + 1
      BY <1>6, <2>2, <3>1, <3>2
    <3>3. CASE j # n + 1
      <4>1. j \in 1 .. n
        BY <1>1, <3>1, <3>3
      <4> QED
        BY <1>6, <2>2, <3>1, <4>1
    <3> QED
      BY <3>2, <3>3
  <2> QED
    BY <2>1, <2>2
<1>10. Stored'
  <2>1. ASSUME NEW q \in Partitions, NEW j \in 1 .. Len(topic'[q])
        PROVE  topic'[q][j][2] <= sent[topic'[q][j][1]] /\ partitionOf[topic'[q][j][1]] = q
    <3>1. CASE j \in 1 .. Len(topic[q]) /\ topic'[q][j] = topic[q][j]
      BY <3>1 DEF Stored
    <3>2. CASE q = p /\ j = n + 1 /\ topic'[q][j] = h
      BY <1>2, <3>2
    <3> QED
      BY <1>9, <3>1, <3>2
  <2>2. ASSUME NEW q \in Partitions, NEW j \in 1 .. Len(topic'[q]),
               NEW l \in 1 .. Len(buffer'[q]), topic'[q][j][1] = buffer'[q][l][1]
        PROVE  topic'[q][j][2] < buffer'[q][l][2]
    <3>1. PICK k \in 1 .. Len(buffer[q]) :
             buffer'[q][l] = buffer[q][k] /\ (q = p => k # 1)
      BY <1>5
    <3>2. CASE j \in 1 .. Len(topic[q]) /\ topic'[q][j] = topic[q][j]
      BY <2>2, <3>1, <3>2 DEF Stored
    <3>3. CASE q = p /\ topic'[q][j] = h
      <4>1. buffer[p][k][1] = buffer[p][1][1] /\ k # 1
        BY <2>2, <3>1, <3>3 DEF h
      <4>2. FALSE
        BY <1>2, <3>1, <3>3, <4>1 DEF Waiting
      <4> QED
        BY <4>2
    <3> QED
      BY <1>9, <3>2, <3>3
  <2>3. ASSUME NEW q \in Partitions, NEW j \in 1 .. Len(topic'[q]),
               NEW l \in 1 .. Len(topic'[q]),
               topic'[q][j][1] = topic'[q][l][1], j < l
        PROVE  topic'[q][j][2] < topic'[q][l][2]
    <3>1. CASE /\ j \in 1 .. Len(topic[q]) /\ topic'[q][j] = topic[q][j]
               /\ l \in 1 .. Len(topic[q]) /\ topic'[q][l] = topic[q][l]
      BY <2>3, <3>1 DEF Stored
    <3>2. CASE /\ q = p /\ l = n + 1 /\ topic'[q][l] = h
               /\ j \in 1 .. Len(topic[q]) /\ topic'[q][j] = topic[q][j]
      BY <1>2, <2>3, <3>2 DEF Stored, h
    <3>3. CASE q = p /\ j = n + 1
      <4>1. l \in 1 .. n + 1
        BY <1>6, <1>8, <3>3
      <4> QED
        BY <1>1, <2>3, <3>3, <4>1
    <3> QED
      BY <1>9, <3>1, <3>2, <3>3
  <2> QED
    BY <1>3, <2>1, <2>2, <2>3 DEF Stored
<1> QED
  BY <1>5, <1>7, <1>10

-----------------------------------------------------------------------------
(* TypeOK in the two parts the lemmas are about, and the rest.             *)
ControlTypes ==
    /\ pc \in [Devices -> {"jitter", "select", "emit", "stopped"}]
    /\ main \in {"running", "joining", "closed"}
    /\ cancelled \in BOOLEAN
    /\ ticker \in [Devices -> BOOLEAN]

LEMMA TypesSplit == TypeOK <=> ControlTypes /\ DeviceTypes /\ KafkaTypes
BY DEF TypeOK, ControlTypes, DeviceTypes, KafkaTypes

LEMMA InitSimulatorInv == Init => SimulatorInv
<1> SUFFICES ASSUME Init PROVE SimulatorInv
  OBVIOUS
<1> USE DEF Init
<1>1. <<>> \in Seq(Readings) /\ Len(<<>>) = 0
  BY EmptySeq
<1>2. KafkaTypes
  <2>1. MaxReadings \in Nat
    BY SimulatorAssumption DEF SimulatorAssumption
  <2> QED
    BY <1>1, <2>1 DEF KafkaTypes
<1>3. ControlTypes /\ DeviceTypes
  BY DEF ControlTypes, DeviceTypes, States
<1>4. Waiting /\ Stored
  BY <1>1 DEF Waiting, Stored
<1>5. Excursions /\ Joined
  BY DEF Excursions, Joined
<1> QED
  BY <1>2, <1>3, <1>4, <1>5, TypesSplit DEF SimulatorInv

(* Every step keeps the invariant, and ends excursions only as drawn.      *)
LEMMA NextSimulatorInv ==
    ASSUME SimulatorInv, [Next]_vars
    PROVE  SimulatorInv' /\ EndsAsDrawn
<1>1. ControlTypes /\ DeviceTypes /\ KafkaTypes /\ Waiting /\ Stored
      /\ Excursions /\ Joined
  BY TypesSplit DEF SimulatorInv
<1>2. pc \in [Devices -> {"jitter", "select", "emit", "stopped"}]
  BY <1>1 DEF ControlTypes
<1>3. SUFFICES /\ ControlTypes' /\ Joined'
               /\ DeviceTypes' /\ Excursions' /\ EndsAsDrawn
               /\ KafkaTypes' /\ Waiting' /\ Stored'
  BY <1>3, TypesSplit DEF SimulatorInv, TypeOK, ControlTypes, DeviceTypes, KafkaTypes
<1>4. CASE Cancel \/ Join \/ CloseProducer \/ UNCHANGED vars
  <2>1. UNCHANGED <<pc, ticker, device, kafka>>
    BY <1>4 DEF Cancel, Join, CloseProducer, vars
  <2>2. ControlTypes' /\ Joined'
    BY <1>1, <1>4, <2>1 DEF Cancel, Join, CloseProducer, vars, ControlTypes,
                            Joined, AllStopped
  <2> QED
    BY <1>1, <2>1, <2>2, DeviceUnchanged, KafkaUnchanged
<1>5. ASSUME NEW d \in Devices, JitterElapses(d) \/ Tick(d) \/ Stop(d)
      PROVE  /\ ControlTypes' /\ Joined'
             /\ DeviceTypes' /\ Excursions' /\ EndsAsDrawn
             /\ KafkaTypes' /\ Waiting' /\ Stored'
  <2>1. UNCHANGED <<device, kafka>>
    BY <1>5 DEF JitterElapses, Tick, Stop
  <2>2. \A e \in Devices : /\ pc[e] = "emit" => pc'[e] = "emit"
                           /\ pc[e] = "stopped" => pc'[e] = "stopped"
    BY <1>2, <1>5 DEF JitterElapses, Tick, Stop
  <2>3. ControlTypes' /\ main' = main
    BY <1>1, <1>5 DEF JitterElapses, Tick, Stop, ControlTypes
  <2>4. Joined'
    BY <1>1, <2>2, <2>3 DEF Joined
  <2> QED
    BY <1>1, <2>1, <2>2, <2>3, <2>4, DeviceUnchanged, KafkaUnchanged
<1>6. ASSUME NEW d \in Devices, Emit(d) \/ EmitCancelled(d)
      PROVE  /\ ControlTypes' /\ Joined'
             /\ DeviceTypes' /\ Excursions' /\ EndsAsDrawn
             /\ KafkaTypes' /\ Waiting' /\ Stored'
  <2>1. AdvanceState(d)
    BY <1>6 DEF Emit, EmitCancelled
  <2>2. KafkaTypes' /\ Waiting' /\ Stored'
    <3>1. CASE Emit(d)
      BY <1>1, <1>2, <3>1, EmitKeeps
    <3>2. CASE EmitCancelled(d)
      <4>1. UNCHANGED kafka /\ pc' = pc
        BY <3>2 DEF EmitCancelled
      <4> QED
        BY <1>1, <4>1, KafkaUnchanged
    <3> QED
      BY <1>6, <3>1, <3>2
  <2>3. pc[d] = "select" /\ main' = main
    BY <1>6 DEF Emit, EmitCancelled
  <2>4. ControlTypes'
    BY <1>1, <1>6 DEF Emit, EmitCancelled, ControlTypes
  <2>5. Joined'
    <3>1. main # "closed"
      BY <1>1, <2>3 DEF Joined
    <3> QED
      BY <2>3, <3>1 DEF Joined
  <2> QED
    BY <1>1, <2>1, <2>2, <2>4, <2>5, AdvanceKeeps
<1>7. ASSUME NEW p \in Partitions, Acknowledge(p) \/ ProduceFails(p)
      PROVE  /\ ControlTypes' /\ Joined'
             /\ DeviceTypes' /\ Excursions' /\ EndsAsDrawn
             /\ KafkaTypes' /\ Waiting' /\ Stored'
  <2>1. UNCHANGED <<main, cancelled, ticker, device>> /\ main # "closed"
    BY <1>7 DEF Acknowledge, ProduceFails
  <2>2. PICK r : Returns(r)
    BY <1>7 DEF Acknowledge, ProduceFails
  <2>3. ControlTypes' /\ Joined'
    BY <1>1, <2>1, <2>2 DEF ControlTypes, Joined, Returns
  <2>4. KafkaTypes' /\ Waiting' /\ Stored'
    BY <1>1, <1>2, <1>7, AcknowledgeKeeps, FailKeeps
  <2> QED
    BY <1>1, <2>1, <2>3, <2>4, DeviceUnchanged
<1> QED
  BY <1>4, <1>5, <1>6, <1>7 DEF Next

LEMMA SimulatorInvariant == Spec => []SimulatorInv
<1>1. SimulatorInv /\ [Next]_vars => SimulatorInv'
  BY NextSimulatorInv
<1> QED
  BY <1>1, InitSimulatorInv, PTL DEF Spec

(* Every variable has its type, and only an excursion has ticks left.      *)
THEOREM SimulatorTypes == Spec => []TypeOK
<1>1. SimulatorInv => TypeOK
  BY DEF SimulatorInv
<1> QED
  BY <1>1, SimulatorInvariant, PTL

(* The readings of a device are on one partition, in order, whatever       *)
(* failed and whoever shares the producer (producer.go 25-27).             *)
THEOREM OrderKept == Spec => []OrderedPerDevice
<1>1. SimulatorInv => OrderedPerDevice
  <2> SUFFICES ASSUME SimulatorInv, NEW p \in Partitions, NEW q \in Partitions,
                      NEW i \in DOMAIN topic[p], NEW j \in DOMAIN topic[q],
                      topic[p][i][1] = topic[q][j][1]
               PROVE  p = q /\ (i < j => topic[p][i][2] < topic[q][j][2])
    BY DEF OrderedPerDevice
  <2>1. KafkaTypes
    BY TypesSplit DEF SimulatorInv
  <2>2. i \in 1 .. Len(topic[p]) /\ j \in 1 .. Len(topic[q])
    BY <2>1, ReadingFacts, LenProperties
  <2>3. partitionOf[topic[p][i][1]] = p /\ partitionOf[topic[q][j][1]] = q
    BY <2>2 DEF SimulatorInv, Stored
  <2>4. p = q
    BY <2>3
  <2> QED
    BY <2>2, <2>4 DEF SimulatorInv, Stored
<1> QED
  BY <1>1, SimulatorInvariant, PTL

(* main closes the producer after every goroutine has left it, with        *)
(* nothing in its buffers (producer.go 88-89).                             *)
THEOREM ProducerClosedLast == Spec => []ClosedLast
<1>1. SimulatorInv => ClosedLast
  <2> SUFFICES ASSUME SimulatorInv, main = "closed"
               PROVE  /\ \A d \in Devices : pc[d] = "stopped"
                      /\ \A p \in Partitions : buffer[p] = <<>>
    BY DEF ClosedLast
  <2>1. \A d \in Devices : pc[d] = "stopped"
    BY DEF SimulatorInv, Joined
  <2>2. ASSUME NEW p \in Partitions, buffer[p] # <<>> PROVE FALSE
    <3>1. KafkaTypes
      BY TypesSplit DEF SimulatorInv
    <3>2. 1 \in 1 .. Len(buffer[p]) /\ buffer[p][1][1] \in Devices
      <4>1. 1 \in 1 .. Len(buffer[p])
        BY <2>2, <3>1, ReadingFacts, EmptySeq
      <4> QED
        BY <3>1, <4>1, ReadingFacts
    <3>3. pc[buffer[p][1][1]] = "emit"
      BY <3>2 DEF SimulatorInv, Waiting
    <3> QED
      BY <2>1, <3>2, <3>3
  <2> QED
    BY <2>1, <2>2
<1> QED
  BY <1>1, SimulatorInvariant, PTL

(* A spike or a drift lasts as many readings as were drawn (device.go      *)
(* 78-91), also when some of them could not be produced.                   *)
THEOREM LengthAsDrawn == Spec => ExcursionLength
<1>1. SimulatorInv /\ [Next]_vars =>
        [\A d \in Devices :
           state[d] # "normal" /\ state'[d] = "normal" =>
               run[d] \in IF state[d] = "spike" THEN SpikeTicks
                                                ELSE DriftTicks]_vars
  BY NextSimulatorInv DEF EndsAsDrawn
<1> QED
  BY <1>1, SimulatorInvariant, PTL DEF Spec, ExcursionLength
=============================================================================
