------------------------- MODULE SlidingWindowProofs -------------------------
(***************************************************************************)
(* Proofs about module SlidingWindow, for every window size, threshold and *)
(* history, in any order of timestamps.  Theorems:                         *)
(*   WindowTypes         Spec => []TypeOK                                  *)
(*   NoLiveReadingLost   Spec => []EvictsTheStaleFront                     *)
(*   ExactSettled        Spec => []ExactOnceSettled                        *)
(*   AlertStateIsCurrent Spec => []ActiveIsTheLastVerdict                  *)
(*   OneAlertEach        Spec => []OneAlertPerEpisode                      *)
(* The first two need WindowInv only, and a settled window is exact by     *)
(* what WindowInv says of it.  The alerts need EpisodeInv: a reading that  *)
(* arrives leaves the verdicts of earlier ones as they were, and the       *)
(* active set is the last of them, so a type starts an episode exactly when*)
(* it fires and is not active.                                             *)
(***************************************************************************)
EXTENDS AggregateProofs

(* push evicts a part of the front, all of it stale, and stops at an entry *)
(* that is not.                                                            *)
LEMMA TrimFacts ==
    ASSUME NEW entries \in Seq(Readings), NEW cutoff \in Int
    PROVE  LET trim == Trim(entries, cutoff)
           IN /\ trim \in 0 .. Len(entries)
              /\ \A i \in 1 .. trim : entries[i].time < cutoff
              /\ trim < Len(entries) => entries[trim + 1].time >= cutoff
<1> DEFINE n == Len(entries)
           S == {i \in 0 .. n : i = n \/ ~Stale(entries[i + 1], cutoff)}
           trim == Trim(entries, cutoff)
<1>1. n \in Nat /\ \A i \in 1 .. n : entries[i].time \in Int
  <2>1. n \in Nat /\ \A i \in 1 .. n : entries[i] \in Readings
    BY LenProperties, ElementOfSeq
  <2>2. \A e \in Readings : e.time \in Int
    BY WindowAssumption DEF WindowAssumption, Readings
  <2> QED
    BY <2>1, <2>2
<1>2. S \in SUBSET Nat /\ n \in S
  BY <1>1
<1>3. trim \in S /\ \A i \in S : trim <= i
  <2>1. trim = Min(S)
    BY DEF Trim
  <2> HIDE DEF S, trim
  <2> QED
    BY <1>2, <2>1, MinOfIndices
<1>4. trim \in 0 .. n
  BY <1>3
<1>5. ASSUME NEW i \in 1 .. trim PROVE entries[i].time < cutoff
  <2> HIDE DEF trim
  <2>1. i - 1 \in 0 .. n /\ i - 1 < trim /\ i - 1 # n
    BY <1>1, <1>4
  <2>2. i - 1 \notin S
    BY <1>3, <1>4, <2>1
  <2>3. Stale(entries[(i - 1) + 1], cutoff)
    BY <2>1, <2>2
  <2> QED
    BY <2>3 DEF Stale
<1>6. ASSUME trim < n PROVE entries[trim + 1].time >= cutoff
  <2> HIDE DEF trim
  <2>1. ~Stale(entries[trim + 1], cutoff)
    BY <1>3, <1>6
  <2>2. trim + 1 \in 1 .. n
    BY <1>1, <1>4, <1>6
  <2> QED
    BY <1>1, <2>1, <2>2 DEF Stale
<1> QED
  BY <1>4, <1>5, <1>6

(* What push makes of the entries of a device.                             *)
LEMMA PushedFacts ==
    ASSUME NEW d \in Devices, windows[d] \in Seq(Readings), NEW r \in Readings
    PROVE  \E trim \in 0 .. Len(windows[d]) :
             LET n == Len(windows[d]) - trim
             IN /\ Pushed(d, r) \in Seq(Readings)
                /\ Len(Pushed(d, r)) = n + 1
                /\ \A i \in 1 .. n : Pushed(d, r)[i] = windows[d][trim + i]
                /\ Pushed(d, r)[n + 1] = r
                /\ \A i \in 1 .. trim :
                      windows[d][i].time < r.time - WindowSize
                /\ n > 0 => Pushed(d, r)[1].time >= r.time - WindowSize
<1> DEFINE w == windows[d]
           cutoff == r.time - WindowSize
           trim == Trim(w, cutoff)
           kept == SubSeq(w, trim + 1, Len(w))
           n == Len(w) - trim
<1>1. cutoff \in Int /\ Len(w) \in Nat
  <2>1. r.time \in Int
    BY WindowAssumption DEF WindowAssumption, Readings
  <2>2. WindowSize \in Int
    BY WindowAssumption DEF WindowAssumption
  <2> QED
    BY <2>1, <2>2, LenProperties
<1>2. /\ trim \in 0 .. Len(w)
      /\ \A i \in 1 .. trim : w[i].time < cutoff
      /\ trim < Len(w) => w[trim + 1].time >= cutoff
  <2> HIDE DEF cutoff
  <2> QED
    BY <1>1, TrimFacts
<1>3. Pushed(d, r) = Append(kept, r)
  BY DEF Pushed
<1> HIDE DEF cutoff, trim
<1>4. /\ kept \in Seq(Readings)
      /\ Len(kept) = n
      /\ \A i \in 1 .. n : kept[i] = w[trim + i]
  <2>1. \A i \in trim + 1 .. Len(w) : w[i] \in Readings
    BY <1>1, <1>2, ElementOfSeq
  <2>2. trim + 1 \in Int /\ Len(w) \in Int
    BY <1>1, <1>2
  <2>3. /\ kept \in Seq(Readings)
        /\ Len(kept) = IF trim + 1 <= Len(w) THEN Len(w) - (trim + 1) + 1 ELSE 0
        /\ \A i \in 1 .. Len(w) - (trim + 1) + 1 : kept[i] = w[(trim + 1) + i - 1]
    BY <2>1, <2>2, SubSeqProperties
  <2> QED
    BY <2>3, <1>1, <1>2
<1>5. /\ Append(kept, r) \in Seq(Readings)
      /\ Len(Append(kept, r)) = n + 1
      /\ \A i \in 1 .. n : Append(kept, r)[i] = w[trim + i]
      /\ Append(kept, r)[n + 1] = r
  <2> HIDE DEF kept
  <2>1. kept \in Seq(Readings) /\ r \in Readings
    BY <1>4
  <2>2. /\ Append(kept, r) \in Seq(Readings)
        /\ Len(Append(kept, r)) = Len(kept) + 1
        /\ \A i \in 1 .. Len(kept) : Append(kept, r)[i] = kept[i]
        /\ Append(kept, r)[Len(kept) + 1] = r
    BY <2>1, AppendProperties
  <2> QED
    BY <1>4, <2>2
<1>6. n > 0 => Append(kept, r)[1].time >= cutoff
  <2> SUFFICES ASSUME n > 0 PROVE Append(kept, r)[1].time >= cutoff
    OBVIOUS
  <2>1. 1 \in 1 .. n /\ trim < Len(w)
    BY <1>1, <1>2
  <2>2. Append(kept, r)[1] = w[trim + 1]
    BY <2>1, <1>5
  <2> QED
    BY <2>1, <2>2, <1>2
<1> QED
  BY <1>2, <1>3, <1>5, <1>6 DEF cutoff

-----------------------------------------------------------------------------
WindowInv == TypeOK /\ EvictsTheStaleFront

(* The window of d says of its history what it should.                     *)
Suits(w, h) ==
    LET dropped == Len(h) - Len(w)
    IN /\ Len(w) <= Len(h)
       /\ w = SubSeq(h, dropped + 1, Len(h))
       /\ \A i \in 1 .. dropped : \E j \in DOMAIN h :
             h[i].time < h[j].time - WindowSize
       /\ h # <<>> => \/ Len(w) = 1
                      \/ Len(w) > 1 /\ w[1].time >= h[Len(h)].time - WindowSize

(* A reading is pushed: what was evicted is stale, the rest is in place.   *)
LEMMA PushSuits ==
    ASSUME NEW d \in Devices, NEW r \in Readings, NEW h \in Seq(Readings),
           windows[d] \in Seq(Readings), Suits(windows[d], h)
    PROVE  Suits(Pushed(d, r), Append(h, r))
<1> DEFINE w == windows[d]
           g == Append(h, r)
           v == Pushed(d, r)
           dropped == Len(h) - Len(w)
<1>1. /\ Len(w) \in Nat /\ Len(h) \in Nat /\ Len(w) <= Len(h)
      /\ \A i \in 1 .. Len(h) : h[i] \in Readings
      /\ DOMAIN h = 1 .. Len(h)
  BY LenProperties, ElementOfSeq DEF Suits
<1>2. PICK trim \in 0 .. Len(w) :
             LET n == Len(w) - trim
             IN /\ v \in Seq(Readings)
                /\ Len(v) = n + 1
                /\ \A i \in 1 .. n : v[i] = w[trim + i]
                /\ v[n + 1] = r
                /\ \A i \in 1 .. trim : w[i].time < r.time - WindowSize
                /\ n > 0 => v[1].time >= r.time - WindowSize
  BY PushedFacts
<1> DEFINE n == Len(w) - trim
<1>3. /\ g \in Seq(Readings) /\ Len(g) = Len(h) + 1
      /\ \A i \in 1 .. Len(h) : g[i] = h[i]
      /\ g[Len(h) + 1] = r
      /\ DOMAIN g = 1 .. Len(h) + 1
  BY AppendProperties, LenProperties
<1> HIDE DEF g, v
<1>4. \A i \in 1 .. Len(w) : w[i] = h[dropped + i]
  <2>1. \A i \in dropped + 1 .. Len(h) : h[i] \in Readings
    BY <1>1
  <2>2. w = SubSeq(h, dropped + 1, Len(h))
    BY DEF Suits
  <2>3. dropped + 1 \in Int /\ Len(h) \in Int /\ Len(h) - (dropped + 1) + 1 = Len(w)
    BY <1>1
  <2>4. \A i \in 1 .. Len(w) : SubSeq(h, dropped + 1, Len(h))[i]
                                  = h[(dropped + 1) + i - 1]
    <3> HIDE DEF dropped
    <3>1. \A i \in 1 .. Len(h) - (dropped + 1) + 1 :
             SubSeq(h, dropped + 1, Len(h))[i] = h[(dropped + 1) + i - 1]
      BY <2>1, <2>3, SubSeqProperties
    <3> QED
      BY <2>3, <3>1
  <2>5. \A i \in 1 .. Len(w) : (dropped + 1) + i - 1 = dropped + i
    BY <1>1
  <2> QED
    BY <2>2, <2>4, <2>5
<1>5. Len(v) = n + 1 /\ n \in Nat /\ Len(v) <= Len(g) /\ Len(g) - Len(v) = dropped + trim
  BY <1>1, <1>2, <1>3
<1>9. /\ dropped \in Nat /\ trim \in Nat /\ n \in Nat
      /\ Len(h) = dropped + Len(w) /\ Len(w) = trim + n
  BY <1>1, <1>2
<1> HIDE DEF dropped, n, w
<1>6. v = SubSeq(g, (Len(g) - Len(v)) + 1, Len(g))
  <2> DEFINE k == Len(g) - Len(v)
             sub == SubSeq(g, k + 1, Len(g))
  <2>1. k \in Nat /\ k + 1 \in Int /\ Len(g) \in Int /\ k + 1 <= Len(g)
    BY <1>1, <1>3, <1>5
  <2>2. \A i \in k + 1 .. Len(g) : g[i] \in Readings
    <3>1. \A i \in 1 .. Len(g) : g[i] \in Readings
      BY <1>3, ElementOfSeq
    <3> QED
      BY <2>1, <3>1
  <2> HIDE DEF k
  <2>3. /\ sub \in Seq(Readings)
        /\ Len(sub) = IF k + 1 <= Len(g) THEN Len(g) - (k + 1) + 1 ELSE 0
        /\ \A i \in 1 .. Len(g) - (k + 1) + 1 : sub[i] = g[(k + 1) + i - 1]
    BY <2>1, <2>2, SubSeqProperties
  <2> HIDE DEF sub
  <2>4. k = dropped + trim /\ Len(g) - (k + 1) + 1 = n + 1
    BY <1>3, <1>5, <1>9 DEF k
  <2>5. Len(sub) = Len(v)
    BY <2>1, <2>3, <2>4, <1>5
  <2>6. ASSUME NEW i \in 1 .. Len(v) PROVE v[i] = sub[i]
    <3>1. sub[i] = g[k + i]
      <4>1. (k + 1) + i - 1 = k + i /\ i \in 1 .. Len(g) - (k + 1) + 1
        BY <2>1, <2>4, <1>5, <1>9
      <4> QED
        BY <4>1, <2>3
    <3>2. CASE i = n + 1
      <4>1. k + i = Len(h) + 1
        BY <1>1, <1>9, <2>4, <3>2
      <4>2. v[n + 1] = r
        BY <1>2 DEF n
      <4> QED
        BY <4>1, <4>2, <3>1, <3>2, <1>3
    <3>3. CASE i # n + 1
      <4>1. i \in 1 .. n /\ trim + i \in 1 .. Len(w)
        BY <1>1, <1>9, <1>5, <3>3
      <4>2. v[i] = h[dropped + (trim + i)]
        BY <4>1, <1>2, <1>4 DEF n
      <4>3. k + i = dropped + (trim + i) /\ k + i \in 1 .. Len(h)
        BY <1>1, <1>9, <2>4, <4>1
      <4> QED
        BY <4>1, <4>2, <4>3, <3>1, <1>3
    <3> QED
      BY <3>2, <3>3
  <2>7. v = sub
    BY <2>3, <2>5, <2>6, <1>2, SeqEqual
  <2> QED
    BY <2>7 DEF sub, k
<1>7. ASSUME NEW i \in 1 .. Len(g) - Len(v)
      PROVE  \E j \in DOMAIN g : g[i].time < g[j].time - WindowSize
  <2>1. i \in 1 .. dropped + trim
    BY <1>5
  <2>2. CASE i <= dropped
    <3>1. i \in 1 .. dropped /\ i \in 1 .. Len(h)
      BY <1>1, <1>9, <2>1, <2>2
    <3>2. PICK j \in DOMAIN h : h[i].time < h[j].time - WindowSize
      BY <3>1 DEF Suits, dropped, w
    <3>3. j \in DOMAIN g /\ g[j] = h[j] /\ g[i] = h[i]
      BY <1>1, <1>3, <3>1
    <3> QED
      BY <3>2, <3>3
  <2>3. CASE i > dropped
    <3>1. /\ i - dropped \in 1 .. trim /\ i - dropped \in 1 .. Len(w)
          /\ i \in 1 .. Len(h) /\ dropped + (i - dropped) = i
      BY <1>1, <1>9, <2>1, <2>3
    <3>2. w[i - dropped] = h[i] /\ w[i - dropped].time < r.time - WindowSize
      BY <3>1, <1>2, <1>4
    <3>3. g[i] = h[i] /\ g[Len(h) + 1] = r /\ Len(h) + 1 \in DOMAIN g
      BY <3>1, <1>1, <1>3
    <3> QED
      BY <3>2, <3>3
  <2> QED
    BY <1>9, <2>1, <2>2, <2>3
<1>8. \/ Len(v) = 1
      \/ Len(v) > 1 /\ v[1].time >= g[Len(g)].time - WindowSize
  BY <1>2, <1>3, <1>9, <1>5 DEF n
<1> QED
  BY <1>5, <1>6, <1>7, <1>8 DEF Suits, g, v, dropped, n, w

(* The invariant as a fact about one device.                               *)
LEMMA InvSuits ==
    ASSUME WindowInv, NEW d \in Devices
    PROVE  /\ windows[d] \in Seq(Readings) /\ arrived[d] \in Seq(Readings)
           /\ Len(windows[d]) \in Nat /\ Len(arrived[d]) \in Nat
           /\ Suits(windows[d], arrived[d])
<1>1. windows[d] \in Seq(Readings) /\ arrived[d] \in Seq(Readings)
  BY DEF WindowInv, TypeOK
<1>2. Len(windows[d]) \in Nat /\ Len(arrived[d]) \in Nat
  BY <1>1, LenProperties
<1>3. Len(windows[d]) <= Len(arrived[d])
  BY DEF WindowInv, TypeOK
<1> QED
  BY <1>1, <1>2, <1>3 DEF WindowInv, EvictsTheStaleFront, Suits

(* It holds at the start.                                                  *)
LEMMA InitWindowInv == Init => WindowInv
<1> SUFFICES ASSUME Init PROVE WindowInv
  OBVIOUS
<1>1. <<>> \in Seq(Readings) /\ Len(<<>>) = 0 /\ SubSeq(<<>>, 1, 0) = <<>>
  <2>1. <<>> \in Seq(Readings) /\ Len(<<>>) = 0
    BY EmptySeq
  <2>2. SubSeq(<<>>, 1, 0) = <<>>
    BY SubSeqEmpty
  <2> QED
    BY <2>1, <2>2
<1>2. ASSUME NEW d \in Devices
      PROVE  windows[d] = <<>> /\ arrived[d] = <<>>
  BY DEF Init
<1>3. TypeOK
  <2>1. MaxReadings \in Nat /\ pushes = 0
    BY WindowAssumption DEF WindowAssumption, Init
  <2>2. \A d \in Devices : /\ Len(windows[d]) <= Len(arrived[d])
                            /\ Len(arrived[d]) <= pushes
    BY <1>1, <1>2, <2>1
  <2>3. windows \in [Devices -> Seq(Readings)] /\ arrived \in [Devices -> Seq(Readings)]
    BY <1>1 DEF Init
  <2> QED
    BY <2>1, <2>2, <2>3 DEF Init, TypeOK
<1>4. EvictsTheStaleFront
  <2> SUFFICES ASSUME NEW d \in Devices PROVE Suits(<<>>, <<>>)
    BY <1>2 DEF Suits, EvictsTheStaleFront
  <2> QED
    BY <1>1 DEF Suits
<1> QED
  BY <1>3, <1>4 DEF WindowInv

(* A reading arrives, whatever becomes of it further on.                   *)
LEMMA ArriveKeeps ==
    ASSUME WindowInv, NEW d \in Devices, NEW r \in Readings, Arrive(d, r)
    PROVE  /\ windows' \in [Devices -> Seq(Readings)]
           /\ arrived' \in [Devices -> Seq(Readings)]
           /\ pushes' \in 0 .. MaxReadings
           /\ \A e \in Devices : /\ Suits(windows'[e], arrived'[e])
                                  /\ Len(arrived'[e]) \in 0 .. pushes'
           /\ Len(arrived'[d]) \in 1 .. MaxReadings
<1>1. /\ windows \in [Devices -> Seq(Readings)]
      /\ arrived \in [Devices -> Seq(Readings)]
      /\ pushes \in 0 .. MaxReadings /\ MaxReadings \in Nat
      /\ \A e \in Devices : Len(arrived[e]) <= pushes
  BY WindowAssumption DEF WindowInv, TypeOK, WindowAssumption
<1>2. /\ pushes < MaxReadings /\ pushes' = pushes + 1
      /\ windows' = [windows EXCEPT ![d] = Pushed(d, r)]
      /\ arrived' = [arrived EXCEPT ![d] = Append(arrived[d], r)]
  BY DEF Arrive
<1>3. Pushed(d, r) \in Seq(Readings)
  BY <1>1, PushedFacts
<1>4. /\ Append(arrived[d], r) \in Seq(Readings)
      /\ Len(Append(arrived[d], r)) = Len(arrived[d]) + 1
  BY <1>1, AppendProperties
<1>5. Suits(Pushed(d, r), Append(arrived[d], r))
  BY <1>1, InvSuits, PushSuits
<1>6. ASSUME NEW e \in Devices
      PROVE  /\ Suits(windows'[e], arrived'[e])
             /\ Len(arrived'[e]) \in 0 .. pushes'
             /\ e = d => Len(arrived'[e]) \in 1 .. MaxReadings
  <2>1. Len(arrived[e]) \in Nat /\ Len(arrived[e]) <= pushes
    BY <1>1, InvSuits
  <2>2. CASE e = d
    <3>1. windows'[e] = Pushed(d, r) /\ arrived'[e] = Append(arrived[d], r)
      BY <1>1, <1>2, <2>2
    <3>2. Len(arrived'[e]) \in 1 .. pushes' /\ pushes' <= MaxReadings
      BY <1>1, <1>2, <1>4, <2>1, <2>2, <3>1
    <3>3. Len(arrived'[e]) \in 0 .. pushes' /\ Len(arrived'[e]) \in 1 .. MaxReadings
      BY <1>1, <1>2, <3>2
    <3> QED
      BY <1>5, <3>1, <3>3
  <2>3. CASE e # d
    <3>1. windows'[e] = windows[e] /\ arrived'[e] = arrived[e]
      BY <1>1, <1>2, <2>3
    <3>2. Suits(windows'[e], arrived'[e])
      BY <3>1, InvSuits
    <3>3. Len(arrived'[e]) \in 0 .. pushes'
      BY <1>1, <1>2, <2>1, <3>1
    <3> QED
      BY <2>3, <3>2, <3>3
  <2> QED
    BY <2>2, <2>3
<1> QED
  BY <1>1, <1>2, <1>3, <1>4, <1>6

(* What the detector stores has its type.                                  *)
LEMMA DetectTypes ==
    ASSUME TypeOK, NEW d \in Devices, NEW entries, Detect(d, entries)
    PROVE  /\ activeAlerts' \in [Devices -> SUBSET AlertTypes]
           /\ emitted' \in [Devices -> [AlertTypes -> Nat]]
<1> DEFINE firing == Firing(Aggregate(entries, DOMAIN entries))
<1>1. firing \subseteq AlertTypes
  BY DEF Firing
<1>2. /\ emitted' = [emitted EXCEPT ![d] = [t \in AlertTypes |->
              IF t \in firing \ activeAlerts[d] THEN emitted[d][t] + 1
                                                ELSE emitted[d][t]]]
      /\ activeAlerts' = [activeAlerts EXCEPT
                             ![d] = ActiveAfter(activeAlerts[d], firing)]
  BY DEF Detect
<1> HIDE DEF firing
<1>3. activeAlerts' \in [Devices -> SUBSET AlertTypes]
  BY <1>1, <1>2 DEF TypeOK, ActiveAfter
<1>4. [t \in AlertTypes |-> IF t \in firing \ activeAlerts[d]
                            THEN emitted[d][t] + 1 ELSE emitted[d][t]]
      \in [AlertTypes -> Nat]
  BY DEF TypeOK
<1> QED
  BY <1>2, <1>3, <1>4 DEF TypeOK

(* A reading that goes through the pipeline keeps it, and so does one      *)
(* whose publish fails.                                                    *)
LEMMA NextWindowInv == WindowInv /\ [Next]_vars => WindowInv'
<1> SUFFICES ASSUME WindowInv, [Next]_vars PROVE WindowInv'
  OBVIOUS
<1>1. ASSUME NEW d \in Devices, NEW r \in Readings,
             Process(d, r) \/ PublishFails(d, r)
      PROVE  WindowInv'
  <2>1. Arrive(d, r)
    BY <1>1 DEF Process, PublishFails
  <2>2. /\ windows' \in [Devices -> Seq(Readings)]
        /\ arrived' \in [Devices -> Seq(Readings)]
        /\ pushes' \in 0 .. MaxReadings
        /\ \A e \in Devices : /\ Suits(windows'[e], arrived'[e])
                               /\ Len(arrived'[e]) \in 0 .. pushes'
        /\ Len(arrived'[d]) \in 1 .. MaxReadings
    BY <2>1, ArriveKeeps
  <2>3. EvictsTheStaleFront'
    BY <2>2 DEF EvictsTheStaleFront, Suits
  <2>4. TypeOK
    BY DEF WindowInv
  <2>5. /\ activeAlerts' \in [Devices -> SUBSET AlertTypes]
        /\ emitted' \in [Devices -> [AlertTypes -> Nat]]
        /\ judged' \in [Devices -> SUBSET (1 .. MaxReadings)]
    <3>1. CASE PublishFails(d, r)
      BY <2>4, <3>1 DEF PublishFails, TypeOK
    <3>2. CASE Process(d, r)
      <4>1. /\ Detect(d, windows'[d])
            /\ judged' = [judged EXCEPT
                            ![d] = judged[d] \union {Len(arrived'[d])}]
        BY <3>2 DEF Process
      <4>2. judged' \in [Devices -> SUBSET (1 .. MaxReadings)]
        BY <2>2, <2>4, <4>1 DEF TypeOK
      <4> QED
        BY <2>4, <4>1, <4>2, DetectTypes
    <3> QED
      BY <1>1, <3>1, <3>2
  <2>6. \A e \in Devices : /\ Len(windows'[e]) <= Len(arrived'[e])
                            /\ Len(arrived'[e]) <= pushes'
    BY <2>2 DEF Suits
  <2> QED
    BY <2>2, <2>3, <2>5, <2>6 DEF WindowInv, TypeOK
<1>2. ASSUME UNCHANGED vars PROVE WindowInv'
  BY <1>2 DEF vars, WindowInv, TypeOK, EvictsTheStaleFront
<1> QED
  BY <1>1, <1>2 DEF Next

-----------------------------------------------------------------------------
(* The invariant holds throughout.                                         *)
LEMMA WindowInvariant == Spec => []WindowInv
  BY InitWindowInv, NextWindowInv, PTL DEF Spec

(* Every variable has its type, and a window is no longer than its history.*)
THEOREM WindowTypes == Spec => []TypeOK
<1>1. WindowInv => TypeOK
  BY DEF WindowInv
<1> QED
  BY <1>1, WindowInvariant, PTL

(* push evicts what has left the window and nothing else, whatever the     *)
(* order in which readings arrive (window.go 58-65).                       *)
THEOREM NoLiveReadingLost == Spec => []EvictsTheStaleFront
<1>1. WindowInv => EvictsTheStaleFront
  BY DEF WindowInv
<1> QED
  BY <1>1, WindowInvariant, PTL

(* Once settled, what is retained are the readings of the window of the    *)
(* last one, in order.                                                     *)
LEMMA RetainedIsTheWindow ==
    ASSUME NEW w \in Seq(Readings), NEW h \in Seq(Readings),
           Suits(w, h), Settled(h, Len(h))
    PROVE  /\ Len(w) \in 1 .. Len(h)
           /\ InWindow(h, Len(h)) = Len(h) - Len(w) + 1 .. Len(h)
           /\ Len(w) = 1 \/ h[Len(h) - Len(w) + 1].time >= h[Len(h)].time - WindowSize
           /\ \A i \in 1 .. Len(w) : w[i] = h[Len(h) - Len(w) + i]
           /\ \A i, j \in Len(h) - Len(w) + 1 .. Len(h) :
                i <= j => h[i].time <= h[j].time
<1> DEFINE n == Len(h)
           m == Len(w)
           k == n - m
<1>1. n \in Nat /\ m \in Nat /\ DOMAIN h = 1 .. n /\ m <= n
  BY LenProperties DEF Suits
<1>2. m \in 1 .. n /\ k \in 0 .. n - 1 /\ h # <<>>
  <2>1. n >= 1
    BY <1>1 DEF Settled
  <2>2. h # <<>>
    BY <2>1, EmptySeq
  <2> QED
    BY <1>1, <2>2 DEF Suits
<1>3. \A i \in 1 .. n : h[i] \in Readings /\ h[i].time \in Int
  <2>1. \A e \in Readings : e.time \in Int
    BY WindowAssumption DEF WindowAssumption, Readings
  <2> QED
    BY <2>1, ElementOfSeq
<1>4. \A i \in 1 .. m : w[i] = h[k + i]
  <2>1. \A i \in k + 1 .. n : h[i] \in Readings
    BY <1>2, <1>3
  <2>2. w = SubSeq(h, k + 1, n)
    BY DEF Suits
  <2>3. k \in Int /\ k + 1 \in Int /\ n \in Int /\ n - (k + 1) + 1 = m
    BY <1>1
  <2> HIDE DEF k
  <2>4. \A i \in 1 .. n - (k + 1) + 1 : SubSeq(h, k + 1, n)[i] = h[(k + 1) + i - 1]
    BY <2>1, <2>3, SubSeqProperties
  <2>5. \A i \in 1 .. m : (k + 1) + i - 1 = k + i
    BY <2>3
  <2> QED
    BY <2>2, <2>3, <2>4, <2>5
<1>5. WindowSize \in Int
  BY WindowAssumption DEF WindowAssumption
<1>6. m = 1 \/ h[k + 1].time >= h[n].time - WindowSize
  <2>1. m = 1 \/ w[1].time >= h[n].time - WindowSize
    BY <1>2 DEF Suits
  <2>2. w[1] = h[k + 1]
    BY <1>2, <1>4
  <2> QED
    BY <2>1, <2>2
<1>7. PICK s \in 1 .. n :
            /\ \A i, j \in s .. n : i < j => h[i].time <= h[j].time
            /\ \A i \in 1 .. s - 1 : h[i].time < h[n].time - WindowSize
  BY DEF Settled
<1>10. s <= k + 1
  <2>1. CASE m = 1
    <3>1. k + 1 = n
      BY <1>1, <2>1
    <3> QED
      BY <3>1
  <2>2. CASE m # 1
    <3>1. k + 1 \in 1 .. n /\ n \in 1 .. n
      BY <1>2
    <3>2. h[k + 1].time \in Int /\ h[n].time \in Int
      BY <1>3, <3>1
    <3>3. ~ (k + 1 \in 1 .. s - 1)
      <4> HIDE DEF k, n
      <4> QED
        BY <1>5, <1>6, <1>7, <2>2, <3>2
    <3> QED
      BY <1>1, <3>1, <3>3
  <2> QED
    BY <2>1, <2>2
<1>11. \A i, j \in s .. n : i <= j => h[i].time <= h[j].time
  <2> SUFFICES ASSUME NEW i \in s .. n, NEW j \in s .. n, i <= j
               PROVE  h[i].time <= h[j].time
    OBVIOUS
  <2>1. i < j \/ i = j
    BY <1>1
  <2>2. i \in 1 .. n
    BY <1>1
  <2> QED
    BY <1>3, <1>7, <2>1, <2>2
<1>8. ASSUME NEW j \in k + 1 .. n PROVE j \in InWindow(h, n)
  <2>1. j \in 1 .. n /\ k + 1 \in 1 .. n /\ k + 1 <= j
    BY <1>2
  <2>2. CASE m = 1
    <3>1. j = n
      BY <1>1, <2>1, <2>2
    <3> QED
      BY <2>1, <3>1 DEF InWindow
  <2>3. CASE m # 1
    <3>1. h[k + 1].time <= h[j].time
      <4>1. k + 1 \in s .. n /\ j \in s .. n
        BY <1>1, <1>10, <2>1
      <4> QED
        BY <1>11, <2>1, <4>1
    <3>2. h[j].time >= h[n].time - WindowSize
      <4>1. /\ h[j].time \in Int /\ h[k + 1].time \in Int /\ h[n].time \in Int
        BY <1>2, <1>3, <2>1
      <4> HIDE DEF k, n
      <4> QED
        BY <4>1, <3>1, <1>5, <1>6, <2>3
    <3> QED
      BY <2>1, <3>2 DEF InWindow
  <2> QED
    BY <2>2, <2>3
<1>9. ASSUME NEW j \in InWindow(h, n) PROVE j \in k + 1 .. n
  <2>1. j \in 1 .. n
    BY DEF InWindow
  <2>2. SUFFICES ASSUME j \in 1 .. k PROVE FALSE
    BY <1>2, <2>1
  <2>3. PICK i \in 1 .. n : h[j].time < h[i].time - WindowSize
    BY <1>1, <2>2 DEF Suits
  <2>4. n \in 1 .. n /\ j # n
    BY <1>2, <2>2
  <2>5. h[j].time >= h[n].time - WindowSize
    BY <2>4 DEF InWindow
  <2>6. h[i].time \in Int /\ h[j].time \in Int /\ h[n].time \in Int
    BY <1>3, <2>1, <2>4
  <2>7. j \in s .. n
    <3>1. ~ (j \in 1 .. s - 1)
      <4> HIDE DEF n
      <4> QED
        BY <1>5, <1>7, <2>5, <2>6
    <3> QED
      BY <1>1, <2>1, <3>1
  <2>8. h[j].time <= h[n].time
    BY <1>11, <2>1, <2>4, <2>7
  <2>9. h[i].time <= h[n].time \/ h[i].time < h[n].time - WindowSize
    <3>1. CASE i \in s .. n
      BY <1>11, <2>4, <3>1
    <3>2. CASE i \in 1 .. s - 1
      BY <1>7, <3>2
    <3> QED
      BY <1>1, <3>1, <3>2
  <2> HIDE DEF n
  <2> QED
    BY <1>5, <2>3, <2>5, <2>6, <2>8, <2>9
<1>12. \A i, j \in k + 1 .. n : i <= j => h[i].time <= h[j].time
  <2>1. \A i \in k + 1 .. n : i \in s .. n
    BY <1>1, <1>10
  <2> QED
    BY <1>11, <2>1
<1> QED
  BY <1>2, <1>4, <1>6, <1>8, <1>9, <1>12

(* Once the history is settled, as it is while readings arrive in order,   *)
(* the aggregate summarises the last WindowSize seconds exactly and says   *)
(* from when to when (window.go 35-36).                                    *)
THEOREM ExactSettled == Spec => []ExactOnceSettled
<1>1. WindowInv => ExactOnceSettled
  <2> SUFFICES ASSUME WindowInv, NEW d \in Devices,
                      Settled(arrived[d], Len(arrived[d]))
               PROVE  LET h == arrived[d]
                          I == InWindow(h, Len(h))
                          agg == Aggregate(windows[d], DOMAIN windows[d])
                      IN /\ windows[d] = SubSeq(h, Min(I), Len(h))
                         /\ agg.windowStart = Min({h[i].time : i \in I})
                         /\ agg.windowEnd = Max({h[i].time : i \in I})
                         /\ agg.windowEnd - agg.windowStart <= Max({WindowSize, 0})
    BY DEF ExactOnceSettled
  <2> DEFINE h == arrived[d]
             w == windows[d]
             n == Len(h)
             m == Len(w)
             I == InWindow(h, n)
             times == {h[i].time : i \in I}
             agg == Aggregate(w, DOMAIN w)
  <2>1. /\ w \in Seq(Readings) /\ h \in Seq(Readings) /\ n \in Nat /\ m \in Nat
        /\ Suits(w, h)
    BY InvSuits
  <2>2. /\ m \in 1 .. n
        /\ I = n - m + 1 .. n
        /\ m = 1 \/ h[n - m + 1].time >= h[n].time - WindowSize
        /\ \A i \in 1 .. m : w[i] = h[n - m + i]
        /\ \A i, j \in n - m + 1 .. n : i <= j => h[i].time <= h[j].time
    <3>1. Settled(h, Len(h))
      OBVIOUS
    <3> HIDE DEF h, w
    <3> QED
      BY <2>1, <3>1, RetainedIsTheWindow
  <2>3. \A i \in 1 .. n : h[i].time \in Int
    <3>1. \A e \in Readings : e.time \in Int
      BY WindowAssumption DEF WindowAssumption, Readings
    <3> QED
      BY <3>1, <2>1, ElementOfSeq
  <2> DEFINE first == n - m + 1
  <2>5. first \in 1 .. n /\ n \in 1 .. n /\ first \in I /\ n \in I
        /\ \A i \in I : i \in 1 .. n /\ first <= i /\ i <= n
    <3> HIDE DEF n, m, I
    <3>1. first \in 1 .. n /\ n \in 1 .. n
      BY <2>1, <2>2
    <3> QED
      BY <2>1, <2>2, <3>1
  <2> HIDE DEF h, w, n, m, I
  <2>6. Min(I) = first
    <3>1. I \in SUBSET Int
      BY <2>2
    <3> HIDE DEF first
    <3> QED
      BY <2>5, <3>1, MinIs
  <2>7. w = SubSeq(h, Min(I), n)
    <3>1. w = SubSeq(h, (n - m) + 1, n)
      BY <2>1 DEF Suits, n, m
    <3> QED
      BY <2>6, <3>1
  <2>8. agg.windowStart = h[first].time /\ agg.windowEnd = h[n].time
    <3>1. DOMAIN w = 1 .. m
      BY <2>1, LenProperties DEF m
    <3>2. m \in Nat /\ 1 \in 1 .. m /\ m \in 1 .. m
      BY <2>2, <2>5
    <3>3. Min(1 .. m) = 1
      <4>1. 1 .. m \in SUBSET Int /\ \A y \in 1 .. m : 1 <= y
        OBVIOUS
      <4> QED
        BY <3>2, <4>1, MinIs
    <3>4. Max(1 .. m) = m
      <4>1. 1 .. m \in SUBSET Int /\ \A y \in 1 .. m : y <= m
        BY <3>2
      <4> QED
        BY <3>2, <4>1, MaxIs
    <3>5. w[1] = h[first] /\ w[m] = h[n]
      <4>1. n - m + m = n /\ n - m + 1 = first
        BY <2>1 DEF n, m
      <4>2. w[1] = h[n - m + 1] /\ w[m] = h[n - m + m]
        BY <2>2, <3>2
      <4> QED
        BY <4>1, <4>2
    <3>6. agg.windowStart = w[Min(DOMAIN w)].time /\ agg.windowEnd = w[Max(DOMAIN w)].time
      BY AggregateBounds
    <3> QED
      BY <3>1, <3>3, <3>4, <3>5, <3>6
  <2> HIDE DEF agg
  <2>9. times \in SUBSET Int /\ h[first].time \in times /\ h[n].time \in times
    BY <2>3, <2>5
  <2>10. \A i \in I : h[first].time <= h[i].time /\ h[i].time <= h[n].time
    BY <2>2, <2>5
  <2>11. Min(times) = h[first].time /\ Max(times) = h[n].time
    <3>1. \A t \in times : h[first].time <= t /\ t <= h[n].time
      BY <2>10
    <3> HIDE DEF times, first
    <3>2. Min(times) = h[first].time
      BY <2>9, <3>1, MinIs
    <3>3. Max(times) = h[n].time
      BY <2>9, <3>1, MaxIs
    <3> QED
      BY <3>2, <3>3
  <2>12. h[n].time - h[first].time <= Max({WindowSize, 0})
    <3>1. WindowSize \in Int
      BY WindowAssumption DEF WindowAssumption
    <3>2. WindowSize <= Max({WindowSize, 0}) /\ 0 <= Max({WindowSize, 0})
          /\ Max({WindowSize, 0}) \in Int
      <4>0. {WindowSize, 0} \in SUBSET Int
            /\ WindowSize \in {WindowSize, 0} /\ 0 \in {WindowSize, 0}
        BY <3>1
      <4>1. CASE WindowSize <= 0
        <5>1. \A y \in {WindowSize, 0} : y <= 0
          BY <4>1
        <5>2. Max({WindowSize, 0}) = 0
          BY <4>0, <5>1, MaxIs
        <5> QED
          BY <4>1, <5>2
      <4>2. CASE WindowSize > 0
        <5>1. \A y \in {WindowSize, 0} : y <= WindowSize
          BY <3>1, <4>2
        <5>2. Max({WindowSize, 0}) = WindowSize
          BY <4>0, <5>1, MaxIs
        <5> QED
          BY <3>1, <4>2, <5>2
      <4> QED
        BY <3>1, <4>1, <4>2
    <3>3. h[first].time \in Int /\ h[n].time \in Int
      BY <2>3, <2>5
    <3>4. CASE m = 1
      <4>1. first = n
        BY <2>5, <3>4
      <4> QED
        BY <3>2, <3>3, <4>1
    <3>5. CASE h[first].time >= h[n].time - WindowSize
      <4> HIDE DEF first
      <4> QED
        BY <3>1, <3>2, <3>3, <3>5
    <3> QED
      BY <2>2, <3>4, <3>5
  <2> QED
    BY <2>7, <2>8, <2>11, <2>12 DEF agg, times, h, w, n, m, I
<1> QED
  BY <1>1, WindowInvariant, PTL

-----------------------------------------------------------------------------
(* What the detector owes a device whose history is h, of which it judged  *)
(* the readings of J.                                                      *)
LastVerdict(h, J, active) ==
    IF J = {} THEN active = {}
    ELSE /\ Max(J) \in DOMAIN h
         /\ Settled(h, Max(J)) => active = Verdict(h, Max(J))

(* A run of judged readings that fire t begins at k.                       *)
Begins(h, J, t, k) ==
    /\ t \in Verdict(h, k)
    /\ LET before == {j \in J : j < k}
       IN before # {} => t \notin Verdict(h, Max(before))

(* Over readings judged when settled, the alerts are one per run.          *)
Episodes(h, J, counts) ==
    (\A k \in J : Settled(h, k)) =>
      \A t \in AlertTypes : counts[t] = Cardinality({k \in J : Begins(h, J, t, k)})

(* The inductive invariant: the types and the window, and the debts of the *)
(* detector to each device.                                                *)
EpisodeInv ==
    /\ WindowInv
    /\ \A d \in Devices : judged[d] \subseteq 1 .. Len(arrived[d])
    /\ ActiveIsTheLastVerdict
    /\ OneAlertPerEpisode

(* The two properties as debts to each device.                             *)
LEMMA EpisodeForms ==
    /\ ActiveIsTheLastVerdict <=>
         \A d \in Devices : LastVerdict(arrived[d], judged[d], activeAlerts[d])
    /\ OneAlertPerEpisode <=>
         \A d \in Devices : Episodes(arrived[d], judged[d], emitted[d])
<1>1. ActiveIsTheLastVerdict <=>
        \A d \in Devices : LastVerdict(arrived[d], judged[d], activeAlerts[d])
  BY DEF ActiveIsTheLastVerdict, LastVerdict
<1>2. OneAlertPerEpisode <=>
        \A d \in Devices : Episodes(arrived[d], judged[d], emitted[d])
  BY DEF OneAlertPerEpisode, Episodes, Begins
<1> QED
  BY <1>1, <1>2

(* A reading that arrives changes nothing about those before it.           *)
LEMMA PastIsKept ==
    ASSUME NEW h \in Seq(Readings), NEW r \in Readings, NEW k \in 1 .. Len(h)
    PROVE  /\ Settled(Append(h, r), k) <=> Settled(h, k)
           /\ Verdict(Append(h, r), k) = Verdict(h, k)
<1> DEFINE g == Append(h, r)
<1>1. Len(h) \in Nat /\ \A i \in 1 .. Len(h) : g[i] = h[i]
  BY AppendProperties, LenProperties
<1>2. \A i \in 1 .. k : i \in 1 .. Len(h) /\ g[i] = h[i]
  BY <1>1
<1> HIDE DEF g
<1>3. k \in 1 .. k
  BY <1>1
<1>4. InWindow(g, k) = InWindow(h, k)
  BY <1>2, <1>3 DEF InWindow
<1>5. Settled(g, k) <=> Settled(h, k)
  <2>1. \A s \in 1 .. k : \A i \in s .. k : i \in 1 .. k
    BY <1>1
  <2>2. \A s \in 1 .. k : \A i \in 1 .. s - 1 : i \in 1 .. k
    BY <1>1
  <2> QED
    BY <1>2, <1>3, <2>1, <2>2 DEF Settled
<1>6. Verdict(g, k) = Verdict(h, k)
  <2> DEFINE I == InWindow(h, k)
  <2>1. I \in SUBSET (1 .. k)
    BY DEF InWindow
  <2>2. IsFiniteSet(1 .. k)
    BY <1>1, FS_Interval
  <2>3. IsFiniteSet(I)
    BY <2>1, <2>2, FS_Subset
  <2>4. \A i \in I : g[i] = h[i]
    BY <1>2, <2>1
  <2> HIDE DEF I
  <2>5. Firing(Aggregate(g, I)) = Firing(Aggregate(h, I))
    BY <2>3, <2>4, SameReadings
  <2> QED
    BY <1>4, <2>5 DEF Verdict, I
<1> QED
  BY <1>5, <1>6 DEF g

(* So what the detector owes for them stays as it was.                     *)
LEMMA DebtIsKept ==
    ASSUME NEW h \in Seq(Readings), NEW r \in Readings,
           NEW J \in SUBSET (1 .. Len(h))
    PROVE  /\ J # {} => Max(J) \in J
           /\ \A active : LastVerdict(h, J, active) <=>
                            LastVerdict(Append(h, r), J, active)
           /\ (\A k \in J : Settled(h, k)) <=> \A k \in J : Settled(Append(h, r), k)
           /\ \A t : \A k \in J : Begins(h, J, t, k) <=> Begins(Append(h, r), J, t, k)
<1> DEFINE g == Append(h, r)
<1>1. Len(h) \in Nat /\ DOMAIN h = 1 .. Len(h) /\ DOMAIN g = 1 .. Len(h) + 1
  BY AppendProperties, LenProperties
<1>2. \A S \in SUBSET J : S # {} => Max(S) \in S
  BY <1>1, MaxOfIndices
<1>3. \A k \in J : /\ Settled(g, k) <=> Settled(h, k)
                   /\ Verdict(g, k) = Verdict(h, k)
  BY PastIsKept
<1> HIDE DEF g
<1>4. J # {} => Max(J) \in J
  BY <1>2
<1>5. ASSUME NEW active
      PROVE  LastVerdict(h, J, active) <=> LastVerdict(g, J, active)
  <2>1. \A j \in J : j \in 1 .. Len(h) /\ j \in 1 .. Len(h) + 1
    BY <1>1
  <2>2. J # {} => Max(J) \in DOMAIN h /\ Max(J) \in DOMAIN g
    BY <1>1, <1>4, <2>1
  <2> QED
    BY <1>3, <1>4, <2>2 DEF LastVerdict
<1>6. ASSUME NEW t, NEW k \in J
      PROVE  Begins(h, J, t, k) <=> Begins(g, J, t, k)
  <2> DEFINE before == {j \in J : j < k}
  <2>1. before # {} => Max(before) \in J
    BY <1>2
  <2>2. before # {} => Verdict(g, Max(before)) = Verdict(h, Max(before))
    BY <1>3, <2>1
  <2> QED
    BY <1>3, <2>2 DEF Begins
<1> QED
  BY <1>3, <1>4, <1>5, <1>6 DEF g

(* The detector judges the reading that has just arrived.                  *)
LEMMA JudgeLast ==
    ASSUME NEW h \in Seq(Readings), NEW r \in Readings,
           NEW J \in SUBSET (1 .. Len(h)), NEW active, NEW firing,
           NEW counts \in [AlertTypes -> Nat], NEW after,
           \A t \in AlertTypes : after[t] =
              IF t \in firing \ active THEN counts[t] + 1 ELSE counts[t],
           LastVerdict(h, J, active), Episodes(h, J, counts),
           Settled(Append(h, r), Len(h) + 1) =>
             firing = Verdict(Append(h, r), Len(h) + 1)
    PROVE  /\ LastVerdict(Append(h, r), J \union {Len(h) + 1}, firing)
           /\ Episodes(Append(h, r), J \union {Len(h) + 1}, after)
<1> DEFINE g == Append(h, r)
           n == Len(h) + 1
           K == J \union {n}
<1>1. Len(h) \in Nat /\ n \in Nat /\ DOMAIN g = 1 .. n
  BY AppendProperties, LenProperties
<1>2. \A j \in J : j \in Nat /\ j < n
  BY <1>1
<1>3. /\ J # {} => Max(J) \in J
      /\ LastVerdict(g, J, active)
      /\ (\A k \in J : Settled(h, k)) <=> \A k \in J : Settled(g, k)
      /\ \A t : \A k \in J : Begins(h, J, t, k) <=> Begins(g, J, t, k)
  BY DebtIsKept
<1> HIDE DEF g
<1>4. Settled(g, n) => firing = Verdict(g, n)
  BY DEF g
<1> HIDE DEF n
<1>5. Max(K) = n
  <2>1. K \in SUBSET Int /\ n \in K /\ \A y \in K : y <= n
    BY <1>1, <1>2
  <2> HIDE DEF K
  <2> QED
    BY <2>1, MaxIs
<1>6. LastVerdict(g, K, firing)
  <2>1. K # {} /\ n \in 1 .. n
    <3>1. n > 0
      BY <1>1 DEF n
    <3> QED
      BY <1>1, <3>1
  <2> HIDE DEF K
  <2> QED
    BY <1>1, <1>4, <1>5, <2>1 DEF LastVerdict
<1>7. ASSUME \A k \in K : Settled(g, k), NEW t \in AlertTypes
      PROVE  after[t] = Cardinality({k \in K : Begins(g, K, t, k)})
  <2> DEFINE old == {k \in J : Begins(g, J, t, k)}
             new == {k \in K : Begins(g, K, t, k)}
  <2>1. Settled(g, n) /\ \A k \in J : Settled(g, k)
    BY <1>7
  <2>2. counts[t] = Cardinality(old)
    <3>1. counts[t] = Cardinality({k \in J : Begins(h, J, t, k)})
      BY <1>3, <2>1 DEF Episodes
    <3>2. {k \in J : Begins(h, J, t, k)} = old
      BY <1>3
    <3> QED
      BY <3>1, <3>2
  <2>3. active = IF J = {} THEN {} ELSE Verdict(g, Max(J))
    BY <1>3, <2>1 DEF LastVerdict
  <2>4. {j \in K : j < n} = J
    <3>1. ~ (n < n)
      BY <1>1
    <3> QED
      BY <1>2, <3>1
  <2>5. Begins(g, K, t, n) <=> t \in firing \ active
    BY <1>4, <2>1, <2>3, <2>4 DEF Begins
  <2>6. ASSUME NEW k \in J PROVE Begins(g, K, t, k) <=> Begins(g, J, t, k)
    <3>1. {j \in K : j < k} = {j \in J : j < k}
      BY <1>1, <1>2
    <3> QED
      BY <3>1 DEF Begins
  <2>7. n \notin J /\ n \notin old
    BY <1>1, <1>2
  <2>8. IsFiniteSet(old)
    <3>1. IsFiniteSet(1 .. Len(h))
      BY <1>1, FS_Interval
    <3>2. old \in SUBSET (1 .. Len(h))
      OBVIOUS
    <3> HIDE DEF old
    <3> QED
      BY <3>1, <3>2, FS_Subset
  <2>9. new = IF t \in firing \ active THEN old \union {n} ELSE old
    BY <2>5, <2>6, <2>7
  <2> HIDE DEF old, new
  <2>10. Cardinality(old \union {n}) = Cardinality(old) + 1
    BY <2>7, <2>8, FS_AddElement
  <2> QED
    BY <2>2, <2>9, <2>10 DEF new
<1>8. Episodes(g, K, after)
  <2> HIDE DEF K
  <2> QED
    BY <1>7 DEF Episodes
<1> QED
  BY <1>6, <1>8 DEF g, n

(* Nothing has been judged at the start.                                   *)
LEMMA InitEpisodeInv == Init => EpisodeInv
<1> SUFFICES ASSUME Init PROVE EpisodeInv
  OBVIOUS
<1>1. WindowInv
  BY InitWindowInv
<1>2. \A d \in Devices : /\ judged[d] = {} /\ activeAlerts[d] = {}
                         /\ \A t \in AlertTypes : emitted[d][t] = 0
  BY DEF Init
<1>3. \A d \in Devices : LastVerdict(arrived[d], judged[d], activeAlerts[d])
  BY <1>2 DEF LastVerdict
<1>4. ASSUME NEW d \in Devices PROVE Episodes(arrived[d], judged[d], emitted[d])
  <2>1. \A t : {k \in judged[d] : Begins(arrived[d], judged[d], t, k)} = {}
    BY <1>2
  <2> QED
    BY <1>2, <2>1, FS_EmptySet DEF Episodes
<1> QED
  BY <1>1, <1>2, <1>3, <1>4, EpisodeForms DEF EpisodeInv

(* The window of the reading that arrived fires what the reference does.   *)
LEMMA PushedFires ==
    ASSUME NEW w \in Seq(Readings), NEW g \in Seq(Readings), Suits(w, g),
           Settled(g, Len(g))
    PROVE  Firing(Aggregate(w, DOMAIN w)) = Verdict(g, Len(g))
<1> DEFINE m == Len(w)
           n == Len(g)
           k == n - m
<1>1. /\ m \in 1 .. n
      /\ InWindow(g, n) = n - m + 1 .. n
      /\ \A i \in 1 .. m : w[i] = g[n - m + i]
  BY RetainedIsTheWindow
<1>2. n \in Nat /\ m \in Nat /\ DOMAIN w = 1 .. m
  BY LenProperties
<1>3. k \in Nat /\ k + m = n
  BY <1>1, <1>2
<1>4. \A i \in 1 .. m : w[i].temp \in Int
  <2>1. \A e \in Readings : e.temp \in Int
    BY WindowAssumption DEF WindowAssumption, Readings
  <2> QED
    BY <2>1, ElementOfSeq
<1>5. Firing(Aggregate(w, 1 .. m)) = Firing(Aggregate(g, k + 1 .. k + m))
  <2>1. \A i \in 1 .. m : w[i] = g[k + i] /\ w[i].temp \in Int
    BY <1>1, <1>4
  <2>2. m \in Nat \ {0} /\ k \in Nat
    BY <1>1, <1>2, <1>3
  <2> HIDE DEF k, m
  <2> QED
    BY <2>1, <2>2, SameFiring
<1> QED
  BY <1>1, <1>2, <1>3, <1>5 DEF Verdict

(* Process pays the debt for the reading it judges, PublishFails judges    *)
(* none; the other devices keep what they had.                             *)
LEMMA NextEpisodeInv == EpisodeInv /\ [Next]_vars => EpisodeInv'
<1> SUFFICES ASSUME EpisodeInv, [Next]_vars PROVE EpisodeInv'
  OBVIOUS
<1>1. WindowInv /\ WindowInv'
  BY NextWindowInv DEF EpisodeInv
<1>2. \A d \in Devices : /\ judged[d] \subseteq 1 .. Len(arrived[d])
                         /\ LastVerdict(arrived[d], judged[d], activeAlerts[d])
                         /\ Episodes(arrived[d], judged[d], emitted[d])
  BY EpisodeForms DEF EpisodeInv
<1>3. SUFFICES \A d \in Devices :
                 /\ judged'[d] \subseteq 1 .. Len(arrived'[d])
                 /\ LastVerdict(arrived'[d], judged'[d], activeAlerts'[d])
                 /\ Episodes(arrived'[d], judged'[d], emitted'[d])
  <2>1. /\ ActiveIsTheLastVerdict' <=>
             \A d \in Devices : LastVerdict(arrived'[d], judged'[d], activeAlerts'[d])
        /\ OneAlertPerEpisode' <=>
             \A d \in Devices : Episodes(arrived'[d], judged'[d], emitted'[d])
    <3>1. ActiveIsTheLastVerdict' <=>
            \A d \in Devices : LastVerdict(arrived'[d], judged'[d], activeAlerts'[d])
      BY DEF ActiveIsTheLastVerdict, LastVerdict
    <3>2. OneAlertPerEpisode' <=>
            \A d \in Devices : Episodes(arrived'[d], judged'[d], emitted'[d])
      BY DEF OneAlertPerEpisode, Episodes, Begins
    <3> QED
      BY <3>1, <3>2
  <2> QED
    BY <1>1, <1>3, <2>1 DEF EpisodeInv
<1>4. ASSUME NEW d \in Devices, NEW r \in Readings,
             Process(d, r) \/ PublishFails(d, r), NEW e \in Devices
      PROVE  /\ judged'[e] \subseteq 1 .. Len(arrived'[e])
             /\ LastVerdict(arrived'[e], judged'[e], activeAlerts'[e])
             /\ Episodes(arrived'[e], judged'[e], emitted'[e])
  <2> DEFINE h == arrived[d]
             J == judged[d]
             n == Len(h) + 1
  <2>1. Arrive(d, r)
    BY <1>4 DEF Process, PublishFails
  <2>2. /\ h \in Seq(Readings) /\ Len(h) \in Nat
        /\ J \in SUBSET (1 .. Len(h))
        /\ arrived'[d] = Append(h, r) /\ Len(arrived'[d]) = n
        /\ \A c \in Devices : c # d => arrived'[c] = arrived[c]
    <3>1. arrived \in [Devices -> Seq(Readings)]
      BY <1>1 DEF WindowInv, TypeOK
    <3>2. h \in Seq(Readings) /\ Len(h) \in Nat
      BY <3>1, LenProperties
    <3>3. arrived' = [arrived EXCEPT ![d] = Append(h, r)]
      BY <2>1 DEF Arrive
    <3>4. Len(Append(h, r)) = n
      BY <3>2, AppendProperties
    <3> QED
      BY <1>2, <3>1, <3>2, <3>3, <3>4
  <2>3. CASE PublishFails(d, r)
    <3>1. judged' = judged /\ activeAlerts' = activeAlerts /\ emitted' = emitted
      BY <2>3 DEF PublishFails
    <3>2. CASE e # d
      BY <1>2, <2>2, <3>1, <3>2
    <3>3. CASE e = d
      <4>1. J \subseteq 1 .. n
        BY <2>2
      <4>2. LastVerdict(Append(h, r), J, activeAlerts[d])
        BY <1>2, <2>2, DebtIsKept
      <4>3. Episodes(Append(h, r), J, emitted[d])
        <5>1. Episodes(h, J, emitted[d])
          BY <1>2
        <5>2. /\ (\A k \in J : Settled(h, k)) <=> \A k \in J : Settled(Append(h, r), k)
              /\ \A t : \A k \in J : Begins(h, J, t, k) <=> Begins(Append(h, r), J, t, k)
          BY <2>2, DebtIsKept
        <5>3. \A t : {k \in J : Begins(h, J, t, k)}
                       = {k \in J : Begins(Append(h, r), J, t, k)}
          BY <5>2
        <5> QED
          BY <5>1, <5>2, <5>3 DEF Episodes
      <4> QED
        BY <2>2, <3>1, <3>3, <4>1, <4>2, <4>3
    <3> QED
      BY <3>2, <3>3
  <2>4. CASE Process(d, r)
    <3> DEFINE firing == Firing(Aggregate(windows'[d], DOMAIN windows'[d]))
               after == [t \in AlertTypes |->
                           IF t \in firing \ activeAlerts[d]
                           THEN emitted[d][t] + 1 ELSE emitted[d][t]]
    <3>1. /\ emitted' = [emitted EXCEPT ![d] = after]
          /\ activeAlerts' = [activeAlerts EXCEPT ![d] = firing]
          /\ judged' = [judged EXCEPT ![d] = J \union {n}]
      BY <2>2, <2>4 DEF Process, Detect, ActiveAfter
    <3>2. /\ emitted \in [Devices -> [AlertTypes -> Nat]]
          /\ activeAlerts \in [Devices -> SUBSET AlertTypes]
          /\ judged \in [Devices -> SUBSET (1 .. MaxReadings)]
      BY <1>1 DEF WindowInv, TypeOK
    <3>3. Settled(Append(h, r), n) => firing = Verdict(Append(h, r), n)
      <4>1. /\ windows'[d] \in Seq(Readings) /\ arrived'[d] \in Seq(Readings)
            /\ Suits(windows'[d], arrived'[d])
        BY <1>1, <2>1, ArriveKeeps
      <4> QED
        BY <2>2, <4>1, PushedFires
    <3> HIDE DEF firing
    <3>4. CASE e # d
      <4>1. judged'[e] = judged[e] /\ activeAlerts'[e] = activeAlerts[e]
            /\ emitted'[e] = emitted[e] /\ arrived'[e] = arrived[e]
        BY <2>2, <3>1, <3>2, <3>4
      <4> QED
        BY <1>2, <4>1
    <3>5. CASE e = d
      <4>1. judged'[d] = J \union {n} /\ activeAlerts'[d] = firing
            /\ emitted'[d] = after
        BY <3>1, <3>2
      <4>2. J \union {n} \subseteq 1 .. n
        BY <2>2
      <4>3. /\ LastVerdict(Append(h, r), J \union {n}, firing)
            /\ Episodes(Append(h, r), J \union {n}, after)
        <5>1. emitted[d] \in [AlertTypes -> Nat]
          BY <3>2
        <5>2. LastVerdict(h, J, activeAlerts[d]) /\ Episodes(h, J, emitted[d])
          BY <1>2
        <5>3. Settled(Append(h, r), Len(h) + 1)
                => firing = Verdict(Append(h, r), Len(h) + 1)
          BY <3>3
        <5>4. h \in Seq(Readings) /\ J \in SUBSET (1 .. Len(h))
          BY <2>2
        <5> HIDE DEF h, J
        <5>6. \A t \in AlertTypes : after[t] =
                 IF t \in firing \ activeAlerts[d] THEN emitted[d][t] + 1
                 ELSE emitted[d][t]
          OBVIOUS
        <5> HIDE DEF after
        <5>5. /\ LastVerdict(Append(h, r), J \union {Len(h) + 1}, firing)
              /\ Episodes(Append(h, r), J \union {Len(h) + 1}, after)
          BY <5>1, <5>2, <5>3, <5>4, <5>6, JudgeLast
        <5> QED
          BY <5>5
      <4> QED
        BY <2>2, <3>5, <4>1, <4>2, <4>3
    <3> QED
      BY <3>4, <3>5
  <2> QED
    BY <1>4, <2>3, <2>4
<1>5. ASSUME UNCHANGED vars, NEW d \in Devices
      PROVE  /\ judged'[d] \subseteq 1 .. Len(arrived'[d])
             /\ LastVerdict(arrived'[d], judged'[d], activeAlerts'[d])
             /\ Episodes(arrived'[d], judged'[d], emitted'[d])
  BY <1>2, <1>5 DEF vars
<1> QED
  BY <1>4, <1>5 DEF Next

(* The invariant holds throughout.                                         *)
LEMMA EpisodeInvariant == Spec => []EpisodeInv
  BY InitEpisodeInv, NextEpisodeInv, PTL DEF Spec

(* The alert state is what the last judged window fires, also after late   *)
(* readings and failed publishes (anomaly.go 33-37).                       *)
THEOREM AlertStateIsCurrent == Spec => []ActiveIsTheLastVerdict
<1>1. EpisodeInv => ActiveIsTheLastVerdict
  BY DEF EpisodeInv
<1> QED
  BY <1>1, EpisodeInvariant, PTL

(* One alert per episode and type, for any window size, thresholds and     *)
(* lengths of history (anomaly.go 21-24).                                  *)
THEOREM OneAlertEach == Spec => []OneAlertPerEpisode
<1>1. EpisodeInv => OneAlertPerEpisode
  BY DEF EpisodeInv
<1> QED
  BY <1>1, EpisodeInvariant, PTL
=============================================================================
