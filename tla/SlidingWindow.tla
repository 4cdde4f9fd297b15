---------------------------- MODULE SlidingWindow ----------------------------
(***************************************************************************)
(* The state the processor keeps per device, in memory: the sliding window *)
(* (services/processor/window.go) and the alerts that are active           *)
(* (anomaly.go), as the record pipeline drives them.  A reading is pushed  *)
(* into the window first; the detector sees the window only if the         *)
(* aggregate was published.                                                *)
(*                                                                         *)
(* Abstractions.  Time is counted in units of one second and averages are  *)
(* exact: avg > limit is sum > limit * count.  A reading has a temperature *)
(* and no battery level: BATTERY_LOW is TEMP_LOW on another field.  The    *)
(* time of a reading is any time: the stamps are the producer's clock.     *)
(***************************************************************************)
EXTENDS Integers, Sequences, FiniteSetsExt

CONSTANTS
    Devices,
    WindowSize,     \* PROCESSOR_WINDOW_SIZE_SECONDS, which nothing checks
    TempHigh,       \* the threshold of TEMP_HIGH
    TempLow,        \* the threshold of TEMP_LOW
    SpikeSpread,    \* the threshold of SPIKE, 20.0 in the code
    Temperatures,   \* bound: the temperatures readings have
    MaxTime,        \* bound: the last timestamp
    MaxReadings     \* bound: how many readings the devices send

ASSUME WindowAssumption ==
    /\ IsFiniteSet(Devices)
    /\ WindowSize \in Int /\ TempHigh \in Int /\ TempLow \in Int
    /\ SpikeSpread \in Int
    /\ Temperatures \subseteq Int
    /\ MaxTime \in Nat /\ MaxReadings \in Nat

Readings == [time : 0 .. MaxTime, temp : Temperatures]
AlertTypes == {"TEMP_HIGH", "TEMP_LOW", "SPIKE"}

VARIABLES
    windows,        \* [Devices -> Seq(Readings)]: retained, as they arrived
    activeAlerts,   \* [Devices -> SUBSET AlertTypes]
    emitted,        \* [Devices -> [AlertTypes -> Nat]]: alerts detect returned
    \* history
    arrived,        \* [Devices -> Seq(Readings)]: every reading pushed so far
    judged,         \* [Devices -> SUBSET Nat]: those detect was run for
    pushes          \* how many readings all devices have sent

vars == <<windows, activeAlerts, emitted, arrived, judged, pushes>>

TypeOK ==
    /\ windows \in [Devices -> Seq(Readings)]
    /\ activeAlerts \in [Devices -> SUBSET AlertTypes]
    /\ emitted \in [Devices -> [AlertTypes -> Nat]]
    /\ arrived \in [Devices -> Seq(Readings)]
    /\ judged \in [Devices -> SUBSET (1 .. MaxReadings)]
    /\ pushes \in 0 .. MaxReadings
    /\ \A d \in Devices : /\ Len(windows[d]) <= Len(arrived[d])
                          /\ Len(arrived[d]) <= pushes

-----------------------------------------------------------------------------
(* push evicts from the front, up to the first entry that is not stale.    *)
Stale(e, cutoff) == e.time < cutoff
TrimStale(entries, cutoff) ==   \* mutant: as many as are stale, wherever
    Cardinality({i \in DOMAIN entries : Stale(entries[i], cutoff)})
TrimToWindow(entries, cutoff) ==    \* mutant: !After in place of Before
    Min({i \in 0 .. Len(entries) : i = Len(entries)
                                   \/ entries[i + 1].time > cutoff})
Trim(entries, cutoff) ==
    Min({i \in 0 .. Len(entries) : i = Len(entries)
                                   \/ ~Stale(entries[i + 1], cutoff)})

PushedWhole(d, r) ==    \* mutant: the trimmed entries are appended to all
    LET trim == Trim(windows[d], r.time - WindowSize)
    IN windows[d] \o Append(SubSeq(windows[d], trim + 1, Len(windows[d])), r)
Pushed(d, r) ==
    LET trim == Trim(windows[d], r.time - WindowSize)
    IN Append(SubSeq(windows[d], trim + 1, Len(windows[d])), r)

(* What push returns for the readings of h at the indices in I: the window *)
(* starts with the reading that arrived first, which need not be the oldest*)
(* one, and ends with the last.                                            *)
Aggregate(h, I) ==
    LET temps == {h[i].temp : i \in I}
    IN [windowStart |-> h[Min(I)].time, windowEnd |-> h[Max(I)].time,
        sampleCount |-> Cardinality(I),
        sumTemp |-> MapThenSumSet(LAMBDA i : h[i].temp, I),
        maxTemp |-> Max(temps), minTemp |-> Min(temps)]

(* The rules detect evaluates.                                             *)
Firing(agg) ==
    {t \in AlertTypes :
        \/ t = "TEMP_HIGH" /\ agg.sumTemp > TempHigh * agg.sampleCount
        \/ t = "TEMP_LOW" /\ agg.sumTemp < TempLow * agg.sampleCount
        \/ t = "SPIKE" /\ agg.maxTemp - agg.minTemp > SpikeSpread}

(* New conditions alert; those that no longer fire are cleared.            *)
NeverCleared(active, firing) == active \union firing  \* mutant: no second loop
ActiveAfter(active, firing) == firing
Detect(d, entries) ==
    LET firing == Firing(Aggregate(entries, DOMAIN entries))
    IN /\ emitted' = [emitted EXCEPT ![d] = [t \in AlertTypes |->
              IF t \in firing \ activeAlerts[d] THEN @[t] + 1 ELSE @[t]]]
       /\ activeAlerts' = [activeAlerts EXCEPT
                             ![d] = ActiveAfter(activeAlerts[d], firing)]

Arrive(d, r) ==
    /\ pushes < MaxReadings
    /\ pushes' = pushes + 1
    /\ windows' = [windows EXCEPT ![d] = Pushed(d, r)]
    /\ arrived' = [arrived EXCEPT ![d] = Append(@, r)]

(* A record goes through the pipeline.                                     *)
Process(d, r) ==
    /\ Arrive(d, r)
    /\ Detect(d, windows'[d])
    /\ judged' = [judged EXCEPT ![d] = @ \union {Len(arrived'[d])}]

(* Publishing the aggregate fails after the push, and detect is not run.   *)
PublishFails(d, r) ==
    /\ Arrive(d, r)
    /\ UNCHANGED <<activeAlerts, emitted, judged>>

Init ==
    /\ windows = [d \in Devices |-> <<>>]
    /\ activeAlerts = [d \in Devices |-> {}]
    /\ emitted = [d \in Devices |-> [t \in AlertTypes |-> 0]]
    /\ arrived = [d \in Devices |-> <<>>]
    /\ judged = [d \in Devices |-> {}]
    /\ pushes = 0

Next == \E d \in Devices, r \in Readings : Process(d, r) \/ PublishFails(d, r)

Spec == Init /\ [][Next]_vars

-----------------------------------------------------------------------------
(* The reference: what the window of reading k of history h should hold.   *)
InWindow(h, k) == {j \in 1 .. k : j = k \/ h[j].time >= h[k].time - WindowSize}

(* At reading k the history is settled: from some reading on all came in   *)
(* order, and those before it are out of the window of k.                  *)
Settled(h, k) ==
    \E s \in 1 .. k :
      /\ \A i, j \in s .. k : i < j => h[i].time <= h[j].time
      /\ \A i \in 1 .. s - 1 : h[i].time < h[k].time - WindowSize

(* A reading is evicted only once it is out of the window of some reading  *)
(* that came, also when readings arrive late (window.go 58-60): what is    *)
(* retained is the end of the history, and all before it is stale.  What is*)
(* in front is in the window of the newest reading or is that reading.     *)
EvictsTheStaleFront ==
    \A d \in Devices :
      LET h == arrived[d]
          w == windows[d]
          dropped == Len(h) - Len(w)
      IN /\ w = SubSeq(h, dropped + 1, Len(h))
         /\ \A i \in 1 .. dropped : \E j \in DOMAIN h :
                h[i].time < h[j].time - WindowSize
         /\ h # <<>> => \/ Len(w) = 1
                        \/ Len(w) > 1 /\ w[1].time >= h[Len(h)].time - WindowSize

(* While readings arrive in order the aggregate is exact, and a late one   *)
(* disturbs it no longer than it and what came before it are in the window:*)
(* the aggregate summarises the last WindowSize seconds, no reading more   *)
(* and none less, and says so: it runs from the oldest of them to the      *)
(* newest (window.go 35-36), over no more than the window size.            *)
ExactOnceSettled ==
    \A d \in Devices :
      LET h == arrived[d]
          I == InWindow(h, Len(h))
          agg == Aggregate(windows[d], DOMAIN windows[d])
      IN Settled(h, Len(h)) =>
           /\ windows[d] = SubSeq(h, Min(I), Len(h))
           /\ agg.windowStart = Min({h[i].time : i \in I})
           /\ agg.windowEnd = Max({h[i].time : i \in I})
           /\ agg.windowEnd - agg.windowStart <= Max({WindowSize, 0})

(* What the reference window of reading k of h fires.                      *)
Verdict(h, k) == Firing(Aggregate(h, InWindow(h, k)))

(* The alerts that are active are those the last reading the detector      *)
(* judged fires (anomaly.go 33-37), however many before it were late or    *)
(* could not be published: no alert stays active by mistake.               *)
ActiveIsTheLastVerdict ==
    \A d \in Devices :
      LET h == arrived[d]
          J == judged[d]
      IN IF J = {} THEN activeAlerts[d] = {}
         ELSE /\ Max(J) \in DOMAIN h
              /\ Settled(h, Max(J)) => activeAlerts[d] = Verdict(h, Max(J))

(* "We emit ONE TEMP_HIGH alert - not one per tick" (anomaly.go 21-24):    *)
(* over readings judged when settled, a type was emitted once per run of   *)
(* judged readings in which the reference windows make it fire.            *)
OneAlertPerEpisode ==
    \A d \in Devices :
      LET h == arrived[d]
          J == judged[d]
          Begins(t, k) == /\ t \in Verdict(h, k)
                          /\ LET before == {j \in J : j < k}
                             IN before # {} => t \notin Verdict(h, Max(before))
      IN (\A k \in J : Settled(h, k)) =>
           \A t \in AlertTypes :
              emitted[d][t] = Cardinality({k \in J : Begins(t, k)})
=============================================================================
