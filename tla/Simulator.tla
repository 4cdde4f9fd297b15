------------------------------ MODULE Simulator ------------------------------
(***************************************************************************)
(* The simulator (services/simulator): one goroutine per device that ticks *)
(* a state machine and produces a reading, one Kafka producer they share,  *)
(* and the main goroutine that waits for them before it closes it.  The    *)
(* topic it writes is the one modules Ingestor and Processor read.         *)
(*                                                                         *)
(* Abstractions.  A reading is its device and its number; the values and   *)
(* the battery level are left out, the state of the device is kept.  The   *)
(* producer keeps one buffer per partition, which the broker appends in    *)
(* order and without duplicates (idempotent producer).  emit only logs an  *)
(* error, so a record that was stored and whose call failed is one that    *)
(* was stored.                                                             *)
(***************************************************************************)
EXTENDS Integers, SequencesExt

CONSTANTS
    Devices,        \* the active devices of the registry
    Partitions,     \* the partitions of device.metrics
    SpikeTicks,     \* how long a spike lasts, 3 .. 7 in the code
    DriftTicks,     \* how long a drift lasts, 20 .. 40 in the code
    MaxReadings     \* bound: readings a device produces while it runs

ASSUME SimulatorAssumption ==
    /\ SpikeTicks \subseteq Nat \ {0}
    /\ DriftTicks \subseteq Nat \ {0}
    /\ MaxReadings \in Nat

Readings == Devices \X (1 .. MaxReadings)
States == {"normal", "spike", "drift"}

VARIABLES
    pc,             \* [Devices -> call]: where the goroutine of a device is
    main,           \* where main is: "running", "joining" or "closed"
    cancelled,      \* SIGTERM or SIGINT cancelled the context
    ticker,         \* [Devices -> BOOLEAN]: a tick waits in the channel
    state,          \* [Devices -> States]
    stateTicksLeft, \* [Devices -> Nat]
    sent,           \* [Devices -> Nat]: readings handed to the producer
    buffer,         \* [Partitions -> Seq(Readings)]: not yet at the broker
    topic,          \* [Partitions -> Seq(Readings)]
    partitionOf,    \* [Devices -> Partitions]: the hash of the record key
    \* history
    run             \* [Devices -> Nat]: readings in the current spike or drift

device == <<state, stateTicksLeft, run>>
kafka == <<sent, buffer, topic, partitionOf>>
vars == <<pc, main, cancelled, ticker, device, kafka>>

TypeOK ==
    /\ pc \in [Devices -> {"jitter", "select", "emit", "stopped"}]
    /\ main \in {"running", "joining", "closed"}
    /\ cancelled \in BOOLEAN
    /\ ticker \in [Devices -> BOOLEAN]
    /\ state \in [Devices -> States]
    /\ stateTicksLeft \in [Devices -> Nat]
    /\ \A d \in Devices : IF state[d] = "normal" THEN stateTicksLeft[d] = 0
                                                 ELSE stateTicksLeft[d] > 0
    /\ sent \in [Devices -> 0 .. MaxReadings]
    /\ buffer \in [Partitions -> Seq(Readings)]
    /\ topic \in [Partitions -> Seq(Readings)]
    /\ partitionOf \in [Devices -> Partitions]
    /\ run \in [Devices -> Nat]

-----------------------------------------------------------------------------
Cancel ==
    /\ main = "running" /\ ~cancelled
    /\ cancelled' = TRUE
    /\ UNCHANGED <<pc, main, ticker, device, kafka>>

(* The first tick of a device is put off by a random part of the interval. *)
JitterElapses(d) ==
    /\ pc[d] = "jitter"
    /\ pc' = [pc EXCEPT ![d] = "select"]
    /\ UNCHANGED <<main, cancelled, ticker, device, kafka>>

(* The ticker goes on during a Produce; its channel holds one tick.        *)
Tick(d) ==
    /\ pc[d] \in {"select", "emit"} /\ ~ticker[d]
    /\ ticker' = [ticker EXCEPT ![d] = TRUE]
    /\ UNCHANGED <<pc, main, cancelled, device, kafka>>

(* ctx.Done() is chosen in one of the selects.                             *)
NoDone == FALSE     \* mutant: the selects have no case for the context
Done == cancelled
Stop(d) ==
    /\ pc[d] \in {"jitter", "select"} /\ Done
    /\ pc' = [pc EXCEPT ![d] = "stopped"]
    /\ UNCHANGED <<main, cancelled, ticker, device, kafka>>

-----------------------------------------------------------------------------
(* advanceState: the tick that enters a spike or a drift draws its length. *)
Enter(d, s, Ticks) ==
    /\ state' = [state EXCEPT ![d] = s]
    /\ \E n \in Ticks : stateTicksLeft' = [stateTicksLeft EXCEPT ![d] = n]
    /\ run' = [run EXCEPT ![d] = 1]

OneMore(left) == left < 0   \* mutant: the last tick is counted once more
ExcursionOver(left) == left <= 0

AdvanceState(d) ==
    IF state[d] = "normal"
    THEN \/ UNCHANGED device
         \/ Enter(d, "spike", SpikeTicks)
         \/ Enter(d, "drift", DriftTicks)
    ELSE LET left == stateTicksLeft[d] - 1
         IN /\ stateTicksLeft' = [stateTicksLeft EXCEPT ![d] = left]
            /\ IF ExcursionOver(left)
               THEN /\ state' = [state EXCEPT ![d] = "normal"]
                    /\ run' = [run EXCEPT ![d] = 0]
               ELSE run' = [run EXCEPT ![d] = @ + 1] /\ UNCHANGED state

(* The record key is the device id, so its hash decides the partition.     *)
AnyPartition(d) == Partitions   \* mutant: produced without a key
PartitionsFor(d) == {partitionOf[d]}

(* The tick is chosen in the select, which picks any ready case: the       *)
(* reading is generated and handed to the producer.                        *)
Emit(d) ==
    /\ pc[d] = "select" /\ ticker[d] /\ sent[d] < MaxReadings
    /\ ticker' = [ticker EXCEPT ![d] = FALSE]
    /\ AdvanceState(d)
    /\ sent' = [sent EXCEPT ![d] = @ + 1]
    /\ \E p \in PartitionsFor(d) :
          buffer' = [buffer EXCEPT ![p] = Append(@, <<d, sent[d] + 1>>)]
    /\ pc' = [pc EXCEPT ![d] = "emit"]
    /\ UNCHANGED <<main, cancelled, topic, partitionOf>>

(* Under a cancelled context Produce may fail at once, but the device still*)
(* ticks.                                                                  *)
EmitCancelled(d) ==
    /\ pc[d] = "select" /\ ticker[d] /\ cancelled
    /\ ticker' = [ticker EXCEPT ![d] = FALSE]
    /\ AdvanceState(d)
    /\ UNCHANGED <<pc, main, cancelled, kafka>>

(* ProduceSync returns to the goroutine whose record left the buffer.      *)
Returns(r) == pc' = [pc EXCEPT ![r[1]] = "select"]

Acknowledge(p) ==
    /\ buffer[p] # <<>> /\ main # "closed"
    /\ topic' = [topic EXCEPT ![p] = Append(@, Head(buffer[p]))]
    /\ buffer' = [buffer EXCEPT ![p] = Tail(@)]
    /\ Returns(Head(buffer[p]))
    /\ UNCHANGED <<main, cancelled, ticker, device, sent, partitionOf>>

(* The producer gives a record up, for instance when its context is done.  *)
ProduceFails(p) ==
    /\ main # "closed"
    /\ \E i \in DOMAIN buffer[p] :
          /\ buffer' = [buffer EXCEPT ![p] = RemoveAt(@, i)]
          /\ Returns(buffer[p][i])
    /\ UNCHANGED <<main, cancelled, ticker, device, sent, topic, partitionOf>>

-----------------------------------------------------------------------------
Join ==
    /\ main = "running" /\ cancelled
    /\ main' = "joining"
    /\ UNCHANGED <<pc, cancelled, ticker, device, kafka>>

(* wg.Wait, then the deferred producer.Close.                              *)
NoWait == TRUE      \* mutant: main returns as soon as the signal arrives
AllStopped == \A d \in Devices : pc[d] = "stopped"
CloseProducer ==
    /\ main = "joining" /\ AllStopped
    /\ main' = "closed"
    /\ UNCHANGED <<pc, cancelled, ticker, device, kafka>>

Init ==
    /\ pc = [d \in Devices |-> "jitter"]
    /\ main = "running" /\ cancelled = FALSE
    /\ ticker = [d \in Devices |-> FALSE]
    /\ state = [d \in Devices |-> "normal"]
    /\ stateTicksLeft = [d \in Devices |-> 0]
    /\ run = [d \in Devices |-> 0]
    /\ sent = [d \in Devices |-> 0]
    /\ buffer = [p \in Partitions |-> <<>>]
    /\ topic = [p \in Partitions |-> <<>>]
    /\ partitionOf \in [Devices -> Partitions]

Next ==
    \/ Cancel \/ Join \/ CloseProducer
    \/ \E d \in Devices : \/ JitterElapses(d) \/ Tick(d) \/ Stop(d)
                          \/ Emit(d) \/ EmitCancelled(d)
    \/ \E p \in Partitions : Acknowledge(p) \/ ProduceFails(p)

Spec == Init /\ [][Next]_vars

(* Goroutines run, timers fire and every Produce returns.  A select that   *)
(* is reached again and again with the context done takes that case in the *)
(* end, because Go picks among the ready cases at random: strong fairness. *)
FairSpec ==
    /\ Spec
    /\ WF_vars(Join) /\ WF_vars(CloseProducer)
    /\ \A d \in Devices : SF_vars(Stop(d))
    /\ \A p \in Partitions : WF_vars(Acknowledge(p) \/ ProduceFails(p))

-----------------------------------------------------------------------------
(* All readings of a device are in one partition, in the order in which    *)
(* they were generated (producer.go 25-27), whatever failed in between and *)
(* however the devices share partitions; the windows depend on it.         *)
OrderedPerDevice ==
    \A p, q \in Partitions : \A i \in DOMAIN topic[p], j \in DOMAIN topic[q] :
        LET r == topic[p][i]
            s == topic[q][j]
        IN r[1] = s[1] => p = q /\ (i < j => r[2] < s[2])

(* Close loses unflushed records (producer.go 88-89): when main closes the *)
(* producer no goroutine uses it any more and nothing is buffered.         *)
ClosedLast ==
    main = "closed" => /\ \A d \in Devices : pc[d] = "stopped"
                       /\ \A p \in Partitions : buffer[p] = <<>>

(* A spike lasts as many readings as were drawn for one, and so does a     *)
(* drift, also if some of the readings could not be produced.              *)
ExcursionLength ==
    [][\A d \in Devices :
         state[d] # "normal" /\ state'[d] = "normal" =>
             run[d] \in IF state[d] = "spike" THEN SpikeTicks
                                              ELSE DriftTicks]_vars

(* After SIGTERM all devices stop and main returns, though a device whose  *)
(* tick is ready as well may go round its loop before it stops.            *)
SigtermStops == cancelled ~> main = "closed"
=============================================================================
