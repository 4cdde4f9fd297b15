------------------------------ MODULE Processor ------------------------------
(***************************************************************************)
(* One processor instance (services/processor): the poll loop, the record  *)
(* pipeline with its three publishes, alert deduplication, the DLQ, the    *)
(* commit at the end of each poll, shutdown, crashes and restarts.         *)
(*                                                                         *)
(* Abstractions.  A partition carries one device: records are keyed by     *)
(* device_id, and the devices of a partition share no state.  Which of the *)
(* rules fire for an aggregate is chosen freely, so it stands for every    *)
(* window content and threshold; the window itself is module SlidingWindow.*)
(* Enrichment changes one field of the aggregate and never the control     *)
(* flow, so it takes no step here.  The instance owns every partition.     *)
(***************************************************************************)
EXTENDS KafkaTopic

CONSTANTS
    AlertTypes,     \* the rules: TEMP_HIGH, TEMP_LOW, BATTERY_LOW, SPIKE
    MaxRestarts,    \* bound: how many times the process is started again
    ProduceReliable \* TRUE: a produce under a live context is always acked

ASSUME ProcessorAssumption ==
    /\ MaxRestarts \in Nat
    /\ ProduceReliable \in BOOLEAN

VARIABLES
    \* the brokers: they survive a crash
    produced,       \* [Partitions -> Offsets]: log end of each partition
    committed,      \* [Partitions -> Offsets]: offsets committed by the group
    aggregates,     \* [Records -> Nat]: entries of device.aggregated
    completed,      \* records whose pipeline returned without an error
    dlq,            \* records in device.metrics.dlq
    refused,        \* records whose "dlq publish failed" was logged
    \* the process
    pc,             \* the call the goroutine is about to make
    cancelled,      \* SIGTERM or SIGINT cancelled the context of Run
    position,       \* [Partitions -> Offsets]: next offset the client fetches
    fetched,        \* records of the last Poll not finished yet
    current,        \* the one of them in the pipeline, or {}
    toCommit,       \* records finished since the last Poll
    toAlert,        \* alerts detect returned that are not published yet
    activeAlerts,   \* [Partitions -> SUBSET AlertTypes]: the detector's state
    polled,         \* a Poll returned a fetch: rebalances stay blocked
    restarts,       \* how many times the process was started again
    \* history
    announced       \* [Partitions -> SUBSET AlertTypes]: the conditions that
                    \* this process found firing ever since it alerted them

outputs == <<aggregates, completed, dlq, refused>>
alerting == <<toAlert, activeAlerts, announced>>
work == <<fetched, current, toCommit>>
vars == <<produced, committed, outputs, pc, cancelled, position, work,
          alerting, polled, restarts>>

PCs == {"top", "poll", "next", "pipeline", "aggregate", "alert", "dlq",
        "decide", "commit", "close", "down"}

TypeOK ==
    /\ produced \in [Partitions -> Offsets]
    /\ committed \in [Partitions -> Offsets]
    /\ aggregates \in [Records -> Nat]
    /\ completed \subseteq Records
    /\ dlq \subseteq Records
    /\ refused \subseteq Records
    /\ pc \in PCs
    /\ cancelled \in BOOLEAN
    /\ position \in [Partitions -> Offsets]
    /\ fetched \subseteq Records
    /\ current \subseteq Records
    /\ toCommit \subseteq Records
    /\ toAlert \subseteq AlertTypes
    /\ activeAlerts \in [Partitions -> SUBSET AlertTypes]
    /\ polled \in BOOLEAN
    /\ restarts \in 0 .. MaxRestarts
    /\ announced \in [Partitions -> SUBSET AlertTypes]

-----------------------------------------------------------------------------
(* Traffic keeps arriving in partition p.                                  *)
Produce(p) ==
    /\ produced[p] < MaxOffset
    /\ produced' = [produced EXCEPT ![p] = @ + 1]
    /\ UNCHANGED <<committed, outputs, pc, cancelled, position, work, alerting,
                   polled, restarts>>

(* SIGTERM or SIGINT.                                                      *)
Cancel ==
    /\ pc # "down" /\ ~cancelled
    /\ cancelled' = TRUE
    /\ UNCHANGED <<produced, committed, outputs, pc, position, work, alerting,
                   polled, restarts>>

(* Run checks its context, then Shutdown closes the clients.               *)
RunNeverStops == FALSE  \* mutant: no check at the top of the loop
RunStops == cancelled
LoopTop ==
    /\ pc = "top"
    /\ pc' = IF RunStops THEN "close" ELSE "poll"
    /\ UNCHANGED <<produced, committed, outputs, cancelled, position, work,
                   alerting, polled, restarts>>

(* Poll blocks until some partition has records and returns some of them.  *)
PollRecords ==
    /\ pc = "poll"
    /\ \E upTo \in [Partitions -> Offsets] :
        /\ \A p \in Partitions : upTo[p] \in position[p] .. produced[p]
        /\ upTo # position
        /\ position' = upTo
        /\ fetched' = Below(upTo) \ Below(position)
    /\ polled' = TRUE
    /\ pc' = "next"
    /\ UNCHANGED <<produced, committed, outputs, cancelled, current, toCommit,
                   alerting, restarts>>

(* A partition error is a fetch without records: it is only logged.        *)
PollError ==
    /\ pc = "poll"
    /\ polled' = TRUE
    /\ pc' = "decide"
    /\ UNCHANGED <<produced, committed, outputs, cancelled, position, work,
                   alerting, restarts>>

(* A cancelled context makes Poll return no records at all.                *)
PollCancelled ==
    /\ pc = "poll" /\ cancelled
    /\ pc' = "decide"
    /\ UNCHANGED <<produced, committed, outputs, cancelled, position, work,
                   alerting, polled, restarts>>

-----------------------------------------------------------------------------
(* The record iterator hands out the next record, or is done.              *)
NextRecord ==
    /\ pc = "next"
    /\ IF fetched = {}
       THEN pc' = "decide" /\ UNCHANGED current
       ELSE /\ pc' = "pipeline"
            /\ \E r \in fetched : IsFirst(r, fetched) /\ current' = {r}
    /\ UNCHANGED <<produced, committed, outputs, cancelled, position, fetched,
                   toCommit, alerting, polled, restarts>>

(* The record has left the pipeline or the DLQ: track it, take the next.   *)
RecordDone ==
    /\ toCommit' = toCommit \union current
    /\ fetched' = fetched \ current
    /\ current' = {}
    /\ pc' = "next"

(* Deserialize, then push into the window, which cannot fail.              *)
Deserialize ==
    /\ pc = "pipeline"
    /\ pc' \in {"aggregate", "dlq"}
    /\ UNCHANGED <<produced, committed, outputs, cancelled, position, work,
                   alerting, polled, restarts>>

(* detect: alerts for the rules that fire and were not active, whose order *)
(* is left open; what fires now is active from now on.                     *)
EveryFiring(d, firing) == firing    \* mutant: one alert per reading
NewAlerts(d, firing) == firing \ activeAlerts[d]
Detect(d, firing) ==
    /\ toAlert' = NewAlerts(d, firing)
    /\ activeAlerts' = [activeAlerts EXCEPT ![d] = firing]
    /\ announced' = [announced EXCEPT ![d] = @ \intersect firing]

(* The pipeline is through: processRecord returns nil.                     *)
Complete ==
    /\ completed' = completed \union current
    /\ RecordDone

Count ==
    aggregates' = [r \in Records |-> IF r \in current THEN aggregates[r] + 1
                                                      ELSE aggregates[r]]

(* The aggregate is acknowledged; detect runs before any other call.       *)
AggregateOk ==
    /\ pc = "aggregate"
    /\ Count
    /\ \E r \in current, firing \in SUBSET AlertTypes : Detect(r[1], firing)
    /\ IF toAlert' = {}
       THEN Complete
       ELSE pc' = "alert" /\ UNCHANGED <<completed, work>>
    /\ UNCHANGED <<produced, committed, dlq, refused, cancelled, position,
                   polled, restarts>>

(* Produce may fail under a done context, and fails or loses the ack of a  *)
(* stored record when the brokers are unreliable.                          *)
ProduceMayFail == cancelled \/ ~ProduceReliable

(* Any error of the pipeline sends the record to the DLQ.                  *)
TryAgain == pc' = pc    \* mutant: the publish is repeated
PipelineError == pc' = "dlq"
AggregateFails ==
    /\ pc = "aggregate" /\ ProduceMayFail
    /\ UNCHANGED aggregates \/ Count
    /\ PipelineError
    /\ UNCHANGED <<produced, committed, completed, dlq, refused, cancelled,
                   position, work, alerting, polled, restarts>>

Announce(t) == announced' = [d \in Partitions |->
                   IF \E r \in current : r[1] = d THEN announced[d] \union {t}
                                                  ELSE announced[d]]

AlertOk(t) ==
    /\ pc = "alert" /\ t \in toAlert
    /\ Announce(t)
    /\ toAlert' = toAlert \ {t}
    /\ IF toAlert' = {} THEN Complete ELSE UNCHANGED <<pc, completed, work>>
    /\ UNCHANGED <<produced, committed, aggregates, dlq, refused, cancelled,
                   position, activeAlerts, polled, restarts>>

(* The first alert that fails ends the loop: the rest are never published. *)
LogAlertError == Complete   \* mutant: a failed alert is only logged
AlertError == pc' = "dlq" /\ UNCHANGED <<completed, work>>
AlertFails(t) ==
    /\ pc = "alert" /\ t \in toAlert /\ ProduceMayFail
    /\ UNCHANGED announced \/ Announce(t)
    /\ toAlert' = {}
    /\ AlertError
    /\ UNCHANGED <<produced, committed, aggregates, dlq, refused, cancelled,
                   position, activeAlerts, polled, restarts>>

(* The failed record goes to the DLQ; an error is only logged.             *)
DlqRecord ==
    /\ pc = "dlq"
    /\ \/ /\ dlq' = dlq \union current
          /\ UNCHANGED refused
       \/ /\ ProduceMayFail
          /\ dlq' = dlq \union current \/ UNCHANGED dlq
          /\ refused' = refused \union current
    /\ RecordDone
    /\ UNCHANGED <<produced, committed, aggregates, completed, cancelled,
                   position, alerting, polled, restarts>>

-----------------------------------------------------------------------------
(* Nothing is committed under a cancelled context.                         *)
CommitInBackground == FALSE     \* mutant: context.Background() for the commit
CommitCtxDone == cancelled
Decide ==
    /\ pc = "decide"
    /\ IF toCommit # {} /\ ~CommitCtxDone
       THEN pc' = "commit" /\ UNCHANGED toCommit
       ELSE pc' = "top" /\ toCommit' = {}
    /\ UNCHANGED <<produced, committed, outputs, cancelled, position, fetched,
                   current, alerting, polled, restarts>>

(* toCommit is a variable of one iteration: it is gone after the commit,   *)
(* whether the commit succeeded or not.                                    *)
CommitOk ==
    /\ pc = "commit" /\ ~CommitCtxDone
    /\ committed' = CommitTarget(toCommit, committed, Partitions)
    /\ toCommit' = {}
    /\ pc' = "top"
    /\ UNCHANGED <<produced, outputs, cancelled, position, fetched, current,
                   alerting, polled, restarts>>

CommitFails ==
    /\ pc = "commit"
    /\ \E parts \in SUBSET Partitions :
        /\ parts = {} \/ ~CommitCtxDone
        /\ committed' = CommitTarget(toCommit, committed, parts)
    /\ toCommit' = {}
    /\ pc' = "top"
    /\ UNCHANGED <<produced, outputs, cancelled, position, fetched, current,
                   alerting, polled, restarts>>

-----------------------------------------------------------------------------
(* What the process held is gone, the windows and the alert state with it. *)
MemoryLost ==
    /\ pc' = "down"
    /\ fetched' = {} /\ current' = {} /\ toCommit' = {} /\ toAlert' = {}
    /\ activeAlerts' = [d \in Partitions |-> {}]
    /\ announced' = [d \in Partitions |-> {}]
    /\ UNCHANGED <<produced, committed, outputs, cancelled, position, polled,
                   restarts>>

(* Shutdown closes the consumer last; it waits as in module Ingestor.      *)
CloseConsumer == pc = "close" /\ ~polled /\ MemoryLost

(* SIGKILL, an OOM kill or a lost node, between any two calls.             *)
Crash == pc # "down" /\ MemoryLost

(* A new process joins the group and fetches from the committed offsets.   *)
ResumeAtStart == [p \in Partitions |-> 0]   \* mutant: the earliest offset
ResumeAtPosition == position    \* mutant: where the last process stopped
ResumePoint == committed
Restart ==
    /\ pc = "down" /\ restarts < MaxRestarts
    /\ restarts' = restarts + 1
    /\ pc' = "top"
    /\ cancelled' = FALSE /\ polled' = FALSE
    /\ position' = ResumePoint
    /\ UNCHANGED <<produced, committed, outputs, work, alerting>>

Init ==
    /\ produced = [p \in Partitions |-> 0]
    /\ committed = [p \in Partitions |-> 0]
    /\ aggregates = [r \in Records |-> 0]
    /\ completed = {} /\ dlq = {} /\ refused = {}
    /\ pc = "top" /\ cancelled = FALSE
    /\ position = [p \in Partitions |-> 0]
    /\ fetched = {} /\ current = {} /\ toCommit = {} /\ toAlert = {}
    /\ activeAlerts = [d \in Partitions |-> {}]
    /\ announced = [d \in Partitions |-> {}]
    /\ polled = FALSE
    /\ restarts = 0

PipelineStep == \/ NextRecord \/ Deserialize \/ AggregateOk \/ AggregateFails
                \/ \E t \in AlertTypes : AlertOk(t) \/ AlertFails(t)
                \/ DlqRecord
PollReturns == PollRecords \/ PollCancelled
CommitStep == Decide \/ CommitOk \/ CommitFails

Next ==
    \/ \E p \in Partitions : Produce(p)
    \/ Cancel
    \/ LoopTop \/ PollReturns \/ PollError
    \/ PipelineStep \/ CommitStep
    \/ CloseConsumer \/ Crash \/ Restart

Spec == Init /\ [][Next]_vars

(* As in Ingestor: one goroutine that never rests between two calls.       *)
FairSpec ==
    Spec /\ WF_vars(LoopTop \/ PollReturns \/ PipelineStep \/ CommitStep
                    \/ CloseConsumer)

-----------------------------------------------------------------------------
Accounted == completed \union dlq \union refused

(* Nothing is committed unless the pipeline was through or the record is in*)
(* the DLQ (consumer.go 23-29), when produces under a live context are     *)
(* acked: a SIGTERM that makes every publish fail, the one to the DLQ      *)
(* included, also keeps the offsets of those records from being committed. *)
CommittedIsProcessed ==
    ProduceReliable => Below(committed) \subseteq completed \union dlq

(* Every step is a step of AtLeastOnce or leaves its variables alone: a    *)
(* failed commit, whose offsets a later one covers, loses nothing.         *)
ALO == INSTANCE AtLeastOnce WITH handled <- Accounted
DeliversAtLeastOnce == ALO!Spec

(* A record is pushed and aggregated once per incarnation of the process,  *)
(* also when its commit failed: only a restart aggregates it again.        *)
OneAggregatePerIncarnation == \A r \in Records : aggregates[r] <= restarts + 1

(* An alert that is about to be published was not published since its      *)
(* condition last began (anomaly.go 21-24).                                *)
NoRepeatedAlert ==
    \A r \in current : toAlert \intersect announced[r[1]] = {}

(* A condition that is active though its alert was never published left a  *)
(* dead letter, or the log of one, of a reading of its device whose        *)
(* aggregate is out: an alert is never dropped without a trace, and a      *)
(* reading that failed before the detector saw it is no excuse for one.    *)
SwallowedAlertLeavesDeadLetter ==
    \A d \in Partitions : \A t \in activeAlerts[d] \ announced[d] :
        \E r \in dlq \union refused \union current :
            /\ r[1] = d /\ aggregates[r] > 0
            /\ r \in dlq \union refused \/ t \in toAlert \/ pc = "dlq"

(* SIGTERM ends Run, whatever the pipeline is doing.                       *)
SigtermDrains == cancelled ~> pc \in {"close", "down"}

-----------------------------------------------------------------------------
(* The inductive invariant, part by part.                                  *)

OffsetsInOrder ==
    NoneAbove(committed, position) /\ NoneAbove(position, produced)

InPipeline == pc \in {"pipeline", "aggregate", "alert", "dlq"}

(* What one iteration of Run holds, and at which call.                     *)
WorkAgrees ==
    /\ IF InPipeline THEN \E r \in fetched : current = {r} ELSE current = {}
    /\ fetched # {} => pc = "next" \/ InPipeline
    /\ toCommit # {} => pc \in {"next", "decide", "commit"} \/ InPipeline
    /\ fetched \union toCommit \subseteq Below(position) \ Below(committed)

(* Whatever was delivered and is no longer in hand is accounted for, and   *)
(* so is what is committed.                                                *)
DeliveredIsAccounted ==
    /\ pc # "down" => Below(position) \ fetched \subseteq Accounted
    /\ Below(committed) \subseteq Accounted

(* While the context is live, accounted means processed or dead-lettered.  *)
DeliveredIsProcessed ==
    ProduceReliable /\ ~cancelled /\ pc # "down" =>
        Below(position) \ fetched \subseteq completed \union dlq

(* A record not aggregated yet by this process has at most one aggregate   *)
(* from each earlier one.                                                  *)
NotAggregated ==
    pc # "down" =>
      \A r \in Records :
        \/ r \notin Below(position)
        \/ r \in fetched /\ ~(r \in current /\ pc \in {"alert", "dlq"})
        => aggregates[r] <= restarts

(* The detector's state against what was announced.                        *)
AlertsAgree ==
    /\ toAlert # {} => pc = "alert"
    /\ \A r \in current : toAlert \subseteq activeAlerts[r[1]]
    /\ \A d \in Partitions : announced[d] \subseteq activeAlerts[d]

ProcessorInv ==
    /\ TypeOK
    /\ OffsetsInOrder
    /\ WorkAgrees
    /\ DeliveredIsAccounted
    /\ DeliveredIsProcessed
    /\ CommittedIsProcessed
    /\ NotAggregated
    /\ OneAggregatePerIncarnation
    /\ AlertsAgree
    /\ NoRepeatedAlert
    /\ SwallowedAlertLeavesDeadLetter

-----------------------------------------------------------------------------
(* What the comments say of the program and its steps do not keep.         *)

(* "On first trigger: emit alert, add to set" (anomaly.go 33-37): between  *)
(* two polls a condition is active only if its alert was published.        *)
ActiveIsAnnounced ==
    pc = "top" => \A d \in Partitions : activeAlerts[d] \subseteq announced[d]
=============================================================================
