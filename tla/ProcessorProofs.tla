--------------------------- MODULE ProcessorProofs ---------------------------
(***************************************************************************)
(* Proofs about Processor for every value of its constants.  The invariant *)
(* of the argument is ProcessorInv; each of its parts has a lemma that     *)
(* says every step keeps it.                                               *)
(***************************************************************************)
EXTENDS Processor, KafkaTopicProofs

(* What either commit action sends: offsets between the committed and the  *)
(* delivered ones.                                                         *)
LEMMA CommitFacts ==
    ASSUME TypeOK, OffsetsInOrder, WorkAgrees, pc = "commit",
           NEW parts \in SUBSET Partitions
    PROVE  LET target == CommitTarget(toCommit, committed, parts) IN
           /\ target \in [Partitions -> Offsets]
           /\ NoneAbove(committed, target)
           /\ NoneAbove(target, position)
           /\ parts = {} => target = committed
           /\ Below(target) \subseteq Below(position)
<1> DEFINE target == CommitTarget(toCommit, committed, parts)
<1>1. /\ toCommit \in SUBSET Records
      /\ toCommit \subseteq Below(position) \ Below(committed)
      /\ committed \in [Partitions -> Offsets]
      /\ position \in [Partitions -> Offsets]
      /\ NoneAbove(committed, position)
  BY DEF TypeOK, OffsetsInOrder, WorkAgrees
<1>2. /\ target \in [Partitions -> Offsets]
      /\ NoneAbove(committed, target)
      /\ NoneAbove(target, position)
      /\ toCommit = {} => target = committed
      /\ parts = {} => target = committed
  BY <1>1, CommitTargetFacts
<1>3. Below(target) \subseteq Below(position)
  <2> HIDE DEF target
  <2> QED
    BY <1>1, <1>2, BelowMonotone
<1> QED
  BY <1>2, <1>3

(* Every step keeps the types.                                             *)
LEMMA TypeStep ==
    ASSUME TypeOK, OffsetsInOrder, WorkAgrees, [Next]_vars
    PROVE  TypeOK'
<1> USE ProcessorAssumption, TopicAssumption
    DEF ProcessorAssumption, TopicAssumption
<1>1. ASSUME NEW p \in Partitions, Produce(p) PROVE TypeOK'
  <2>1. produced[p] + 1 \in Offsets
    BY <1>1 DEF Produce, TypeOK, Offsets
  <2> QED
    BY <1>1, <2>1 DEF TypeOK, PCs, Produce, outputs, work, alerting
<1>2. CASE PollRecords
  BY <1>2 DEF TypeOK, PCs, Offsets, PollRecords, Below, outputs, alerting
<1>3. CASE NextRecord
  BY <1>3 DEF TypeOK, PCs, outputs, work, alerting, NextRecord
<1>4. CASE AggregateOk
  <2>1. PICK r \in current, firing \in SUBSET AlertTypes :
          Detect(r[1], firing)
    BY <1>4 DEF AggregateOk
  <2>2. r[1] \in Partitions
    BY DEF TypeOK, Records
  <2>3. /\ toAlert' \subseteq AlertTypes
        /\ activeAlerts' \in [Partitions -> SUBSET AlertTypes]
        /\ announced' \in [Partitions -> SUBSET AlertTypes]
    BY <2>1, <2>2 DEF Detect, NewAlerts, TypeOK
  <2>4. /\ fetched' \subseteq Records /\ current' \subseteq Records
        /\ toCommit' \subseteq Records /\ completed' \subseteq Records
        /\ pc' \in PCs
    BY <1>4 DEF AggregateOk, Complete, RecordDone, TypeOK, PCs, work
  <2>5. aggregates' \in [Records -> Nat]
    BY <1>4 DEF AggregateOk, Count, TypeOK
  <2> QED
    BY <1>4, <2>3, <2>4, <2>5 DEF AggregateOk, TypeOK
<1>5. CASE AggregateFails
  BY <1>5 DEF TypeOK, PCs, outputs, work, alerting, AggregateFails,
     PipelineError, Count, ProduceMayFail
<1>6. ASSUME NEW t \in AlertTypes, AlertOk(t) PROVE TypeOK'
  BY <1>6 DEF TypeOK, PCs, outputs, work, alerting, AlertOk, Announce,
     Complete, RecordDone
<1>7. ASSUME NEW t \in AlertTypes, AlertFails(t) PROVE TypeOK'
  BY <1>7 DEF TypeOK, PCs, outputs, work, alerting, AlertFails, AlertError,
     Announce, ProduceMayFail
<1>8. CASE DlqRecord
  BY <1>8 DEF TypeOK, PCs, outputs, work, alerting, DlqRecord,
     ProduceMayFail, RecordDone
<1>9. CASE Decide
  BY <1>9 DEF TypeOK, PCs, outputs, work, alerting, Decide, CommitCtxDone
<1>10. CASE CommitOk
  <2>1. committed' \in [Partitions -> Offsets]
    BY <1>10, CommitFacts DEF CommitOk, CommitCtxDone
  <2> QED
    BY <1>10, <2>1 DEF TypeOK, PCs, CommitOk, CommitCtxDone, outputs, alerting
<1>11. CASE CommitFails
  <2>1. committed' \in [Partitions -> Offsets]
    BY <1>11, CommitFacts DEF CommitFails, CommitCtxDone
  <2> QED
    BY <1>11, <2>1 DEF TypeOK, PCs, CommitFails, CommitCtxDone, outputs,
       alerting
<1>12. CASE Restart
  <2>1. restarts + 1 \in 0 .. MaxRestarts
    BY <1>12 DEF Restart, ResumePoint, TypeOK
  <2> QED
    BY <1>12, <2>1 DEF TypeOK, PCs, Restart, ResumePoint, outputs, work,
       alerting
<1>13. CASE Cancel \/ LoopTop \/ PollError \/ PollCancelled \/ Deserialize \/
   CloseConsumer \/ Crash
  BY <1>13 DEF TypeOK, PCs, outputs, work, alerting, Cancel, LoopTop,
     PollError, PollCancelled, Deserialize, CloseConsumer, MemoryLost, Crash
<1>14. CASE UNCHANGED vars
  BY <1>14 DEF TypeOK, PCs, outputs, work, alerting, vars
<1> QED
  BY <1>1, <1>2, <1>3, <1>4, <1>5, <1>6, <1>7, <1>8, <1>9, <1>10, <1>11,
     <1>12, <1>13, <1>14 DEF Next, PollReturns, PipelineStep, CommitStep

(* The log end, the position and the committed offset stay in order.       *)
LEMMA OrderStep ==
    ASSUME TypeOK, OffsetsInOrder, WorkAgrees, [Next]_vars
    PROVE  OffsetsInOrder'
<1> USE ProcessorAssumption, TopicAssumption
    DEF ProcessorAssumption, TopicAssumption
<1>1. ASSUME NEW p \in Partitions, Produce(p) PROVE OffsetsInOrder'
  BY <1>1 DEF OffsetsInOrder, NoneAbove, TypeOK, Offsets, Produce
<1>2. CASE PollRecords
  BY <1>2 DEF OffsetsInOrder, NoneAbove, TypeOK, Offsets, PollRecords
<1>3. ASSUME NEW t \in AlertTypes, AlertOk(t) PROVE OffsetsInOrder'
  BY <1>3 DEF OffsetsInOrder, AlertOk, Announce, Complete, RecordDone
<1>4. ASSUME NEW t \in AlertTypes, AlertFails(t) PROVE OffsetsInOrder'
  BY <1>4 DEF OffsetsInOrder, AlertFails, AlertError, Announce, ProduceMayFail
<1>5. CASE CommitOk
  BY <1>5, CommitFacts DEF OffsetsInOrder, CommitOk, CommitCtxDone
<1>6. CASE CommitFails
  BY <1>6, CommitFacts DEF OffsetsInOrder, CommitFails, CommitCtxDone
<1>7. CASE Restart
  BY <1>7 DEF OffsetsInOrder, NoneAbove, TypeOK, Offsets, Restart, ResumePoint
<1>8. CASE Cancel \/ LoopTop \/ PollError \/ PollCancelled \/ NextRecord \/
   Deserialize \/ AggregateOk \/ AggregateFails \/ DlqRecord \/ Decide \/
   CloseConsumer \/ Crash
  BY <1>8 DEF OffsetsInOrder, Cancel, LoopTop, PollError, PollCancelled,
     NextRecord, Deserialize, AggregateOk, Count, Detect, NewAlerts,
     Complete, RecordDone, AggregateFails, PipelineError, ProduceMayFail,
     DlqRecord, Decide, CommitCtxDone, CloseConsumer, MemoryLost, Crash
<1>9. CASE UNCHANGED vars
  BY <1>9 DEF OffsetsInOrder, vars
<1> QED
  BY <1>1, <1>2, <1>3, <1>4, <1>5, <1>6, <1>7, <1>8, <1>9 DEF Next,
     PollReturns, PipelineStep, CommitStep

(* What an iteration holds agrees with the call it is at.                  *)
LEMMA WorkStep ==
    ASSUME TypeOK, OffsetsInOrder, WorkAgrees, [Next]_vars
    PROVE  WorkAgrees'
<1> USE ProcessorAssumption, TopicAssumption
    DEF ProcessorAssumption, TopicAssumption
<1>1. ASSUME NEW p \in Partitions, Produce(p) PROVE WorkAgrees'
  BY <1>1 DEF WorkAgrees, InPipeline, Below, outputs, work, alerting, Produce
<1>2. CASE Cancel
  BY <1>2 DEF WorkAgrees, InPipeline, Below, outputs, work, alerting, Cancel
<1>3. CASE LoopTop
  BY <1>3 DEF WorkAgrees, InPipeline, Below, outputs, work, alerting, LoopTop
<1>4. CASE PollRecords
  <2>1. Below(position) \subseteq Below(position')
    <3>1. position' \in [Partitions -> Offsets] /\ NoneAbove(position, position')
      BY <1>4 DEF PollRecords, NoneAbove, TypeOK, Offsets
    <3> QED
      BY <3>1, BelowMonotone DEF TypeOK
  <2>2. fetched' = Below(position') \ Below(position)
    BY <1>4 DEF PollRecords
  <2>3. Below(position)' = Below(position') /\ Below(committed)' = Below(committed)
    BY <1>4 DEF PollRecords, Below
  <2>4. Below(committed) \subseteq Below(position)
    BY BelowMonotone DEF OffsetsInOrder, TypeOK
  <2>5. fetched = {} /\ current = {} /\ toCommit = {}
    BY <1>4 DEF PollRecords, WorkAgrees, InPipeline
  <2> QED
    BY <1>4, <2>2, <2>3, <2>4, <2>5 DEF PollRecords, WorkAgrees, InPipeline
<1>5. CASE PollError
  BY <1>5 DEF WorkAgrees, InPipeline, Below, outputs, work, alerting,
     PollError
<1>6. CASE PollCancelled
  BY <1>6 DEF WorkAgrees, InPipeline, Below, outputs, work, alerting,
     PollCancelled
<1>7. CASE NextRecord
  BY <1>7 DEF WorkAgrees, InPipeline, Below, outputs, work, alerting,
     NextRecord
<1>8. CASE Deserialize
  BY <1>8 DEF WorkAgrees, InPipeline, Below, outputs, work, alerting,
     Deserialize
<1>9. CASE AggregateOk
  BY <1>9 DEF WorkAgrees, InPipeline, Below, outputs, work, alerting,
     AggregateOk, Count, Detect, NewAlerts, Complete, RecordDone
<1>10. CASE AggregateFails
  BY <1>10 DEF WorkAgrees, InPipeline, Below, outputs, work, alerting,
     AggregateFails, PipelineError, Count, ProduceMayFail
<1>11. ASSUME NEW t \in AlertTypes, AlertOk(t) PROVE WorkAgrees'
  BY <1>11 DEF WorkAgrees, InPipeline, Below, outputs, work, alerting,
     AlertOk, Announce, Complete, RecordDone
<1>12. ASSUME NEW t \in AlertTypes, AlertFails(t) PROVE WorkAgrees'
  BY <1>12 DEF WorkAgrees, InPipeline, Below, outputs, work, alerting,
     AlertFails, AlertError, Announce, ProduceMayFail
<1>13. CASE DlqRecord
  BY <1>13 DEF WorkAgrees, InPipeline, Below, outputs, work, alerting,
     DlqRecord, ProduceMayFail, RecordDone
<1>14. CASE Decide
  BY <1>14 DEF WorkAgrees, InPipeline, Below, outputs, work, alerting,
     Decide, CommitCtxDone
<1>15. CASE CommitOk
  BY <1>15 DEF WorkAgrees, InPipeline, Below, outputs, work, alerting,
     CommitOk, CommitCtxDone
<1>16. CASE CommitFails
  BY <1>16 DEF WorkAgrees, InPipeline, Below, outputs, work, alerting,
     CommitFails, CommitCtxDone
<1>17. CASE CloseConsumer
  BY <1>17 DEF WorkAgrees, InPipeline, Below, outputs, work, alerting,
     CloseConsumer, MemoryLost
<1>18. CASE Crash
  BY <1>18 DEF WorkAgrees, InPipeline, Below, outputs, work, alerting,
     Crash, MemoryLost
<1>19. CASE Restart
  BY <1>19 DEF WorkAgrees, InPipeline, Below, outputs, work, alerting,
     Restart, ResumePoint
<1>20. CASE UNCHANGED vars
  BY <1>20 DEF WorkAgrees, InPipeline, Below, outputs, work, alerting, vars
<1> QED
  BY <1>1, <1>2, <1>3, <1>4, <1>5, <1>6, <1>7, <1>8, <1>9, <1>10, <1>11,
     <1>12, <1>13, <1>14, <1>15, <1>16, <1>17, <1>18, <1>19, <1>20 DEF Next, PollReturns, PipelineStep, CommitStep

(* What leaves the process's hands is accounted for, and only that is      *)
(* committed.                                                              *)
LEMMA AccountedStep ==
    ASSUME TypeOK, OffsetsInOrder, WorkAgrees, DeliveredIsAccounted,
       [Next]_vars
    PROVE  DeliveredIsAccounted'
<1> USE ProcessorAssumption, TopicAssumption
    DEF ProcessorAssumption, TopicAssumption
<1>1. ASSUME NEW p \in Partitions, Produce(p) PROVE DeliveredIsAccounted'
  BY <1>1 DEF TypeOK, DeliveredIsAccounted, Accounted, WorkAgrees,
     InPipeline, Below, outputs, work, alerting, Produce
<1>2. CASE PollRecords
  BY <1>2 DEF TypeOK, DeliveredIsAccounted, Accounted, WorkAgrees,
     InPipeline, Below, outputs, work, alerting, PollRecords
<1>3. CASE NextRecord
  BY <1>3 DEF TypeOK, DeliveredIsAccounted, Accounted, WorkAgrees,
     InPipeline, Below, outputs, work, alerting, NextRecord
<1>4. CASE AggregateOk
  BY <1>4 DEF TypeOK, DeliveredIsAccounted, Accounted, WorkAgrees,
     InPipeline, Below, outputs, work, alerting, AggregateOk, Count, Detect,
     NewAlerts, Complete, RecordDone
<1>5. CASE AggregateFails
  BY <1>5 DEF TypeOK, DeliveredIsAccounted, Accounted, WorkAgrees,
     InPipeline, Below, outputs, work, alerting, AggregateFails,
     PipelineError, Count, ProduceMayFail
<1>6. ASSUME NEW t \in AlertTypes, AlertOk(t) PROVE DeliveredIsAccounted'
  BY <1>6 DEF TypeOK, DeliveredIsAccounted, Accounted, WorkAgrees,
     InPipeline, Below, outputs, work, alerting, AlertOk, Announce,
     Complete, RecordDone
<1>7. ASSUME NEW t \in AlertTypes, AlertFails(t) PROVE DeliveredIsAccounted'
  BY <1>7 DEF TypeOK, DeliveredIsAccounted, Accounted, WorkAgrees,
     InPipeline, Below, outputs, work, alerting, AlertFails, AlertError,
     Announce, ProduceMayFail
<1>8. CASE DlqRecord
  BY <1>8 DEF TypeOK, DeliveredIsAccounted, Accounted, WorkAgrees,
     InPipeline, Below, outputs, work, alerting, DlqRecord, ProduceMayFail,
     RecordDone
<1>9. CASE Decide
  BY <1>9 DEF TypeOK, DeliveredIsAccounted, Accounted, WorkAgrees,
     InPipeline, Below, outputs, work, alerting, Decide, CommitCtxDone
<1>10. CASE CommitOk
  <2>1. Below(committed') \subseteq Below(position)
    BY <1>10, CommitFacts DEF CommitOk, CommitCtxDone
  <2>2. Below(position)' = Below(position) /\ Below(committed)' = Below(committed')
    BY <1>10 DEF CommitOk, CommitCtxDone, Below
  <2>3. fetched = {}
    BY <1>10 DEF CommitOk, CommitCtxDone, WorkAgrees, InPipeline
  <2>4. Accounted' = Accounted
    BY <1>10 DEF CommitOk, CommitCtxDone, outputs, Accounted
  <2> QED
    BY <1>10, <2>1, <2>2, <2>3, <2>4 DEF CommitOk, CommitCtxDone,
       DeliveredIsAccounted
<1>11. CASE CommitFails
  <2>1. Below(committed') \subseteq Below(position)
    BY <1>11, CommitFacts DEF CommitFails, CommitCtxDone
  <2>2. Below(position)' = Below(position) /\ Below(committed)' = Below(committed')
    BY <1>11 DEF CommitFails, CommitCtxDone, Below
  <2>3. fetched = {}
    BY <1>11 DEF CommitFails, CommitCtxDone, WorkAgrees, InPipeline
  <2>4. Accounted' = Accounted
    BY <1>11 DEF CommitFails, CommitCtxDone, outputs, Accounted
  <2> QED
    BY <1>11, <2>1, <2>2, <2>3, <2>4 DEF CommitFails, CommitCtxDone,
       DeliveredIsAccounted
<1>12. CASE CloseConsumer
  BY <1>12 DEF TypeOK, DeliveredIsAccounted, Accounted, WorkAgrees,
     InPipeline, Below, outputs, work, alerting, CloseConsumer, MemoryLost
<1>13. CASE Crash
  BY <1>13 DEF TypeOK, DeliveredIsAccounted, Accounted, WorkAgrees,
     InPipeline, Below, outputs, work, alerting, Crash, MemoryLost
<1>14. CASE Restart
  BY <1>14 DEF TypeOK, DeliveredIsAccounted, Accounted, WorkAgrees,
     InPipeline, Below, outputs, work, alerting, Restart, ResumePoint
<1>15. CASE Cancel \/ LoopTop \/ PollError \/ PollCancelled \/ Deserialize
  BY <1>15 DEF TypeOK, DeliveredIsAccounted, Accounted, WorkAgrees,
     InPipeline, Below, outputs, work, alerting, Cancel, LoopTop, PollError,
     PollCancelled, Deserialize
<1>16. CASE UNCHANGED vars
  BY <1>16 DEF TypeOK, DeliveredIsAccounted, Accounted, WorkAgrees,
     InPipeline, Below, outputs, work, alerting, vars
<1> QED
  BY <1>1, <1>2, <1>3, <1>4, <1>5, <1>6, <1>7, <1>8, <1>9, <1>10, <1>11,
     <1>12, <1>13, <1>14, <1>15, <1>16 DEF Next, PollReturns, PipelineStep, CommitStep

(* Under a live context what leaves is processed or dead-lettered, and     *)
(* nothing is committed otherwise.                                         *)
LEMMA ProcessedStep ==
    ASSUME TypeOK, OffsetsInOrder, WorkAgrees, DeliveredIsProcessed,
       CommittedIsProcessed, [Next]_vars
    PROVE  DeliveredIsProcessed' /\ CommittedIsProcessed'
<1> USE ProcessorAssumption, TopicAssumption
    DEF ProcessorAssumption, TopicAssumption
<1>1. ASSUME NEW p \in Partitions, Produce(p)
      PROVE  DeliveredIsProcessed' /\ CommittedIsProcessed'
  BY <1>1 DEF TypeOK, DeliveredIsProcessed, CommittedIsProcessed,
     WorkAgrees, InPipeline, Below, outputs, work, alerting, Produce
<1>2. CASE PollRecords
  BY <1>2 DEF TypeOK, DeliveredIsProcessed, CommittedIsProcessed,
     WorkAgrees, InPipeline, Below, outputs, work, alerting, PollRecords
<1>3. CASE NextRecord
  BY <1>3 DEF TypeOK, DeliveredIsProcessed, CommittedIsProcessed,
     WorkAgrees, InPipeline, Below, outputs, work, alerting, NextRecord
<1>4. CASE AggregateOk
  BY <1>4 DEF TypeOK, DeliveredIsProcessed, CommittedIsProcessed,
     WorkAgrees, InPipeline, Below, outputs, work, alerting, AggregateOk,
     Count, Detect, NewAlerts, Complete, RecordDone
<1>5. CASE AggregateFails
  BY <1>5 DEF TypeOK, DeliveredIsProcessed, CommittedIsProcessed,
     WorkAgrees, InPipeline, Below, outputs, work, alerting, AggregateFails,
     PipelineError, Count, ProduceMayFail
<1>6. ASSUME NEW t \in AlertTypes, AlertOk(t)
      PROVE  DeliveredIsProcessed' /\ CommittedIsProcessed'
  BY <1>6 DEF TypeOK, DeliveredIsProcessed, CommittedIsProcessed,
     WorkAgrees, InPipeline, Below, outputs, work, alerting, AlertOk,
     Announce, Complete, RecordDone
<1>7. ASSUME NEW t \in AlertTypes, AlertFails(t)
      PROVE  DeliveredIsProcessed' /\ CommittedIsProcessed'
  BY <1>7 DEF TypeOK, DeliveredIsProcessed, CommittedIsProcessed,
     WorkAgrees, InPipeline, Below, outputs, work, alerting, AlertFails,
     AlertError, Announce, ProduceMayFail
<1>8. CASE DlqRecord
  BY <1>8 DEF TypeOK, DeliveredIsProcessed, CommittedIsProcessed,
     WorkAgrees, InPipeline, Below, outputs, work, alerting, DlqRecord,
     ProduceMayFail, RecordDone
<1>9. CASE Decide
  BY <1>9 DEF TypeOK, DeliveredIsProcessed, CommittedIsProcessed,
     WorkAgrees, InPipeline, Below, outputs, work, alerting, Decide,
     CommitCtxDone
<1>10. CASE CommitOk
  <2>1. Below(committed') \subseteq Below(position)
    BY <1>10, CommitFacts DEF CommitOk, CommitCtxDone
  <2>2. Below(position)' = Below(position) /\ Below(committed)' = Below(committed')
    BY <1>10 DEF CommitOk, CommitCtxDone, Below
  <2>3. fetched = {}
    BY <1>10 DEF CommitOk, CommitCtxDone, WorkAgrees, InPipeline
  <2> QED
    BY <1>10, <2>1, <2>2, <2>3
    DEF CommitOk, CommitCtxDone, outputs, DeliveredIsProcessed,
       CommittedIsProcessed
<1>11. CASE CommitFails
  <2>1. Below(committed') \subseteq Below(position)
    BY <1>11, CommitFacts DEF CommitFails, CommitCtxDone
  <2>2. Below(position)' = Below(position) /\ Below(committed)' = Below(committed')
    BY <1>11 DEF CommitFails, CommitCtxDone, Below
  <2>3. fetched = {}
    BY <1>11 DEF CommitFails, CommitCtxDone, WorkAgrees, InPipeline
  <2>4. cancelled => committed' = committed
    BY <1>11, CommitFacts DEF CommitFails, CommitCtxDone
  <2> QED
    BY <1>11, <2>1, <2>2, <2>3, <2>4
    DEF CommitFails, CommitCtxDone, outputs, DeliveredIsProcessed,
       CommittedIsProcessed
<1>12. CASE CloseConsumer
  BY <1>12 DEF TypeOK, DeliveredIsProcessed, CommittedIsProcessed,
     WorkAgrees, InPipeline, Below, outputs, work, alerting, CloseConsumer,
     MemoryLost
<1>13. CASE Crash
  BY <1>13 DEF TypeOK, DeliveredIsProcessed, CommittedIsProcessed,
     WorkAgrees, InPipeline, Below, outputs, work, alerting, Crash,
     MemoryLost
<1>14. CASE Restart
  BY <1>14 DEF TypeOK, DeliveredIsProcessed, CommittedIsProcessed,
     WorkAgrees, InPipeline, Below, outputs, work, alerting, Restart,
     ResumePoint
<1>15. CASE Cancel \/ LoopTop \/ PollError \/ PollCancelled \/ Deserialize
  BY <1>15 DEF TypeOK, DeliveredIsProcessed, CommittedIsProcessed,
     WorkAgrees, InPipeline, Below, outputs, work, alerting, Cancel,
     LoopTop, PollError, PollCancelled, Deserialize
<1>16. CASE UNCHANGED vars
  BY <1>16 DEF TypeOK, DeliveredIsProcessed, CommittedIsProcessed,
     WorkAgrees, InPipeline, Below, outputs, work, alerting, vars
<1> QED
  BY <1>1, <1>2, <1>3, <1>4, <1>5, <1>6, <1>7, <1>8, <1>9, <1>10, <1>11,
     <1>12, <1>13, <1>14, <1>15, <1>16 DEF Next, PollReturns, PipelineStep, CommitStep

(* A record is aggregated at most once by each process.                    *)
LEMMA AggregatesStep ==
    ASSUME TypeOK, OffsetsInOrder, WorkAgrees, NotAggregated,
       OneAggregatePerIncarnation, [Next]_vars
    PROVE  NotAggregated' /\ OneAggregatePerIncarnation'
<1> USE ProcessorAssumption, TopicAssumption
    DEF ProcessorAssumption, TopicAssumption
<1>1. ASSUME NEW p \in Partitions, Produce(p)
      PROVE  NotAggregated' /\ OneAggregatePerIncarnation'
  BY <1>1 DEF TypeOK, NotAggregated, OneAggregatePerIncarnation, WorkAgrees,
     InPipeline, Below, outputs, work, alerting, Produce
<1>2. CASE PollRecords
  <2>1. Below(position) \subseteq Below(position')
    <3>1. position' \in [Partitions -> Offsets] /\ NoneAbove(position, position')
      BY <1>2 DEF PollRecords, NoneAbove, TypeOK, Offsets
    <3> QED
      BY <3>1, BelowMonotone DEF TypeOK
  <2>2. fetched' = Below(position') \ Below(position)
    BY <1>2 DEF PollRecords
  <2>3. Below(position)' = Below(position') /\ Below(committed)' = Below(committed)
    BY <1>2 DEF PollRecords, Below
  <2> QED
    BY <1>2, <2>1, <2>2, <2>3
    DEF PollRecords, NotAggregated, OneAggregatePerIncarnation, outputs
<1>3. CASE NextRecord
  BY <1>3 DEF TypeOK, NotAggregated, OneAggregatePerIncarnation, WorkAgrees,
     InPipeline, Below, outputs, work, alerting, NextRecord
<1>4. CASE AggregateOk
  BY <1>4 DEF TypeOK, NotAggregated, OneAggregatePerIncarnation, WorkAgrees,
     InPipeline, Below, outputs, work, alerting, AggregateOk, Count, Detect,
     NewAlerts, Complete, RecordDone
<1>5. CASE AggregateFails
  BY <1>5 DEF TypeOK, NotAggregated, OneAggregatePerIncarnation, WorkAgrees,
     InPipeline, Below, outputs, work, alerting, AggregateFails,
     PipelineError, Count, ProduceMayFail
<1>6. ASSUME NEW t \in AlertTypes, AlertOk(t)
      PROVE  NotAggregated' /\ OneAggregatePerIncarnation'
  BY <1>6 DEF TypeOK, NotAggregated, OneAggregatePerIncarnation, WorkAgrees,
     InPipeline, Below, outputs, work, alerting, AlertOk, Announce,
     Complete, RecordDone
<1>7. ASSUME NEW t \in AlertTypes, AlertFails(t)
      PROVE  NotAggregated' /\ OneAggregatePerIncarnation'
  BY <1>7 DEF TypeOK, NotAggregated, OneAggregatePerIncarnation, WorkAgrees,
     InPipeline, Below, outputs, work, alerting, AlertFails, AlertError,
     Announce, ProduceMayFail
<1>8. CASE DlqRecord
  BY <1>8 DEF TypeOK, NotAggregated, OneAggregatePerIncarnation, WorkAgrees,
     InPipeline, Below, outputs, work, alerting, DlqRecord, ProduceMayFail,
     RecordDone
<1>9. CASE Decide
  BY <1>9 DEF TypeOK, NotAggregated, OneAggregatePerIncarnation, WorkAgrees,
     InPipeline, Below, outputs, work, alerting, Decide, CommitCtxDone
<1>10. CASE CommitOk
  BY <1>10 DEF TypeOK, NotAggregated, OneAggregatePerIncarnation,
     WorkAgrees, InPipeline, Below, outputs, work, alerting, CommitOk,
     CommitCtxDone
<1>11. CASE CommitFails
  BY <1>11 DEF TypeOK, NotAggregated, OneAggregatePerIncarnation,
     WorkAgrees, InPipeline, Below, outputs, work, alerting, CommitFails,
     CommitCtxDone
<1>12. CASE CloseConsumer
  BY <1>12 DEF TypeOK, NotAggregated, OneAggregatePerIncarnation,
     WorkAgrees, InPipeline, Below, outputs, work, alerting, CloseConsumer,
     MemoryLost
<1>13. CASE Crash
  BY <1>13 DEF TypeOK, NotAggregated, OneAggregatePerIncarnation,
     WorkAgrees, InPipeline, Below, outputs, work, alerting, Crash,
     MemoryLost
<1>14. CASE Restart
  BY <1>14 DEF TypeOK, NotAggregated, OneAggregatePerIncarnation,
     WorkAgrees, InPipeline, Below, outputs, work, alerting, Restart,
     ResumePoint
<1>15. CASE Cancel \/ LoopTop \/ PollError \/ PollCancelled \/ Deserialize
  BY <1>15 DEF TypeOK, NotAggregated, OneAggregatePerIncarnation,
     WorkAgrees, InPipeline, Below, outputs, work, alerting, Cancel,
     LoopTop, PollError, PollCancelled, Deserialize
<1>16. CASE UNCHANGED vars
  BY <1>16 DEF TypeOK, NotAggregated, OneAggregatePerIncarnation,
     WorkAgrees, InPipeline, Below, outputs, work, alerting, vars
<1> QED
  BY <1>1, <1>2, <1>3, <1>4, <1>5, <1>6, <1>7, <1>8, <1>9, <1>10, <1>11,
     <1>12, <1>13, <1>14, <1>15, <1>16 DEF Next, PollReturns, PipelineStep, CommitStep

(* The detector's state agrees with what was announced.                    *)
LEMMA AlertsStep ==
    ASSUME TypeOK, OffsetsInOrder, WorkAgrees, AlertsAgree, NoRepeatedAlert,
       SwallowedAlertLeavesDeadLetter, [Next]_vars
    PROVE  AlertsAgree' /\ NoRepeatedAlert'
           /\ SwallowedAlertLeavesDeadLetter'
<1> USE ProcessorAssumption, TopicAssumption
    DEF ProcessorAssumption, TopicAssumption
<1>1. ASSUME NEW p \in Partitions, Produce(p)
      PROVE  AlertsAgree' /\ NoRepeatedAlert'
           /\ SwallowedAlertLeavesDeadLetter'
  BY <1>1 DEF TypeOK, AlertsAgree, NoRepeatedAlert,
     SwallowedAlertLeavesDeadLetter, WorkAgrees, InPipeline, outputs, work,
     alerting, Produce
<1>2. CASE PollRecords
  BY <1>2 DEF TypeOK, AlertsAgree, NoRepeatedAlert,
     SwallowedAlertLeavesDeadLetter, WorkAgrees, InPipeline, outputs, work,
     alerting, PollRecords
<1>3. CASE NextRecord
  BY <1>3 DEF TypeOK, AlertsAgree, NoRepeatedAlert,
     SwallowedAlertLeavesDeadLetter, WorkAgrees, InPipeline, outputs, work,
     alerting, NextRecord
<1>4. CASE AggregateOk
  <2>1. PICK r \in current, firing \in SUBSET AlertTypes :
          Detect(r[1], firing)
    BY <1>4 DEF AggregateOk
  <2>2. current = {r} /\ r[1] \in Partitions /\ toAlert = {}
    BY <1>4 DEF AggregateOk, WorkAgrees, InPipeline, AlertsAgree, TypeOK,
       Records
  <2>3. /\ toAlert' = firing \ activeAlerts[r[1]]
        /\ \A d \in Partitions :
             /\ activeAlerts'[d] = IF d = r[1] THEN firing ELSE activeAlerts[d]
             /\ announced'[d] = IF d = r[1] THEN announced[d] \intersect firing
                                            ELSE announced[d]
    BY <2>1, <2>2 DEF Detect, NewAlerts, TypeOK
  <2>4. \/ toAlert' = {} /\ current' = {}
        \/ toAlert' # {} /\ current' = current /\ pc' = "alert"
    BY <1>4 DEF AggregateOk, Complete, RecordDone, work
  <2>5. dlq' = dlq /\ refused' = refused /\ pc = "aggregate"
    BY <1>4 DEF AggregateOk
  <2>6. AlertsAgree'
    BY <2>2, <2>3, <2>4 DEF AlertsAgree
  <2>7. NoRepeatedAlert'
    <3>1. announced[r[1]] \subseteq activeAlerts[r[1]]
      BY <2>2 DEF AlertsAgree
    <3>2. toAlert' \intersect announced'[r[1]] = {}
      BY <2>2, <2>3, <3>1
    <3> QED
      BY <2>2, <2>4, <3>2 DEF NoRepeatedAlert
  <2>8. SwallowedAlertLeavesDeadLetter'
    <3>1. \A q \in Records : aggregates'[q] = IF q = r THEN aggregates[q] + 1
                                                       ELSE aggregates[q]
      BY <1>4, <2>2 DEF AggregateOk, Count
    <3>2. \A q \in Records : aggregates[q] \in Nat
      BY DEF TypeOK
    <3>3. r \in Records /\ dlq \union refused \subseteq Records
      BY <2>2 DEF TypeOK
    <3> SUFFICES ASSUME NEW d \in Partitions,
                        NEW t \in activeAlerts'[d] \ announced'[d]
                 PROVE  \E q \in dlq' \union refused' \union current' :
                          /\ q[1] = d /\ aggregates'[q] > 0
                          /\ \/ q \in dlq' \union refused'
                             \/ t \in toAlert' \/ pc' = "dlq"
      BY DEF SwallowedAlertLeavesDeadLetter
    <3>4. CASE t \in activeAlerts[d] \ announced[d]
      <4>1. PICK q \in dlq \union refused : q[1] = d /\ aggregates[q] > 0
        BY <2>2, <2>5, <3>4 DEF SwallowedAlertLeavesDeadLetter
      <4>2. q \in Records /\ aggregates'[q] > 0
        BY <3>1, <3>2, <3>3, <4>1
      <4> QED
        BY <2>5, <4>1, <4>2
    <3>5. CASE t \notin activeAlerts[d] \ announced[d]
      <4>1. d = r[1] /\ t \in toAlert'
        BY <2>2, <2>3, <3>5
      <4>2. r \in current' /\ aggregates'[r] > 0
        BY <2>2, <2>4, <3>1, <3>2, <3>3, <4>1
      <4> QED
        BY <4>1, <4>2
    <3> QED
      BY <3>4, <3>5
  <2> QED
    BY <2>6, <2>7, <2>8
<1>5. CASE AggregateFails
  BY <1>5 DEF TypeOK, AlertsAgree, NoRepeatedAlert,
     SwallowedAlertLeavesDeadLetter, WorkAgrees, InPipeline, outputs, work,
     alerting, AggregateFails, PipelineError, Count, ProduceMayFail
<1>6. ASSUME NEW t \in AlertTypes, AlertOk(t)
      PROVE  AlertsAgree' /\ NoRepeatedAlert'
           /\ SwallowedAlertLeavesDeadLetter'
  BY <1>6 DEF TypeOK, AlertsAgree, NoRepeatedAlert,
     SwallowedAlertLeavesDeadLetter, WorkAgrees, InPipeline, outputs, work,
     alerting, AlertOk, Announce, Complete, RecordDone
<1>7. ASSUME NEW t \in AlertTypes, AlertFails(t)
      PROVE  AlertsAgree' /\ NoRepeatedAlert'
           /\ SwallowedAlertLeavesDeadLetter'
  BY <1>7 DEF TypeOK, AlertsAgree, NoRepeatedAlert,
     SwallowedAlertLeavesDeadLetter, WorkAgrees, InPipeline, outputs, work,
     alerting, AlertFails, AlertError, Announce, ProduceMayFail
<1>8. CASE DlqRecord
  BY <1>8 DEF TypeOK, AlertsAgree, NoRepeatedAlert,
     SwallowedAlertLeavesDeadLetter, WorkAgrees, InPipeline, outputs, work,
     alerting, DlqRecord, ProduceMayFail, RecordDone
<1>9. CASE Decide
  BY <1>9 DEF TypeOK, AlertsAgree, NoRepeatedAlert,
     SwallowedAlertLeavesDeadLetter, WorkAgrees, InPipeline, outputs, work,
     alerting, Decide, CommitCtxDone
<1>10. CASE CommitOk
  BY <1>10 DEF TypeOK, AlertsAgree, NoRepeatedAlert,
     SwallowedAlertLeavesDeadLetter, WorkAgrees, InPipeline, outputs, work,
     alerting, CommitOk, CommitCtxDone
<1>11. CASE CommitFails
  BY <1>11 DEF TypeOK, AlertsAgree, NoRepeatedAlert,
     SwallowedAlertLeavesDeadLetter, WorkAgrees, InPipeline, outputs, work,
     alerting, CommitFails, CommitCtxDone
<1>12. CASE CloseConsumer
  BY <1>12 DEF TypeOK, AlertsAgree, NoRepeatedAlert,
     SwallowedAlertLeavesDeadLetter, WorkAgrees, InPipeline, outputs, work,
     alerting, CloseConsumer, MemoryLost
<1>13. CASE Crash
  BY <1>13 DEF TypeOK, AlertsAgree, NoRepeatedAlert,
     SwallowedAlertLeavesDeadLetter, WorkAgrees, InPipeline, outputs, work,
     alerting, Crash, MemoryLost
<1>14. CASE Restart
  BY <1>14 DEF TypeOK, AlertsAgree, NoRepeatedAlert,
     SwallowedAlertLeavesDeadLetter, WorkAgrees, InPipeline, outputs, work,
     alerting, Restart, ResumePoint
<1>15. CASE Cancel \/ LoopTop \/ PollError \/ PollCancelled \/ Deserialize
  BY <1>15 DEF TypeOK, AlertsAgree, NoRepeatedAlert,
     SwallowedAlertLeavesDeadLetter, WorkAgrees, InPipeline, outputs, work,
     alerting, Cancel, LoopTop, PollError, PollCancelled, Deserialize
<1>16. CASE UNCHANGED vars
  BY <1>16 DEF TypeOK, AlertsAgree, NoRepeatedAlert,
     SwallowedAlertLeavesDeadLetter, WorkAgrees, InPipeline, outputs, work,
     alerting, vars
<1> QED
  BY <1>1, <1>2, <1>3, <1>4, <1>5, <1>6, <1>7, <1>8, <1>9, <1>10, <1>11,
     <1>12, <1>13, <1>14, <1>15, <1>16 DEF Next, PollReturns, PipelineStep, CommitStep

-----------------------------------------------------------------------------
(* The inductive invariant holds at the start and every step keeps it.     *)
LEMMA InvInit == Init => ProcessorInv
<1> SUFFICES ASSUME Init PROVE ProcessorInv
  OBVIOUS
<1> USE ProcessorAssumption, TopicAssumption
    DEF ProcessorAssumption, TopicAssumption
<1>1. Below(committed) = {} /\ Below(position) = {}
  BY DEF Init, Below, Records
<1>2. TypeOK
  <2>1. 0 \in Offsets /\ 0 \in 0 .. MaxRestarts /\ 0 \in Nat
    BY DEF Offsets
  <2> QED
    BY <2>1 DEF Init, TypeOK, PCs
<1>3. OffsetsInOrder /\ WorkAgrees
  BY <1>1 DEF Init, OffsetsInOrder, NoneAbove, WorkAgrees, InPipeline
<1>4. DeliveredIsAccounted /\ DeliveredIsProcessed /\ CommittedIsProcessed
  BY <1>1 DEF Init, DeliveredIsAccounted, DeliveredIsProcessed,
     CommittedIsProcessed
<1>5. NotAggregated /\ OneAggregatePerIncarnation
  BY DEF Init, NotAggregated, OneAggregatePerIncarnation
<1>6. AlertsAgree /\ NoRepeatedAlert /\ SwallowedAlertLeavesDeadLetter
  BY DEF Init, AlertsAgree, NoRepeatedAlert, SwallowedAlertLeavesDeadLetter
<1> QED
  BY <1>2, <1>3, <1>4, <1>5, <1>6 DEF ProcessorInv

(* The lemmas above, put together.                                         *)
LEMMA InvStep == ProcessorInv /\ [Next]_vars => ProcessorInv'
  BY TypeStep, OrderStep, WorkStep, AccountedStep, ProcessedStep,
     AggregatesStep, AlertsStep
  DEF ProcessorInv

(* The inductive invariant holds in every reachable state.                 *)
THEOREM ProcessorInvariant == Spec => []ProcessorInv
  BY InvInit, InvStep, PTL DEF Spec

(* Every variable keeps its type.                                          *)
THEOREM ProcessorTypes == Spec => []TypeOK
<1>1. ProcessorInv => TypeOK
  BY DEF ProcessorInv
<1> QED
  BY <1>1, ProcessorInvariant, PTL

(* Whatever SIGTERM and failing publishes do: when produces under a live   *)
(* context are acked, every committed record went through the pipeline or  *)
(* is in the DLQ (consumer.go 23-29).                                      *)
THEOREM CommittedProcessed == Spec => []CommittedIsProcessed
<1>1. ProcessorInv => CommittedIsProcessed
  BY DEF ProcessorInv
<1> QED
  BY <1>1, ProcessorInvariant, PTL

(* A record is aggregated at most once per incarnation of the process.     *)
THEOREM OneAggregate == Spec => []OneAggregatePerIncarnation
<1>1. ProcessorInv => OneAggregatePerIncarnation
  BY DEF ProcessorInv
<1> QED
  BY <1>1, ProcessorInvariant, PTL

(* No alert is published twice while its condition lasts.                  *)
THEOREM AlertsNotRepeated == Spec => []NoRepeatedAlert
<1>1. ProcessorInv => NoRepeatedAlert
  BY DEF ProcessorInv
<1> QED
  BY <1>1, ProcessorInvariant, PTL

(* An alert that was swallowed left a record in the DLQ or in the log.     *)
THEOREM SwallowedAlertTraced == Spec => []SwallowedAlertLeavesDeadLetter
<1>1. ProcessorInv => SwallowedAlertLeavesDeadLetter
  BY DEF ProcessorInv
<1> QED
  BY <1>1, ProcessorInvariant, PTL

-----------------------------------------------------------------------------
(* Both modules mean the same records below an offset.                     *)
LEMMA SameBelow == ASSUME NEW limit PROVE ALO!Below(limit) = Below(limit)
  BY DEF ALO!Below, Below, ALO!Records, Records

(* Finishing the record in the pipeline, or a step that finishes nothing,  *)
(* handles delivered records.                                              *)
LEMMA PipelineHandles ==
    ASSUME ProcessorInv,
           AggregateOk \/ DlqRecord \/ \E t \in AlertTypes : AlertOk(t)
    PROVE  ALO!Handle
<1>1. current \subseteq Below(position)
  BY DEF ProcessorInv, WorkAgrees, InPipeline, AggregateOk, DlqRecord, AlertOk
<1>2. Accounted \subseteq Accounted' /\ Accounted' \subseteq Accounted \union current
  BY DEF AggregateOk, DlqRecord, AlertOk, Complete, Accounted
<1>3. UNCHANGED <<produced, position, committed>>
  BY DEF AggregateOk, DlqRecord, AlertOk
<1> QED
  BY <1>1, <1>2, <1>3, SameBelow DEF ALO!Handle

(* Every step of the processor is a step of a consumer that delivers at    *)
(* least once, or changes nothing such a consumer shows.                   *)
LEMMA RefinementStep ==
    ASSUME ProcessorInv, [Next]_vars
    PROVE  [ALO!Next]_(ALO!vars)
<1> USE TopicAssumption DEF TopicAssumption
<1>1. ASSUME NEW p \in Partitions, Produce(p) PROVE ALO!Next
  <2>1. produced' \in [Partitions -> ALO!Offsets]
        /\ ALO!NoneAbove(produced, produced')
    BY <1>1 DEF Produce, ProcessorInv, TypeOK, Offsets, ALO!Offsets,
       ALO!NoneAbove
  <2> QED
    BY <1>1, <2>1 DEF ALO!Next, ALO!Append, Produce, outputs, Accounted
<1>2. CASE PollRecords
  <2>1. position' \in [Partitions -> ALO!Offsets]
        /\ ALO!NoneAbove(position, position')
        /\ ALO!NoneAbove(position', produced)
    BY <1>2 DEF PollRecords, ProcessorInv, TypeOK, Offsets, ALO!Offsets,
       ALO!NoneAbove
  <2> QED
    BY <1>2, <2>1 DEF ALO!Next, ALO!Deliver, PollRecords, outputs, Accounted
<1>3. CASE AggregateOk \/ DlqRecord \/ \E t \in AlertTypes : AlertOk(t)
  BY <1>3, PipelineHandles DEF ALO!Next
<1>4. CASE CommitOk \/ CommitFails
  <2>1. UNCHANGED <<produced, position>> /\ Accounted' = Accounted
    BY <1>4 DEF CommitOk, CommitCtxDone, CommitFails, outputs, Accounted
  <2>2. /\ committed' \in [Partitions -> Offsets]
        /\ NoneAbove(committed, committed')
        /\ NoneAbove(committed', position)
        /\ Below(committed') \subseteq Below(position)
    BY <1>4, CommitFacts DEF ProcessorInv, CommitOk, CommitCtxDone,
       CommitFails
  <2>3. Below(position) \subseteq Accounted
    BY <1>4 DEF ProcessorInv, WorkAgrees, InPipeline,
       DeliveredIsAccounted, CommitOk, CommitCtxDone, CommitFails
  <2>4. committed' \in [Partitions -> ALO!Offsets]
        /\ ALO!NoneAbove(committed, committed')
        /\ ALO!NoneAbove(committed', position)
    BY <2>2 DEF Offsets, ALO!Offsets, NoneAbove, ALO!NoneAbove
  <2> QED
    BY <2>1, <2>2, <2>3, <2>4, SameBelow DEF ALO!Next, ALO!Commit
<1>5. CASE Restart
  BY <1>5 DEF Restart, ResumePoint, outputs, Accounted, ALO!Next, ALO!Rewind
<1>6. CASE \/ Cancel \/ LoopTop \/ PollError \/ PollCancelled \/ NextRecord
           \/ Deserialize \/ Decide \/ CloseConsumer \/ Crash
  <2>1. UNCHANGED <<produced, position, committed>> /\ UNCHANGED outputs
    BY <1>6 DEF Cancel, LoopTop, PollError, PollCancelled, NextRecord,
       Deserialize, Decide, CommitCtxDone, CloseConsumer, Crash,
       MemoryLost
  <2> QED
    BY <2>1 DEF outputs, Accounted, ALO!vars
<1>7. CASE AggregateFails \/ \E t \in AlertTypes : AlertFails(t)
  BY <1>7 DEF AggregateFails, PipelineError, AlertFails, AlertError,
     outputs, Accounted, ALO!vars
<1>8. CASE UNCHANGED vars
  BY <1>8 DEF vars, outputs, Accounted, ALO!vars
<1> QED
  BY <1>1, <1>2, <1>3, <1>4, <1>5, <1>6, <1>7, <1>8
  DEF Next, PollReturns, PipelineStep, CommitStep

(* Nothing is handled at the start.                                        *)
LEMMA RefinementInit == Init => ALO!Init
  BY TopicAssumption
  DEF TopicAssumption, Init, ALO!Init, Offsets, ALO!Offsets, Accounted

(* The processor implements AtLeastOnce, for every value of the constants. *)
THEOREM ProcessorRefines == Spec => DeliversAtLeastOnce
<1>1. ProcessorInv /\ [Next]_vars => [ALO!Next]_(ALO!vars)
  BY RefinementStep
<1> QED
  BY <1>1, RefinementInit, ProcessorInvariant, PTL
  DEF Spec, DeliversAtLeastOnce, ALO!Spec
=============================================================================
