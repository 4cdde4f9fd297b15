--------------------------- MODULE IngestorProofs ---------------------------
(***************************************************************************)
(* Proofs about Ingestor for every value of its constants.  The invariant  *)
(* of the argument is IngestorInv; each of its parts has a lemma that says *)
(* every step keeps it, with one step per action that touches the part.    *)
(***************************************************************************)
EXTENDS Ingestor, KafkaTopicProofs

(* What either commit action sends, given what the process holds: offsets  *)
(* between the committed and the delivered ones that cover the pending     *)
(* records, all of them or none beyond them.                               *)
LEMMA CommitFacts ==
    ASSUME TypeOK, OffsetsInOrder, PcAgrees, HoldsTheUncommitted,
           pc = "commit", NEW parts \in SUBSET Partitions
    PROVE  LET target == CommitTarget(pendingRecords, committed, parts) IN
           /\ target \in [Partitions -> Offsets]
           /\ NoneAbove(committed, target)
           /\ NoneAbove(target, position)
           /\ Below(target) \subseteq Below(committed) \union pendingRecords
           /\ parts = {} => target = committed
           /\ parts = Partitions => pendingRecords \subseteq Below(target)
<1> DEFINE target == CommitTarget(pendingRecords, committed, parts)
<1>1. pendingRecords = {} \/ pendingRecords = Below(position) \ Below(committed)
  BY DEF HoldsTheUncommitted, PcAgrees
<1>2. /\ pendingRecords \in SUBSET Records
      /\ pendingRecords \subseteq Below(position) \ Below(committed)
      /\ committed \in [Partitions -> Offsets]
      /\ position \in [Partitions -> Offsets]
      /\ NoneAbove(committed, position)
  BY <1>1 DEF TypeOK, OffsetsInOrder
<1>3. /\ target \in [Partitions -> Offsets]
      /\ NoneAbove(committed, target)
      /\ NoneAbove(target, position)
      /\ pendingRecords = {} => target = committed
      /\ parts = {} => target = committed
      /\ Covers(pendingRecords, target, parts)
  BY <1>2, CommitTargetFacts
<1>4. Below(target) \subseteq Below(committed) \union pendingRecords
  <2> HIDE DEF target
  <2>1. Below(target) \subseteq Below(position)
    BY <1>2, <1>3, BelowMonotone
  <2> QED
    BY <2>1, <1>1, <1>3
<1>5. parts = Partitions => pendingRecords \subseteq Below(target)
  <2>1. \A r \in pendingRecords : r[1] \in Partitions
    BY <1>2 DEF Records
  <2> QED
    BY <1>3, <2>1 DEF Covers
<1> QED
  BY <1>3, <1>4, <1>5

(* Every step keeps the types: the only steps that need more than the type *)
(* invariant are those of the offsets, which stay within MaxOffset.        *)
LEMMA TypeStep ==
    ASSUME TypeOK, OffsetsInOrder, PcAgrees, HoldsTheUncommitted, [Next]_vars
    PROVE  TypeOK'
<1> USE IngestorAssumption, TopicAssumption
    DEF IngestorAssumption, TopicAssumption
<1>1. ASSUME NEW p \in Partitions, Produce(p) PROVE TypeOK'
  <2>1. produced[p] + 1 \in Offsets
    BY <1>1 DEF Produce, TypeOK, Offsets
  <2> QED
    BY <1>1, <2>1 DEF TypeOK, PCs, Produce, stores, signals, batch
<1>2. CASE PollRecords
  BY <1>2 DEF TypeOK, PCs, Offsets, PollRecords, Below, stores, signals, batch
<1>3. ASSUME NEW r \in Records, Decoded(r) PROVE TypeOK'
  BY <1>3 DEF TypeOK, PCs, stores, signals, batch, Decoded, NextRecord, Track
<1>4. ASSUME NEW r \in Records, Undecodable(r) PROVE TypeOK'
  BY <1>4 DEF TypeOK, PCs, stores, signals, batch, Undecodable, NextRecord,
     Track, DlqPublish, Publish
<1>5. CASE WriteOk
  BY <1>5 DEF TypeOK, PCs, stores, signals, batch, WriteOk, Insert
<1>6. CASE WriteFails
  BY <1>6 DEF TypeOK, PCs, stores, signals, batch, WriteFails, RouteToDlq,
     Insert
<1>7. ASSUME NEW r \in Records, DlqBatchRecord(r) PROVE TypeOK'
  BY <1>7 DEF TypeOK, PCs, stores, signals, batch, DlqBatchRecord, DlqPublish, Publish
<1>8. CASE CommitOk
  <2>1. committed' \in [Partitions -> Offsets]
    BY <1>8, CommitFacts DEF CommitOk
  <2> QED
    BY <1>8, <2>1 DEF TypeOK, PCs, CommitOk, FlushReturns, ClearPending,
       stores, signals, batch
<1>9. CASE CommitFails
  <2>1. committed' \in [Partitions -> Offsets]
    BY <1>9, CommitFacts DEF CommitFails
  <2> QED
    BY <1>9, <2>1 DEF TypeOK, PCs, CommitFails, FlushReturns,
       ClearPending, stores, signals, batch
<1>10. CASE Restart
  <2>1. restarts + 1 \in 0 .. MaxRestarts
    BY <1>10 DEF Restart, ResumePoint, TypeOK
  <2> QED
    BY <1>10, <2>1 DEF TypeOK, PCs, Restart, ResumePoint, stores, batch
<1>11. CASE Cancel \/ DeadlineExpires \/ IntervalElapses \/ LoopTop \/
   PollCancelled \/ PollError \/ Decide \/ FlushNothing \/ FlushPending \/
   CloseConsumer \/ Crash
  BY <1>11 DEF TypeOK, PCs, stores, signals, batch, Cancel, DeadlineExpires,
     IntervalElapses, LoopTop, PollCancelled, PollError, Decide,
     FlushNothing, FlushReturns, ClearPending, FlushPending, CloseConsumer,
     MemoryLost, Crash
<1>12. CASE UNCHANGED vars
  BY <1>12 DEF TypeOK, PCs, stores, signals, batch, vars, stores, signals,
     batch
<1> QED
  BY <1>1, <1>2, <1>3, <1>4, <1>5, <1>6, <1>7, <1>8, <1>9, <1>10, <1>11,
     <1>12 DEF Next, PollReturns, RecordStep, FlushStep

(* The log end, the position and the committed offset stay in order.       *)
LEMMA OrderStep ==
    ASSUME TypeOK, OffsetsInOrder, PcAgrees, HoldsTheUncommitted, [Next]_vars
    PROVE  OffsetsInOrder'
<1> USE IngestorAssumption, TopicAssumption
    DEF IngestorAssumption, TopicAssumption
<1>1. ASSUME NEW p \in Partitions, Produce(p) PROVE OffsetsInOrder'
  BY <1>1 DEF OffsetsInOrder, NoneAbove, TypeOK, Offsets, Produce
<1>2. CASE PollRecords
  BY <1>2 DEF OffsetsInOrder, NoneAbove, TypeOK, Offsets, PollRecords
<1>3. ASSUME NEW r \in Records, Decoded(r) PROVE OffsetsInOrder'
  BY <1>3 DEF OffsetsInOrder, NoneAbove, Decoded, NextRecord, Track
<1>4. ASSUME NEW r \in Records, Undecodable(r) PROVE OffsetsInOrder'
  BY <1>4 DEF OffsetsInOrder, NoneAbove, Undecodable, NextRecord, Track, DlqPublish, Publish
<1>5. ASSUME NEW r \in Records, DlqBatchRecord(r) PROVE OffsetsInOrder'
  BY <1>5 DEF OffsetsInOrder, NoneAbove, DlqBatchRecord, DlqPublish, Publish
<1>6. CASE CommitOk
  BY <1>6, CommitFacts DEF OffsetsInOrder, NoneAbove, CommitOk, FlushReturns,
     ClearPending
<1>7. CASE CommitFails
  BY <1>7, CommitFacts DEF OffsetsInOrder, NoneAbove, CommitFails, FlushReturns,
     ClearPending
<1>8. CASE Restart
  BY <1>8 DEF OffsetsInOrder, NoneAbove, TypeOK, Offsets, Restart, ResumePoint
<1>9. CASE Cancel \/ DeadlineExpires \/ IntervalElapses \/ LoopTop \/
   PollCancelled \/ PollError \/ Decide \/ FlushNothing \/ FlushPending \/
   WriteOk \/ WriteFails \/ CloseConsumer \/ Crash
  BY <1>9 DEF OffsetsInOrder, NoneAbove, Cancel, DeadlineExpires, IntervalElapses,
     LoopTop, PollCancelled, PollError, Decide, FlushNothing, FlushReturns,
     ClearPending, FlushPending, WriteOk, Insert, WriteFails, RouteToDlq,
     CloseConsumer, MemoryLost, Crash
<1>10. CASE UNCHANGED vars
  BY <1>10 DEF OffsetsInOrder, NoneAbove, vars, stores, signals, batch
<1> QED
  BY <1>1, <1>2, <1>3, <1>4, <1>5, <1>6, <1>7, <1>8, <1>9, <1>10 DEF Next,
     PollReturns, RecordStep, FlushStep

(* The process keeps holding exactly what was delivered and not committed. *)
LEMMA HoldsStep ==
    ASSUME TypeOK, OffsetsInOrder, PcAgrees, HoldsTheUncommitted, [Next]_vars
    PROVE  PcAgrees' /\ HoldsTheUncommitted'
<1> USE IngestorAssumption, TopicAssumption
    DEF IngestorAssumption, TopicAssumption
<1>1. ASSUME NEW p \in Partitions, Produce(p) PROVE PcAgrees' /\ HoldsTheUncommitted'
  BY <1>1 DEF PcAgrees, HoldsTheUncommitted, Below, stores, signals, batch,
     Produce
<1>2. CASE PollRecords
  <2>1. PICK upTo \in [Partitions -> Offsets] :
          /\ \A p \in Partitions : upTo[p] \in position[p] .. produced[p]
          /\ position' = upTo
          /\ fetched' = Below(upTo) \ Below(position)
    BY <1>2 DEF PollRecords
  <2>2. Below(committed) \subseteq Below(position)
    BY DEF Below, OffsetsInOrder, NoneAbove, TypeOK, Offsets, Records
  <2>3. Below(position) \subseteq Below(upTo)
    BY <2>1 DEF Below, OffsetsInOrder, NoneAbove, TypeOK, Offsets, Records
  <2>4. pendingRecords = Below(position) \ Below(committed)
    BY <1>2 DEF PollRecords, PcAgrees, HoldsTheUncommitted
  <2>5. fetched' \union pendingRecords' = Below(upTo) \ Below(committed)
    BY <1>2, <2>1, <2>2, <2>3, <2>4 DEF PollRecords, batch
  <2>6. Below(position)' = Below(upTo) /\ Below(committed)' = Below(committed)
    BY <1>2, <2>1 DEF PollRecords, Below
  <2> QED
    BY <1>2, <2>1, <2>4, <2>5, <2>6
    DEF PollRecords, PcAgrees, HoldsTheUncommitted, batch
<1>3. ASSUME NEW r \in Records, Decoded(r) PROVE PcAgrees' /\ HoldsTheUncommitted'
  BY <1>3 DEF PcAgrees, HoldsTheUncommitted, Below, stores, signals, batch,
     Decoded, NextRecord, Track
<1>4. ASSUME NEW r \in Records, Undecodable(r) PROVE PcAgrees' /\ HoldsTheUncommitted'
  BY <1>4 DEF PcAgrees, HoldsTheUncommitted, Below, stores, signals, batch,
     Undecodable, NextRecord, Track, DlqPublish, Publish
<1>5. ASSUME NEW r \in Records, DlqBatchRecord(r) PROVE PcAgrees' /\ HoldsTheUncommitted'
  BY <1>5 DEF PcAgrees, HoldsTheUncommitted, Below, stores, signals, batch,
     DlqBatchRecord, DlqPublish, Publish
<1>6. CASE CommitOk
  <2>1. fetched = {} /\ toDlq = {}
    BY <1>6 DEF CommitOk, PcAgrees
  <2>2. pendingRecords = Below(position) \ Below(committed) \/ phase = "shutdown"
    BY <1>6, <2>1 DEF CommitOk, HoldsTheUncommitted
  <2>3. Below(committed) \subseteq Below(committed')
    BY <1>6, CommitFacts DEF CommitOk, NoneAbove, Below, TypeOK, Offsets, Records
  <2>4. pendingRecords \subseteq Below(committed')
    BY <1>6, CommitFacts DEF CommitOk
  <2>5. Below(committed') \subseteq Below(position)
    BY <1>6, CommitFacts DEF CommitOk, NoneAbove, Below, TypeOK, Offsets, Records
  <2>6. Below(position)' = Below(position) /\ Below(committed)' = Below(committed')
    BY <1>6 DEF CommitOk, FlushReturns, ClearPending, Below
  <2> QED
    BY <1>6, <2>1, <2>2, <2>3, <2>4, <2>5, <2>6
    DEF CommitOk, FlushReturns, ClearPending, PcAgrees, HoldsTheUncommitted
<1>7. CASE CommitFails
  BY <1>7 DEF PcAgrees, HoldsTheUncommitted, CommitFails, FlushReturns,
     ClearPending
<1>8. CASE Restart
  BY <1>8 DEF PcAgrees, HoldsTheUncommitted, Below, stores, signals, batch,
     Restart, ResumePoint
<1>9. CASE Cancel \/ DeadlineExpires \/ IntervalElapses \/ LoopTop \/
   PollCancelled \/ PollError \/ Decide \/ FlushNothing \/ FlushPending \/
   WriteOk \/ WriteFails \/ CloseConsumer \/ Crash
  BY <1>9 DEF PcAgrees, HoldsTheUncommitted, Below, stores, signals, batch,
     Cancel, DeadlineExpires, IntervalElapses, LoopTop, PollCancelled,
     PollError, Decide, FlushNothing, FlushReturns, ClearPending,
     FlushPending, WriteOk, Insert, WriteFails, RouteToDlq, CloseConsumer,
     MemoryLost, Crash
<1>10. CASE UNCHANGED vars
  BY <1>10 DEF PcAgrees, HoldsTheUncommitted, Below, stores, signals, batch,
     vars, stores, signals, batch
<1> QED
  BY <1>1, <1>2, <1>3, <1>4, <1>5, <1>6, <1>7, <1>8, <1>9, <1>10 DEF Next,
     PollReturns, RecordStep, FlushStep

(* A commit covers only records that flush has dealt with, and a trace is  *)
(* never taken back.                                                       *)
LEMMA TracedStep ==
    ASSUME TypeOK, OffsetsInOrder, PcAgrees, HoldsTheUncommitted, BatchIsTraced, CommittedIsTraced, [Next]_vars
    PROVE  BatchIsTraced' /\ CommittedIsTraced'
<1> USE IngestorAssumption, TopicAssumption
    DEF IngestorAssumption, TopicAssumption
<1>1. ASSUME NEW p \in Partitions, Produce(p) PROVE BatchIsTraced' /\ CommittedIsTraced'
  BY <1>1 DEF TypeOK, PcAgrees, HoldsTheUncommitted, Below, BatchIsTraced,
     CommittedIsTraced, Traced, Stored, DeadLettered, stores, signals,
     batch, Produce
<1>2. CASE PollRecords
  BY <1>2 DEF TypeOK, PcAgrees, HoldsTheUncommitted, Below, BatchIsTraced,
     CommittedIsTraced, Traced, Stored, DeadLettered, stores, signals,
     batch, PollRecords
<1>3. ASSUME NEW r \in Records, Decoded(r) PROVE BatchIsTraced' /\ CommittedIsTraced'
  BY <1>3 DEF TypeOK, PcAgrees, HoldsTheUncommitted, Below, BatchIsTraced,
     CommittedIsTraced, Traced, Stored, DeadLettered, stores, signals,
     batch, Decoded, NextRecord, Track
<1>4. ASSUME NEW r \in Records, Undecodable(r) PROVE BatchIsTraced' /\ CommittedIsTraced'
  BY <1>4 DEF TypeOK, PcAgrees, HoldsTheUncommitted, Below, BatchIsTraced,
     CommittedIsTraced, Traced, Stored, DeadLettered, stores, signals,
     batch, Undecodable, NextRecord, Track, DlqPublish, Publish
<1>5. CASE WriteOk
  BY <1>5 DEF TypeOK, PcAgrees, HoldsTheUncommitted, Below, BatchIsTraced,
     CommittedIsTraced, Traced, Stored, DeadLettered, stores, signals,
     batch, WriteOk, Insert
<1>6. CASE WriteFails
  BY <1>6 DEF TypeOK, PcAgrees, HoldsTheUncommitted, Below, BatchIsTraced,
     CommittedIsTraced, Traced, Stored, DeadLettered, stores, signals,
     batch, WriteFails, RouteToDlq, Insert
<1>7. ASSUME NEW r \in Records, DlqBatchRecord(r) PROVE BatchIsTraced' /\ CommittedIsTraced'
  BY <1>7 DEF TypeOK, PcAgrees, HoldsTheUncommitted, Below, BatchIsTraced,
     CommittedIsTraced, Traced, Stored, DeadLettered, stores, signals,
     batch, DlqBatchRecord, DlqPublish, Publish
<1>8. CASE CommitOk
  <2>1. Below(committed') \subseteq Below(committed) \union pendingRecords
    BY <1>8, CommitFacts DEF CommitOk
  <2>2. \A r \in pendingRecords : Traced(r)
    BY <1>8 DEF CommitOk, BatchIsTraced
  <2>3. \A r \in Records : Traced(r)' <=> Traced(r)
    BY <1>8 DEF CommitOk, FlushReturns, ClearPending, stores, Traced,
       Stored, DeadLettered
  <2>4. Below(committed)' = Below(committed')
    BY DEF Below
  <2> QED
    BY <1>8, <2>1, <2>2, <2>3, <2>4
    DEF CommitOk, FlushReturns, ClearPending, BatchIsTraced,
       CommittedIsTraced, Below
<1>9. CASE CommitFails
  <2>1. Below(committed') \subseteq Below(committed) \union pendingRecords
    BY <1>9, CommitFacts DEF CommitFails
  <2>2. \A r \in pendingRecords : Traced(r)
    BY <1>9 DEF CommitFails, BatchIsTraced
  <2>3. \A r \in Records : Traced(r)' <=> Traced(r)
    BY <1>9 DEF CommitFails, FlushReturns, ClearPending, stores, Traced,
       Stored, DeadLettered
  <2>4. Below(committed)' = Below(committed')
    BY DEF Below
  <2> QED
    BY <1>9, <2>1, <2>2, <2>3, <2>4
    DEF CommitFails, FlushReturns, ClearPending, BatchIsTraced,
       CommittedIsTraced, Below
<1>10. CASE Restart
  BY <1>10 DEF TypeOK, PcAgrees, HoldsTheUncommitted, Below, BatchIsTraced,
     CommittedIsTraced, Traced, Stored, DeadLettered, stores, signals,
     batch, Restart, ResumePoint
<1>11. CASE Cancel \/ DeadlineExpires \/ IntervalElapses \/ LoopTop \/
   PollCancelled \/ PollError \/ Decide \/ FlushNothing \/ FlushPending \/
   CloseConsumer \/ Crash
  BY <1>11 DEF TypeOK, PcAgrees, HoldsTheUncommitted, Below, BatchIsTraced,
     CommittedIsTraced, Traced, Stored, DeadLettered, stores, signals,
     batch, Cancel, DeadlineExpires, IntervalElapses, LoopTop,
     PollCancelled, PollError, Decide, FlushNothing, FlushReturns,
     ClearPending, FlushPending, CloseConsumer, MemoryLost, Crash
<1>12. CASE UNCHANGED vars
  BY <1>12 DEF TypeOK, PcAgrees, HoldsTheUncommitted, Below, BatchIsTraced,
     CommittedIsTraced, Traced, Stored, DeadLettered, stores, signals,
     batch, vars, stores, signals, batch
<1> QED
  BY <1>1, <1>2, <1>3, <1>4, <1>5, <1>6, <1>7, <1>8, <1>9, <1>10, <1>11,
     <1>12 DEF Next, PollReturns, RecordStep, FlushStep

(* Only a batch that was not inserted before is ever inserted.             *)
LEMMA RowsStep ==
    ASSUME TypeOK, OffsetsInOrder, PcAgrees, HoldsTheUncommitted, NotInserted, OneInsertPerIncarnation, [Next]_vars
    PROVE  NotInserted' /\ OneInsertPerIncarnation'
<1> USE IngestorAssumption, TopicAssumption
    DEF IngestorAssumption, TopicAssumption
<1>1. ASSUME NEW p \in Partitions, Produce(p) PROVE NotInserted' /\ OneInsertPerIncarnation'
  BY <1>1 DEF TypeOK, PcAgrees, HoldsTheUncommitted, Below, NotInserted,
     OneInsertPerIncarnation, stores, signals, batch, Produce
<1>2. CASE PollRecords
  <2>1. Below(position) \subseteq Below(position')
    BY <1>2 DEF PollRecords, Below, OffsetsInOrder, NoneAbove, TypeOK, Offsets, Records
  <2>2. fetched' = Below(position') \ Below(position)
    BY <1>2 DEF PollRecords
  <2>3. Below(position)' = Below(position')
    BY DEF Below
  <2> QED
    BY <1>2, <2>1, <2>2, <2>3
    DEF PollRecords, NotInserted, OneInsertPerIncarnation, stores, batch
<1>3. ASSUME NEW r \in Records, Decoded(r) PROVE NotInserted' /\ OneInsertPerIncarnation'
  BY <1>3 DEF TypeOK, PcAgrees, HoldsTheUncommitted, Below, NotInserted,
     OneInsertPerIncarnation, stores, signals, batch, Decoded, NextRecord,
     Track
<1>4. ASSUME NEW r \in Records, Undecodable(r) PROVE NotInserted' /\ OneInsertPerIncarnation'
  BY <1>4 DEF TypeOK, PcAgrees, HoldsTheUncommitted, Below, NotInserted,
     OneInsertPerIncarnation, stores, signals, batch, Undecodable,
     NextRecord, Track, DlqPublish, Publish
<1>5. CASE WriteOk
  BY <1>5 DEF TypeOK, PcAgrees, HoldsTheUncommitted, Below, NotInserted,
     OneInsertPerIncarnation, stores, signals, batch, WriteOk, Insert
<1>6. CASE WriteFails
  BY <1>6 DEF TypeOK, PcAgrees, HoldsTheUncommitted, Below, NotInserted,
     OneInsertPerIncarnation, stores, signals, batch, WriteFails,
     RouteToDlq, Insert
<1>7. ASSUME NEW r \in Records, DlqBatchRecord(r) PROVE NotInserted' /\ OneInsertPerIncarnation'
  BY <1>7 DEF TypeOK, PcAgrees, HoldsTheUncommitted, Below, NotInserted,
     OneInsertPerIncarnation, stores, signals, batch, DlqBatchRecord,
     DlqPublish, Publish
<1>8. CASE CommitOk
  BY <1>8 DEF TypeOK, PcAgrees, HoldsTheUncommitted, Below, NotInserted,
     OneInsertPerIncarnation, stores, signals, batch, CommitOk,
     FlushReturns, ClearPending
<1>9. CASE CommitFails
  BY <1>9 DEF TypeOK, PcAgrees, HoldsTheUncommitted, Below, NotInserted,
     OneInsertPerIncarnation, stores, signals, batch, CommitFails,
     FlushReturns, ClearPending
<1>10. CASE Restart
  BY <1>10 DEF TypeOK, PcAgrees, HoldsTheUncommitted, Below, NotInserted,
     OneInsertPerIncarnation, stores, signals, batch, Restart, ResumePoint
<1>11. CASE Cancel \/ DeadlineExpires \/ IntervalElapses \/ LoopTop \/
   PollCancelled \/ PollError \/ Decide \/ FlushNothing \/ FlushPending \/
   CloseConsumer \/ Crash
  BY <1>11 DEF TypeOK, PcAgrees, HoldsTheUncommitted, Below, NotInserted,
     OneInsertPerIncarnation, stores, signals, batch, Cancel,
     DeadlineExpires, IntervalElapses, LoopTop, PollCancelled, PollError,
     Decide, FlushNothing, FlushReturns, ClearPending, FlushPending,
     CloseConsumer, MemoryLost, Crash
<1>12. CASE UNCHANGED vars
  BY <1>12 DEF TypeOK, PcAgrees, HoldsTheUncommitted, Below, NotInserted,
     OneInsertPerIncarnation, stores, signals, batch, vars, stores, signals,
     batch
<1> QED
  BY <1>1, <1>2, <1>3, <1>4, <1>5, <1>6, <1>7, <1>8, <1>9, <1>10, <1>11,
     <1>12 DEF Next, PollReturns, RecordStep, FlushStep

(* No call leaves a trace of a record whose two traces are used up.        *)
LEMMA TracesStep ==
    ASSUME TypeOK, OffsetsInOrder, PcAgrees, HoldsTheUncommitted, TracesLeft, TwoTracesPerIncarnation, [Next]_vars
    PROVE  TracesLeft' /\ TwoTracesPerIncarnation'
<1> USE IngestorAssumption, TopicAssumption
    DEF IngestorAssumption, TopicAssumption
<1>1. ASSUME NEW p \in Partitions, Produce(p) PROVE TracesLeft' /\ TwoTracesPerIncarnation'
  BY <1>1 DEF TypeOK, PcAgrees, HoldsTheUncommitted, Below, TracesLeft,
     TwoTracesPerIncarnation, stores, signals, batch, Produce
<1>2. CASE PollRecords
  <2>1. Below(position) \subseteq Below(position')
    BY <1>2 DEF PollRecords, Below, OffsetsInOrder, NoneAbove, TypeOK, Offsets, Records
  <2>2. fetched' = Below(position') \ Below(position)
    BY <1>2 DEF PollRecords
  <2>3. Below(position)' = Below(position')
    BY DEF Below
  <2> QED
    BY <1>2, <2>1, <2>2, <2>3
    DEF PollRecords, TracesLeft, TwoTracesPerIncarnation, stores, batch
<1>3. ASSUME NEW r \in Records, Decoded(r) PROVE TracesLeft' /\ TwoTracesPerIncarnation'
  BY <1>3 DEF TypeOK, PcAgrees, HoldsTheUncommitted, Below, TracesLeft,
     TwoTracesPerIncarnation, stores, signals, batch, Decoded, NextRecord,
     Track
<1>4. ASSUME NEW r \in Records, Undecodable(r) PROVE TracesLeft' /\ TwoTracesPerIncarnation'
  BY <1>4 DEF TypeOK, PcAgrees, HoldsTheUncommitted, Below, TracesLeft,
     TwoTracesPerIncarnation, stores, signals, batch, Undecodable,
     NextRecord, Track, DlqPublish, Publish
<1>5. CASE WriteOk
  BY <1>5 DEF TypeOK, PcAgrees, HoldsTheUncommitted, Below, TracesLeft,
     TwoTracesPerIncarnation, stores, signals, batch, WriteOk, Insert
<1>6. CASE WriteFails
  BY <1>6 DEF TypeOK, PcAgrees, HoldsTheUncommitted, Below, TracesLeft,
     TwoTracesPerIncarnation, stores, signals, batch, WriteFails,
     RouteToDlq, Insert
<1>7. ASSUME NEW r \in Records, DlqBatchRecord(r) PROVE TracesLeft' /\ TwoTracesPerIncarnation'
  BY <1>7 DEF TypeOK, PcAgrees, HoldsTheUncommitted, Below, TracesLeft,
     TwoTracesPerIncarnation, stores, signals, batch, DlqBatchRecord,
     DlqPublish, Publish
<1>8. CASE CommitOk
  BY <1>8 DEF TypeOK, PcAgrees, HoldsTheUncommitted, Below, TracesLeft,
     TwoTracesPerIncarnation, stores, signals, batch, CommitOk,
     FlushReturns, ClearPending
<1>9. CASE CommitFails
  BY <1>9 DEF TypeOK, PcAgrees, HoldsTheUncommitted, Below, TracesLeft,
     TwoTracesPerIncarnation, stores, signals, batch, CommitFails,
     FlushReturns, ClearPending
<1>10. CASE Restart
  BY <1>10 DEF TypeOK, PcAgrees, HoldsTheUncommitted, Below, TracesLeft,
     TwoTracesPerIncarnation, stores, signals, batch, Restart, ResumePoint
<1>11. CASE Cancel \/ DeadlineExpires \/ IntervalElapses \/ LoopTop \/
   PollCancelled \/ PollError \/ Decide \/ FlushNothing \/ FlushPending \/
   CloseConsumer \/ Crash
  BY <1>11 DEF TypeOK, PcAgrees, HoldsTheUncommitted, Below, TracesLeft,
     TwoTracesPerIncarnation, stores, signals, batch, Cancel,
     DeadlineExpires, IntervalElapses, LoopTop, PollCancelled, PollError,
     Decide, FlushNothing, FlushReturns, ClearPending, FlushPending,
     CloseConsumer, MemoryLost, Crash
<1>12. CASE UNCHANGED vars
  BY <1>12 DEF TypeOK, PcAgrees, HoldsTheUncommitted, Below, TracesLeft,
     TwoTracesPerIncarnation, stores, signals, batch, vars, stores, signals,
     batch
<1> QED
  BY <1>1, <1>2, <1>3, <1>4, <1>5, <1>6, <1>7, <1>8, <1>9, <1>10, <1>11,
     <1>12 DEF Next, PollReturns, RecordStep, FlushStep

(* Under a live context the DLQ loop leaves an entry for every record.     *)
LEMMA KeptStep ==
    ASSUME TypeOK, PcAgrees, HoldsTheUncommitted, LiveBatchIsKept, [Next]_vars
    PROVE  LiveBatchIsKept'
<1> USE IngestorAssumption, TopicAssumption
    DEF IngestorAssumption, TopicAssumption
<1>1. ASSUME NEW p \in Partitions, Produce(p) PROVE LiveBatchIsKept'
  BY <1>1 DEF TypeOK, PcAgrees, HoldsTheUncommitted, LiveBatchIsKept,
     CtxDone, Stored, DeadLettered, stores, signals, batch, Produce
<1>2. ASSUME NEW r \in Records, Decoded(r) PROVE LiveBatchIsKept'
  BY <1>2 DEF TypeOK, PcAgrees, HoldsTheUncommitted, LiveBatchIsKept,
     CtxDone, Stored, DeadLettered, stores, signals, batch, Decoded,
     NextRecord, Track
<1>3. ASSUME NEW r \in Records, Undecodable(r) PROVE LiveBatchIsKept'
  BY <1>3 DEF TypeOK, PcAgrees, HoldsTheUncommitted, LiveBatchIsKept,
     CtxDone, Stored, DeadLettered, stores, signals, batch, Undecodable,
     NextRecord, Track, DlqPublish, Publish
<1>4. CASE WriteOk
  BY <1>4 DEF TypeOK, PcAgrees, HoldsTheUncommitted, LiveBatchIsKept,
     CtxDone, Stored, DeadLettered, stores, signals, batch, WriteOk, Insert
<1>5. CASE WriteFails
  BY <1>5 DEF TypeOK, PcAgrees, HoldsTheUncommitted, LiveBatchIsKept,
     CtxDone, Stored, DeadLettered, stores, signals, batch, WriteFails,
     RouteToDlq, Insert
<1>6. ASSUME NEW r \in Records, DlqBatchRecord(r) PROVE LiveBatchIsKept'
  BY <1>6 DEF TypeOK, PcAgrees, HoldsTheUncommitted, LiveBatchIsKept,
     CtxDone, Stored, DeadLettered, stores, signals, batch, DlqBatchRecord,
     DlqPublish, Publish
<1>7. CASE Cancel \/ DeadlineExpires \/ IntervalElapses \/ LoopTop \/
   PollRecords \/ PollCancelled \/ PollError \/ Decide \/ FlushNothing \/
   FlushPending \/ CommitOk \/ CommitFails \/ CloseConsumer \/ Crash \/
   Restart
  BY <1>7 DEF TypeOK, PcAgrees, HoldsTheUncommitted, LiveBatchIsKept,
     CtxDone, Stored, DeadLettered, stores, signals, batch, Cancel,
     DeadlineExpires, IntervalElapses, LoopTop, PollRecords, PollCancelled,
     PollError, Decide, FlushNothing, FlushReturns, ClearPending,
     FlushPending, CommitOk, CommitFails, CloseConsumer, MemoryLost, Crash,
     Restart, ResumePoint
<1>8. CASE UNCHANGED vars
  BY <1>8 DEF TypeOK, PcAgrees, HoldsTheUncommitted, LiveBatchIsKept,
     CtxDone, Stored, DeadLettered, stores, signals, batch, vars, stores,
     signals, batch
<1> QED
  BY <1>1, <1>2, <1>3, <1>4, <1>5, <1>6, <1>7, <1>8 DEF Next, PollReturns,
     RecordStep, FlushStep
-----------------------------------------------------------------------------
(* The inductive invariant holds at the start and every step keeps it.     *)
LEMMA InvInit == Init => IngestorInv
<1> SUFFICES ASSUME Init PROVE IngestorInv
  OBVIOUS
<1> USE IngestorAssumption, TopicAssumption
    DEF IngestorAssumption, TopicAssumption
<1>1. Below(committed) = {} /\ Below(position) = {}
  BY DEF Init, Below, Records
<1>2. TypeOK
  <2>1. 0 \in Offsets /\ 0 \in 0 .. MaxRestarts /\ 0 \in Nat
    BY DEF Offsets
  <2> QED
    BY <2>1 DEF Init, TypeOK, PCs
<1>3. OffsetsInOrder /\ PcAgrees
  BY DEF Init, OffsetsInOrder, NoneAbove, PcAgrees
<1>4. HoldsTheUncommitted /\ BatchIsTraced /\ CommittedIsTraced
  BY <1>1 DEF Init, HoldsTheUncommitted, BatchIsTraced, CommittedIsTraced
<1>5. NotInserted /\ OneInsertPerIncarnation /\ LiveBatchIsKept
  BY DEF Init, NotInserted, OneInsertPerIncarnation, LiveBatchIsKept
<1>6. TracesLeft /\ TwoTracesPerIncarnation
  BY DEF Init, TracesLeft, TwoTracesPerIncarnation
<1> QED
  BY <1>2, <1>3, <1>4, <1>5, <1>6 DEF IngestorInv

(* The lemmas above, put together.                                         *)
LEMMA InvStep == IngestorInv /\ [Next]_vars => IngestorInv'
  BY TypeStep, OrderStep, HoldsStep, TracedStep, RowsStep, TracesStep,
     KeptStep
  DEF IngestorInv

(* The inductive invariant holds in every reachable state.                 *)
THEOREM IngestorInvariant == Spec => []IngestorInv
  BY InvInit, InvStep, PTL DEF Spec

(* For any partitions, batch size and number of restarts: no offset is     *)
(* committed past a record whose fate is not traced (consumer.go 26-31).   *)
THEOREM CommittedTraced == Spec => []CommittedIsTraced
<1>1. IngestorInv => CommittedIsTraced
  BY DEF IngestorInv
<1> QED
  BY <1>1, IngestorInvariant, PTL

(* Between Poll and Commit the process holds exactly the records delivered *)
(* and not committed: none is skipped, none is held twice.                 *)
THEOREM NothingSkipped == Spec => []HoldsTheUncommitted
<1>1. IngestorInv => HoldsTheUncommitted
  BY DEF IngestorInv
<1> QED
  BY <1>1, IngestorInvariant, PTL

(* A record has at most one row per incarnation of the process.            *)
THEOREM OneInsert == Spec => []OneInsertPerIncarnation
<1>1. IngestorInv => OneInsertPerIncarnation
  BY DEF IngestorInv
<1> QED
  BY <1>1, IngestorInvariant, PTL

(* A record leaves at most two traces per incarnation: a row and an entry  *)
(* in the DLQ, or two entries.                                             *)
THEOREM TwoTraces == Spec => []TwoTracesPerIncarnation
<1>1. IngestorInv => TwoTracesPerIncarnation
  BY DEF IngestorInv
<1> QED
  BY <1>1, IngestorInvariant, PTL

(* Every variable keeps its type.                                          *)
THEOREM IngestorTypes == Spec => []TypeOK
<1>1. IngestorInv => TypeOK
  BY DEF IngestorInv
<1> QED
  BY <1>1, IngestorInvariant, PTL

(* The offsets of a commit cover only records of the batch being flushed.  *)
LEMMA CommitCovers ==
    ASSUME IngestorInv, CommitOk \/ CommitFails
    PROVE  /\ committed' \in [Partitions -> Offsets]
           /\ \A p \in Partitions : /\ committed[p] <= committed'[p]
                                    /\ committed'[p] <= position[p]
           /\ Below(committed') \subseteq Below(committed) \union pendingRecords
  BY CommitFacts DEF NoneAbove, IngestorInv, CommitOk, CommitFails

(* Only the two commit actions move a committed offset.                    *)
LEMMA OnlyCommitsCommit ==
    ASSUME [Next]_vars, ~CommitOk, ~CommitFails
    PROVE  committed' = committed
  BY DEF Next, PollReturns, RecordStep, FlushStep, Produce, Cancel,
     DeadlineExpires, IntervalElapses, LoopTop, PollRecords, PollCancelled,
     PollError, Decoded, Undecodable, NextRecord, Track, Decide,
     FlushNothing, FlushPending, WriteOk, WriteFails, RouteToDlq,
     DlqBatchRecord, CloseConsumer, Crash, MemoryLost, Restart, ResumePoint,
     vars

(* With a DLQ that acknowledges under a live context, no decoded record is *)
(* committed away without a row or a DLQ entry, whenever the context ends. *)
THEOREM DecodedKept == Spec => DecodedNeverLost
<1>1. ASSUME IngestorInv, [Next]_vars, DlqReliable,
             NEW r \in pendingMetrics
                         \intersect (Below(committed') \ Below(committed))
      PROVE  Stored(r) \/ DeadLettered(r)
  <2>1. CASE CommitOk
    BY <1>1, <2>1 DEF CommitOk, CommitCtxDone, IngestorInv, LiveBatchIsKept
  <2>2. CASE CommitFails
    <3>1. ~CtxDone
      <4>1. SUFFICES ASSUME CtxDone PROVE FALSE
        OBVIOUS
      <4>2. committed' = committed
        BY <1>1, <2>2, <4>1, CommitFacts
        DEF CommitFails, CommitCtxDone, IngestorInv
      <4> QED
        BY <1>1, <4>2
    <3> QED
      BY <1>1, <2>2, <3>1 DEF CommitFails, CommitCtxDone, IngestorInv,
         LiveBatchIsKept
  <2>3. CASE ~CommitOk /\ ~CommitFails
    BY <1>1, <2>3, OnlyCommitsCommit
  <2> QED
    BY <2>1, <2>2, <2>3
<1>2. IngestorInv /\ [Next]_vars =>
        [DlqReliable =>
           \A r \in pendingMetrics :
             r \in Below(committed') \ Below(committed) =>
                 Stored(r) \/ DeadLettered(r)]_vars
  BY <1>1
<1> QED
  BY <1>2, IngestorInvariant, PTL DEF Spec, DecodedNeverLost

-----------------------------------------------------------------------------
(* Both modules mean the same records below an offset.                     *)
LEMMA SameBelow == ASSUME NEW limit PROVE ALO!Below(limit) = Below(limit)
  BY DEF ALO!Below, Below, ALO!Records, Records

(* A step that only adds traces to delivered records handles them.         *)
LEMMA HandleStep ==
    ASSUME Accounted \subseteq Accounted',
           Accounted' \subseteq Accounted \union Below(position),
           UNCHANGED <<produced, position, committed>>
    PROVE  ALO!Handle
  BY SameBelow DEF ALO!Handle

(* A step that leaves the stores alone changes no trace.                   *)
LEMMA AccountedSame ==
    ASSUME UNCHANGED stores
    PROVE  Accounted' = Accounted
  BY DEF stores, Accounted, Traced, Stored, DeadLettered

(* Publishing a delivered record to the DLQ, whatever comes back, traces   *)
(* that record and no other.                                               *)
LEMMA PublishTraces ==
    ASSUME TypeOK, NEW r \in Records, r \in Below(position),
           DlqPublish(r), rows' = rows,
           UNCHANGED <<produced, position, committed>>
    PROVE  ALO!Handle
<1>1. Accounted \subseteq Accounted'
  BY DEF Accounted, Traced, Stored, DeadLettered, DlqPublish, Publish, TypeOK
<1>2. Accounted' \subseteq Accounted \union {r}
  BY DEF Accounted, Traced, Stored, DeadLettered, DlqPublish, Publish, TypeOK
<1> QED
  BY <1>1, <1>2, HandleStep

(* Inserting a delivered batch, or failing to, traces at most the batch.   *)
LEMMA InsertTraces ==
    ASSUME TypeOK, pendingMetrics \subseteq Below(position),
           Insert \/ rows' = rows, UNCHANGED <<dlq, refused>>,
           UNCHANGED <<produced, position, committed>>
    PROVE  ALO!Handle
<1>1. Accounted \subseteq Accounted'
  BY DEF Accounted, Traced, Stored, DeadLettered, Insert, TypeOK
<1>2. Accounted' \subseteq Accounted \union pendingMetrics
  BY DEF Accounted, Traced, Stored, DeadLettered, Insert, TypeOK
<1> QED
  BY <1>1, <1>2, HandleStep

(* Every step of the ingestor is a step of a consumer that delivers at     *)
(* least once, or changes nothing such a consumer shows.                   *)
LEMMA RefinementStep ==
    ASSUME IngestorInv, [Next]_vars
    PROVE  [ALO!Next]_(ALO!vars)
<1> USE IngestorAssumption, TopicAssumption
    DEF IngestorAssumption, TopicAssumption
<1>0. fetched \union pendingRecords \subseteq Below(position)
      /\ pendingMetrics \subseteq pendingRecords
  BY DEF IngestorInv, HoldsTheUncommitted, PcAgrees
<1>1. ASSUME NEW p \in Partitions, Produce(p) PROVE ALO!Next
  <2>1. Accounted' = Accounted
    BY <1>1, AccountedSame DEF Produce
  <2>2. produced' \in [Partitions -> ALO!Offsets]
        /\ ALO!NoneAbove(produced, produced')
    BY <1>1 DEF Produce, IngestorInv, TypeOK, Offsets, ALO!Offsets,
       ALO!NoneAbove
  <2> QED
    BY <1>1, <2>1, <2>2 DEF ALO!Next, ALO!Append, Produce
<1>2. CASE PollRecords
  <2>1. Accounted' = Accounted
    BY <1>2, AccountedSame DEF PollRecords
  <2>2. position' \in [Partitions -> ALO!Offsets]
        /\ ALO!NoneAbove(position, position')
        /\ ALO!NoneAbove(position', produced)
    BY <1>2 DEF PollRecords, IngestorInv, TypeOK, Offsets, ALO!Offsets,
       ALO!NoneAbove
  <2> QED
    BY <1>2, <2>1, <2>2 DEF ALO!Next, ALO!Deliver, PollRecords
<1>3. ASSUME NEW r \in Records, Undecodable(r) PROVE ALO!Next
  BY <1>0, <1>3, PublishTraces
  DEF ALO!Next, Undecodable, NextRecord, Track, IngestorInv
<1>4. ASSUME NEW r \in Records, DlqBatchRecord(r) PROVE ALO!Next
  BY <1>0, <1>4, PublishTraces
  DEF ALO!Next, DlqBatchRecord, IngestorInv, HoldsTheUncommitted
<1>5. CASE WriteOk
  BY <1>0, <1>5, InsertTraces DEF ALO!Next, WriteOk, IngestorInv
<1>6. CASE WriteFails
  BY <1>0, <1>6, InsertTraces DEF ALO!Next, WriteFails, RouteToDlq,
     IngestorInv
<1>7. CASE CommitOk \/ CommitFails
  <2>1. UNCHANGED <<produced, position>> /\ Accounted' = Accounted
    BY <1>7, AccountedSame DEF CommitOk, CommitFails, FlushReturns,
       ClearPending
  <2>2. \A r \in Below(committed) \union pendingRecords : r \in Accounted
    BY <1>7 DEF CommitOk, CommitFails, IngestorInv, TypeOK, BatchIsTraced,
       CommittedIsTraced, Accounted, Below
  <2>3. Below(committed') \subseteq Accounted
    BY <1>7, <2>2, CommitCovers
  <2>4. committed' \in [Partitions -> ALO!Offsets]
        /\ ALO!NoneAbove(committed, committed')
        /\ ALO!NoneAbove(committed', position)
    BY <1>7, CommitCovers DEF Offsets, ALO!Offsets, ALO!NoneAbove
  <2> QED
    BY <2>1, <2>3, <2>4, SameBelow DEF ALO!Next, ALO!Commit
<1>8. CASE Restart
  BY <1>8, AccountedSame DEF Restart, ResumePoint, ALO!Next, ALO!Rewind
<1>9. CASE \/ Cancel \/ DeadlineExpires \/ IntervalElapses \/ LoopTop
           \/ PollCancelled \/ PollError \/ Decide \/ FlushNothing
           \/ FlushPending \/ CloseConsumer \/ Crash
  <2>1. UNCHANGED <<produced, position, committed>> /\ UNCHANGED stores
    BY <1>9 DEF Cancel, DeadlineExpires, IntervalElapses, LoopTop,
       PollCancelled, PollError, Decide, FlushNothing, FlushReturns,
       ClearPending, FlushPending, CloseConsumer, Crash, MemoryLost
  <2> QED
    BY <2>1, AccountedSame DEF ALO!vars
<1>10. ASSUME NEW r \in Records, Decoded(r) PROVE UNCHANGED ALO!vars
  BY <1>10, AccountedSame DEF Decoded, NextRecord, Track, stores, ALO!vars
<1>11. CASE UNCHANGED vars
  BY <1>11, AccountedSame DEF vars, ALO!vars
<1> QED
  BY <1>1, <1>2, <1>3, <1>4, <1>5, <1>6, <1>7, <1>8, <1>9, <1>10, <1>11
  DEF Next, PollReturns, RecordStep, FlushStep

(* Nothing is handled at the start.                                        *)
LEMMA RefinementInit == Init => ALO!Init
  BY TopicAssumption
  DEF TopicAssumption, Init, ALO!Init, Offsets, ALO!Offsets, Accounted, Traced, Stored, DeadLettered

(* The ingestor implements AtLeastOnce, for every value of the constants.  *)
THEOREM IngestorRefines == Spec => DeliversAtLeastOnce
<1>1. IngestorInv /\ [Next]_vars => [ALO!Next]_(ALO!vars)
  BY RefinementStep
<1> QED
  BY <1>1, RefinementInit, IngestorInvariant, PTL
  DEF Spec, DeliversAtLeastOnce, ALO!Spec
=============================================================================
