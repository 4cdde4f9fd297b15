------------------------------ MODULE Ingestor ------------------------------
(***************************************************************************)
(* One ingestor instance (services/ingestor) from poll to commit, its      *)
(* shutdown, crashes and restarts, with the Kafka partitions it owns, the  *)
(* device_metrics table it fills and the dead letter topic it publishes to.*)
(*                                                                         *)
(* Run and Shutdown are one goroutine: pc says which call it is about to   *)
(* make, and every call that reaches a broker or the database is a step of *)
(* its own, so that a cancellation, a crash or new traffic can come        *)
(* between any two of them.                                                *)
(*                                                                         *)
(* Abstractions.  A record is its partition and offset; whether the Avro   *)
(* decoder accepts it is chosen at each attempt, because a registry outage *)
(* makes a good record fail.  The instance owns every partition.  The      *)
(* pending slices are sets: nothing depends on the order inside a batch.   *)
(* Records of several partitions may be decoded in any interleaving, those *)
(* of one partition in offset order.                                       *)
(***************************************************************************)
EXTENDS KafkaTopic

CONSTANTS
    BatchSize,      \* INGESTOR_BATCH_SIZE, which config.Load does not check
    MaxRestarts,    \* bound: how many times the process is started again
    DlqReliable     \* TRUE: a DLQ publish under a live context is always acked

ASSUME IngestorAssumption ==
    /\ BatchSize \in Int
    /\ MaxRestarts \in Nat
    /\ DlqReliable \in BOOLEAN

VARIABLES
    \* the brokers and the database: they survive a crash
    produced,       \* [Partitions -> Offsets]: log end of each partition
    committed,      \* [Partitions -> Offsets]: offsets committed by the group
    rows,           \* [Records -> Nat]: rows of device_metrics
    dlq,            \* [Records -> Nat]: entries of device.metrics.dlq
    refused,        \* records whose "dlq publish failed" was logged
    \* the process
    pc,             \* the call the goroutine is about to make
    phase,          \* "run" inside Run, "shutdown" inside Shutdown
    cancelled,      \* SIGTERM or SIGINT cancelled the context of Run
    expired,        \* the 30 s deadline of Shutdown has passed
    due,            \* flushInterval has elapsed since lastFlush
    position,       \* [Partitions -> Offsets]: next offset the client fetches
    fetched,        \* records of the last Poll the loop has not reached yet
    pendingRecords, \* consumed since the last flush
    pendingMetrics, \* those of pendingRecords that were decoded
    toDlq,          \* batch records the DLQ loop of flush has not reached yet
    polled,         \* a Poll returned a fetch: rebalances stay blocked
    restarts        \* how many times the process was started again

stores == <<rows, dlq, refused>>
signals == <<cancelled, expired>>
batch == <<pendingRecords, pendingMetrics, toDlq>>
vars == <<produced, committed, stores, pc, phase, signals, due, position,
          fetched, batch, polled, restarts>>

PCs == {"top", "poll", "records", "decide", "flush", "write", "dlq", "commit",
        "close", "down"}

TypeOK ==
    /\ produced \in [Partitions -> Offsets]
    /\ committed \in [Partitions -> Offsets]
    /\ rows \in [Records -> Nat]
    /\ dlq \in [Records -> Nat]
    /\ refused \subseteq Records
    /\ pc \in PCs
    /\ phase \in {"run", "shutdown"}
    /\ cancelled \in BOOLEAN
    /\ expired \in BOOLEAN
    /\ due \in BOOLEAN
    /\ position \in [Partitions -> Offsets]
    /\ fetched \subseteq Records
    /\ pendingRecords \subseteq Records
    /\ pendingMetrics \subseteq Records
    /\ toDlq \subseteq Records
    /\ polled \in BOOLEAN
    /\ restarts \in 0 .. MaxRestarts

-----------------------------------------------------------------------------
(* ctx.Err() # nil for the context the current call was given.             *)
CtxDone == IF phase = "run" THEN cancelled ELSE expired

(* Traffic keeps arriving in partition p.                                  *)
Produce(p) ==
    /\ produced[p] < MaxOffset
    /\ produced' = [produced EXCEPT ![p] = @ + 1]
    /\ UNCHANGED <<committed, stores, pc, phase, signals, due, position,
                   fetched, batch, polled, restarts>>

(* SIGTERM or SIGINT.  The handler stays installed through Shutdown.       *)
Cancel ==
    /\ pc # "down" /\ ~cancelled
    /\ cancelled' = TRUE
    /\ UNCHANGED <<produced, committed, stores, pc, phase, expired, due,
                   position, fetched, batch, polled, restarts>>

DeadlineExpires ==
    /\ pc # "down" /\ phase = "shutdown" /\ ~expired
    /\ expired' = TRUE
    /\ UNCHANGED <<produced, committed, stores, pc, phase, cancelled, due,
                   position, fetched, batch, polled, restarts>>

IntervalElapses ==
    /\ pc # "down" /\ phase = "run" /\ ~due
    /\ due' = TRUE
    /\ UNCHANGED <<produced, committed, stores, pc, phase, signals, position,
                   fetched, batch, polled, restarts>>

-----------------------------------------------------------------------------
(* Run checks its context once per iteration; main then calls Shutdown.    *)
RunNeverStops == FALSE  \* mutant: no check at the top of the loop
RunStops == cancelled
LoopTop ==
    /\ pc = "top"
    /\ IF RunStops
       THEN pc' = "flush" /\ phase' = "shutdown"
       ELSE pc' = "poll" /\ UNCHANGED phase
    /\ UNCHANGED <<produced, committed, stores, signals, due, position,
                   fetched, batch, polled, restarts>>

(* Poll blocks until some partition has records and returns some of them.  *)
(* The signal may arrive after the check at the top of the loop, so Poll   *)
(* can still return records once the context is cancelled.                 *)
PollRecords ==
    /\ pc = "poll"
    /\ \E upTo \in [Partitions -> Offsets] :
        /\ \A p \in Partitions : upTo[p] \in position[p] .. produced[p]
        /\ upTo # position
        /\ position' = upTo
        /\ fetched' = Below(upTo) \ Below(position)
    /\ polled' = TRUE
    /\ pc' = "records"
    /\ UNCHANGED <<produced, committed, stores, phase, signals, due, batch,
                   restarts>>

(* A partition error is a fetch without records: it is only logged.        *)
PollError ==
    /\ pc = "poll"
    /\ polled' = TRUE
    /\ pc' = "decide"
    /\ UNCHANGED <<produced, committed, stores, phase, signals, due, position,
                   fetched, batch, restarts>>

(* A cancelled context makes Poll return no records at all.                *)
PollCancelled ==
    /\ pc = "poll" /\ cancelled
    /\ pc' = "decide"
    /\ UNCHANGED <<produced, committed, stores, phase, signals, due, position,
                   fetched, batch, polled, restarts>>

(* DLQPublisher.Publish of r: acked, or refused with the entry stored or   *)
(* not.  A done context may make the producer refuse r; it need not, since *)
(* the record may have left by then.                                       *)
Publish(r) == dlq' = [dlq EXCEPT ![r] = @ + 1]
DlqPublish(r) ==
    \/ /\ Publish(r)
       /\ UNCHANGED refused
    \/ /\ CtxDone \/ ~DlqReliable
       /\ Publish(r) \/ UNCHANGED dlq
       /\ refused' = refused \union {r}

(* Every record is tracked for the commit, decoded or not.                 *)
TrackDecoded(r) ==      \* mutant: an undecodable record is skipped
    pendingRecords' = IF r \in pendingMetrics' THEN pendingRecords \union {r}
                                               ELSE pendingRecords
Track(r) == pendingRecords' = pendingRecords \union {r}

(* The loop leaves r behind; after the last record comes the flush test.   *)
NextRecord(r) ==
    /\ fetched' = fetched \ {r}
    /\ Track(r)
    /\ pc' = IF fetched = {r} THEN "decide" ELSE "records"
    /\ UNCHANGED <<produced, committed, rows, phase, signals, due, position,
                   toDlq, polled, restarts>>

Decoded(r) ==
    /\ pc = "records" /\ r \in fetched /\ IsFirst(r, fetched)
    /\ pendingMetrics' = pendingMetrics \union {r}
    /\ NextRecord(r)
    /\ UNCHANGED <<dlq, refused>>

(* A record that cannot be decoded is published to the DLQ at once and is  *)
(* tracked for the commit whatever Publish returned.                       *)
Undecodable(r) ==
    /\ pc = "records" /\ r \in fetched /\ IsFirst(r, fetched)
    /\ DlqPublish(r)
    /\ UNCHANGED pendingMetrics
    /\ NextRecord(r)

FullBatch == Cardinality(pendingMetrics) >= BatchSize
ShouldFlush == FullBatch \/ (pendingRecords # {} /\ due)

(* Under a cancelled context the flush is left to Shutdown.                *)
Decide ==
    /\ pc = "decide"
    /\ pc' = IF ShouldFlush /\ ~cancelled THEN "flush" ELSE "top"
    /\ UNCHANGED <<produced, committed, stores, phase, signals, due, position,
                   fetched, batch, polled, restarts>>

-----------------------------------------------------------------------------
(* flush returns: pending is cleared whatever happened.  An error of the   *)
(* flush inside Run ends Run, and main goes on with Shutdown; an error     *)
(* inside Shutdown makes main exit at once.                                *)
ClearOnSuccess(ok) ==   \* mutant: a failed flush keeps its batch for the next
    IF ok THEN pendingRecords' = {} /\ pendingMetrics' = {}
          ELSE UNCHANGED <<pendingRecords, pendingMetrics>>
ClearPending(ok) == pendingRecords' = {} /\ pendingMetrics' = {}
FlushReturns(ok) ==
    /\ ClearPending(ok)
    /\ \/ /\ phase = "run" /\ ok
          /\ pc' = "top" /\ due' = FALSE
          /\ UNCHANGED phase
       \/ /\ phase = "run" /\ ~ok
          /\ pc' = "flush" /\ phase' = "shutdown"
          /\ UNCHANGED due
       \/ /\ phase = "shutdown"
          /\ pc' = IF ok THEN "close" ELSE "down"
          /\ UNCHANGED <<due, phase>>
    /\ UNCHANGED <<produced, stores, signals, position, fetched, toDlq, polled,
                   restarts>>

FlushNothing ==
    /\ pc = "flush" /\ pendingRecords = {}
    /\ FlushReturns(TRUE)
    /\ UNCHANGED committed

FlushPending ==
    /\ pc = "flush" /\ pendingRecords # {}
    /\ pc' = IF pendingMetrics # {} THEN "write" ELSE "commit"
    /\ UNCHANGED <<produced, committed, stores, phase, signals, due, position,
                   fetched, batch, polled, restarts>>

(* One COPY inserts the whole batch.                                       *)
Insert == rows' = [r \in Records |->
                     IF r \in pendingMetrics THEN rows[r] + 1 ELSE rows[r]]

WriteOk ==
    /\ pc = "write" /\ ~CtxDone
    /\ Insert
    /\ pc' = "commit"
    /\ UNCHANGED <<produced, committed, dlq, refused, phase, signals, due,
                   position, fetched, batch, polled, restarts>>

(* An error of WriteBatch, with or without the rows in the table: the      *)
(* connection may break after the server has committed the COPY.           *)
CommitAnyway == toDlq' = {} /\ pc' = "commit"   \* mutant: the error is logged
RouteToDlq == toDlq' = pendingRecords /\ pc' = "dlq"
WriteFails ==
    /\ pc = "write"
    /\ UNCHANGED rows \/ (~CtxDone /\ Insert)
    /\ RouteToDlq
    /\ UNCHANGED <<produced, committed, dlq, refused, phase, signals, due,
                   position, fetched, pendingRecords, pendingMetrics, polled,
                   restarts>>

(* The loop publishes every pending record, decoded or not, and a failed   *)
(* publish is only logged.                                                 *)
DlqBatchRecord(r) ==
    /\ pc = "dlq" /\ r \in toDlq /\ IsFirst(r, toDlq)
    /\ DlqPublish(r)
    /\ toDlq' = toDlq \ {r}
    /\ pc' = IF toDlq = {r} THEN "commit" ELSE "dlq"
    /\ UNCHANGED <<produced, committed, rows, phase, signals, due, position,
                   fetched, pendingRecords, pendingMetrics, polled, restarts>>

(* Commit runs under the context of the write and of the DLQ loop.         *)
CommitInBackground == FALSE     \* mutant: context.Background() for the commit
CommitCtxDone == CtxDone
CommitOk ==
    /\ pc = "commit" /\ ~CommitCtxDone
    /\ committed' = CommitTarget(pendingRecords, committed, Partitions)
    /\ FlushReturns(TRUE)

(* A commit error: some partitions may have been committed all the same.   *)
CommitFails ==
    /\ pc = "commit"
    /\ \E parts \in SUBSET Partitions :
        /\ parts = {} \/ ~CommitCtxDone
        /\ committed' = CommitTarget(pendingRecords, committed, parts)
    /\ FlushReturns(FALSE)

-----------------------------------------------------------------------------
(* What the process held is gone.                                          *)
MemoryLost ==
    /\ pc' = "down"
    /\ fetched' = {} /\ pendingRecords' = {} /\ pendingMetrics' = {}
    /\ toDlq' = {}
    /\ UNCHANGED <<produced, committed, stores, phase, signals, due, position,
                   polled, restarts>>

(* Close of a group consumer waits until no Poll blocks rebalances, and    *)
(* only AllowRebalance, which nothing calls, takes back a Poll that        *)
(* returned a fetch.                                                       *)
CloseConsumer == pc = "close" /\ ~polled /\ MemoryLost

(* SIGKILL, an OOM kill or a lost node, between any two calls.             *)
Crash == pc # "down" /\ MemoryLost

(* A new process joins the group and fetches from the committed offsets.   *)
ResumeAtStart == [p \in Partitions |-> 0]   \* mutant: the earliest offset
ResumeAtPosition == position    \* mutant: where the last process stopped
ResumePoint == committed
Restart ==
    /\ pc = "down" /\ restarts < MaxRestarts
    /\ restarts' = restarts + 1
    /\ pc' = "top" /\ phase' = "run"
    /\ cancelled' = FALSE /\ expired' = FALSE /\ due' = FALSE
    /\ polled' = FALSE
    /\ position' = ResumePoint
    /\ UNCHANGED <<produced, committed, stores, fetched, batch>>

Init ==
    /\ produced = [p \in Partitions |-> 0]
    /\ committed = [p \in Partitions |-> 0]
    /\ rows = [r \in Records |-> 0]
    /\ dlq = [r \in Records |-> 0]
    /\ refused = {}
    /\ pc = "top" /\ phase = "run"
    /\ cancelled = FALSE /\ expired = FALSE /\ due = FALSE
    /\ position = [p \in Partitions |-> 0]
    /\ fetched = {} /\ pendingRecords = {} /\ pendingMetrics = {} /\ toDlq = {}
    /\ polled = FALSE
    /\ restarts = 0

RecordStep == \E r \in Records : Decoded(r) \/ Undecodable(r)
FlushStep == \/ FlushNothing \/ FlushPending \/ WriteOk \/ WriteFails
             \/ \E r \in Records : DlqBatchRecord(r)
             \/ CommitOk \/ CommitFails
PollReturns == PollRecords \/ PollCancelled

Next ==
    \/ \E p \in Partitions : Produce(p)
    \/ Cancel \/ DeadlineExpires \/ IntervalElapses
    \/ LoopTop \/ PollReturns \/ PollError
    \/ RecordStep \/ Decide \/ FlushStep
    \/ CloseConsumer \/ Crash \/ Restart

Spec == Init /\ [][Next]_vars

(* The goroutine never rests between two calls, and every call it makes    *)
(* returns: a Poll once there are records or the context is cancelled.     *)
ProcessStep == \/ LoopTop \/ PollReturns \/ RecordStep \/ Decide \/ FlushStep
               \/ CloseConsumer

FairSpec == Spec /\ WF_vars(ProcessStep) /\ WF_vars(IntervalElapses)

-----------------------------------------------------------------------------
(* What became of a record, as far as the stores and the log can tell.     *)
Stored(r) == rows[r] > 0
DeadLettered(r) == dlq[r] > 0
Traced(r) == Stored(r) \/ DeadLettered(r) \/ r \in refused

(* The offset commit discipline (services/ingestor/consumer.go 26-31): the *)
(* group never commits past a record that is neither in the table, nor in  *)
(* the DLQ, nor reported in the log as a failed DLQ publish.               *)
CommittedIsTraced == \A r \in Below(committed) : Traced(r)

(* What the goroutine holds.  Inside Run it is exactly what was delivered  *)
(* and not committed, so no record is ever skipped between Poll and Commit;*)
(* Shutdown holds the same records or, after a failed flush, none.         *)
HoldsTheUncommitted ==
    /\ fetched \intersect pendingRecords = {}
    /\ pendingMetrics \subseteq pendingRecords
    /\ toDlq \subseteq pendingRecords
    /\ pc \notin {"close", "down"} =>
         \/ fetched \union pendingRecords = Below(position) \ Below(committed)
         \/ phase = "shutdown" /\ fetched \union pendingRecords = {}

(* However a flush fails, Shutdown's second flush never inserts a batch    *)
(* again: a record has at most one row per incarnation of the process, so  *)
(* duplicates come from redelivery after a restart and from nothing else.  *)
OneInsertPerIncarnation == \A r \in Records : rows[r] <= restarts + 1

(* A batch whose COPY failed goes to the DLQ whole, with the records of it *)
(* that were dead-lettered as undecodable (consumer.go 180), and an error  *)
(* of the COPY may hide rows that were stored.  A record still leaves at   *)
(* most two traces per incarnation of the process: a row and an entry, or  *)
(* two entries, whatever fails and however often flush runs.               *)
TwoTracesPerIncarnation ==
    \A r \in Records : rows[r] + dlq[r] <= 2 * (restarts + 1)

(* A batch whose COPY failed is published to the DLQ under the context the *)
(* commit uses as well (consumer.go 174-197).  With a DLQ that acknowledges*)
(* under a live context, a decoded record is therefore never committed     *)
(* away without a row or a DLQ entry, also when SIGTERM or the deadline of *)
(* Shutdown arrives between the write, the DLQ loop and the commit.        *)
DecodedNeverLost ==
    [][DlqReliable =>
         \A r \in pendingMetrics :
             r \in Below(committed') \ Below(committed) =>
                 Stored(r) \/ DeadLettered(r)]_vars

(* The ingestor as a consumer that delivers at least once: every step is a *)
(* step of AtLeastOnce or leaves its variables alone, handled being the    *)
(* records whose fate is traced.                                           *)
Accounted == {r \in Records : Traced(r)}
ALO == INSTANCE AtLeastOnce WITH handled <- Accounted
DeliversAtLeastOnce == ALO!Spec

(* SIGTERM ends Run and drains: from wherever it finds the goroutine, the  *)
(* flush of Shutdown is over in the end, or the process is.                *)
SigtermDrains == cancelled ~> pc \in {"close", "down"}

(* While polls keep returning, a pending batch is flushed, however small   *)
(* it is (consumer.go 17-24).                                              *)
FlushedWhilePollsReturn ==
    []<>(pc = "decide") => (pendingRecords # {} ~> pendingRecords = {})

-----------------------------------------------------------------------------
(* The inductive invariant, part by part.                                  *)

(* A partition is committed at most as far as it was delivered.            *)
OffsetsInOrder ==
    NoneAbove(committed, position) /\ NoneAbove(position, produced)

(* Which of the sets can be in use at which call.                          *)
PcAgrees ==
    /\ fetched # {} => pc = "records"
    /\ toDlq # {} => pc = "dlq"
    /\ pc \in {"close", "down"} => pendingRecords = {}
    /\ pc = "close" => phase = "shutdown"
    /\ pc \in {"top", "poll", "records", "decide"} => phase = "run"

(* What flush has dealt with is traced before the commit that covers it.   *)
BatchIsTraced ==
    /\ \A r \in pendingRecords \ pendingMetrics : Traced(r)
    /\ pc = "dlq" => \A r \in pendingRecords \ toDlq : Traced(r)
    /\ pc = "commit" => \A r \in pendingRecords : Traced(r)

(* A record this incarnation has not inserted yet has at most one row from *)
(* each earlier one.                                                       *)
NotInserted ==
    pc # "down" =>
      \A r \in Records :
        \/ r \notin Below(position)
        \/ r \in fetched
        \/ r \in pendingMetrics /\ pc \notin {"dlq", "commit"}
        => rows[r] <= restarts

(* What of the two traces a record may leave is not used up before the next*)
(* call that leaves one: both before it is decoded and, if it was decoded, *)
(* before the COPY; one before its turn in the DLQ loop.                   *)
TracesLeft ==
    pc # "down" =>
      \A r \in Records :
        /\ \/ r \notin Below(position)
           \/ r \in fetched
           \/ r \in pendingMetrics /\ pc \notin {"dlq", "commit"}
           => rows[r] + dlq[r] <= 2 * restarts
        /\ r \in pendingRecords /\ (pc = "dlq" => r \in toDlq) /\ pc # "commit"
           => rows[r] + dlq[r] <= 2 * restarts + 1

(* Under a live context and a DLQ that acknowledges, the DLQ loop leaves   *)
(* no decoded record behind without a row or an entry.                     *)
LiveBatchIsKept ==
    DlqReliable /\ ~CtxDone =>
      /\ pc = "dlq" => \A r \in pendingMetrics \ toDlq :
                          Stored(r) \/ DeadLettered(r)
      /\ pc = "commit" => \A r \in pendingMetrics :
                          Stored(r) \/ DeadLettered(r)

IngestorInv ==
    /\ TypeOK
    /\ OffsetsInOrder
    /\ PcAgrees
    /\ HoldsTheUncommitted
    /\ BatchIsTraced
    /\ CommittedIsTraced
    /\ NotInserted
    /\ OneInsertPerIncarnation
    /\ TracesLeft
    /\ TwoTracesPerIncarnation
    /\ LiveBatchIsKept

-----------------------------------------------------------------------------
(* What the comments say of the program and its steps do not keep.         *)

(* "Records that fail deserialization go to the DLQ; their offsets are     *)
(* also committed" (consumer.go 28-29): with a DLQ that acknowledges under *)
(* a live context, what is committed is in the table or in the DLQ.        *)
CommittedIsKept ==
    [][DlqReliable =>
         \A r \in Below(committed') : Stored(r) \/ DeadLettered(r)]_vars

(* "Shutdown() flushes the remaining batch and closes all connections      *)
(* before the process exits" (main.go 14-15): after SIGTERM the process    *)
(* exits.                                                                  *)
SigtermStops == cancelled ~> pc = "down"

(* "Flush is triggered by whichever comes first: batch reaches batchSize   *)
(* records, flushInterval elapses since the last flush" (consumer.go       *)
(* 17-19).                                                                 *)
OverdueBatchIsFlushed ==
    (due /\ pendingRecords # {}) ~> pendingRecords = {}
=============================================================================
