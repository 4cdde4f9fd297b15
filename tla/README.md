# TelemetryFlow in TLA+

TLA+ models of the TelemetryFlow pipeline (`src/`): the services that consume
`device.metrics`, the consumer group they run in, the in-memory state of the
stream processor, the caches its lookups go through, and the simulator that fills
the topic. TLC checks the models on small instances; TLAPS proves the safety
results of every module for every value of the constants.

Paths below are relative to `src/`.

## 1. Inventory

TelemetryFlow is a Go workspace of four binaries that meet only in Kafka topics.

| part | state it keeps | operations | talks to |
|---|---|---|---|
| simulator (`services/simulator`) | per device: normal/spike/drift and ticks left; a ticker | one goroutine per device: tick, serialize, produce; stop on SIGTERM; main joins them and closes the producer | produces `device.metrics`, keyed by device |
| ingestor (`services/ingestor`) | pending metrics and records, last flush | poll, decode, batch, COPY into TimescaleDB, DLQ, commit, shutdown flush | consumes `device.metrics`, writes `device_metrics`, produces `device.metrics.dlq` |
| processor (`services/processor`) | window per device, active alerts per device, device cache | per record: decode, push, enrich, publish the aggregate, detect, publish alerts; commit once per poll | consumes `device.metrics`, produces `device.aggregated`, `device.alerts`, the DLQ |
| kafka wrappers (`pkg/kafka`) | the franz-go client; which polls block rebalances | `Poll`, `Commit`, `Close`, `Produce`, DLQ `Publish`; an unused transactional producer | brokers |
| schema codec (`pkg/schema`) | text and parsed schema caches | serialize, deserialize, registry calls | schema registry |
| enricher (`services/processor/enricher.go`) | TTL cache of devices | `GetDevice` | PostgreSQL |
| sink (`services/sink`) | - | stubs that panic | - |
| config, db, logger, models, migrations, scripts | - | startup, plain data | - |

What is hard to get right:

* **One context for many calls.** SIGTERM cancels the context of `Run` between any
  two calls; from then on every database, DLQ and commit call fails at once. The
  shutdown flush runs under another context with a deadline of its own.
* **At-least-once delivery.** The offset of a record may be committed only when
  its fate is known. Batches, failed COPYs whose rows are stored, publishes whose
  ack is lost, commits that reach some partitions and crashes all come between.
* **Side effects before the error.** The processor pushes a reading and marks an
  alert active before it knows whether the publish succeeds.
* **Close and the rebalance gate.** `BlockRebalanceOnPoll` holds the group until
  `AllowRebalance`, which no code calls.
* **Several instances.** The gate keeps partitions in place while an instance
  polls, until the coordinator loses patience and drops it; the instance goes on
  with what it had, and another one has its partitions.
* **Caches that outlive their source.** Schema texts stay for the life of a
  process, good or empty; device rows stay beyond their TTL while queries fail.
* **Order per device**, which the sliding window relies on, through goroutines
  that share a producer and partitions that devices share.

What makes each part correct:

* ingestor: nothing committed without a row, a DLQ entry or a log line; nothing
  skipped between poll and commit; duplicates only through a restart; a pending
  batch is flushed; SIGTERM drains;
* processor: nothing committed without its pipeline or the DLQ; one aggregate per
  record and process; one alert per occurrence of a condition; no silent alert
  loss; SIGTERM ends `Run`;
* the group: as one consumer it delivers at least once, whatever moves; nobody
  holds a partition of another; the window state of an owner has no gap and no
  record twice; whoever joins gets in;
* window and detector: exact windows for readings in order and again once a late
  one has left the window, for readings in any order no live one dropped and no
  stale one left in front, active alerts that are current, one alert per episode;
* lookups: a record is decoded with the schema it was written with; a failure has
  a cause that is named; few requests; no device known once is lost; the cache
  follows the table;
* simulator: readings of a device in order in one partition; the producer closed
  last; bounded spikes and drifts; termination.

The line where each hazard bites is in `PROJECT.json` under `hazards`.

## 2. Modules

| module | models |
|---|---|
| `KafkaTopic` | partitions, offsets, what a commit request does to the committed offsets |
| `AtLeastOnce` | abstract specification of a consumer with manual commits |
| `Ingestor` | the ingestor with its topic, table and DLQ; refines `AtLeastOnce` |
| `Processor` | the processor's control with its topic, outputs and DLQ; refines `AtLeastOnce` |
| `ConsumerGroup` | several instances, their coordinator and the rebalance gate; together they refine `AtLeastOnce` |
| `SlidingWindow` | `window.go` and `anomaly.go` on explicit readings |
| `Lookups` | `registry.go` and `avro.go` with their caches, `enricher.go` with its TTL cache |
| `Simulator` | the device goroutines, the shared producer and main |
| `MC...` | one per component: what TLC needs besides |
| `KafkaTopicProofs`, `...Proofs` | theorems and proofs, one module per component |

`Ingestor`, `Processor` and `ConsumerGroup` extend `KafkaTopic` and instantiate
`AtLeastOnce`, each with a refinement mapping of its own. The first two are one
instance in detail that owns every partition; `ConsumerGroup` is several instances
with the loop reduced to poll, handle, commit. `Simulator` writes the topic that
they read; their action `Produce(p)` is all they see of it. `SlidingWindow` refines
the free choice of the firing rules in `Processor!AggregateOk`, and `Lookups` the
free choice between `Decoded` and `Undecodable`.

### Ingestor

`Run`, `Shutdown` and `flush` are one goroutine, so the state is one program
counter and what the goroutine holds. `pc` names the call that comes next; every
call that reaches a broker or the database is a step of its own, and SIGTERM, the
shutdown deadline, new traffic, a crash or the flush interval can come between
any two steps.

| code | action |
|---|---|
| `Run`, context check (consumer.go 70-74) | `LoopTop` |
| `Poll` (76-90) | `PollRecords`, `PollError`, `PollCancelled` |
| record loop (92-114) | `Decoded`, `Undecodable`, both ending in `NextRecord` |
| flush decision (116-135) | `Decide` |
| `flush` (161-200) | `FlushNothing`, `FlushPending`, `WriteOk`, `WriteFails`, `DlqBatchRecord`, `CommitOk`, `CommitFails`; the deferred clear is in `FlushReturns` |
| `Shutdown` (142-149), `main` (104-118) | `phase = "shutdown"`; `CloseConsumer` |
| signals, deadline, timer | `Cancel`, `DeadlineExpires`, `IntervalElapses` |
| process death, new process | `Crash`, `Restart` |

An error has its two outcomes wherever the far side may have acted: `WriteFails`
with the rows in the table or not, `DlqPublish` with the entry stored and the ack
lost, `CommitFails` with any subset of the partitions committed. Decoding may
fail for any record at any attempt, since a registry outage makes a good record
fail. `DlqReliable` tells two questions apart: FALSE for everything that must hold
whatever the DLQ does, TRUE for what needs a DLQ that acknowledges under a live
context. Under a cancelled context the publish may succeed or fail in either case.

### Processor

The same form. `current` is the record in the pipeline; `toCommit` is the variable
of one iteration of `Run`. `AggregateOk` contains the call of `detect`, which
makes no call out and so runs in the same step; which rules fire is chosen
freely. `AlertFails` drops the alerts after it, as the `return` in the loop does.
`announced` is a history variable: the conditions of a device that were published
and have held since. A partition carries one device: devices share nothing but
the partition, and a partition with several only interleaves their records.

### ConsumerGroup

An instance is one process: `process` says whether it is there, `owned` and
`position` are its client's view, `fetched` and `toCommit` what it has polled and
handled, `gate` whether a poll blocks rebalances. The coordinator has `standing`,
`assignment` and `committed`. The code of this repository is `Start` (`NewConsumer`),
`Poll` and `PollError`, `Handle`, `Commit`, `Close` and `BlockRebalance`; `Crash` is also
the `os.Exit(1)` of `processor/main.go` 69-88 after the consumer has joined. The
coordinator and the group loop of franz-go are external: `Rebalance` is all rounds
of a cooperative rebalance at once and may assign any partition to any instance,
which includes what the sticky assignor does; `RebalanceTimeout`, `SessionTimeout`
and `Rejoin` are how they treat an instance that is late, gone or dropped. A member
that has been dropped goes on with what it had, and its commits are refused: the
coordinator knows its members and does not look at partitions. `windows` is a
history variable for whatever a process remembers about records.

### Lookups

`pc` of a caller names the section it runs next: `GetParsed`, `GetText`, the request
(`FetchAnswered`, `FetchFails`), `Parse`, `Unmarshal` are `Deserialize` and
`getOrParseSchema` with `GetSchemaByID`; `ReadCache`, the query (`QueryAnswered`, `QueryFails`), `StoreEntry` are
`GetDevice`. Each section under a lock is a step, so callers interleave as the
mutexes allow. `Headers` is what registration may answer: the id, or 0 when a 200
answer has none. `Unmarshal` fails, though the registry is healthy, for a payload that
is cut or damaged or of a version that does not fit `DeviceMetric`; which payloads are
is left open until they are decoded. `FetchAnswered` stores the text of a 200 answer, empty if there is
none. `Expire` is the TTL passing; `ChangeRow` edits the table; a deleted row is one
whose queries fail. `excused` records whether the current lookup has met a cause to fail
that is none of the caches', `emptied` which ids the registry has answered without a text.

### SlidingWindow

`Pushed` is `push` (trim the front, append), `Aggregate` its result, `Firing` the
rules, `Detect` the deduplication. `Process` is a record whose aggregate is
published; `PublishFails` one whose publish fails, which leaves the reading in the
window and never reaches the detector. `arrived` and `judged` keep the history for
the reference definitions: `InWindow` is what the window of a reading should hold,
`Verdict` what it fires; `pushes` bounds the history. `Settled` is the condition
under which the code can meet the reference: from some reading on all arrived in
order, and those before it are out of the window. It is true of a history in order
and becomes true again some time after a late reading; in between the window
may hold stale readings behind a newer one, of which `EvictsTheStaleFront` tells,
and start with one that is not the oldest, even newer than `windowEnd`; no property
bounds that.

### Simulator

`Emit` is the ticker case of the `select` with `generate` and the hand-over to the
producer; the goroutine then waits in `ProduceSync` (`pc = "emit"`) until
`Acknowledge` or `ProduceFails`; a cancelled context does not rule it out, since the
`select` picks either ready case. `EmitCancelled` is the same case when the producer
refuses the record at once because the context is done. `Join` and `CloseProducer` are main.

## 3. Runs

| run | instance | what it shows |
|---|---|---|
| `ingestor_faults` | 2 partitions, 1 record each, batch 2, 1 restart, unreliable DLQ | types, `HoldsTheUncommitted`, `CommittedIsTraced`, `OneInsertPerIncarnation`, `TwoTracesPerIncarnation`, the inductive invariant, refinement of `AtLeastOnce` |
| `ingestor_live` | 1 partition, 2 records, batch 2, 1 restart, reliable DLQ | `DecodedNeverLost`, `SigtermDrains`, `FlushedWhilePollsReturn` |
| `processor_faults` | 1 partition, 2 records, 2 rules, 1 restart, unreliable produce | one aggregate per process, `NoRepeatedAlert`, `SwallowedAlertLeavesDeadLetter`, refinement |
| `processor_reliable` | 2 partitions, 1 record each, 1 rule, 1 restart, reliable produce | `CommittedIsProcessed`, the inductive invariant, `SigtermDrains` |
| `sliding_window` | 2 devices, 4 readings, 4 times, window 1, 2 temperatures | types, `EvictsTheStaleFront`, `ExactOnceSettled`, `ActiveIsTheLastVerdict`, `OneAlertPerEpisode` |
| `consumer_group` | 2 instances, 2 partitions, 2 records each | `MembersHoldTheirOwn`, `WindowsAreCurrent`, the inductive invariant with the types, refinement, `JoinersGetIn` |
| `lookups` | 2 callers, 2 schemas, 1 device, 2 rows | types, `DecodedAsWritten`, `OneFetchEach`, `FailureHasACause`, `KnownDeviceIsServed`, `EventuallyCurrent`, the inductive invariant |
| `simulator` | 2 devices, 2 partitions, 2 readings each, spikes of 2, drifts of 1 | types, `OrderedPerDevice`, `ClosedLast`, `ExcursionLength`, `SigtermStops` |
| `ingestor_kept`, `ingestor_stop`, `ingestor_overdue`, `processor_alert` | 1 partition, no restart | statements of the comments that the code does not keep (section 6) |

**Bounds.** `MaxOffset` bounds a partition, `MaxRestarts` the restarts,
`MaxReadings` and `MaxTime` the readings. Two partitions with a record each give
every split of a poll, a batch and a partial commit; one partition with two
records gives order inside a partition, a poll of one record after another, and
a batch that is not full (`BatchSize = 2`). An alert can be repeated or swallowed
only over two readings of a device, so `processor_faults` has two records in a
partition. One restart gives a redelivery; the
theorems cover any number. Four readings are the shortest history in which a
spike begins, ends by eviction and begins again; with four times and a window of
one second a late reading can also leave the window, so that the history settles. Two instances with two partitions
give every assignment, a partition that moves while the other stays, and an
instance that is dropped, watches another handle its records and comes late; two
records in a partition give a commit in the middle of it. Two callers with two
schemas give alternating versions and two requests for one id at a time; two rows
give an old and a new one. The batch size is two in every run, so that a
batch spans polls; a size of zero or below, with which every poll flushes, is covered by
the theorems only. With sensor states of one and
two ticks both the entering and the last tick of an excursion occur. Deadlock is
checked by `lookups` alone, whose callers never stop. In the other runs the system
may really end: a process that has used up its restarts is down for good, so is a
group whose instances have all ended, a device that has sent the readings of the
bound is silent, and a simulator that has ended does nothing more.

**Fairness.** `Ingestor!FairSpec` and `Processor!FairSpec` have weak fairness on the
goroutine: Go schedules it, and every call it makes returns, because the calls
take a context or have an error outcome. `PollError` is not part of it: a poll
without errors and without records simply blocks. `Close` has no fairness beyond
its guard, which is the point of `ingestor_stop`. Fairness of `IntervalElapses` is
the passing of time. `FlushedWhilePollsReturn` assumes, in its own statement, that
polls keep returning. In `Simulator` the case `ctx.Done()` has strong fairness:
a device that always finds its tick ready as well leaves the `select` sometimes,
and Go picks among ready cases at random; weak fairness would not give
termination, since the device is not at the `select` all the time.
`ConsumerGroup!FairSpec` is about the coordinator alone: its rebalance timer runs, the
session of a process that is gone ends, and a rebalance that all have joined is
completed; no instance need ever poll, commit or leave. `Lookups!FairSpec`: a lookup
that has begun goes on (the HTTP client has a timeout, the query a context), and a
TTL passes. `EventuallyCurrent` assumes, in its own statement, that the row and the
database have settled and that the device is looked up again and again. Nothing is
assumed about traffic, signals, crashes or restarts.

## 4. Proofs

Every theorem is for arbitrary constants: any finite set of partitions, any batch
size in `Int`, any number of restarts, any set of rules, both fault modes; any
instances; any finite set of callers, any schemas, devices and rows; any window
size and thresholds; any lengths of excursions.

* `KafkaTopicProofs`: `CommitTargetFacts`: a commit request never moves an offset
  back and never passes the limit the batch is below; it covers the records of the
  batch in the partitions it reaches, and what it newly covers is in such a partition
  and no later than a record of the batch. `CommitIsExact`: if the batch has no holes
  it covers nothing else. The batches of the ingestor have none
  (`HoldsTheUncommitted`); one of the processor has when a commit has failed before,
  and covers those records too. `Max` of a finite set of offsets needs an induction, done with the
  well-founded order of the naturals (least upper bound).
* `IngestorProofs`: `Spec => []IngestorInv`, from which `CommittedTraced`,
  `NothingSkipped` and `OneInsert` follow; `TwoTraces`; `IngestorTypes`; `DecodedKept` (an action property); and
  `IngestorRefines`, `Spec => ALO!Spec`.
* `ProcessorProofs`: the same for `ProcessorInv`, `CommittedProcessed`,
  `OneAggregate`, `AlertsNotRepeated`, `SwallowedAlertTraced`, `ProcessorTypes`,
  `ProcessorRefines`.
* `ConsumerGroupProofs`: `GroupInvariant`, from it `GroupTypes`, `NothingStolen`,
  `StateIsCurrent`; `GroupRefines`, where the abstract position is the furthest any
  instance has fetched and the handled records are those of all.
* `LookupsProofs`: `LookupsInvariant`, from it `LookupsTypes`, `WritersSchema`,
  `FewAnswers`, `FailuresExplained`, `OldEntryServed`. `FailuresExplained` lists the causes
  for which a record may fail to decode, each of which is its own or an empty answer
  for its id: no outage and no bad record makes a later good one fail.
* `AggregateProofs`: lemmas only, about `Min`, `Max` and sums over sets of indices: any
  element may be taken out of a sum first, and a window fires the same rules as the
  stretch of the history that it holds.
* `SlidingWindowProofs`: `WindowTypes`, `NoLiveReadingLost`, `ExactSettled`,
  `AlertStateIsCurrent`, `OneAlertEach`.
* `SimulatorProofs`: `SimulatorTypes`, `OrderKept`, `ProducerClosedLast`,
  `LengthAsDrawn` (an action property).

*Why the invariants need strengthening (ingestor).* `CommittedIsTraced` is not
inductive: a commit is safe only because the whole batch is traced by then. That is
`BatchIsTraced`, which follows the batch through the DLQ loop, and it needs
`PcAgrees` (which sets may be non-empty at which call). That a commit does not
jump over a record needs `HoldsTheUncommitted`: the records in hand are exactly
those delivered and not committed; otherwise `1 + Max` of the batch could pass a
record nobody holds. `OneInsertPerIncarnation` needs `NotInserted`: what this
process still has to insert was inserted at most once by each earlier one.
`DecodedNeverLost` needs `LiveBatchIsKept`: publish and commit use one context, so
a commit that succeeds had a live context in the DLQ loop too.

*Processor.* `DeliveredIsAccounted` and `WorkAgrees` play the first role,
`NotAggregated` the second. `CommittedIsProcessed` needs `DeliveredIsProcessed`:
while the context is live everything behind the pipeline is processed or
dead-lettered, and a cancelled context commits nothing.

*Ingestor, two traces.* Rows and dead letters together need `TracesLeft`: how many of
both a record may still get depends on the call that is next and on whether the
record failed to decode.

*Group.* A commit of a member is safe only if what the member holds begins where the
committed offset of the partition is. `MembersHoldTheUncommitted` says so for
members, and it survives a rebalance because of the gate: an instance that has
something in its hands has its gate closed (`HandsAgree`), a rebalance that does not
drop it cannot complete, and a dropped one is no member and its commits reach
nothing. `MembersAgree` ties the client's `owned` to the coordinator's `assignment`.
An instance that may rejoin has an open gate and so has handled nothing: this is
why `WindowsAreCurrent` holds though no code discards a window: a
process that has handled anything never fetches from a committed offset again, and
what it handled lies below its position. `CommittedIsHandled`
carries the refinement. The step that matters is `Rebalance`: a new owner starts at
the committed offset, which is not behind anything it will commit.

*Lookups.* `RecordsAgree` follows a record through the sections (what a caller has
fetched, and parsed, is the schema of the record in its hand), `SchemasAgree` says what the caches
may hold, `EntriesAgree` that an entry is never lost once there. `OneFetchEach`
counts with `AnswersLeft`: answers so far plus callers that are asking are no more
than the callers, because an id that has been answered has a text.

*Window.* `EvictsTheStaleFront` with the types is inductive: the window is the end of
the history, what precedes it is stale, and its first entry is not. Over a settled
history the last part makes the window exact. The alerts need `EpisodeInv` (in the
proofs module): the debts of the detector to each device, `LastVerdict` (the active
set is the verdict of the last judged reading) and `Episodes` (the counts). A reading
that arrives changes no verdict of an earlier one, so `PublishFails` keeps the debts;
`Process` adds one reading to the judged ones, the reference window of which fires
the same as the retained one, and it begins an episode of a type exactly when the
type fires and is not active, which is when `detect` emits. `LastVerdict` is what
makes `Episodes` inductive. Both windows' sums are `MapThenSumSet` over different
index sets. It takes elements by `CHOOSE`; that the sum does not depend on the order
is by induction over the size of the set, done without an induction theorem: the
set of the sizes for which a statement holds has 0 and every successor, and what is
left out of it would have a least element in the well-founded order of the naturals.
`Min` and `Max` come from the same order.

*Simulator.* `Waiting` says that a record in a buffer is the last reading of a device
whose goroutine waits for it, on the partition of the device, so no buffer has two
of a device; `Stored` that the broker has older ones, in order. Both are needed for
each other: the broker appends what is in front of a buffer. `Excursions` relates the
countdown to the readings so far. These parts are in the proofs module.

TLC checks the invariants `IngestorInv`, `ProcessorInv`, `GroupInv` and `LookupsInv` in
full (`ingestor_faults`, `processor_reliable`, `consumer_group`, `lookups`).

*Only model-checked:* the liveness properties (`SigtermDrains` of both services,
`FlushedWhilePollsReturn`, `JoinersGetIn`, `EventuallyCurrent`, `SigtermStops`), since TLAPS
proves no liveness under fairness. Every invariant, action property and refinement
that a passing run checks is also a theorem.

## 5. Not modelled

* sink: stubs that panic.
* the transactional producer (`pkg/kafka/transactional.go`): no service uses it, so
  there is no program of which it is a part; its interface offers begin, produce,
  commit and abort and nothing to put the input offsets in the transaction, which
  the comment at 17-22 is about.
* configuration: read once from the environment. That ranges are not checked is in
  the assumptions (`BatchSize`, `WindowSize` and the thresholds are any integers).
* the inside of franz-go and of the coordinator: what the code relies on is external
  in `ConsumerGroup`; a rebalance is one step, and a poll or commit while it is in
  progress is one before or after it.
* sensor values, battery level, chaos mode, float rounding, Avro bytes, SQL. They
  are data no control depends on; this is why the simulator counts as modelled in
  part.
* startup failures before the group is joined: the process ends and leaves nothing.

## 6. Where the code and its comments differ

1. `ingestor_kept`: a record that cannot be decoded and is met after SIGTERM can
   miss the DLQ (cancelled context) and is still committed by `Shutdown`
   (consumer.go 103-108, 195). Comments 28-29 and 106-107 say it was handled.
2. `ingestor_stop`: after any poll that returned a fetch, `Close` never returns
   (`pkg/kafka/consumer.go` 53 and 105); `main.go` 14-15 says the process exits. The
   processor closes its consumer in the same way.
3. `ingestor_overdue`: the flush interval is seen only when a poll returns; with no
   traffic a batch stays pending (consumer.go 17-24, 76, 128).
4. `processor_alert`: a condition becomes active before its alert is published
   (`anomaly.go` 113), so a failed publish silences it while it lasts.
   `SwallowedAlertLeavesDeadLetter` says what is left: a DLQ entry or a log line of a
   reading whose aggregate is out.

Also seen while modelling, without a run of its own:

* Ingestor. The header says that no offset is committed when the database write
  fails (consumer.go 30-31); the code commits after dead-lettering (153-156).
  `main.go` 5-8 calls duplicate rows impossible; a redelivery inserts again
  (`OneInsertPerIncarnation` bounds it). An undecodable record of a batch whose
  COPY fails is dead-lettered twice (`TwoTracesPerIncarnation` is the bound, and two
  is reached).
* Processor. A comment says that a failed commit is retried on the next poll
  (consumer.go 108); `toCommit` is declared inside the loop (84), and only a later
  record of the same partition commits the earlier ones along. `window.go` 35 calls the
  first entry the oldest, which a late reading makes untrue: until the history is settled
  the published interval can end before it starts (94), and `detect` clamps its length to
  one second (`anomaly.go` 55-58). `window.go` 53-54 gives the wrong order of append and
  eviction. Windows and alert state are memory only: after
  a restart a condition that lasts alerts again, which no property bounds
  (`NoRepeatedAlert` is about one process). `processor/main.go` 14-16 says windows of
  lost partitions are discarded; no code does, and `WindowsAreCurrent` shows that
  none needs to while the gate is never opened: opening it, as finding 2 suggests,
  makes stale windows possible (the mutant of `WindowsAreCurrent` is that change).
* Group. `pkg/kafka/consumer.go` 18-20 and 51-53 say that a rebalance waits for one
  poll and commit. It waits for all that follow: in `ConsumerGroup` an instance that
  has polled never rejoins, so when another one starts or crashes the healthy
  members are dropped after the rebalance timeout. They do not come back; they
  keep polling, handling and dead-lettering their old partitions with commits that
  are refused, next to the new owners. `JoinersGetIn` is all that liveness can say.
  Nothing is lost (`GroupDeliversAtLeastOnce`), much is done twice. A startup that
  fails after `NewConsumer` leaves a member that holds partitions until its
  session times out.
* Lookups. A 200 answer without a schema is cached as the empty text for the life of
  the process (`registry.go` 147-156); one without an id gives records the id 0
  (100-107), which no consumer resolves. `enricher.go` 24 says stale data is never
  served to an active device: an expired entry is served as long as queries fail,
  for ever if the row was deleted (75-83). Every row found is reported active
  whatever its column says (88). `pkg/db/postgres.go` 48-49 says the enricher primes
  its cache with `LoadActiveDevices`; only the simulator calls it.

## 7. Plan

Done: all modules of section 2 with their proofs.

Left, in this order:

1. `SlidingWindow` as a refinement of the detector inside `Processor`.
2. The battery and the baseline of a device, if a property comes to depend on them.
3. The transactional producer, once a service uses it.

`Ingestor` and `Processor` are not refinements of one instance of `ConsumerGroup`
step by step: their restart is a crash, a timeout, a new instance and a rebalance
there. They share the abstract specification instead.
