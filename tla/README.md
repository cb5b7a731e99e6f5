# TLA+ specifications of dogpaddle

dogpaddle is an embedded streaming engine. A program declares sources (CDC of
PostgreSQL and MySQL tables, or a test sequence), a graph of computations and
sinks (SQLite, PostgreSQL, ClickHouse, Doris, discard). One thread calls
`Flow::advance` in a loop; all state lives in one embedded key-value store with
batched durability. This directory specifies the parts whose correctness
depends on the order of steps and on where the process dies.

## 1. Inventory

| Component | State it keeps | Operations | Hard behaviour |
|---|---|---|---|
| Scheduling round (`crates/flow/src/flow/advance.rs`) | source, root and sink cursors, held deliveries, `needs_reopen` | `advance`, `round`, `capture`, `drain`, `commit`, `sync` | order of commits, barriers and external effects; fail-stop; fairness of the rotations |
| Durable call stack (`flow/frame.rs`, `flow/runtime.rs`, `advance.rs`) | frame controls and pending pages by depth | `run_page`, `send_page`, `route_page`, `finish_frame`, `validate_frames` | paging, fan-out that stops at a full sink, return over several rounds, restore after a crash at any point |
| Store (`crates/store`) | one ordered key space, a write-ahead log, a catalog of collections | transactions, `DurabilityBatch::sync`, cells, ordered maps, partitions of weights, queues | a failed commit is uncertain; an unsynced commit may be lost; scans see the transaction's own writes and must stop at the collection's end |
| CDC source (`operation/scan/cdc_runtime.rs`) | phase, checkpoint, input queue, connector | `restore`, `poll`, `record`, `ack`, `published`, `consume_published` | bootstrap that is hidden until sealed; reset over several rounds; replication slot outside the store |
| Buffered sink (`operation/sink/buffered`) | control state, entries keyed by event offset, head and tail positions | `try_enqueue`, `load`, `persist_initialize`, `deliver`, `settle` | partial entries and partial rows, redelivery after a crash, limits |
| Relation sinks (`operation/sink/relation`, `sqlite`, `postgres`, `clickhouse`, `doris`) | target table with technical ids, delivery frontier | `initialize`, `deliver`, `plan` | deletions by weight, a frontier that makes redelivery idempotent, unknown outcomes |
| Stateful operations (`operation/transform/{equi_join,asof_join,aggregate,distinct}`) | indexed relations, weights | `step` over pages | incremental result equals the relational one, whatever the paging |
| Stateless operations, expressions, row codec | none | `step` | data only |
| Topology (`crates/flow/src/build`) | declared operations, resolved graph | `operation`, `build`, `validate_definition`, `resolve` | fusion, depth bound, consumer order |
| SQL planner (`crates/sql/src/plan.rs`) | none at run time | lowering of joins, aggregates, projections, unions | columns found by position, pruned and renumbered |
| Program start (`crates/sql/src/{program,endpoint}.rs`, `flow/src/build/open.rs`) | the state directory, its lock, the definition in it | `start`, `resolve_state_path`, `build`, `open` | processes that race for a path, incomplete setups, changed connections |
| Database connections (`scan/{postgres,mysql}_cdc/connection.rs`, `sink/*/config.rs`) | slots, publications and target tables on servers | `discover`, `inspect`, `require_absent`, `initialize`, `drop_snapshot_slot` | objects of other flows, check and creation in separate requests |
| Debezium bridge (`crates/debezium`) | runtime state, one outstanding delivery, offset entry, engine name reservation; a JVM behind JNI | `start`, `poll`, `ack`, `stop`, `dispose`, `abandon`, `handleBatch` | four threads, timeouts with unknown outcome, shutdown while a delivery is outstanding |
| Command line (`crates/dogpaddle`) | none | the `advance` loop, signals | ends at the first error of `advance`; the operator runs it again |

How they interact: `advance` asks one source for a delivery (`poll`), records
it in a transaction, syncs, and acknowledges it to the external system. It then
performs up to 32 stack actions: the active frame borrows its input (the front
of the source's queue, or the page its parent is sending), computes one page,
and routes it to consumers in order. Sinks take a page into their outbox in the
same transaction; a computation gets a new frame on top. A page that meets a
full sink waits in its frame. Finally one sink is drained: load a prefix of its
outbox, sync, deliver it to the target, settle it. The round ends with a
barrier. An error of an external call, a commit or a barrier sets
`needs_reopen`: the store must be reopened, which validates and resumes the
stack. The command line ends at every error of `advance`; its next run reopens.

What makes each component correct:

- round and stack: every row captured reaches every sink along every path
  exactly once and in order, whatever the page sizes, backpressure, failures
  and crashes; nothing leaves the process that a crash could undo; a crash
  never leaves a store that `open` refuses; work always completes.
- CDC source: what is published is the snapshot followed by every later change,
  with no gap and no repetition; the slot and the store never disagree for good.
- Debezium bridge: the database is never told to forget what the host has not
  made durable; a shutdown never looks like idleness or success; a connector
  can always be replaced by another of the same name.
- buffered sink and targets: the target is the consolidated prefix of what was
  enqueued, and settlement forgets only what the target holds.
- operations: the accumulated output is the relational result of the accumulated
  input, however the work is paged; no page takes back what was not given.
- store: the collections behave as a FIFO and a multiset under transactions, and
  what a barrier covers survives.
- planner and topology: the operations compute the query; the segments the stack
  runs carry exactly the declared edges.
- program start and connections: a state directory and a slot belong to one flow,
  from its first step on and whoever else runs, and so does a target that can say
  whose it is (all but a SQLite table).

## 2. Modules

| Module | Models | Uses |
|---|---|---|
| `FlowStack` | the round and the durable call stack | |
| `MCFlowStack` | two topologies, rows that remember their path, the reference for `ExactlyOnce` | `FlowStack` |
| `FlowStackProofs` | theorems about `FlowStack` | `FlowStack` |
| `CdcSource` | the CDC runtime, its conversion rules, the slot in the database | |
| `DebeziumBridge` | the Rust connector and the threads of the Java bridge | |
| `Outbox` | the buffered sink without its target | |
| `RelationPlan` | `relation/plan.rs`: lookups, victims, inserts and deletes of a batch | |
| `BufferedSink` | the sink with a transactional target (SQLite, PostgreSQL) | `Outbox`, `RelationPlan` |
| `VersionedSink` | the sink with a target without transactions (ClickHouse, Doris) | `Outbox`, `RelationPlan` |
| `SinkContract` | abstract: what a sink promises | |
| `Paging` | weights, bounded scans and step outcomes that paged computations share | |
| `EquiJoin`, `AsOfJoin`, `Aggregate` | the stateful operations | `Paging` |
| `AtomicOps` | aggregation, distinct, running count, filter, projection, union all as one application per slice | `Aggregate` |
| `Operators` | any one operation in the call stack: changes offered, steps committed, result added up | the five above |
| `DataNamespace` | the key space: prefixes, bounded reads, scans, partitions of weights | |
| `StoreQueue` | the persistent queue | `DataNamespace` |
| `Store` | transactions, durability batches, failures, crash | `StoreQueue` |
| `StoreContract` | abstract: a FIFO and a multiset under transactions | |
| `FlowTopology` | `build/validate.rs`: validation, fusion, segments | |
| `SqlPlan` | `sql/src/plan.rs`: lowering of a logical plan | `FlowTopology` |
| `QueryMeaning` | reference: what a plan means and what operations compute | `SqlPlan` |
| `FlowCompile` | from a query or declarations to a topology | `QueryMeaning` |
| `Deployment` | state directories, locks, slots and targets of racing processes | |
| `MC*` | the instances TLC checks | the module of that name |
| `CdcSourceProofs`, `DebeziumBridgeProofs`, `DeploymentProofs`, `BufferedSinkProofs`, `VersionedSinkProofs` | theorems about the module of that name | that module |
| `OutboxProofs` | the lemmas about the outbox and its log that the sink theorems rest on | `Outbox`, `RelationPlan` |
| `StoreProofs` | theorems about `Store` and its refinement of `StoreContract` | `MCStore` |

`PROJECT.json` maps each definition to the lines it stands for. A definition
whose comment begins with "Mutant" is a plausible bug; replacing the definition
after it by the mutant makes a property fail.

### Store and crashes

`FlowStack`, `CdcSource` and the sinks share one model of the store, whose
justification is `Store` (`StoreContract`). A transaction is a
function from store values to store values. `store` is what the process reads,
`durable` is the set of values that a crash may leave: a commit adds one, a
barrier (`DurabilityBatch::sync`) reduces the set to the current value. A
commit that fails is uncertain: it adds its value to `durable`, the process
keeps the old one and must be reopened. A crash picks any member of `durable`.
Safety properties therefore quantify over `durable`, not only over `store`.

### FlowStack

State: `store` holds frame controls and pending pages by depth, captured and
consumed counts of each source, and for each sink the rows it took, its control
state and how many it settled. Beside it are the position in the round (`pc`),
the remaining stack actions, the three cursors, the delivery held per source
(`pending`), `acked`, the loaded batch and `needsReopen`; `created` and
`target` are outside the process. A source is the list of deliveries it
publishes; how a CDC source comes by them is `CdcSource`.

Actions follow `round`: `Advance` selects the source; `PollSome`, `PollNone`,
`PollFails`, `PollHeld`; `Record` or `RecordBackpressured`; `CaptureSync` for
sources with an external ACK; `Ack`, `AckFails`; then up to `StackActions`
steps `RunFrame` (a page of at most `HeadItems` items, fewer when it is over
budget), `SendFrame`, `NextRoot`, `NoRoot`, `StackYield`; then `Load`,
`Intent`, `DrainSync`, `Deliver`, `DeliverFails`, `Settle`, `SettleFails` for
one sink; `Finish` with the final barrier. A step of a computation may fail
(`Refuse`). Every error leads through `Finish`, where what was committed is still
synchronized, to `Exit`, the end of the process, as in `main`; `Crash` ends it
anywhere. `Open` is the next run, whose rotations begin anew. `RoutePage`
offers a page to the consumers in order, to sinks in the same transaction, and
stops at a sink that is full or at a computation, which gets a frame.
`ValidFrames` is `validate_frames`, the check that `open` makes.

Abstractions: what an operation computes is given by the constants `Items` and
`Output`; byte budgets are the nondeterministic size of a page; a fused tail is
part of its head's `Output`; an outbox is its rows in order.

### CdcSource

State: phase, checkpoint, input queue and consumed rows in the store;
`nextStep`, `resume`, snapshot progress and connector in the process; the slot
and the number of changes in the database. `Restore`, `PollBegin`,
`PollPrepareReset`, `StartConnector`, `PollDelivery`, `Record`, `Ack` are the
arms of `poll`, `record` and `ack`; `Convert` is `convert_values`. A connector
cuts its records into deliveries in every way, with heartbeats and a late
completion record. `ConsumePublished` stands for the stack. `source`, chosen at
the start, says which database is captured, how many rows the table has and how
large the spool is. That the completion of an empty table's snapshot precedes its
changes is an assumption about the connector, taken from the tests.

### DebeziumBridge

One step is one critical section or one access to an atomic or a future.
`state`, `startup`, `exchange`, `decision`, `settled` and `offsets` are the
fields of `ConnectorRuntime`, `DeliveryExchange` and `OffsetStoreRegistry`;
`host`, `engine`, `worker` and `reclaim` are the four threads; `source` is what
the database was told and `durable` what the host has recorded. An
acknowledgement moves the offset store (`Flush`); the connector tells the database
at some later poll or stop, or never (`SourceConfirms`, external), as
`crates/debezium/README.md` says. Offsets are
numbers and a delivery moves them by one (one partition). `stop()` is two steps,
because the state it reads may change before it writes. The Debezium engine
itself is outside the repository: it may fail at any time, lose a failed flush
silently, stop its offset store under a callback, and is assumed not to call
`handleBatch` again after it threw. A timeout may expire at any time.

### Outbox, RelationPlan, BufferedSink, VersionedSink

A row of weight w is |w| equal events with consecutive offsets. `Outbox` has the
entries by first offset, head and tail, the control state and the steps of a
round (`TryEnqueue`, `Load`, `PersistInitialize`, `Sync`, `SettleLoaded`,
`Finish`, `Open`). A batch ends at any event. A page that would pass the largest
offset is an error (`Exhausted`): it stays on the stack (`pinned`), every later
round meets it again before the drain, and the sink stands still for good. The sink modules add the target.
`BufferedSink` applies a batch and its frontier in one transaction, which may
happen although its answer is lost. `VersionedSink` makes one request after the
other (inspect, create table, inspect view, create view, count; one lookup per
row, the ids it writes, the write); a request that failed may take effect at any
later time. Its state table keeps the row with the highest version of each id.
Both are shown to implement `SinkContract`: the relation a reader sees is the
sum of a prefix of the accepted events, that prefix only grows, and the outbox
forgets only events in it. The outbox caches and the row codec are not modelled.

### Operators

`Operators` holds one operation: its durable `state`, the `change` on its input
with the position `resume` in it, and as history the input `relation`, the
`result` that consumers add up and whether an output event ever took back more
than was there. `Offer` puts a change on the input; `Step` is one step of the
operation, which commits state, output and position together or fails. A page in
the code is a run of such steps in one transaction; because a page may end after
any step, every cut into pages is a behaviour, and a rolled-back page is a
return to an earlier state of one. Inner, left, right, full, semi and anti joins
with and without a residual predicate, the ASOF join in both directions with and
without equality, the aggregate calls with their layouts, caches and pending
extremes, distinct, running count, filter, projection and union all each have
the relational definition of their result beside them (`JoinReference`,
`AsOfReference`, `AtomicReference`). Rows are numbers in the order of their
encodings; expressions are constants (`Predicate`, `Image`, `ArgOf`).

### Store

`Store` keeps bytes: a key is a sequence of bytes, a collection owns the keys
with its prefix (the domain byte and the four bytes of its id), and a scan is the
loop over the whole key space: where it seeks (`Visited`), what it passes over and
takes (`Admits`), where it ends (`Ends`). Actions are the calls on the two collections, `begin`, `commit`, the barrier
and their failures: a storage failure between two writes of one call, or while a
page of a scan is read, poisons the transaction, a failed commit is uncertain. `MCStore` shows that these bytes
implement `StoreContract`, in which there is a sequence, a multiset and the list
of contents a crash may fall back to.

### SqlPlan, FlowTopology, FlowCompile

A logical plan is what DataFusion hands over (external). `SqlPlan` has one
operator per lowering function, under its name, and every refusal. `FlowCompile`
lowers a query or takes operations declared one by one, builds the definition and
resolves the topology. `QueryMeaning` evaluates the plan and, independently, the
operations on given tables; an operation is known there by the relation it
maintains, which is what `Operators` establishes. What `resolve` returns is what
`TopologyAssumption` of `FlowStack` asks for.

### Deployment

A process resolves its path, discovers the source and the sink's server, makes
the directory, the database and the definition in it in separate steps, or takes
the lock and opens. A running flow begins its capture, creates its slot, seals,
streams, resets; its sink checks, records its intent, creates its target (in one
step or, ClickHouse and Doris, two) and delivers. A connector starts in two steps:
`verify` compares the source's table with the one that was discovered in a
transaction of its own, and the connector finds whatever is there when it starts.
Around it, other processes do the same, crash anywhere, connections point to
another server, directories are removed, also while a process is about to open
them, tables recreated and slots stay active after their process. The objects of a
SQLite sink carry no marker: its `initialize` takes over any empty table of the
right layout. Rows and
rounds are left to the modules above.

## 3. Runs

| Run | Module, configuration | Checks | Distinct states |
|---|---|---|---|
| `stack_fan` | `MCFlowStack`, Fan | types, `RestoreAccepts`, `EffectsAreDurable`, `SettledIsDelivered`, `FailedRootIsPinned`, `ExactlyOnce` | 519,754 |
| `stack_live` | `MCFlowStack`, Live | `ExactlyOnce` with two roots, `EventuallyComplete` | 585,554 |
| `cdc` | `MCCdcSource` | `CapturedOnce`, `RestoreAccepts`, `SlotAgrees`, `ConversionAccepts`, `EventuallyConsumed` | 77,995 |
| `bridge` | `DebeziumBridge` | `NeverAheadOfHost`, `NoGap`, `AckMeansCommitted`, `IdleMeansRunning`, `ReservationReleased` | 122,242 |
| `bridge_restop` | `DebeziumBridge`, Restop | `StopLeavesDisposable`: **violated** | |
| `sink_delivery` | `MCBufferedSink` | `BuffersAreValid`, `TargetNeverRefuses`, `YoungestSurvive`, `ImplementsContract`, `EventuallySettled` | 33,317 |
| `versioned_delivery` | `MCVersionedSink` | `TargetNeverRefuses`, `StateFollowsEvents`, `ImplementsContract`, `EventuallySettled` | 268,197 |
| `operators` | `MCOperators` | `ResultIsRelation`, `OutputNeverOverdraws`, `StopsOnlyForInput`, `RestoredPositionIsValid` | 1,257,669 |
| `store` | `MCStore` | `ScanIsComplete`, `ImplementsContract` | 166,122 |
| `sql` | `MCFlowCompile` | `QueryIsComputed`, `TopologyIsSound`, `RefusedForAReason` | 769,417 |
| `deployment` | `MCDeployment` | `OneOwner`, `KeepsItsOwn`, `PublishedIsKept` | 571,249 |

What they show:

- `stack_fan`, `stack_live`: every row reaches every sink along every path exactly
  once, nothing leaves the process that a crash can undo, and once errors stop
  work completes.
- `cdc`: what a source publishes is one snapshot and every later change, in every
  store a crash may leave; the slot agrees with all of them; a bootstrap ends.
- `bridge`: no acknowledgement, timeout or shutdown makes the database forget
  what the host has not recorded, and an acknowledgement that succeeds is in the
  offset store.
- `sink_delivery`, `versioned_delivery`: both kinds of target keep `SinkContract`.
- `operators`: incremental results are the relational ones for every order and
  paging of the input, and no check an operation makes on its own state can fail.
- `store`: what the other modules assume of the store.
- `sql`: a query that is not refused is computed, one that is refused has a
  reason in the plan, and a declared graph becomes sound segments.
- `deployment`: one flow per directory; each directory captures from one server,
  and from another table than the one discovered only in the connector that was
  being started when the table was recreated, since no later `verify` succeeds;
  one life of one directory writes to a target that carries a marker. Two
  directories may write to one SQLite table: its exclusive use is left to the
  operator (`crates/operation/docs/sinks.md`), and all that is shown is that no two
  lives of one directory do.

### Bounds

- Stack, Fan: one delivery of two rows; a sink, then two calls of the same
  computation on different ports; outbox capacity two; every fault. One delivery
  already needs several pages, stops inside a fan-out, returns over several
  rounds and gives empty pages; more deliveries repeat it. Two stack actions per
  round let every phase fall into every position of a round. The proofs cover
  the rest.
- Stack, Live: two roots that share a computation, so the rotations and held
  deliveries occur; one stack action per round, steps that fail and crashes, so
  that the program ends and begins anew between any two of them.
- CDC: tables of two, three and no rows; spools of one to five rows around a
  streaming limit of two, so the spool is below, at and above it and overflows; a
  reset discards one entry per round; three changes.
- Bridge: three deliveries and two runtimes: the delivery after an uncertain
  one, and a restart after it. Two stops are enough for a second stop to race
  with the worker of the first.
- Sinks: five buffered events, batches of up to three, eight or twelve offsets
  in all; pages that insert and delete the same row, and weights of two. Two
  requests may be late at once, enough for two versions of one id to arrive in
  the wrong order.
- Operators: two left and two right rows of one key and a NULL key, a residual
  that gives a row two, one or no partner; ASOF rows on both sides of, at, and
  twice at an order value; groups with two values and a NULL. Weights up to two
  and a third beyond the type, so counts reach zero, one, two and overflow.
  Changes of several events, so that runs of equal keys and cached state occur.
- Store: partitions whose framings share a byte, next to a queue whose metadata
  key follows the map's last key; two sequence numbers, so that they run out; two
  calls in a transaction, one batched and one unsynced commit.
- SQL: all join kinds over five right inputs, with conditions in both
  orientations, residuals, NULLs, shared and colliding column names; three
  contents of the tables; graphs of up to five declared operations and depth
  three.
- Deployment: two processes, two directories and a link, two servers and a SQLite
  file; the worlds of `MCDeployment` are the situations in which flows can meet.

### Fairness

`main` (`dogpaddle/src/main.rs`) calls `advance` while it succeeds and ends at its
first error, whatever its kind; the help it prints is to run the command again,
and the operator does. Hence weak fairness of the round, of the end of the process
and of the next run. A source that has data does not answer every poll with
nothing (strong fairness of `PollSome` per source, and of a delivery with records
in `CdcSource`); without it an idle source is a legal behaviour. In the bridge
every thread that can run runs, a startup ends, and an engine that accepted
`close()` ends; batches, failures, host calls and what the connector tells its
database are not fair.

Liveness is claimed from the point on where crashes and errors stop, whatever they
left: computations, databases and targets may refuse work for ever, and then the
program makes no progress, because each run ends in the same error before its
drain. A root whose computation always fails holds up the other sources too: a
run begins the rotation at the first source. So do exhausted offsets of an outbox.
That the parts never give a permanent refusal of their own is a safety property:
`RestoreAccepts` of the stack, `RestoreAccepts`, `SlotAgrees` and
`ConversionAccepts` of the source, `BuffersAreValid` and `TargetNeverRefuses` of
the sinks.

### Finding

`bridge_restop` shows a race in `ConnectorRuntime.stop`. After a stop that timed
out, a second stop (or the one of the reclaim thread) reads a state that is not
terminal; the engine thread and the shutdown worker finish and publish
`STOPPED`; the second stop then writes `STOPPING` over it. The worker is done and
does not run again, so the stop reports success, `dispose` refuses, every later
stop does the same, and an abandonment gives up after its single attempt: the
engine name stays reserved for the life of the process.
`connector.rs:144-146` says that the method "can be called again". Nothing
durable is lost; a connector of that name needs a new process. The properties of
the run `bridge` hold with this race included; `ReservationReleased` claims that
a connector gives its name back only when no stop came before it was dropped.

## 4. Proofs

TLC checks the small instances of section 3; the theorems here hold for every
value of the constants that satisfies the named assumptions. TLC evaluates these
assumptions in the runs, and the inductive invariants were found with TLC as
invariants of the same instances before they were proved.

| Theorem | States | Run |
|---|---|---|
| `FlowStackProofs!Invariance` | `Spec => []IInv` | |
| `FlowStackProofs!TypeCorrect` | `TypeOK` | `stack_fan` |
| `FlowStackProofs!RestoreNeverRefuses` | `RestoreAccepts`: `open` accepts what any crash leaves | `stack_fan` |
| `FlowStackProofs!ExternalEffectsAreDurable` | `EffectsAreDurable`: nothing outside is ahead of what survives | `stack_fan` |
| `FlowStackProofs!NothingSettledUndelivered` | `SettledIsDelivered` | `stack_fan` |
| `FlowStackProofs!FailedRootStays` | `FailedRootIsPinned` | `stack_fan` |
| `CdcSourceProofs!SourceCapturesOnce` | `CapturedOnce`: one snapshot and every later change, in every store | `cdc` |
| `CdcSourceProofs!SourceRestores` | `RestoreAccepts` | `cdc` |
| `CdcSourceProofs!SlotAgreesWithStores` | `SlotAgrees` | `cdc` |
| `CdcSourceProofs!ConversionNeverRefuses` | `ConversionAccepts`, for every cut into deliveries | `cdc` |
| `DebeziumBridgeProofs!BridgeNeverAheadOfHost` | `NeverAheadOfHost` | `bridge` |
| `DebeziumBridgeProofs!BridgeNoGap` | `NoGap` | `bridge` |
| `DebeziumBridgeProofs!BridgeAckMeansCommitted` | `AckMeansCommitted`: the offset store holds what was acknowledged | `bridge` |
| `DebeziumBridgeProofs!BridgeIdleMeansRunning` | `IdleMeansRunning` | `bridge` |
| `DeploymentProofs!DirectoryHasOneOwner` | `OneOwner`: one definition per directory, one source, one writer of a marked target | `deployment` |
| `DeploymentProofs!DirectoryKeepsItsOwn` | `KeepsItsOwn` | `deployment` |
| `DeploymentProofs!PublishedDefinitionIsKept` | `PublishedIsKept` | `deployment` |
| `BufferedSinkProofs!SinkBuffersAreValid` | `BuffersAreValid` | `sink_delivery` |
| `BufferedSinkProofs!SinkNeverRefuses` | `TargetNeverRefuses` | `sink_delivery` |
| `BufferedSinkProofs!SinkKeepsYoungest` | `YoungestSurvive` | `sink_delivery` |
| `BufferedSinkProofs!SinkImplementsContract` | `ImplementsContract`: the refinement of `SinkContract` | `sink_delivery` |
| `VersionedSinkProofs!VersionedBuffersAreValid` | `BuffersAreValid` of the same outbox | |
| `VersionedSinkProofs!VersionedNeverRefuses` | `TargetNeverRefuses` | `versioned_delivery` |
| `VersionedSinkProofs!VersionedStateFollowsEvents` | `StateFollowsEvents` | `versioned_delivery` |
| `VersionedSinkProofs!VersionedImplementsContract` | `ImplementsContract`: the refinement of `SinkContract` | `versioned_delivery` |
| `StoreProofs!ScansAreComplete` | `ScanIsComplete`: a scan in pages misses and repeats nothing | `store` |
| `StoreProofs!StoreImplementsContract` | `ImplementsContract`: the refinement of `StoreContract` | `store` |

None of the properties is inductive as it stands. What each proof adds, and why:

### FlowStackProofs

Assumptions: `TopologyAssumption` (what `build/validate.rs` guarantees: acyclic,
ranks within `MAX_DEPTH`, ports that exist, one caller per sink),
`DataAssumption` (inputs are not empty and have at least one work item, pages
are changes or empty) and `BoundAssumption`. `IInv` is the conjunction of

- `StoresSafe`: every member of `durable` is `Good` (types, `ValidFrames`,
  consumed <= captured <= offered, and the head at depth d has a rank above d,
  which bounds the stack) and agrees with what left the process;
- `CaptureState`: at `record`, `captureSync` and `ack` the held delivery is the
  next one of its source, and before `ack` of an external source every member
  of `durable` has it;
- `DrainState`: from `drainSync` on, what was loaded is a prefix of the outbox,
  at `deliver` in every member of `durable`, at `settle` also in the target;
- `Types`.

The argument about the stack is in the lemmas `PopGood`, `AgainGood`,
`WaitGood`, `StartGood` and `RouteGood`: each store operator applied to a frame
that may stand at depth d (`Base`) gives a `Good` store. Capture, stack and drain
have one lemma each (`CaptureStep`, `StackPhase`, `DrainStep`), one step per
action.

### CdcSourceProofs

Assumption: `CdcAssumption` (a delivery fits an empty queue, sizes are positive).
A connector's life is an index into one sequence of records, `LifeAt`: the rows
of the snapshot and then the changes. `Part` is a cut of that sequence,
`ProgressAt` what the source knows after a prefix of it, `After` the checkpoint
there. `IInv` says that every durable store is `Good` (`Holds`: the content is a
`Whole`, a snapshot and its later changes; `Taken`: bytes, capacity and phase;
`Agrees`: the slot), that a barrier precedes each step that needs one
(`Barriers`), that `nextStep` fits the stored phase (`Phases`), that a delivery in
hand is the next part (`InHand`), that the slot is behind what the connector sent
(`Connected`), and that a capture in progress has stored exactly the part the
connector sent (`Content`). `DeliveriesAre` shows that `Convert` turns every part
into the rows and the progress expected there, by induction over the records.

### DebeziumBridgeProofs

Assumption: `BridgeAssumption`. `IInv` has three groups beside the types:
`Callback` (where the engine thread stands in `handleBatch` determines what is
outstanding, expected and decided), `Delivery` (what the host holds is the
delivery after the committed offset or already closed; an acknowledgement in
flight answers the delivery the host has made durable; the database
is behind the offset, which is at most one behind the host's record) and `Closing` (a closed exchange was preceded by a
state that is no longer running). The group `Acknowledges` is the one the race
with a shutdown needs: the only delivery that may be acknowledged is the durable
one, although its settlement may be lost.

### DeploymentProofs

Assumption: `DeploymentAssumption` (links lead to paths, starts name a path or a
link and servers that exist). `IInv`: the steps of a process agree with the directory it works on and
with its lock (`Steps`, `Exclusive`), a published definition is derived from its
own identity and path (`Kept`), the slot of a directory that captures or streams
is there (`SlotKept`), and a target's writers are one generation of one
directory, the one whose marker it carries, or for a SQLite table one generation
of each directory (`TargetKept`). The names derived from identity and path separate
the objects of different directories; the lock separates processes on one
directory. `Capture`, proved invariant with the help of `IInv`, is about the source: a
directory captures from the server of its definition, and when a connector found
another table than the discovered one (`strays`), that table has been recreated,
so no later `verify` succeeds.

### OutboxProofs and BufferedSinkProofs

Assumption: `SinkAssumption`. `OutboxInv`: every durable store is `Good`, that is,
its entries are consecutive pieces of the log of accepted events from the head's
entry to the tail (`Pieces`, `HeadFits`), bytes and offsets are exact, and the log
never deletes what was not inserted (`WellFormed`); beside the current store an
older durable one lacks a settlement, a page or the mark of an initialization,
and nothing else (`Behind`). `TargetInv`: the frontier is a prefix of the log, and the ids of a
row in the target are its insertions up to the frontier without the oldest ones,
as many as it has deletions (`Contents`); every durable store `Faces` the target,
so that the frontier is within what it still holds.

The hard part is the plan: `TakenAre` and `RowDelivers` show that the batch takes
as victims the oldest ids of each row, the table's before its own, `DeletionIsCovered`
that a well-formed log always has one left, and `ApplyIs` that the table after
the batch is `Contents` at the new frontier. With these every step of the sink is
a step or a stutter of `SinkContract`.

### VersionedSinkProofs

Assumption: `SinkAssumption`; `OutboxInv` is the one above. The n-th deletion of
a row takes its n-th insertion (`Kills`; `LogPaired` shows that a well-formed log
pairs each deletion with an earlier insertion). `State(log, A)` is the table that
the first A events leave, `Diff(log, p, e)` what the events from p to e change in
it. `MergeIs` is the fact behind versions and tombstones: merging such a
difference, begun at p, into the table at any q >= p gives the table at the
larger of q and e. A request that is repeated, or that takes effect after its
process died, therefore changes nothing or moves the table forward.

`TargetInv(A)` says that the table stands at A events. `Shown`: the rows are
`State` at A, every durable store shares these A events and `Faces` the target,
and every late request `Comes` from a prefix that all durable stores share.
`Doing`, per step: the lookups made so far were each answered by some table
between the batch's begin and A, the request in hand is the difference between a
prefix that the table has had and the batch's end, and a batch is settled only
when A has reached its end.

Stale lookups are the hard part. `RowLookedUp`, `PlanIs`, `MutationsAre` and
`NeededIs` show that a plan made from answers of different ages, reduced by
`read_ids` to what the table lacks, is exactly the difference between A and the
batch's end, and `PlanPasses` that it refuses nothing. Each step then leaves the table alone or extends A (`Moves`), which gives
`StateFollowsEvents` and the refinement.

### StoreProofs

Assumption: `StoreAssumption` (keys are bytes, the two data ids are different
32-bit numbers, limits and the capacity are positive), with
`NamespaceAssumption` and `QueueAssumption` for the largest weight and the
largest sequence number. A sequence key is one byte here instead of eight, hence
at most 255 numbers; the order of sequence keys plays no part in the code, which
only reads and writes them one by one. Nothing is assumed about which keys border
on which. The argument has five layers.

- Keys. `LexLess` is a strict total order that a common prefix does not change;
  everything with a collection's prefix is before `prefix_successor` of it
  (`SuccessorIs`), also where bytes wrap. Framed partitions are prefix-free and
  keep the order of pairs, and `decode_key` is the inverse of `encode_key`
  (`DecodesEncoded`).
- Scans. `AdmittedIs`: the loop, with its seek, its bounds, what it passes over and
  where it stops, reaches exactly the keys of the view in the collection and in
  the range, in the direction of the scan. A page is a beginning of these,
  not empty unless it reports an error, and its continuation is its last key.
- Calls. `QueueIs(view, h, q)` says that the bytes in a view are the queue q with
  its first number h: the metadata, one slot per value and no other key. Each
  call on the queue, applied to such a view, answers as a FIFO does and leaves
  such a view with the map untouched; each call on the map changes one weight and
  leaves the queue untouched.
- Invariant. `Inv` is `Ties` (every state that a crash may recover, and the view
  of a transaction that is not poisoned, is `Good`; a transaction that is closed
  or wrote nothing shows the visible state; only an unsynchronized batch and a
  failed commit leave several states to recover) and `Scans` (the keys a scan has
  met are in order; each key that stayed in its range has been met or is ahead
  of where it goes on, and none is ahead of a scan that ended).
- Refinement. `Stands` ties `keptContents` and `draftContents` to the bytes.
  Every action of `Store` has a lemma that names the step of `StoreContract` it
  is, with the same answer to the caller; `StartBatch` and `StartScan` are
  stutters. That a queue is never found corrupt is part of it: the contract has
  no such answer.

### What stays with TLC

- Liveness: fairness and `ENABLED` are out of the prover's reach
  (`EventuallyComplete`, `EventuallyConsumed`, `EventuallySettled`,
  `ReservationReleased`).
- `ExactlyOnce`: it compares a sink with a reference that walks all paths of a
  topology.
- What the operations compute (`ResultIsRelation`, `OutputNeverOverdraws`,
  `StopsOnlyForInput`, `RestoredPositionIsValid` of `Operators`) and what the
  planner and the topology produce (`QueryIsComputed`, `TopologyIsSound`,
  `RefusedForAReason` of `FlowCompile`): sums over relations, sorted runs of rows
  and recursion over plans and graphs. The theorems above use induction only over
  numbers, sequences and finite sets, in the form of a least counterexample
  (`SetInduction`), which does not carry over to recursive operators.

## 5. Not modelled

- Expressions, typed values, row and change codecs, checksums and wire formats:
  pure data. The order the row codec gives is taken as the order of rows.
- Byte and work budgets are nondeterministic cuts; that the budget arithmetic
  leaves room for at least one step is not shown.
- SQL parsing and DataFusion's own planning and optimization: outside the
  repository; queries start as logical plans.
- Connector properties, timeouts and types of columns in the database
  connections; launching the JVM, the runtime bundle and its configuration.
- The outbox caches; the read cache of RocksDB; compaction.

## 6. Plan

1. Done: stack and proofs, CDC source, sinks and contract, bridge, operations,
   store and contract, planner and topology, deployment.
2. Theorems, done: stack, CDC source, bridge, deployment, both sinks with their
   refinements, the store's scans and its refinement of `StoreContract`. Next:
   the bookkeeping invariants of `Operators`.
3. Composition: `CdcSource` driven by `DebeziumBridge`, and `FlowStack` with an
   `Outbox` in place of its row counts.
