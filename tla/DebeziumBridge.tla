--------------------------- MODULE DebeziumBridge ---------------------------
(***************************************************************************)
(* The bridge between the Rust connector and the Debezium engine it runs   *)
(* in the embedded JVM (crates/debezium).  Four threads share one          *)
(* ConnectorRuntime: the host (connector.rs, jvm.rs), the engine thread    *)
(* (runEngine and its callback handleBatch), the shutdown worker           *)
(* (closeAndJoinEngine) and the reclaim thread (abandonInBackground).      *)
(*                                                                         *)
(* Offsets are numbers: delivery n moves the offset store from n - 1 to n. *)
(* A step is one critical section or one access to an atomic or a future.  *)
(* The monitor of ConnectorRuntime is never contended (host calls are      *)
(* sequential, and the reclaim thread starts when the host is gone), so it *)
(* is not represented; the point is that it does not exclude the engine    *)
(* thread or the worker.  A timeout may expire at any time.                *)
(*                                                                         *)
(* The Debezium engine is not part of the repository.  It calls the        *)
(* callbacks from the engine thread, may stop or fail at any time, may     *)
(* report a failed flush or lose it silently, and does not call            *)
(* handleBatch again after handleBatch has thrown.                         *)
(***************************************************************************)
EXTENDS Naturals

CONSTANTS
    Deliveries,     \* bound: the deliveries the source has
    MaxRuntimes,    \* bound: the connectors the process starts
    MaxStops,       \* bound: Connector::stop calls on one connector
    CloseMayFail    \* engine.close() may throw an error it does not classify

ASSUME BridgeAssumption ==
    /\ Deliveries \in Nat /\ MaxRuntimes \in Nat /\ MaxStops \in Nat
    /\ CloseMayFail \in BOOLEAN

VARIABLES
    state,      \* ConnectorRuntime.state
    startup,    \* the startup future
    exchange,   \* DeliveryExchange: the outstanding delivery (0: null), closed
    decision,   \* Delivery.decision of the newest delivery
    settled,    \* Delivery.settled of the delivery that ack() answered
    offsets,    \* OffsetStoreRegistry.Entry: current, started, expectedCommit (0: null)
    registered, \* the engine name is reserved in OffsetStoreRegistry.ENTRIES
    source,     \* external: the offset the database was told it may forget
    engine,     \* the engine thread: at, prepared delivery, failure, close() called
    worker,     \* ShutdownWorker: its thread and its completion future
    reclaim,    \* the reclaim thread
    host,       \* the Rust thread: at, held delivery, polled frame, poisoned
    durable,    \* external: the checkpoint the host's store holds
    stopCall,   \* a call of stop() in progress: at, the observed state
    stops, runtimes

vars == <<state, startup, exchange, decision, settled, offsets, registered, source,
          engine, worker, reclaim, host, durable, stopCall, stops, runtimes>>

Terminal == {"STOPPED", "FAILED"}

Init ==
    /\ state = "DISPOSED"
    /\ startup = "pending"
    /\ exchange = [outstanding |-> 0, closed |-> TRUE]
    /\ decision = "none" /\ settled = "no"
    /\ offsets = [current |-> 0, started |-> FALSE, expected |-> 0]
    /\ registered = FALSE
    /\ source = 0 /\ durable = 0
    /\ engine = [at |-> "none", prepared |-> 0, failed |-> FALSE, closing |-> FALSE]
    /\ worker = "none"
    /\ reclaim = [at |-> "none", failed |-> FALSE]
    /\ host = [at |-> "none", held |-> 0, frame |-> 0, poisoned |-> FALSE]
    /\ stopCall = [at |-> "none", observed |-> "none"]
    /\ stops = 0 /\ runtimes = 0

\* thread.isAlive()
Alive == engine.at \notin {"none", "dead"}

\* Mutant: the engine thread is not told.
CloseKeepsDelivery ==
    /\ exchange' = [exchange EXCEPT !.closed = TRUE]
    /\ UNCHANGED decision

\* DeliveryExchange.close: abort what is outstanding, wake every waiter.
Close ==
    /\ exchange' = [exchange EXCEPT !.closed = TRUE]
    /\ decision' = IF exchange.outstanding # 0 /\ decision = "none" THEN "ABORT" ELSE decision

\* fail(error): the failure is published with the state.
Fail ==
    /\ state' = "FAILED"
    /\ startup' = IF startup = "pending" THEN "failed" ELSE startup

(***************************************************************************)
(* Host: creation and start.                                               *)
(***************************************************************************)

\* Mutant: the durable checkpoint is ignored.
NoCheckpoint == [current |-> 0, started |-> FALSE, expected |-> 0]

\* OffsetStoreRegistry.register: the entry starts from the given checkpoint.
Register == [current |-> durable, started |-> FALSE, expected |-> 0]

\* DebeziumRuntime::start, ConnectorRuntime.create: a fresh runtime from the
\* durable checkpoint.  A name that is still reserved refuses it.
Create ==
    /\ host.at = "none" /\ ~registered /\ runtimes < MaxRuntimes
    /\ state' = "CREATED" /\ startup' = "pending"
    /\ exchange' = [outstanding |-> 0, closed |-> FALSE]
    /\ decision' = "none" /\ settled' = "no"
    /\ offsets' = Register
    /\ registered' = TRUE
    /\ engine' = [at |-> "none", prepared |-> 0, failed |-> FALSE, closing |-> FALSE]
    /\ worker' = "none" /\ reclaim' = [at |-> "none", failed |-> FALSE]
    /\ host' = [at |-> "created", held |-> 0, frame |-> 0, poisoned |-> FALSE]
    /\ stopCall' = [at |-> "none", observed |-> "none"]
    /\ stops' = 0 /\ runtimes' = runtimes + 1
    /\ UNCHANGED <<source, durable>>

\* JNI cannot keep the object: discardCreated stops and disposes it at once.
DiscardCreated ==
    /\ host.at = "created"
    /\ Close
    /\ state' = "DISPOSED" /\ registered' = FALSE
    /\ host' = [host EXCEPT !.at = "none"]
    /\ UNCHANGED <<startup, settled, offsets, source, engine, worker, reclaim, durable,
                   stopCall, stops, runtimes>>

\* ConnectorRuntime.start: the engine thread runs.
Start ==
    /\ host.at = "created" /\ state = "CREATED"
    /\ state' = "STARTING"
    /\ engine' = [engine EXCEPT !.at = "starting"]
    /\ host' = [host EXCEPT !.at = "starting"]
    /\ UNCHANGED <<startup, exchange, decision, settled, offsets, registered, source, worker,
                   reclaim, durable, stopCall, stops, runtimes>>

\* The startup future completed and the connector is still running.
StartSucceeds ==
    /\ host.at = "starting" /\ startup = "ready" /\ state = "RUNNING"
    /\ host' = [host EXCEPT !.at = "idle"]
    /\ UNCHANGED <<state, startup, exchange, decision, settled, offsets, registered, source,
                   engine, worker, reclaim, durable, stopCall, stops, runtimes>>

\* abandon(): abort the outstanding delivery, leave the rest to a thread.
Abandon ==
    /\ Close
    /\ reclaim' = [reclaim EXCEPT !.at = "stop"]
    /\ host' = [host EXCEPT !.at = "none", !.held = 0]
    /\ UNCHANGED <<state, startup, settled, offsets, registered, source, engine, worker,
                   durable, stopCall, stops, runtimes>>

\* Startup failed, stopped meanwhile or timed out: start() reports it and the
\* host abandons the runtime.
StartFails == host.at = "starting" /\ Abandon

\* Drop for Connector.
DropConnector == host.at = "idle" /\ Abandon

(***************************************************************************)
(* Host: Connector::poll, ack, and what the caller does between them.      *)
(***************************************************************************)
HostOnly == UNCHANGED <<state, startup, exchange, offsets, registered, source, engine,
                        worker, reclaim, stopCall, stops, runtimes>>

\* No capability may be alive and the connector must be usable and running.
PollBegins ==
    /\ host.at = "idle" /\ host.held = 0 /\ ~host.poisoned
    /\ host' = IF state = "RUNNING" THEN [host EXCEPT !.at = "polling"]
                                    ELSE [host EXCEPT !.poisoned = TRUE]
    /\ HostOnly /\ UNCHANGED <<decision, settled, durable>>

\* DeliveryExchange.poll: a delivery, the close, or the timeout.
PollExchange ==
    /\ host.at = "polling"
    /\ host' = [host EXCEPT !.at = "polled",
                            !.frame = IF exchange.closed THEN 0 ELSE exchange.outstanding]
    /\ HostOnly /\ UNCHANGED <<decision, settled, durable>>

\* The state is read again: only a running connector returns a delivery or idle.
PollReturns ==
    /\ host.at = "polled"
    /\ host' = IF state = "RUNNING"
               THEN [host EXCEPT !.at = "idle", !.held = host.frame, !.frame = 0]
               ELSE [host EXCEPT !.at = "idle", !.frame = 0, !.poisoned = TRUE]
    /\ HostOnly /\ UNCHANGED <<decision, settled, durable>>

\* The caller drops the delivery without acknowledging it.
DropDelivery ==
    /\ host.at = "idle" /\ host.held # 0
    /\ host' = [host EXCEPT !.held = 0]
    /\ HostOnly /\ UNCHANGED <<decision, settled, durable>>

\* capture() commits the delivery with its checkpoint and waits for the barrier
\* before it acknowledges.
Persist ==
    /\ host.at = "idle" /\ host.held # 0 /\ durable # host.held
    /\ durable' = host.held
    /\ HostOnly /\ UNCHANGED <<host, decision, settled>>

\* Connector::ack and the critical section of DeliveryExchange.ack.
Ack ==
    /\ host.at = "idle" /\ host.held # 0 /\ durable = host.held /\ ~host.poisoned
    /\ IF exchange.outstanding # 0 /\ decision = "none"
       THEN /\ decision' = "ACK" /\ settled' = "no"
            /\ host' = [host EXCEPT !.at = "acking"]
       ELSE /\ host' = [host EXCEPT !.held = 0, !.poisoned = TRUE]
            /\ UNCHANGED <<decision, settled>>
    /\ HostOnly /\ UNCHANGED durable

AckSettles ==
    /\ host.at = "acking" /\ settled = "ok"
    /\ host' = [host EXCEPT !.at = "idle", !.held = 0]
    /\ HostOnly /\ UNCHANGED <<decision, settled, durable>>

\* Mutant: a timeout does not poison the connector.
AckTimeoutForgiven ==
    /\ host.at = "acking" /\ settled # "ok"
    /\ host' = [host EXCEPT !.at = "idle", !.held = 0]
    /\ HostOnly /\ UNCHANGED <<decision, settled, durable>>

\* The settlement failed, or 30 seconds went by: the outcome is uncertain.
AckFails ==
    /\ host.at = "acking" /\ settled # "ok"
    /\ host' = [host EXCEPT !.at = "idle", !.held = 0, !.poisoned = TRUE]
    /\ HostOnly /\ UNCHANGED <<decision, settled, durable>>

(***************************************************************************)
(* stop(), called by the host or by the reclaim thread.                    *)
(***************************************************************************)

\* The state is read.
StopObserves ==
    /\ stopCall.at = "none"
    /\ stopCall' = [at |-> "update", observed |-> IF state = "STOPPED" THEN state ELSE "other"]
    /\ \/ /\ host.at = "idle" /\ stops < MaxStops
          /\ host' = [host EXCEPT !.at = "stopping", !.held = 0]
          /\ stops' = stops + 1
       \/ /\ reclaim.at = "stop"
          /\ UNCHANGED <<host, stops>>
    /\ UNCHANGED <<state, startup, exchange, decision, settled, offsets, registered, source,
                   engine, worker, reclaim, durable, runtimes>>

\* What was read decides what is written; then awaitUntil starts the worker.
StopUpdates ==
    /\ stopCall.at = "update"
    /\ stopCall' = [at |-> "await", observed |-> "none"]
    /\ state' = IF stopCall.observed = "STOPPED" \/ state = "FAILED" THEN state ELSE "STOPPING"
    /\ Close
    /\ worker' = IF worker = "none" THEN "close" ELSE worker
    /\ UNCHANGED <<startup, settled, offsets, registered, source, engine, reclaim, host,
                   durable, stops, runtimes>>

\* awaitUntil ends: completion, its error, or (host only) the deadline.
StopReturns ==
    /\ stopCall.at = "await"
    /\ stopCall' = [stopCall EXCEPT !.at = "none"]
    /\ \/ /\ host.at = "stopping" /\ worker = "done"
          /\ host' = [host EXCEPT !.at = "disposing"]
          /\ UNCHANGED reclaim
       \/ /\ host.at = "stopping" /\ worker # "done"
          /\ host' = [host EXCEPT !.at = "idle"]
          /\ UNCHANGED reclaim
       \/ /\ host.at # "stopping" /\ worker \in {"done", "failed"}
          /\ reclaim' = [at |-> "join", failed |-> worker = "failed"]
          /\ UNCHANGED host
    /\ UNCHANGED <<state, startup, exchange, decision, settled, offsets, registered, source,
                   engine, worker, durable, stops, runtimes>>

(***************************************************************************)
(* dispose(), by the host after a stop that succeeded or by the reclaim    *)
(* thread after the engine thread died.                                    *)
(***************************************************************************)
Disposable == state \in Terminal /\ ~Alive

\* On an error the host keeps the runtime and may call stop again.
HostDispose ==
    /\ host.at = "disposing"
    /\ IF Disposable
       THEN /\ registered' = FALSE /\ state' = "DISPOSED"
            /\ host' = [host EXCEPT !.at = "none"]
       ELSE /\ host' = [host EXCEPT !.at = "idle"]
            /\ UNCHANGED <<registered, state>>
    /\ UNCHANGED <<startup, exchange, decision, settled, offsets, source, engine, worker,
                   reclaim, durable, stopCall, stops, runtimes>>

\* awaitTerminationAndReclaim waits for the engine thread.
ReclaimJoins ==
    /\ reclaim.at = "join" /\ ~Alive
    /\ reclaim' = [reclaim EXCEPT !.at = "dispose"]
    /\ UNCHANGED <<state, startup, exchange, decision, settled, offsets, registered, source,
                   engine, worker, host, durable, stopCall, stops, runtimes>>

\* A failed dispose is not repeated; it only marks the runtime failed.
ReclaimDisposes ==
    /\ reclaim.at = "dispose"
    /\ reclaim' = [at |-> "done", failed |-> reclaim.failed \/ ~Disposable]
    /\ registered' = (registered /\ ~Disposable)
    /\ state' = CASE Disposable -> "DISPOSED"
                  [] state = "STOPPING" -> "FAILED"
                  [] OTHER -> state
    /\ UNCHANGED <<startup, exchange, decision, settled, offsets, source, engine, worker, host,
                   durable, stopCall, stops, runtimes>>

(***************************************************************************)
(* The shutdown worker: closeAndJoinEngine.                                *)
(***************************************************************************)
WorkerOnly == UNCHANGED <<startup, exchange, decision, settled, offsets, registered, source,
                          reclaim, host, durable, stopCall, stops, runtimes>>

\* engine.close(): accepted, or "already" shut down, or the thread is dead.
\* While the tasks are starting it is tried again.
WorkerCloses ==
    /\ worker = "close" /\ engine.at # "starting"
    /\ worker' = "join"
    /\ engine' = [engine EXCEPT !.closing = TRUE]
    /\ WorkerOnly /\ UNCHANGED state

WorkerCloseFails ==
    /\ CloseMayFail /\ worker = "close" /\ Alive
    /\ worker' = "failed"
    /\ WorkerOnly /\ UNCHANGED <<state, engine>>

WorkerFinishes ==
    /\ worker = "join" /\ ~Alive
    /\ worker' = "done"
    /\ state' = IF state = "FAILED" THEN state ELSE "STOPPED"
    /\ WorkerOnly /\ UNCHANGED engine

(***************************************************************************)
(* The engine thread.                                                      *)
(***************************************************************************)
EngineOnly == UNCHANGED <<registered, worker, reclaim, host, durable, stopCall, stops, runtimes>>

\* external: the offset store is attached and started; pollingStarted().
EngineStarts ==
    /\ engine.at = "starting"
    /\ offsets' = [offsets EXCEPT !.started = TRUE]
    /\ engine' = [engine EXCEPT !.at = "polling"]
    /\ IF state = "STARTING"
       THEN state' = "RUNNING" /\ startup' = "ready"
       ELSE UNCHANGED <<state, startup>>
    /\ EngineOnly /\ UNCHANGED <<exchange, decision, settled, source>>

\* external: the engine stops by itself, because it was closed or on an error.
EngineStops(failed) ==
    /\ engine.at \in {"starting", "polling"}
    /\ engine' = [engine EXCEPT !.at = "returning", !.failed = failed]
    /\ EngineOnly
    /\ UNCHANGED <<state, startup, exchange, decision, settled, offsets, source>>

\* The engine may announce pollingStopped() before it returns.
PollingStopped ==
    /\ engine.at = "returning" /\ state = "RUNNING"
    /\ state' = "STOPPING"
    /\ EngineOnly
    /\ UNCHANGED <<startup, exchange, decision, settled, offsets, source, engine>>

\* Entry.preview: the checkpoint the store holds after this delivery.
Preview == offsets.current + 1

\* handleBatch begins: the checkpoint is previewed from the current offsets.
\* A delivery that cannot be encoded within its bound throws.
HandleBatch ==
    /\ engine.at = "polling" /\ offsets.started /\ offsets.expected = 0
    /\ offsets.current < Deliveries
    /\ \/ engine' = [engine EXCEPT !.at = "install", !.prepared = Preview]
       \/ engine' = [engine EXCEPT !.at = "returning", !.failed = TRUE]
    /\ EngineOnly
    /\ UNCHANGED <<state, startup, exchange, decision, settled, offsets, source>>

\* DeliveryExchange.install waits for the previous delivery; the closed
\* exchange interrupts it.
Install ==
    /\ engine.at = "install" /\ (exchange.outstanding = 0 \/ exchange.closed)
    /\ IF exchange.closed
       THEN /\ \E failed \in BOOLEAN :
                   engine' = [engine EXCEPT !.at = "returning", !.failed = failed]
            /\ UNCHANGED <<exchange, decision>>
       ELSE /\ engine' = [engine EXCEPT !.at = "await"]
            /\ exchange' = [exchange EXCEPT !.outstanding = engine.prepared]
            /\ decision' = "none"
    /\ EngineOnly /\ UNCHANGED <<state, startup, settled, offsets, source>>

\* The decision arrives: an abort returns without arming.  An engine is closed
\* only after the exchange, so an interrupted wait has been decided already.
AwaitDecision ==
    /\ engine.at = "await"
    /\ \/ /\ decision = "ACK"
          /\ engine' = [engine EXCEPT !.at = "arm"]
       \/ /\ decision = "ABORT"
          /\ engine' = [engine EXCEPT !.at = "settle"]
    /\ EngineOnly
    /\ UNCHANGED <<state, startup, exchange, decision, settled, offsets, source>>

\* Entry.arm: the store must be started and nothing else armed.  The delta of
\* a delivery replaces the one offset, so the recalculated checkpoint agrees.
Arm ==
    /\ engine.at = "arm"
    /\ IF offsets.started /\ offsets.expected = 0
       THEN /\ offsets' = [offsets EXCEPT !.expected = engine.prepared]
            /\ engine' = [engine EXCEPT !.at = "flush"]
       ELSE /\ engine' = [engine EXCEPT !.at = "settle", !.failed = TRUE]
            /\ UNCHANGED offsets
    /\ EngineOnly /\ UNCHANGED <<state, startup, exchange, decision, settled, source>>

\* Entry.applyActual: only an armed write of a started store is accepted.
Applicable == offsets.started /\ offsets.expected # 0 /\ offsets.expected = engine.prepared

\* Checkpoint.merge: a delta replaces what its partition had.
Merge(current, delta) == delta

\* markProcessed and markBatchFinished: Debezium writes the offset; it throws; or
\* it loses a failed write silently.
Flush ==
    /\ engine.at = "flush"
    /\ \/ /\ Applicable
          /\ offsets' = [offsets EXCEPT !.current = Merge(offsets.current, offsets.expected),
                                      !.expected = 0]
          /\ engine' = [engine EXCEPT !.at = "require"]
       \/ /\ engine' = [engine EXCEPT !.at = "require"]
          /\ UNCHANGED offsets
       \/ /\ engine' = [engine EXCEPT !.at = "settle", !.failed = TRUE]
          /\ UNCHANGED offsets
    /\ EngineOnly /\ UNCHANGED <<state, startup, exchange, decision, settled, source>>

\* Mutant: a flush that was lost silently counts as committed.
RequireNothing ==
    /\ engine.at = "require"
    /\ engine' = [engine EXCEPT !.at = "settle"]
    /\ EngineOnly
    /\ UNCHANGED <<state, startup, exchange, decision, settled, offsets, source>>

\* Entry.requireCommitted: the store must hold the exact preview.
RequireCommitted ==
    /\ engine.at = "require"
    /\ engine' = [engine EXCEPT !.at = "settle",
                     !.failed = offsets.expected # 0 \/ offsets.current # engine.prepared]
    /\ EngineOnly
    /\ UNCHANGED <<state, startup, exchange, decision, settled, offsets, source>>

\* The finally block: disarm, clear the exchange, complete the settlement.
Settle ==
    /\ engine.at = "settle"
    /\ offsets' = IF offsets.expected = engine.prepared
                  THEN [offsets EXCEPT !.expected = 0] ELSE offsets
    /\ exchange' = [exchange EXCEPT !.outstanding = 0]
    /\ settled' = IF engine.failed THEN "error" ELSE "ok"
    /\ engine' = [engine EXCEPT !.at = IF engine.failed THEN "returning" ELSE "polling",
                                !.prepared = 0]
    /\ EngineOnly /\ UNCHANGED <<state, startup, decision, source>>

\* external: a closing engine stops the offset store under a running callback.
StoreStops ==
    /\ engine.closing /\ Alive /\ offsets.started
    /\ offsets' = [offsets EXCEPT !.started = FALSE]
    /\ EngineOnly
    /\ UNCHANGED <<state, startup, exchange, decision, settled, source, engine>>

\* external: at a later poll or at its stop, if ever, the connector tells the
\* database how far its offset is (confirmed_flush_lsn).
SourceConfirms ==
    /\ Alive /\ source < offsets.current
    /\ source' = offsets.current
    /\ EngineOnly
    /\ UNCHANGED <<state, startup, exchange, decision, settled, offsets, engine>>

\* engine.run() returns or throws: the completion callback, then the store stops.
EngineCompletes ==
    /\ engine.at = "returning"
    /\ IF engine.failed THEN Fail ELSE UNCHANGED <<state, startup>>
    /\ offsets' = [offsets EXCEPT !.started = FALSE]
    /\ engine' = [engine EXCEPT !.at = "publish"]
    /\ EngineOnly /\ UNCHANGED <<exchange, decision, settled, source>>

\* Mutant: runEngine's finally closes the exchange before it publishes the state.
EnginePublishesLate ==
    \/ /\ engine.at = "publish"
       /\ Close
       /\ engine' = [engine EXCEPT !.at = "close"]
       /\ EngineOnly /\ UNCHANGED <<state, startup, settled, offsets, source>>
    \/ /\ engine.at = "close"
       /\ state' = IF state = "FAILED" THEN state ELSE "STOPPED"
       /\ startup' = IF startup = "pending" THEN "failed" ELSE startup
       /\ engine' = [engine EXCEPT !.at = "dead"]
       /\ EngineOnly /\ UNCHANGED <<exchange, decision, settled, offsets, source>>

\* runEngine's finally: the terminal state first, then the waiters are woken.
EnginePublishes ==
    \/ /\ engine.at = "publish"
       /\ state' = IF state = "FAILED" THEN state ELSE "STOPPED"
       /\ startup' = IF startup = "pending" THEN "failed" ELSE startup
       /\ engine' = [engine EXCEPT !.at = "close"]
       /\ EngineOnly /\ UNCHANGED <<exchange, decision, settled, offsets, source>>
    \/ /\ engine.at = "close"
       /\ Close
       /\ engine' = [engine EXCEPT !.at = "dead"]
       /\ EngineOnly /\ UNCHANGED <<state, startup, settled, offsets, source>>

(***************************************************************************)
(* Specification.                                                          *)
(***************************************************************************)
HostStep ==
    \/ Create \/ DiscardCreated \/ Start \/ StartSucceeds \/ StartFails \/ DropConnector
    \/ PollBegins \/ PollExchange \/ PollReturns \/ DropDelivery \/ Persist
    \/ Ack \/ AckSettles \/ AckFails \/ HostDispose

StopStep == StopObserves \/ StopUpdates \/ StopReturns

ReclaimStep == ReclaimJoins \/ ReclaimDisposes

WorkerStep == WorkerCloses \/ WorkerCloseFails \/ WorkerFinishes

\* What the engine thread does without waiting for a change in the database.
EngineCode ==
    \/ Install \/ AwaitDecision \/ Arm \/ Flush \/ RequireCommitted \/ Settle
    \/ EngineCompletes \/ EnginePublishes

EngineStep ==
    \/ EngineStarts \/ HandleBatch \/ EngineCode
    \/ StoreStops \/ SourceConfirms \/ PollingStopped
    \/ \E failed \in BOOLEAN : EngineStops(failed)

Next == HostStep \/ StopStep \/ ReclaimStep \/ WorkerStep \/ EngineStep

Spec == Init /\ [][Next]_vars

\* A startup ends, and an engine that was closed stops; every thread runs.
Fairness ==
    /\ WF_vars(EngineCode)
    /\ WF_vars(EngineStarts)
    /\ WF_vars(engine.closing /\ EngineStops(FALSE))
    /\ WF_vars(WorkerStep)
    /\ WF_vars(ReclaimStep)
    /\ WF_vars(reclaim.at = "stop" /\ StopStep)

FairSpec == Spec /\ Fairness

(***************************************************************************)
(* Properties.                                                             *)
(***************************************************************************)

\* The database is never told to forget what the host has not made durable:
\* not after an acknowledgement that answers another delivery than the one the
\* host holds, nor by an abort, a late answer or a shutdown, however late the
\* connector tells it and from whichever offset it was restarted.
NeverAheadOfHost == source <= durable

\* A delivery in the host's hands is the one after its durable checkpoint, or
\* that one again: restarts and redeliveries leave no gap.
NoGap == host.held # 0 => host.held \in {durable, durable + 1}

\* An acknowledgement whose settlement succeeded was committed: the offset store
\* holds exactly the delivery's checkpoint (handleBatch's comment on silent
\* flush failures).  What the database was told by then is left open.
AckMeansCommitted ==
    [][host.at = "acking" /\ host'.at = "idle" /\ settled = "ok"
          => offsets.current = host.held]_vars

\* A poll that reports idle was not woken by a shutdown: the exchange of a
\* connector that answers "no delivery" is open (Connector::poll's promise,
\* runEngine's order of state and close).
IdleMeansRunning ==
    [][host.at = "polled" /\ host'.at = "idle" /\ ~host'.poisoned => ~exchange.closed]_vars

\* A stop that reports success leaves a runtime that dispose() accepts, so
\* Connector::stop "can be called again" after a deadline expired.
StopLeavesDisposable == host.at = "disposing" => Disposable

\* A connector that is dropped, or fails to start, gives its engine name back,
\* whatever the engine thread was doing; unless close() failed, or an earlier
\* stop() can overwrite what its worker publishes (StopLeavesDisposable).
ReservationReleased ==
    reclaim.at # "none" /\ stops = 0 ~> ~registered \/ worker = "failed"
=============================================================================
