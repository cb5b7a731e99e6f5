------------------------ MODULE DebeziumBridgeProofs ------------------------
(***************************************************************************)
(* What DebeziumBridge promises, for any number of deliveries, connectors  *)
(* and stop calls.  The invariant follows one delivery through the four    *)
(* threads: where the engine thread is in handleBatch decides what the     *)
(* exchange and the offset store hold (Callback), which decides what the   *)
(* host may be holding (Holds, Acknowledges), which decides how far the    *)
(* checkpoints may be apart (Frontiers).  Closing is separate: it concerns *)
(* the order in which the state and the exchange are closed.               *)
(***************************************************************************)
EXTENDS DebeziumBridge, TLAPS

\* The engine thread has installed a delivery and has not settled it.
Installed == {"await", "arm", "flush", "require", "settle"}

States == {"CREATED", "STARTING", "RUNNING", "STOPPING", "STOPPED", "FAILED", "DISPOSED"}
ExchangeType == [outstanding : Nat, closed : BOOLEAN]
OffsetsType == [current : Nat, started : BOOLEAN, expected : Nat]
EngineType == [at : {"none", "starting", "polling", "install", "returning", "publish", "close",
                     "dead"} \cup Installed,
               prepared : Nat, failed : BOOLEAN, closing : BOOLEAN]
HostType == [at : {"none", "created", "starting", "idle", "polling", "polled", "acking",
                   "stopping", "disposing"},
             held : Nat, frame : Nat, poisoned : BOOLEAN]
StopCallType == [at : {"none", "update", "await"}, observed : {"none", "STOPPED", "other"}]

\* The engine thread is past its last callback.
Ended == {"returning", "publish", "close", "dead"}

TypeOK ==
    /\ state \in States
    /\ exchange \in ExchangeType
    /\ decision \in {"none", "ACK", "ABORT"}
    /\ settled \in {"no", "ok", "error"}
    /\ offsets \in OffsetsType
    /\ source \in Nat /\ durable \in Nat
    /\ engine \in EngineType
    /\ host \in HostType
    /\ stopCall \in StopCallType

\* The outstanding delivery is the one the engine thread is in.
Outstanding ==
    /\ engine.at \in Installed => exchange.outstanding = engine.prepared
    /\ engine.at \notin Installed => exchange.outstanding = 0

\* The offset store is armed only between arm and settle, for that delivery.
Armed ==
    /\ engine.at \notin {"flush", "require", "settle"} => offsets.expected = 0
    /\ engine.at = "flush" => offsets.expected = engine.prepared
    /\ engine.at \in {"require", "settle"} => offsets.expected \in {0, engine.prepared}

\* A delivery is the one after the current offset until it is flushed.
Prepared ==
    /\ engine.at \in Installed \cup {"install"} => engine.prepared # 0
    /\ engine.at \in {"install", "await", "arm", "flush"} =>
           engine.prepared = offsets.current + 1
    /\ engine.at \in {"require", "settle"} =>
           \/ engine.prepared = offsets.current + 1
           \/ engine.prepared = offsets.current

\* Nothing is armed or flushed without an acknowledgement, and what settles
\* without an error was committed.
Decided ==
    /\ engine.at \in {"arm", "flush", "require"} => decision = "ACK"
    /\ engine.at = "settle" => decision # "none"
    /\ engine.at = "settle" /\ decision = "ACK" /\ ~engine.failed =>
           offsets.expected = 0 /\ engine.prepared = offsets.current
    /\ exchange.closed /\ exchange.outstanding # 0 => decision # "none"
    /\ decision = "ABORT" /\ exchange.outstanding # 0 => exchange.closed

\* The engine thread does not run before start().
NotStarted == host.at = "created" => engine.at = "none"

Callback == NotStarted /\ Outstanding /\ Armed /\ Prepared /\ Decided

\* The answer that the engine thread is acting on.
Acknowledged == decision = "ACK" /\ exchange.outstanding # 0

\* What the host took from the exchange is still there, undecided, unless the
\* exchange was closed: it is the delivery after the current offset.
Fresh(delivery) ==
    /\ delivery = offsets.current + 1
    /\ exchange.closed \/ (exchange.outstanding = delivery /\ decision = "none")

Holds ==
    /\ host.frame # 0 => host.at = "polled" /\ Fresh(host.frame)
    /\ host.held # 0 /\ host.at # "acking" => host.at = "idle" /\ Fresh(host.held)
    /\ host.poisoned => /\ host.held = 0
                        /\ host.at \notin {"polling", "polled", "acking"}

\* The host waits for the delivery it answered, and for no other.
Acknowledges ==
    /\ host.at = "acking" => host.held # 0 /\ host.held = durable
    /\ host.at = "acking" /\ settled = "no" =>
           Acknowledged /\ exchange.outstanding = host.held
    /\ host.at = "acking" /\ settled = "ok" => offsets.current = host.held
    /\ host.at = "acking" /\ settled = "error" => engine.at \in Ended
    /\ Acknowledged => /\ exchange.outstanding = durable
                       /\ host.poisoned \/ (host.at = "acking" /\ settled = "no")

\* The database, the offset store and the host's checkpoint, in this order.
Frontiers ==
    /\ source <= offsets.current
    /\ offsets.current <= durable /\ durable <= offsets.current + 1

Delivery == Holds /\ Acknowledges /\ Frontiers

\* States from which the connector may still reach RUNNING.
Opening == {"CREATED", "STARTING", "RUNNING"}

\* A connector whose exchange is closed is not running, and will not run.
Closing ==
    /\ host.at # "none" /\ exchange.closed => state \notin Opening
    /\ engine.at \in {"close", "dead"} => state \notin Opening
    /\ stopCall.observed = "STOPPED" => state \notin Opening

IInv == TypeOK /\ Callback /\ Delivery /\ Closing

-----------------------------------------------------------------------------
(* Types.                                                                  *)

\* close() keeps the types, whoever calls it.
LEMMA CloseTypes ==
    ASSUME TypeOK, Close
    PROVE  /\ exchange' \in ExchangeType
           /\ decision' \in {"none", "ACK", "ABORT"}
<1>1. exchange' \in ExchangeType
  BY DEF TypeOK, ExchangeType, Close
<1>2. decision' \in {"none", "ACK", "ABORT"}
  BY DEF TypeOK, Close
<1> QED BY <1>1, <1>2

\* The host's steps keep the types.
LEMMA HostTypes ==
    ASSUME TypeOK, HostStep
    PROVE  TypeOK'
<1>1. CASE Create
  <2>1. host' \in HostType
    <3>1. host' = [at |-> "created", held |-> 0, frame |-> 0, poisoned |-> FALSE]
      BY <1>1 DEF Create
    <3> QED BY <3>1 DEF HostType
  <2>2. exchange' \in ExchangeType BY <1>1 DEF Create, ExchangeType
  <2>3. offsets' \in OffsetsType BY <1>1 DEF TypeOK, Create, Register, OffsetsType
  <2>4. engine' \in EngineType BY <1>1 DEF Create, EngineType
  <2>5. stopCall' \in StopCallType BY <1>1 DEF Create, StopCallType
  <2> QED BY <1>1, <2>1, <2>2, <2>3, <2>4, <2>5 DEF TypeOK, Create, States
<1>2. CASE DiscardCreated
  <2>1. host' \in HostType BY <1>2 DEF TypeOK, DiscardCreated, HostType
  <2> QED BY <1>2, <2>1, CloseTypes DEF TypeOK, DiscardCreated, States
<1>3. CASE Start
  <2>1. host' \in HostType BY <1>3 DEF TypeOK, Start, HostType
  <2>2. engine' \in EngineType BY <1>3 DEF TypeOK, Start, EngineType
  <2> QED BY <1>3, <2>1, <2>2 DEF TypeOK, Start, States
<1>4. CASE StartSucceeds
  <2>1. host' \in HostType BY <1>4 DEF TypeOK, StartSucceeds, HostType
  <2> QED BY <1>4, <2>1 DEF TypeOK, StartSucceeds
<1>5. CASE StartFails \/ DropConnector
  <2>1. Abandon BY <1>5 DEF StartFails, DropConnector
  <2>2. host' \in HostType BY <2>1 DEF TypeOK, Abandon, HostType
  <2> QED BY <2>1, <2>2, CloseTypes DEF TypeOK, Abandon
<1>6. CASE PollBegins
  <2>1. host' \in HostType BY <1>6 DEF TypeOK, PollBegins, HostType
  <2> QED BY <1>6, <2>1 DEF TypeOK, PollBegins, HostOnly
<1>7. CASE PollExchange
  <2>1. exchange.outstanding \in Nat BY DEF TypeOK, ExchangeType
  <2>2. (IF exchange.closed THEN 0 ELSE exchange.outstanding) \in Nat BY <2>1
  <2>3. host' \in HostType BY <1>7, <2>2 DEF TypeOK, PollExchange, HostType
  <2> QED BY <1>7, <2>3 DEF TypeOK, PollExchange, HostOnly
<1>8. CASE PollReturns
  <2>1. host.frame \in Nat BY DEF TypeOK, HostType
  <2>2. [host EXCEPT !.at = "idle", !.held = host.frame, !.frame = 0] \in HostType
    BY <2>1 DEF TypeOK, HostType
  <2>3. [host EXCEPT !.at = "idle", !.frame = 0, !.poisoned = TRUE] \in HostType
    BY DEF TypeOK, HostType
  <2>4. host' \in HostType BY <1>8, <2>2, <2>3 DEF PollReturns
  <2> QED BY <1>8, <2>4 DEF TypeOK, PollReturns, HostOnly
<1>9. CASE DropDelivery
  <2>1. host' \in HostType BY <1>9 DEF TypeOK, DropDelivery, HostType
  <2> QED BY <1>9, <2>1 DEF TypeOK, DropDelivery, HostOnly
<1>10. CASE Persist
  BY <1>10 DEF TypeOK, Persist, HostOnly, HostType
<1>11. CASE Ack
  <2>1. [host EXCEPT !.at = "acking"] \in HostType BY DEF TypeOK, HostType
  <2>2. [host EXCEPT !.held = 0, !.poisoned = TRUE] \in HostType BY DEF TypeOK, HostType
  <2>3. host' \in HostType BY <1>11, <2>1, <2>2 DEF Ack
  <2> QED BY <1>11, <2>3 DEF TypeOK, Ack, HostOnly
<1>12. CASE AckSettles
  <2>1. host' \in HostType BY <1>12 DEF TypeOK, AckSettles, HostType
  <2> QED BY <1>12, <2>1 DEF TypeOK, AckSettles, HostOnly
<1>13. CASE AckFails
  <2>1. host' \in HostType BY <1>13 DEF TypeOK, AckFails, HostType
  <2> QED BY <1>13, <2>1 DEF TypeOK, AckFails, HostOnly
<1>14. CASE HostDispose
  <2>1. host' \in HostType BY <1>14 DEF TypeOK, HostDispose, HostType
  <2> QED BY <1>14, <2>1 DEF TypeOK, HostDispose, States
<1> QED
  BY <1>1, <1>2, <1>3, <1>4, <1>5, <1>6, <1>7, <1>8, <1>9, <1>10, <1>11, <1>12, <1>13, <1>14
  DEF HostStep

\* So do stop(), the reclaim thread and the worker.
LEMMA StopTypes ==
    ASSUME TypeOK, StopStep \/ ReclaimStep \/ WorkerStep
    PROVE  TypeOK'
<1>1. CASE StopObserves
  <2>1. [host EXCEPT !.at = "stopping", !.held = 0] \in HostType BY DEF TypeOK, HostType
  <2>2. host' \in HostType BY <1>1, <2>1 DEF TypeOK, StopObserves
  <2>3. stopCall' \in StopCallType BY <1>1 DEF TypeOK, StopObserves, StopCallType
  <2> QED BY <1>1, <2>2, <2>3 DEF TypeOK, StopObserves
<1>2. CASE StopUpdates
  <2>1. stopCall' \in StopCallType BY <1>2 DEF StopUpdates, StopCallType
  <2> QED BY <1>2, <2>1, CloseTypes DEF TypeOK, StopUpdates, States
<1>3. CASE StopReturns
  <2>1. host' \in HostType BY <1>3 DEF TypeOK, StopReturns, HostType
  <2>2. stopCall' \in StopCallType BY <1>3 DEF TypeOK, StopReturns, StopCallType
  <2> QED BY <1>3, <2>1, <2>2 DEF TypeOK, StopReturns
<1>4. CASE ReclaimStep
  BY <1>4 DEF TypeOK, ReclaimStep, ReclaimJoins, ReclaimDisposes, States
<1>5. CASE WorkerCloses
  <2>1. engine' \in EngineType BY <1>5 DEF TypeOK, WorkerCloses, EngineType
  <2> QED BY <1>5, <2>1 DEF TypeOK, WorkerCloses, WorkerOnly
<1>6. CASE WorkerCloseFails \/ WorkerFinishes
  BY <1>6 DEF TypeOK, WorkerCloseFails, WorkerFinishes, WorkerOnly, States
<1> QED BY <1>1, <1>2, <1>3, <1>4, <1>5, <1>6 DEF StopStep, WorkerStep

\* So does the engine thread.
LEMMA EngineTypes ==
    ASSUME TypeOK, EngineStep
    PROVE  TypeOK'
<1>1. CASE Install
  <2>1. engine.prepared \in Nat BY DEF TypeOK, EngineType
  <2>2. [exchange EXCEPT !.outstanding = engine.prepared] \in ExchangeType
    BY <2>1 DEF TypeOK, ExchangeType
  <2>3. exchange' \in ExchangeType BY <1>1, <2>2 DEF TypeOK, Install
  <2>4. engine' \in EngineType BY <1>1 DEF TypeOK, Install, EngineType, Installed
  <2> QED BY <1>1, <2>3, <2>4 DEF TypeOK, Install, EngineOnly
<1>2. CASE AwaitDecision
  <2>1. engine' \in EngineType BY <1>2 DEF TypeOK, AwaitDecision, EngineType, Installed
  <2> QED BY <1>2, <2>1 DEF TypeOK, AwaitDecision, EngineOnly
<1>3. CASE Arm
  <2>1. engine.prepared \in Nat BY DEF TypeOK, EngineType
  <2>2. [offsets EXCEPT !.expected = engine.prepared] \in OffsetsType
    BY <2>1 DEF TypeOK, OffsetsType
  <2>3. offsets' \in OffsetsType BY <1>3, <2>2 DEF TypeOK, Arm
  <2>4. engine' \in EngineType BY <1>3 DEF TypeOK, Arm, EngineType, Installed
  <2> QED BY <1>3, <2>3, <2>4 DEF TypeOK, Arm, EngineOnly
<1>4. CASE Flush
  <2>1. offsets.expected \in Nat BY DEF TypeOK, OffsetsType
  <2>2. [offsets EXCEPT !.current = offsets.expected, !.expected = 0] \in OffsetsType
    BY <2>1 DEF TypeOK, OffsetsType
  <2>3. offsets' \in OffsetsType BY <1>4, <2>2 DEF TypeOK, Flush, Merge
  <2>4. engine' \in EngineType BY <1>4 DEF TypeOK, Flush, EngineType, Installed
  <2> QED BY <1>4, <2>1, <2>3, <2>4 DEF TypeOK, Flush, EngineOnly
<1>5. CASE RequireCommitted
  <2>1. engine' \in EngineType BY <1>5 DEF TypeOK, RequireCommitted, EngineType, Installed
  <2> QED BY <1>5, <2>1 DEF TypeOK, RequireCommitted, EngineOnly
<1>6. CASE Settle
  <2>1. engine' \in EngineType BY <1>6 DEF TypeOK, Settle, EngineType
  <2>2. offsets' \in OffsetsType BY <1>6 DEF TypeOK, Settle, OffsetsType
  <2>3. exchange' \in ExchangeType BY <1>6 DEF TypeOK, Settle, ExchangeType
  <2> QED BY <1>6, <2>1, <2>2, <2>3 DEF TypeOK, Settle, EngineOnly
<1>7. CASE EngineCompletes
  <2>1. engine' \in EngineType BY <1>7 DEF TypeOK, EngineCompletes, EngineType
  <2>2. offsets' \in OffsetsType BY <1>7 DEF TypeOK, EngineCompletes, OffsetsType
  <2> QED BY <1>7, <2>1, <2>2 DEF TypeOK, EngineCompletes, EngineOnly, Fail, States
<1>8. CASE EnginePublishes
  <2>1. engine' \in EngineType BY <1>8 DEF TypeOK, EnginePublishes, EngineType
  <2>2. exchange' \in ExchangeType /\ decision' \in {"none", "ACK", "ABORT"}
    BY <1>8, CloseTypes DEF TypeOK, EnginePublishes
  <2> QED BY <1>8, <2>1, <2>2 DEF TypeOK, EnginePublishes, EngineOnly, States
<1>9. CASE EngineStarts
  <2>1. engine' \in EngineType BY <1>9 DEF TypeOK, EngineStarts, EngineType
  <2>2. offsets' \in OffsetsType BY <1>9 DEF TypeOK, EngineStarts, OffsetsType
  <2> QED BY <1>9, <2>1, <2>2 DEF TypeOK, EngineStarts, EngineOnly, States
<1>10. CASE HandleBatch
  <2>1. Preview \in Nat BY DEF TypeOK, Preview, OffsetsType
  <2>2. [engine EXCEPT !.at = "install", !.prepared = Preview] \in EngineType
    BY <2>1 DEF TypeOK, EngineType
  <2>3. [engine EXCEPT !.at = "returning", !.failed = TRUE] \in EngineType
    BY DEF TypeOK, EngineType
  <2>4. engine' \in EngineType BY <1>10, <2>2, <2>3 DEF HandleBatch
  <2> QED BY <1>10, <2>4 DEF TypeOK, HandleBatch, EngineOnly
<1>11. CASE StoreStops
  <2>1. offsets' \in OffsetsType BY <1>11 DEF TypeOK, StoreStops, OffsetsType
  <2> QED BY <1>11, <2>1 DEF TypeOK, StoreStops, EngineOnly
<1>12. CASE PollingStopped
  BY <1>12 DEF TypeOK, PollingStopped, EngineOnly, States
<1>13. ASSUME NEW failed \in BOOLEAN, EngineStops(failed) PROVE TypeOK'
  <2>1. engine' \in EngineType BY <1>13 DEF TypeOK, EngineStops, EngineType
  <2> QED BY <1>13, <2>1 DEF TypeOK, EngineStops, EngineOnly
<1>14. CASE SourceConfirms
  <2>1. source' \in Nat BY <1>14 DEF TypeOK, SourceConfirms, OffsetsType
  <2> QED BY <1>14, <2>1 DEF TypeOK, SourceConfirms, EngineOnly
<1> QED
  BY <1>1, <1>2, <1>3, <1>4, <1>5, <1>6, <1>7, <1>8, <1>9, <1>10, <1>11, <1>12, <1>13, <1>14
  DEF EngineStep, EngineCode

\* The types are invariant.
LEMMA Types ==
    ASSUME TypeOK, [Next]_vars
    PROVE  TypeOK'
<1>1. CASE UNCHANGED vars BY <1>1 DEF TypeOK, vars
<1> QED BY <1>1, HostTypes, StopTypes, EngineTypes DEF Next

-----------------------------------------------------------------------------
(* The delivery in the callback.                                           *)

\* What the provers need to know of the types here.
LEMMA Numbers ==
    ASSUME TypeOK
    PROVE  /\ exchange.outstanding \in Nat /\ engine.prepared \in Nat
           /\ offsets.current \in Nat /\ offsets.expected \in Nat
           /\ host.held \in Nat /\ host.frame \in Nat
           /\ source \in Nat /\ durable \in Nat
           /\ decision \in {"none", "ACK", "ABORT"} /\ settled \in {"no", "ok", "error"}
  BY DEF TypeOK, ExchangeType, EngineType, OffsetsType, HostType

\* Closing the exchange decides what is outstanding and touches nothing else.
LEMMA CloseCallback ==
    ASSUME TypeOK, Callback, Close, UNCHANGED <<offsets, source, engine>>,
           host'.at # "created" \/ UNCHANGED host
    PROVE  Callback'
<1>1. exchange'.outstanding = exchange.outstanding
  BY DEF TypeOK, ExchangeType, Close
<1>2. decision # "none" => decision' = decision
  BY DEF Close
<1>3. exchange.outstanding # 0 => decision' # "none"
  BY DEF Close
<1>4. NotStarted' /\ Outstanding' /\ Armed' /\ Prepared'
  BY <1>1 DEF Callback, NotStarted, Outstanding, Armed, Prepared, Installed
<1>5. Decided'
  BY <1>1, <1>2, <1>3 DEF Callback, Outstanding, Prepared, Decided, Installed, Close
<1> QED BY <1>4, <1>5 DEF Callback

\* The host answers a delivery that waits for its decision, and starts the engine
\* thread only once.
LEMMA HostCallback ==
    ASSUME TypeOK, Callback, HostStep
    PROVE  Callback'
<1>1. CASE Create
  BY <1>1 DEF Create, Register, Callback, NotStarted, Outstanding, Armed, Prepared, Decided, Installed
<1>2. CASE DiscardCreated
  BY <1>2, CloseCallback DEF TypeOK, HostType, DiscardCreated
<1>3. CASE Start
  <2>1. engine'.at = "starting" BY <1>3 DEF TypeOK, EngineType, Start
  <2>2. host'.at = "starting" BY <1>3 DEF TypeOK, HostType, Start
  <2>3. engine.at = "none" BY <1>3 DEF Start, Callback, NotStarted
  <2> QED
    BY <1>3, <2>1, <2>2, <2>3
    DEF Start, Callback, NotStarted, Outstanding, Armed, Prepared, Decided, Installed
<1>5. CASE StartFails \/ DropConnector
  BY <1>5, CloseCallback DEF TypeOK, HostType, StartFails, DropConnector, Abandon
<1>6. CASE Ack
  <2>1. host'.at # "created" BY <1>6 DEF TypeOK, HostType, Ack
  <2>2. CASE exchange.outstanding # 0 /\ decision = "none"
    <3>1. decision' = "ACK" BY <1>6, <2>2 DEF Ack
    <3>2. engine.at = "await" BY <2>2 DEF Callback, Outstanding, Decided, Installed
    <3> QED
      BY <1>6, <2>1, <3>1, <3>2
      DEF Ack, HostOnly, Callback, NotStarted, Outstanding, Armed, Prepared, Decided, Installed
  <2>3. CASE ~(exchange.outstanding # 0 /\ decision = "none")
    BY <1>6, <2>1, <2>3
    DEF Ack, HostOnly, Callback, NotStarted, Outstanding, Armed, Prepared, Decided
  <2> QED BY <2>2, <2>3
<1>7. CASE /\ UNCHANGED <<exchange, decision, offsets, source, engine>>
           /\ host'.at # "created" \/ UNCHANGED host
  BY <1>7 DEF Callback, NotStarted, Outstanding, Armed, Prepared, Decided
<1>8. CASE StartSucceeds \/ PollBegins \/ PollExchange \/ PollReturns \/ HostDispose
  BY <1>7, <1>8
  DEF TypeOK, HostType, HostOnly, StartSucceeds, PollBegins, PollExchange, PollReturns, HostDispose
<1>9. CASE DropDelivery \/ Persist \/ AckSettles \/ AckFails
  BY <1>7, <1>9 DEF TypeOK, HostType, HostOnly, DropDelivery, Persist, AckSettles, AckFails
<1> QED
  BY <1>1, <1>2, <1>3, <1>5, <1>6, <1>8, <1>9 DEF HostStep

\* stop(), the reclaim thread and the worker only close.
LEMMA StopCallback ==
    ASSUME TypeOK, Callback, StopStep \/ ReclaimStep \/ WorkerStep
    PROVE  Callback'
<1>1. CASE StopUpdates
  BY <1>1, CloseCallback DEF StopUpdates
<1>2. CASE WorkerCloses
  <2>1. /\ engine'.at = engine.at /\ engine'.prepared = engine.prepared
        /\ engine'.failed = engine.failed
    BY <1>2 DEF TypeOK, EngineType, WorkerCloses
  <2> QED
    BY <1>2, <2>1
    DEF WorkerCloses, WorkerOnly, Callback, NotStarted, Outstanding, Armed, Prepared, Decided
<1>3. CASE /\ UNCHANGED <<exchange, decision, offsets, source, engine>>
           /\ host'.at # "created" \/ UNCHANGED host
  BY <1>3 DEF Callback, NotStarted, Outstanding, Armed, Prepared, Decided
<1>4. CASE StopObserves \/ StopReturns
  BY <1>3, <1>4 DEF TypeOK, HostType, StopObserves, StopReturns
<1>5. CASE ReclaimStep \/ WorkerCloseFails \/ WorkerFinishes
  BY <1>3, <1>5
  DEF ReclaimStep, ReclaimJoins, ReclaimDisposes, WorkerOnly, WorkerCloseFails, WorkerFinishes
<1> QED BY <1>1, <1>2, <1>4, <1>5 DEF StopStep, WorkerStep

\* The engine thread takes a delivery from its preview to its settlement.
LEMMA EngineCallback ==
    ASSUME TypeOK, Callback, EngineStep
    PROVE  Callback'
<1> USE DEF Callback, NotStarted, Outstanding, Armed, Prepared, Decided, Installed
<1>1. CASE Install
  <2>1. CASE exchange.closed
    BY <1>1, <2>1 DEF TypeOK, EngineType, Install, EngineOnly
  <2>2. CASE ~exchange.closed
    <3>1. exchange'.outstanding = engine.prepared /\ ~exchange'.closed
      BY <1>1, <2>2 DEF TypeOK, ExchangeType, Install
    <3>2. engine'.at = "await" /\ engine'.prepared = engine.prepared
      BY <1>1, <2>2 DEF TypeOK, EngineType, Install
    <3> QED BY <1>1, <3>1, <3>2 DEF Install, EngineOnly
  <2> QED BY <2>1, <2>2
<1>2. CASE AwaitDecision
  BY <1>2 DEF TypeOK, EngineType, AwaitDecision, EngineOnly
<1>3. CASE Arm
  <2>1. CASE offsets.started /\ offsets.expected = 0
    <3>1. offsets'.expected = engine.prepared /\ offsets'.current = offsets.current
      BY <1>3, <2>1 DEF TypeOK, OffsetsType, Arm
    <3>2. engine'.at = "flush" /\ engine'.prepared = engine.prepared
      BY <1>3, <2>1 DEF TypeOK, EngineType, Arm
    <3> QED BY <1>3, <3>1, <3>2 DEF Arm, EngineOnly
  <2>2. CASE ~(offsets.started /\ offsets.expected = 0)
    <3>1. engine'.at = "settle" /\ engine'.prepared = engine.prepared /\ engine'.failed
      BY <1>3, <2>2 DEF TypeOK, EngineType, Arm
    <3> QED BY <1>3, <2>2, <3>1 DEF Arm, EngineOnly
  <2> QED BY <2>1, <2>2
<1>4. CASE Flush
  <2>1. CASE /\ offsets' = [offsets EXCEPT !.current = offsets.expected, !.expected = 0]
             /\ engine' = [engine EXCEPT !.at = "require"]
    <3>1. offsets'.current = offsets.expected /\ offsets'.expected = 0
      BY <2>1 DEF TypeOK, OffsetsType
    <3>2. engine'.at = "require" /\ engine'.prepared = engine.prepared
      BY <2>1 DEF TypeOK, EngineType
    <3> QED BY <1>4, <2>1, <3>1, <3>2 DEF Flush, EngineOnly
  <2>2. CASE /\ engine' = [engine EXCEPT !.at = "require"]
             /\ UNCHANGED offsets
    <3>1. engine'.at = "require" /\ engine'.prepared = engine.prepared
      BY <2>2 DEF TypeOK, EngineType
    <3> QED BY <1>4, <2>2, <3>1 DEF Flush, EngineOnly
  <2>3. CASE /\ engine' = [engine EXCEPT !.at = "settle", !.failed = TRUE]
             /\ UNCHANGED offsets
    <3>1. engine'.at = "settle" /\ engine'.prepared = engine.prepared /\ engine'.failed
      BY <2>3 DEF TypeOK, EngineType
    <3> QED BY <1>4, <2>3, <3>1 DEF Flush, EngineOnly
  <2> QED BY <1>4, <2>1, <2>2, <2>3 DEF Flush, Merge
<1>5. CASE RequireCommitted
  <2>1. /\ engine'.at = "settle" /\ engine'.prepared = engine.prepared
        /\ engine'.failed = (offsets.expected # 0 \/ offsets.current # engine.prepared)
    BY <1>5 DEF TypeOK, EngineType, RequireCommitted
  <2> QED BY <1>5, <2>1 DEF RequireCommitted, EngineOnly
<1>6. CASE Settle
  <2>1. exchange'.outstanding = 0 BY <1>6 DEF TypeOK, ExchangeType, Settle
  <2>2. engine'.at \in {"returning", "polling"} BY <1>6 DEF TypeOK, EngineType, Settle
  <2>3. offsets'.expected = 0
    <3>1. offsets.expected \in {0, engine.prepared} BY <1>6 DEF Settle
    <3> QED BY <1>6, <3>1 DEF TypeOK, OffsetsType, Settle
  <2> QED BY <1>6, <2>1, <2>2, <2>3 DEF Settle, EngineOnly
<1>7. CASE EngineCompletes
  <2>1. engine'.at = "publish" BY <1>7 DEF TypeOK, EngineType, EngineCompletes
  <2>2. offsets'.expected = offsets.expected BY <1>7 DEF TypeOK, OffsetsType, EngineCompletes
  <2> QED BY <1>7, <2>1, <2>2 DEF EngineCompletes, EngineOnly
<1>8. CASE EnginePublishes
  <2>1. engine.at \in {"publish", "close"} /\ engine'.at \in {"close", "dead"}
    BY <1>8 DEF TypeOK, EngineType, EnginePublishes
  <2>2. exchange'.outstanding = exchange.outstanding
    BY <1>8 DEF TypeOK, ExchangeType, EnginePublishes, Close
  <2> QED BY <1>8, <2>1, <2>2 DEF EnginePublishes, EngineOnly
<1>9. CASE EngineStarts
  <2>1. engine.at = "starting" /\ engine'.at = "polling"
    BY <1>9 DEF TypeOK, EngineType, EngineStarts
  <2>2. offsets'.expected = offsets.expected BY <1>9 DEF TypeOK, OffsetsType, EngineStarts
  <2> QED BY <1>9, <2>1, <2>2 DEF EngineStarts, EngineOnly
<1>10. CASE HandleBatch
  <2>1. CASE engine' = [engine EXCEPT !.at = "install", !.prepared = Preview]
    <3>1. engine'.at = "install" /\ engine'.prepared = offsets.current + 1
      BY <2>1 DEF TypeOK, EngineType, Preview
    <3>2. engine'.prepared # 0 BY <3>1, Numbers
    <3> QED BY <1>10, <3>1, <3>2 DEF HandleBatch, EngineOnly
  <2>2. CASE engine' = [engine EXCEPT !.at = "returning", !.failed = TRUE]
    <3>1. engine'.at = "returning" BY <2>2 DEF TypeOK, EngineType
    <3> QED BY <1>10, <3>1 DEF HandleBatch, EngineOnly
  <2> QED BY <1>10, <2>1, <2>2 DEF HandleBatch
<1>11. CASE StoreStops
  <2>1. offsets'.expected = offsets.expected /\ offsets'.current = offsets.current
    BY <1>11 DEF TypeOK, OffsetsType, StoreStops
  <2> QED BY <1>11, <2>1 DEF StoreStops, EngineOnly
<1>12. CASE PollingStopped
  BY <1>12 DEF PollingStopped, EngineOnly
<1>13. ASSUME NEW failed \in BOOLEAN, EngineStops(failed) PROVE Callback'
  <2>1. engine'.at = "returning" BY <1>13 DEF TypeOK, EngineType, EngineStops
  <2> QED BY <1>13, <2>1 DEF EngineStops, EngineOnly
<1>14. CASE SourceConfirms
  BY <1>14 DEF SourceConfirms, EngineOnly
<1> QED
  BY <1>1, <1>2, <1>3, <1>4, <1>5, <1>6, <1>7, <1>8, <1>9, <1>10, <1>11, <1>12, <1>13, <1>14
  DEF EngineStep, EngineCode

-----------------------------------------------------------------------------
(* The delivery in the host's hands.                                       *)

\* A step that touches neither the delivery nor the checkpoints.
LEMMA QuietDelivery ==
    ASSUME Delivery, offsets'.current = offsets.current,
           engine.at \in Ended => engine'.at \in Ended,
           UNCHANGED <<exchange, decision, settled, source, durable, host>>
    PROVE  Delivery'
  BY DEF Delivery, Holds, Acknowledges, Frontiers, Fresh, Acknowledged

\* A closed exchange answers nothing: what the host holds it cannot acknowledge.
LEMMA CloseDelivery ==
    ASSUME TypeOK, Delivery, Close, UNCHANGED <<settled, offsets, source, durable>>,
           engine.at \in Ended => engine'.at \in Ended,
           \/ UNCHANGED host
           \/ /\ host'.at = "none" /\ host'.held = 0 /\ host'.frame = host.frame
              /\ host'.poisoned = host.poisoned
              /\ host.at \notin {"polled", "acking"}
    PROVE  Delivery'
<1>1. exchange'.outstanding = exchange.outstanding /\ exchange'.closed
  BY DEF TypeOK, ExchangeType, Close
<1>2. Acknowledged' <=> Acknowledged
  BY <1>1 DEF Acknowledged, Close
<1>3. Holds'
  BY <1>1 DEF Delivery, Holds, Fresh
<1>4. Acknowledges'
  BY <1>1, <1>2 DEF Delivery, Acknowledges
<1>5. Frontiers' BY DEF Delivery, Frontiers
<1> QED BY <1>3, <1>4, <1>5 DEF Delivery

\* The host takes, persists and answers the outstanding delivery and no other.
LEMMA HostDelivery ==
    ASSUME TypeOK, Callback, Delivery, HostStep
    PROVE  Delivery'
<1> USE DEF Delivery, Holds, Acknowledges, Frontiers, Fresh, Acknowledged
<1>0. TypeOK' BY HostTypes
<1>1. CASE Create
  BY <1>1, Numbers DEF Create, Register
<1>2. CASE DiscardCreated
  <2>1. /\ host'.at = "none" /\ host'.held = host.held /\ host'.frame = host.frame
        /\ host'.poisoned = host.poisoned
    BY <1>2 DEF TypeOK, HostType, DiscardCreated
  <2>2. host.at = "created" /\ host.held = 0 BY <1>2 DEF DiscardCreated
  <2> QED BY <1>2, <2>1, <2>2, CloseDelivery DEF DiscardCreated
<1>3. CASE Start \/ StartSucceeds
  <2>1. /\ host'.at \in {"starting", "idle"} /\ host'.held = host.held
        /\ host'.frame = host.frame /\ host'.poisoned = host.poisoned
    BY <1>3 DEF TypeOK, HostType, Start, StartSucceeds
  <2>2. host.held = 0 /\ host.frame = 0 /\ host.at # "acking"
    BY <1>3 DEF Start, StartSucceeds
  <2> QED BY <1>3, <2>1, <2>2 DEF Start, StartSucceeds
<1>4. CASE StartFails \/ DropConnector
  <2>1. /\ host'.at = "none" /\ host'.held = 0 /\ host'.frame = host.frame
        /\ host'.poisoned = host.poisoned
    BY <1>4 DEF TypeOK, HostType, StartFails, DropConnector, Abandon
  <2> QED BY <1>4, <2>1, CloseDelivery DEF StartFails, DropConnector, Abandon
<1>5. CASE PollBegins
  <2>1. /\ host'.at \in {"polling", "idle"} /\ host'.held = 0 /\ host'.frame = host.frame
        /\ host'.at = "polling" => host'.poisoned = host.poisoned
        /\ host'.at = "idle" => host'.poisoned
    BY <1>5 DEF TypeOK, HostType, PollBegins
  <2>2. ~host.poisoned /\ host.frame = 0 /\ host.at # "acking" BY <1>5 DEF PollBegins
  <2> QED BY <1>5, <2>1, <2>2 DEF PollBegins, HostOnly
<1>6. CASE PollExchange
  <2>1. /\ host'.at = "polled" /\ host'.held = host.held /\ host'.poisoned = host.poisoned
        /\ host'.frame = IF exchange.closed THEN 0 ELSE exchange.outstanding
    BY <1>6 DEF TypeOK, HostType, PollExchange
  <2>2. host.held = 0 /\ ~host.poisoned /\ ~Acknowledged BY <1>6 DEF PollExchange
  <2>3. CASE exchange.closed \/ exchange.outstanding = 0
    BY <1>6, <2>1, <2>2, <2>3 DEF PollExchange, HostOnly
  <2>4. CASE ~exchange.closed /\ exchange.outstanding # 0
    <3>1. decision # "ACK" BY <2>2, <2>4
    <3>2. decision = "none" BY <2>4, <3>1, Numbers DEF Callback, Decided
    <3>3. engine.at = "await" BY <2>4, <3>2 DEF Callback, Outstanding, Decided, Installed
    <3>4. exchange.outstanding = offsets.current + 1
      BY <3>3 DEF Callback, Outstanding, Prepared, Installed
    <3> QED BY <1>6, <2>1, <2>2, <2>4, <3>2, <3>4 DEF PollExchange, HostOnly
  <2> QED BY <2>3, <2>4
<1>7. CASE PollReturns
  <2>1. CASE state = "RUNNING"
    <3>1. /\ host'.at = "idle" /\ host'.held = host.frame /\ host'.frame = 0
          /\ host'.poisoned = host.poisoned
      BY <1>7, <2>1 DEF TypeOK, HostType, PollReturns
    <3> QED BY <1>7, <3>1 DEF PollReturns, HostOnly
  <2>2. CASE state # "RUNNING"
    <3>1. /\ host'.at = "idle" /\ host'.held = host.held /\ host'.frame = 0
          /\ host'.poisoned
      BY <1>7, <2>2 DEF TypeOK, HostType, PollReturns
    <3>2. host.held = 0 BY <1>7 DEF PollReturns
    <3> QED BY <1>7, <3>1, <3>2 DEF PollReturns, HostOnly
  <2> QED BY <2>1, <2>2
<1>8. CASE DropDelivery
  <2>1. /\ host'.at = "idle" /\ host'.held = 0 /\ host'.frame = host.frame
        /\ host'.poisoned = host.poisoned
    BY <1>8 DEF TypeOK, HostType, DropDelivery
  <2> QED BY <1>8, <2>1 DEF DropDelivery, HostOnly
<1>9. CASE Persist
  <2>1. host.held = offsets.current + 1 /\ ~host.poisoned /\ ~Acknowledged
    BY <1>9 DEF Persist
  <2> QED BY <1>9, <2>1, Numbers DEF Persist, HostOnly
<1>10. CASE Ack
  <2>1. CASE exchange.outstanding # 0 /\ decision = "none"
    <3>1. /\ host'.at = "acking" /\ host'.held = host.held /\ host'.frame = host.frame
          /\ host'.poisoned = host.poisoned
      BY <1>10, <2>1 DEF TypeOK, HostType, Ack
    <3>2. exchange.outstanding = host.held
      BY <1>10, <2>1 DEF Ack, Callback, Decided
    <3> QED BY <1>10, <2>1, <3>1, <3>2 DEF Ack, HostOnly
  <2>2. CASE ~(exchange.outstanding # 0 /\ decision = "none")
    <3>1. /\ host'.at = "idle" /\ host'.held = 0 /\ host'.frame = host.frame
          /\ host'.poisoned
      BY <1>10, <2>2 DEF TypeOK, HostType, Ack
    <3> QED BY <1>10, <2>2, <3>1 DEF Ack, HostOnly
  <2> QED BY <2>1, <2>2
<1>11. CASE AckSettles
  <2>1. /\ host'.at = "idle" /\ host'.held = 0 /\ host'.frame = host.frame
        /\ host'.poisoned = host.poisoned
    BY <1>11 DEF TypeOK, HostType, AckSettles
  <2> QED BY <1>11, <2>1 DEF AckSettles, HostOnly
<1>12. CASE AckFails
  <2>1. /\ host'.at = "idle" /\ host'.held = 0 /\ host'.frame = host.frame
        /\ host'.poisoned
    BY <1>12 DEF TypeOK, HostType, AckFails
  <2> QED BY <1>12, <2>1 DEF AckFails, HostOnly
<1>13. CASE HostDispose
  <2>1. /\ host'.at \in {"none", "idle"} /\ host'.held = host.held
        /\ host'.frame = host.frame /\ host'.poisoned = host.poisoned
    BY <1>13 DEF TypeOK, HostType, HostDispose
  <2> QED BY <1>13, <2>1 DEF HostDispose
<1> QED
  BY <1>1, <1>2, <1>3, <1>4, <1>5, <1>6, <1>7, <1>8, <1>9, <1>10, <1>11, <1>12, <1>13
  DEF HostStep

\* stop() takes the delivery from the host.
LEMMA StopDelivery ==
    ASSUME TypeOK, Callback, Delivery, StopStep \/ ReclaimStep \/ WorkerStep
    PROVE  Delivery'
<1>1. CASE StopObserves
  <2>1. CASE UNCHANGED host BY <1>1, <2>1, QuietDelivery DEF StopObserves
  <2>2. CASE host.at = "idle" /\ host' = [host EXCEPT !.at = "stopping", !.held = 0]
    <3>1. /\ host'.at = "stopping" /\ host'.held = 0 /\ host'.frame = host.frame
          /\ host'.poisoned = host.poisoned
      BY <2>2 DEF TypeOK, HostType
    <3> QED
      BY <1>1, <2>2, <3>1
      DEF StopObserves, Delivery, Holds, Acknowledges, Frontiers, Fresh, Acknowledged
  <2> QED BY <1>1, <2>1, <2>2 DEF StopObserves
<1>2. CASE StopUpdates
  BY <1>2, CloseDelivery DEF StopUpdates
<1>3. CASE StopReturns
  <2>1. CASE UNCHANGED host BY <1>3, <2>1, QuietDelivery DEF StopReturns
  <2>2. CASE /\ host.at = "stopping"
             /\ \/ host' = [host EXCEPT !.at = "disposing"]
                \/ host' = [host EXCEPT !.at = "idle"]
    <3>1. /\ host'.at \in {"disposing", "idle"} /\ host'.held = host.held
          /\ host'.frame = host.frame /\ host'.poisoned = host.poisoned
      BY <2>2 DEF TypeOK, HostType
    <3> QED
      BY <1>3, <2>2, <3>1
      DEF StopReturns, Delivery, Holds, Acknowledges, Frontiers, Fresh, Acknowledged
  <2> QED BY <1>3, <2>1, <2>2 DEF StopReturns
<1>4. CASE ReclaimStep \/ WorkerStep
  <2>1. engine'.at = engine.at
    BY <1>4
    DEF TypeOK, EngineType, ReclaimStep, ReclaimJoins, ReclaimDisposes, WorkerStep, WorkerOnly,
        WorkerCloses, WorkerCloseFails, WorkerFinishes
  <2> QED
    BY <1>4, <2>1, QuietDelivery
    DEF ReclaimStep, ReclaimJoins, ReclaimDisposes, WorkerStep, WorkerOnly, WorkerCloses,
        WorkerCloseFails, WorkerFinishes
<1> QED BY <1>1, <1>2, <1>3, <1>4 DEF StopStep

\* The engine thread makes no callback after its last one.
LEMMA EndedStays ==
    ASSUME TypeOK, EngineStep
    PROVE  engine.at \in Ended => engine'.at \in Ended
<1>1. CASE EngineCode
  BY <1>1
  DEF TypeOK, EngineType, EngineCode, Ended, Install, AwaitDecision, Arm, Flush, RequireCommitted,
      Settle, EngineCompletes, EnginePublishes
<1>2. CASE EngineStarts \/ HandleBatch \/ StoreStops \/ SourceConfirms \/ PollingStopped
  BY <1>2 DEF Ended, EngineStarts, HandleBatch, StoreStops, SourceConfirms, PollingStopped
<1>3. ASSUME NEW failed \in BOOLEAN, EngineStops(failed)
      PROVE  engine.at \in Ended => engine'.at \in Ended
  BY <1>3 DEF Ended, EngineStops
<1> QED BY <1>1, <1>2, <1>3 DEF EngineStep

\* The engine thread moves the checkpoints only for the answer it was given.
LEMMA EngineDelivery ==
    ASSUME TypeOK, Callback, Delivery, EngineStep
    PROVE  Delivery'
<1>0. engine.at \in Ended => engine'.at \in Ended BY EndedStays
<1>1. CASE Install
  <2>1. CASE exchange.closed
    BY <1>1, <2>1, <1>0, QuietDelivery DEF Install, EngineOnly
  <2>2. CASE ~exchange.closed
    <3>1. exchange.outstanding = 0
      BY <1>1 DEF Install, Callback, Outstanding, Installed
    <3>2. host.frame = 0 /\ (host.held = 0 \/ host.at = "acking")
      BY <2>2, <3>1 DEF Delivery, Holds, Fresh
    <3>3. decision' = "none" BY <1>1, <2>2 DEF Install
    <3> QED
      BY <1>0, <1>1, <3>1, <3>2, <3>3
      DEF Install, EngineOnly, Delivery, Holds, Acknowledges, Frontiers, Acknowledged
  <2> QED BY <2>1, <2>2
<1>2. CASE AwaitDecision \/ RequireCommitted \/ HandleBatch \/ PollingStopped
  BY <1>2, <1>0, QuietDelivery
  DEF AwaitDecision, RequireCommitted, HandleBatch, PollingStopped, EngineOnly
<1>3. CASE Arm
  <2>1. offsets'.current = offsets.current BY <1>3 DEF TypeOK, OffsetsType, Arm
  <2> QED BY <1>3, <2>1, <1>0, QuietDelivery DEF Arm, EngineOnly
<1>4. CASE Flush
  <2>1. CASE UNCHANGED offsets
    BY <1>4, <2>1, <1>0, QuietDelivery DEF Flush, EngineOnly
  <2>2. CASE offsets' = [offsets EXCEPT !.current = offsets.expected, !.expected = 0]
    <3>1. /\ Acknowledged /\ offsets.expected = exchange.outstanding
          /\ offsets.expected = offsets.current + 1
      BY <1>4 DEF Flush, Callback, Outstanding, Armed, Prepared, Decided, Installed, Acknowledged
    <3>2. offsets'.current = offsets.expected BY <2>2 DEF TypeOK, OffsetsType
    <3>3. offsets.expected = durable BY <3>1 DEF Delivery, Acknowledges
    <3>4. host.frame = 0 /\ (host.held = 0 \/ host.at = "acking")
      BY <3>1 DEF Delivery, Holds, Acknowledges
    <3>5. Holds' BY <1>4, <3>4 DEF Flush, EngineOnly, Delivery, Holds
    <3>6. Acknowledges'
      BY <1>0, <1>4, <2>2, <3>1, <3>2, <3>3
      DEF Flush, EngineOnly, Delivery, Acknowledges, Acknowledged
    <3>7. Frontiers'
      BY <1>4, <3>1, <3>2, <3>3, Numbers DEF Flush, EngineOnly, Delivery, Frontiers
    <3> QED BY <3>5, <3>6, <3>7 DEF Delivery
  <2> QED BY <1>4, <2>1, <2>2 DEF Flush, Merge
<1>5. CASE Settle
  <2>1. exchange'.outstanding = 0 /\ exchange'.closed = exchange.closed
    BY <1>5 DEF TypeOK, ExchangeType, Settle
  <2>2. offsets'.current = offsets.current BY <1>5 DEF TypeOK, OffsetsType, Settle
  <2>3. decision # "none" BY <1>5 DEF Settle, Callback, Decided
  <2>4. ~Acknowledged' BY <2>1 DEF Acknowledged
  <2>5. Holds'
    BY <1>5, <2>1, <2>2, <2>3 DEF Settle, EngineOnly, Delivery, Holds, Fresh
  <2>6. Acknowledges'
    <3>1. settled' = IF engine.failed THEN "error" ELSE "ok" BY <1>5 DEF Settle
    <3>2. ASSUME host.at = "acking", ~engine.failed
          PROVE  offsets.current = host.held
      <4>1. CASE decision = "ACK"
        <5>1. engine.prepared = offsets.current /\ exchange.outstanding = engine.prepared
          BY <1>5, <3>2, <4>1 DEF Settle, Callback, Outstanding, Decided, Installed
        <5>2. engine.prepared # 0 BY <1>5 DEF Settle, Callback, Prepared, Installed
        <5>3. Acknowledged BY <4>1, <5>1, <5>2 DEF Acknowledged
        <5>4. exchange.outstanding = host.held
          BY <3>2, <5>3 DEF Delivery, Holds, Acknowledges
        <5> QED BY <5>1, <5>4
      <4>2. CASE decision # "ACK"
        <5>1. settled # "error"
          BY <1>5, <3>2 DEF Settle, Delivery, Acknowledges, Ended
        <5>2. settled = "ok"
          BY <3>2, <4>2, <5>1, Numbers DEF Delivery, Acknowledges, Acknowledged
        <5> QED BY <3>2, <5>2 DEF Delivery, Acknowledges
      <4> QED BY <4>1, <4>2
    <3>3. engine.failed => engine'.at = "returning" BY <1>5 DEF TypeOK, EngineType, Settle
    <3> QED
      BY <1>5, <2>2, <2>4, <3>1, <3>2, <3>3
      DEF Settle, EngineOnly, Delivery, Acknowledges, Ended
  <2>7. Frontiers' BY <1>5, <2>2 DEF Settle, EngineOnly, Delivery, Frontiers
  <2> QED BY <2>5, <2>6, <2>7 DEF Delivery
<1>6. CASE EngineCompletes \/ EngineStarts \/ StoreStops
  <2>1. offsets'.current = offsets.current
    BY <1>6 DEF TypeOK, OffsetsType, EngineCompletes, EngineStarts, StoreStops
  <2> QED
    BY <1>6, <2>1, <1>0, QuietDelivery DEF EngineCompletes, EngineStarts, StoreStops, EngineOnly
<1>7. CASE EnginePublishes
  BY <1>7, <1>0, QuietDelivery, CloseDelivery DEF EnginePublishes, EngineOnly
<1>8. ASSUME NEW failed \in BOOLEAN, EngineStops(failed) PROVE Delivery'
  BY <1>8, <1>0, QuietDelivery DEF EngineStops, EngineOnly
<1>9. CASE SourceConfirms
  <2>1. Holds' BY <1>9 DEF SourceConfirms, EngineOnly, Delivery, Holds, Fresh
  <2>2. Acknowledges'
    BY <1>9 DEF SourceConfirms, EngineOnly, Delivery, Acknowledges, Acknowledged
  <2>3. Frontiers'
    BY <1>9, Numbers DEF SourceConfirms, EngineOnly, Delivery, Frontiers
  <2> QED BY <2>1, <2>2, <2>3 DEF Delivery
<1> QED
  BY <1>1, <1>2, <1>3, <1>4, <1>5, <1>6, <1>7, <1>8, <1>9 DEF EngineStep, EngineCode

-----------------------------------------------------------------------------
(* The order of closing.                                                   *)

\* The host starts no connector whose exchange is closed.
LEMMA HostClosing ==
    ASSUME TypeOK, Closing, HostStep
    PROVE  Closing'
<1> USE DEF Closing, Opening
<1>1. CASE Create BY <1>1 DEF Create
<1>2. CASE DiscardCreated BY <1>2 DEF TypeOK, HostType, DiscardCreated
<1>3. CASE Start
  <2>1. state = "CREATED" /\ host.at # "none" BY <1>3 DEF Start
  <2>2. ~exchange.closed /\ stopCall.observed # "STOPPED" BY <2>1
  <2>3. engine'.at = "starting" BY <1>3 DEF TypeOK, EngineType, Start
  <2> QED BY <1>3, <2>2, <2>3 DEF Start
<1>4. CASE StartFails \/ DropConnector
  BY <1>4 DEF TypeOK, HostType, StartFails, DropConnector, Abandon
<1>5. CASE HostDispose
  BY <1>5 DEF TypeOK, HostType, HostDispose, Disposable, Terminal
<1>6. CASE host.at # "none" /\ UNCHANGED <<state, exchange, engine, stopCall>> BY <1>6
<1>7. CASE StartSucceeds \/ PollBegins \/ PollExchange \/ PollReturns
  BY <1>6, <1>7 DEF StartSucceeds, PollBegins, PollExchange, PollReturns, HostOnly
<1>8. CASE DropDelivery \/ Persist \/ Ack \/ AckSettles \/ AckFails
  BY <1>6, <1>8 DEF DropDelivery, Persist, Ack, AckSettles, AckFails, HostOnly
<1> QED BY <1>1, <1>2, <1>3, <1>4, <1>5, <1>7, <1>8 DEF HostStep

\* stop() changes the state with what it read before, and closes after that.
LEMMA StopClosing ==
    ASSUME TypeOK, Closing, StopStep \/ ReclaimStep \/ WorkerStep
    PROVE  Closing'
<1> USE DEF Closing, Opening
<1>1. CASE StopObserves
  BY <1>1 DEF TypeOK, HostType, StopObserves
<1>2. CASE StopUpdates
  BY <1>2 DEF TypeOK, ExchangeType, StopUpdates, Close
<1>3. CASE StopReturns
  <2>1. stopCall'.observed = stopCall.observed BY <1>3 DEF TypeOK, StopCallType, StopReturns
  <2>2. host'.at # "none" => host.at # "none" BY <1>3 DEF TypeOK, HostType, StopReturns
  <2> QED BY <1>3, <2>1, <2>2 DEF StopReturns
<1>4. CASE ReclaimStep
  BY <1>4 DEF ReclaimStep, ReclaimJoins, ReclaimDisposes
<1>5. CASE WorkerStep
  <2>1. engine'.at = engine.at
    BY <1>5
    DEF TypeOK, EngineType, WorkerStep, WorkerOnly, WorkerCloses, WorkerCloseFails, WorkerFinishes
  <2> QED
    BY <1>5, <2>1 DEF WorkerStep, WorkerOnly, WorkerCloses, WorkerCloseFails, WorkerFinishes
<1> QED BY <1>1, <1>2, <1>3, <1>4, <1>5 DEF StopStep

\* The engine thread publishes its end before it closes.
LEMMA EngineClosing ==
    ASSUME TypeOK, Closing, EngineStep
    PROVE  Closing'
<1> USE DEF Closing, Opening
<1>1. CASE Install \/ Settle
  <2>1. exchange'.closed = exchange.closed
    BY <1>1 DEF TypeOK, ExchangeType, Install, Settle
  <2>2. engine'.at \in {"await", "returning", "polling"}
    <3>1. CASE Install BY <3>1 DEF TypeOK, EngineType, Install
    <3>2. CASE Settle BY <3>2 DEF TypeOK, EngineType, Settle
    <3> QED BY <1>1, <3>1, <3>2
  <2> QED BY <1>1, <2>1, <2>2 DEF Install, Settle, EngineOnly
<1>2. CASE AwaitDecision \/ Arm \/ Flush \/ RequireCommitted \/ HandleBatch
  <2>1. engine'.at \notin {"close", "dead"}
    BY <1>2 DEF TypeOK, EngineType, AwaitDecision, Arm, Flush, RequireCommitted, HandleBatch
  <2> QED
    BY <1>2, <2>1 DEF AwaitDecision, Arm, Flush, RequireCommitted, HandleBatch, EngineOnly
<1>3. CASE EngineCompletes
  <2>1. engine'.at = "publish" BY <1>3 DEF TypeOK, EngineType, EngineCompletes
  <2> QED BY <1>3, <2>1 DEF EngineCompletes, Fail, EngineOnly
<1>4. CASE EnginePublishes
  <2>1. CASE engine.at = "publish"
    BY <1>4, <2>1 DEF TypeOK, EngineType, EnginePublishes, EngineOnly
  <2>2. CASE engine.at = "close"
    BY <1>4, <2>2 DEF TypeOK, EnginePublishes, EngineOnly
  <2> QED BY <1>4, <2>1, <2>2 DEF EnginePublishes
<1>5. CASE EngineStarts
  <2>1. engine'.at = "polling" BY <1>5 DEF TypeOK, EngineType, EngineStarts
  <2> QED BY <1>5, <2>1 DEF EngineStarts, EngineOnly
<1>6. CASE StoreStops \/ SourceConfirms \/ PollingStopped
  BY <1>6 DEF StoreStops, SourceConfirms, PollingStopped, EngineOnly
<1>7. ASSUME NEW failed \in BOOLEAN, EngineStops(failed) PROVE Closing'
  <2>1. engine'.at = "returning" BY <1>7 DEF TypeOK, EngineType, EngineStops
  <2> QED BY <1>7, <2>1 DEF EngineStops, EngineOnly
<1> QED BY <1>1, <1>2, <1>3, <1>4, <1>5, <1>6, <1>7 DEF EngineStep, EngineCode

-----------------------------------------------------------------------------
(* The theorems.                                                           *)

\* Before the first connector.
LEMMA Initially == Init => IInv
<1> SUFFICES ASSUME Init PROVE IInv OBVIOUS
<1>1. TypeOK
  BY DEF Init, TypeOK, States, ExchangeType, OffsetsType, EngineType, HostType, StopCallType
<1>2. Callback
  BY DEF Init, Callback, NotStarted, Outstanding, Armed, Prepared, Decided, Installed
<1>3. Delivery
  BY DEF Init, Delivery, Holds, Acknowledges, Acknowledged, Frontiers
<1>4. Closing BY DEF Init, Closing, Opening
<1> QED BY <1>1, <1>2, <1>3, <1>4 DEF IInv

\* Every step of every thread keeps the invariant.
LEMMA Inductive == IInv /\ [Next]_vars => IInv'
<1> SUFFICES ASSUME IInv, [Next]_vars PROVE IInv' OBVIOUS
<1>0. TypeOK /\ Callback /\ Delivery /\ Closing BY DEF IInv
<1>1. TypeOK' BY <1>0, Types
<1>2. CASE HostStep
  BY <1>0, <1>1, <1>2, HostCallback, HostDelivery, HostClosing DEF IInv
<1>3. CASE StopStep \/ ReclaimStep \/ WorkerStep
  BY <1>0, <1>1, <1>3, StopCallback, StopDelivery, StopClosing DEF IInv
<1>4. CASE EngineStep
  BY <1>0, <1>1, <1>4, EngineCallback, EngineDelivery, EngineClosing DEF IInv
<1>5. CASE UNCHANGED vars
  <2>1. Callback'
    BY <1>0, <1>5 DEF vars, Callback, NotStarted, Outstanding, Armed, Prepared, Decided
  <2>2. Delivery' BY <1>0, <1>5, QuietDelivery DEF vars
  <2>3. Closing' BY <1>0, <1>5 DEF vars, Closing
  <2> QED BY <1>1, <2>1, <2>2, <2>3 DEF IInv
<1> QED BY <1>2, <1>3, <1>4, <1>5 DEF Next

\* The invariant holds in every reachable state.
LEMMA Invariant == Spec => []IInv
  BY Initially, Inductive, PTL DEF Spec

(***************************************************************************)
(* The database is never told that it may forget what the host has not     *)
(* made durable (source <= durable): the offset store is armed only with   *)
(* the acknowledged delivery, which is the durable one, whichever thread   *)
(* closed, abandoned or timed out in between.                              *)
(***************************************************************************)
THEOREM BridgeNeverAheadOfHost == Spec => []NeverAheadOfHost
<1>1. IInv => NeverAheadOfHost
  <2> SUFFICES ASSUME IInv PROVE NeverAheadOfHost OBVIOUS
  <2>1. TypeOK /\ Frontiers BY DEF IInv, Delivery
  <2> QED BY <2>1, Numbers DEF Frontiers, NeverAheadOfHost
<1> QED BY <1>1, Invariant, PTL

(***************************************************************************)
(* Redeliveries and restarts leave no gap: what poll() hands to the host   *)
(* is the delivery after its durable checkpoint, or that one again.        *)
(***************************************************************************)
THEOREM BridgeNoGap == Spec => []NoGap
<1>1. IInv => NoGap
  <2> SUFFICES ASSUME IInv, host.held # 0 PROVE host.held \in {durable, durable + 1}
    BY DEF NoGap
  <2>1. TypeOK /\ Holds /\ Acknowledges /\ Frontiers BY DEF IInv, Delivery
  <2>2. CASE host.at = "acking" BY <2>1, <2>2 DEF Acknowledges
  <2>3. CASE host.at # "acking"
    <3>1. host.held = offsets.current + 1 BY <2>1, <2>3 DEF Holds, Fresh
    <3> QED BY <2>1, <3>1, Numbers DEF Frontiers
  <2> QED BY <2>2, <2>3
<1> QED BY <1>1, Invariant, PTL

(***************************************************************************)
(* ack() returns success only for a delivery that the offset store holds,  *)
(* although Debezium may lose a failed flush silently, and although the    *)
(* engine may be in its next callback already.  The database may learn of  *)
(* it later.                                                               *)
(***************************************************************************)
THEOREM BridgeAckMeansCommitted == Spec => AckMeansCommitted
<1>1. IInv => (host.at = "acking" /\ host'.at = "idle" /\ settled = "ok"
                 => offsets.current = host.held)
  BY DEF IInv, Delivery, Acknowledges
<1> QED BY <1>1, Invariant, PTL DEF AckMeansCommitted

(***************************************************************************)
(* A poll that finds no delivery and reports a running connector was not   *)
(* woken by a shutdown: every thread publishes the new state before it     *)
(* closes the exchange.                                                    *)
(***************************************************************************)
THEOREM BridgeIdleMeansRunning == Spec => IdleMeansRunning
<1>1. IInv /\ [Next]_vars =>
        (host.at = "polled" /\ host'.at = "idle" /\ ~host'.poisoned => ~exchange.closed)
  <2> SUFFICES ASSUME IInv, [Next]_vars, host.at = "polled", host'.at = "idle", ~host'.poisoned
               PROVE  ~exchange.closed
    OBVIOUS
  <2>1. TypeOK /\ Closing BY DEF IInv
  <2>2. PollReturns
    <3>1. CASE HostStep
      BY <3>1
      DEF HostStep, Create, DiscardCreated, Start, StartSucceeds, StartFails, DropConnector,
          PollBegins, PollExchange, DropDelivery, Persist, Ack, AckSettles, AckFails, HostDispose
    <3>2. CASE StopStep \/ ReclaimStep \/ WorkerStep
      BY <3>2
      DEF StopStep, StopObserves, StopUpdates, StopReturns, ReclaimStep, ReclaimJoins,
          ReclaimDisposes, WorkerStep, WorkerOnly, WorkerCloses, WorkerCloseFails, WorkerFinishes
    <3>3. CASE EngineStep
      BY <3>3
      DEF EngineStep, EngineCode, EngineOnly, Install, AwaitDecision, Arm, Flush,
          RequireCommitted, Settle, EngineCompletes, EnginePublishes, EngineStarts, HandleBatch,
          StoreStops, SourceConfirms, PollingStopped, EngineStops
    <3>4. CASE UNCHANGED vars BY <3>4 DEF vars
    <3> QED BY <3>1, <3>2, <3>3, <3>4 DEF Next
  <2>3. state = "RUNNING"
    BY <2>1, <2>2 DEF TypeOK, HostType, PollReturns
  <2> QED BY <2>1, <2>3 DEF Closing, Opening
<1> QED BY <1>1, Invariant, PTL DEF IdleMeansRunning, Spec
=============================================================================
