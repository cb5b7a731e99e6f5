------------------------------ MODULE FlowStack ------------------------------
(***************************************************************************)
(* The durable call stack of dogpaddle-flow and the round that drives it   *)
(* (crates/flow/src/flow/advance.rs, frame.rs, runtime.rs).                *)
(*                                                                         *)
(* One thread repeats advance(): it captures one delivery of one source,   *)
(* performs at most StackActions stack actions, drains one sink and ends   *)
(* with a durability barrier.  Every transaction is a function from store  *)
(* values to store values, so it either happens as a whole or not at all.  *)
(* A committed transaction is visible at once and durable only after the   *)
(* next barrier: `durable' is the set of store values that a crash may     *)
(* leave behind, one for each commit since the last barrier.               *)
(*                                                                         *)
(* Rows are abstract.  What an operation computes is given by Items and    *)
(* Output: the number of work items of an input, and the page that a run   *)
(* of items emits.  A fused Atomic tail belongs to the Output of its head, *)
(* because the code runs both in one transaction.                          *)
(***************************************************************************)
EXTENDS Integers, Sequences, FiniteSets

CONSTANTS
  SourceOrder,       \* sources in declaration order
  SinkOrder,         \* sinks in declaration order
  Heads,             \* heads of fused segments, sources included
  Consumers,         \* Consumers[h]: ordered calls [operation, port]
  Ports,             \* number of input ports of a head
  Rank,              \* longest head path that ends at a head
  MaxDepth,          \* MAX_DEPTH, the bound on call frames
  Row,               \* rows
  Change,            \* what a delivery or a page may hold, never empty
  Items(_, _, _),    \* Items(head, port, input): work items of the input
  Output(_, _, _, _, _), \* page of items from + 1 .. from + k, maybe empty
  Script,            \* Script[src]: the deliveries src has to offer
  AckBarrier,        \* sources whose ACK reaches an external system
  Discard,           \* sinks that drop what they take (sink/discard.rs)
  QueueCap,          \* published deliveries a source retains
  OutboxCap,         \* unsettled rows an outbox retains
  HeadItems,         \* head items of a page's first attempt
  StackActions,      \* STACK_ACTIONS
  Faults,            \* the failures the environment exhibits
  NoSource           \* not a source

Source == {SourceOrder[i] : i \in DOMAIN SourceOrder}
Sink   == {SinkOrder[i] : i \in DOMAIN SinkOrder}
NoPort == 0
InputPorts(h) == IF h \in Source THEN {NoPort} ELSE 1..Ports[h]
Call   == [operation : Heads \cup Sink, port : Nat]

(***************************************************************************)
(* What build/validate.rs guarantees of a resolved topology.  A sink has   *)
(* one input, so it is called from one place.                              *)
(***************************************************************************)
ASSUME TopologyAssumption ==
  /\ SourceOrder \in Seq(Heads) /\ SourceOrder # <<>>
  /\ SinkOrder \in Seq(Sink) /\ SinkOrder # <<>>
  /\ Heads \cap Sink = {} /\ Discard \subseteq Sink
  /\ Consumers \in [Heads -> Seq(Call)]
  /\ Ports \in [Heads -> Nat]
  /\ MaxDepth \in Nat
  /\ Rank \in [Heads -> 1..MaxDepth]
  /\ \A h \in Heads : \A i \in DOMAIN Consumers[h] :
       LET c == Consumers[h][i] IN
         c.operation \in Heads => /\ c.operation \notin Source
                                  /\ c.port \in 1..Ports[c.operation]
                                  /\ Rank[c.operation] > Rank[h]
  /\ \A h, g \in Heads : \A i \in DOMAIN Consumers[h], j \in DOMAIN Consumers[g] :
       /\ Consumers[h][i].operation = Consumers[g][j].operation
       /\ Consumers[h][i].operation \in Sink
       => h = g /\ i = j

\* An input is never empty (Change::try_new), so it has a first work item.
ASSUME DataAssumption ==
  /\ \A input \in Change : input \in Seq(Row) /\ input # <<>>
  /\ Script \in [Source -> Seq(Change)]
  /\ AckBarrier \subseteq Source /\ NoSource \notin Source
  /\ \A h \in Heads : \A p \in InputPorts(h), input \in Change :
       /\ Items(h, p, input) \in Nat \ {0}
       /\ \A from \in 0..Items(h, p, input) :
            \A k \in 1..(Items(h, p, input) - from) : k <= HeadItems =>
              Output(h, p, input, from, k) \in Change \cup {<<>>}

ASSUME BoundAssumption ==
  /\ QueueCap \in Nat \ {0} /\ OutboxCap \in Nat \ {0}
  /\ HeadItems \in Nat \ {0} /\ StackActions \in Nat \ {0}
  /\ Faults \subseteq {"crash", "commit", "sync", "poll", "ack", "step", "target"}

-----------------------------------------------------------------------------
(* Ordered maps of the store and the frames they hold.                     *)

Put(map, key, value) ==
  [k \in DOMAIN map \cup {key} |-> IF k = key THEN value ELSE map[k]]

Delete(map, key) == [k \in DOMAIN map \ {key} |-> map[k]]

Run(head, port, resume) ==
  [head |-> head, port |-> port, phase |-> "run",
   resume |-> resume, next |-> 0, done |-> FALSE]

\* `resume' is the position after the page; it means nothing when `done'.
Send(frame, next, resume, done) ==
  [head |-> frame.head, port |-> frame.port, phase |-> "send",
   resume |-> resume, next |-> next, done |-> done]

Frame == [head : Heads, port : Nat, phase : {"run", "send"},
          resume : Nat, next : Nat, done : BOOLEAN]

(***************************************************************************)
(* A store value: the frame controls and pending pages by depth, how many  *)
(* deliveries of each source were captured and consumed (the published     *)
(* queue is what lies between), and per sink the rows its outbox accepted  *)
(* so far, the control phase and how many of the rows are settled (the     *)
(* outbox retains the others).                                             *)
(***************************************************************************)
EmptyStore ==
  [controls |-> [d \in {} |-> 0],
   outputs  |-> [d \in {} |-> 0],
   captured |-> [src \in Source |-> 0],
   consumed |-> [src \in Source |-> 0],
   log      |-> [k \in Sink |-> <<>>],
   control  |-> [k \in Sink |-> "fresh"],
   settled  |-> [k \in Sink |-> 0]]

Published(s, src) == s.consumed[src] < s.captured[src]
FirstPublished(s, src) == Script[src][s.consumed[src] + 1]

Consume(s, src) == [s.consumed EXCEPT ![src] = @ + 1]

Idle(s) == DOMAIN s.controls = {}
Top(s)  == CHOOSE d \in DOMAIN s.controls :
             \A e \in DOMAIN s.controls : e <= d

\* A root borrows its source's front; a child its parent's pending page.
Input(s, d, f) == IF d = 0 THEN FirstPublished(s, f.head) ELSE s.outputs[d - 1]

-----------------------------------------------------------------------------
(* Transactions of the stack.                                              *)

\* Mutant: the pending page stays.
PopKeepsPage(s, d, f) ==
  [s EXCEPT !.controls = Delete(@, d),
            !.consumed = IF d = 0 THEN Consume(s, f.head) ELSE @]

Pop(s, d, f) ==
  [s EXCEPT !.controls = Delete(@, d),
            !.outputs  = Delete(@, d),
            !.consumed = IF d = 0 THEN Consume(s, f.head) ELSE @]

Again(s, d, f) ==
  [s EXCEPT !.outputs  = Delete(@, d),
            !.controls = Put(@, d, Run(f.head, f.port, f.resume))]

\* The page is done: the head goes on with its input, or returns.
FinishFrame(s, d, f) == IF f.done THEN Pop(s, d, f) ELSE Again(s, d, f)

Accepts(s, k, page) ==
  \/ k \in Discard
  \/ /\ s.control[k] = "ready"
     /\ Len(s.log[k]) + Len(page) <= s.settled[k] + OutboxCap

Enqueue(s, sinks, page) ==
  [s EXCEPT !.log = [k \in Sink |-> IF k \in sinks THEN s.log[k] \o page
                                                   ELSE s.log[k]]]

\* How many consumers route_page may have passed when it leaves off: the ones
\* it passes are sinks that take the page, and what follows is the end, a
\* computation, a full sink, or a sink the byte budget no longer covers.  A
\* page that is only sent on still has the budget for the first sink.
Stops(s, f, page, fresh) ==
  LET calls == Consumers[f.head]
      Op(i) == calls[i].operation
  IN {n \in f.next..Len(calls) :
        /\ \A i \in f.next + 1..n : Op(i) \in Sink /\ Accepts(s, Op(i), page)
        /\ n < Len(calls) /\ Op(n + 1) \in Sink
             => fresh \/ n > f.next \/ ~Accepts(s, Op(n + 1), page)}

\* The page waits at depth d for the consumer after the first `next' ones.
Wait(s, d, f, page, next) ==
  [s EXCEPT !.outputs  = Put(@, d, page),
            !.controls = Put(@, d, Send(f, next, f.resume, f.done))]

Start(s, d, head, port) ==
  [s EXCEPT !.controls = Put(@, d, Run(head, port, 0))]

\* Mutant: a blocked page forgets which sinks already took it.
RouteToForgets(s, d, f, page, n) ==
  LET calls == Consumers[f.head]
      sent  == Enqueue(s, {calls[i].operation : i \in f.next + 1..n}, page)
  IN IF n = Len(calls)
     THEN FinishFrame(sent, d, f)
     ELSE IF calls[n + 1].operation \in Sink
     THEN Wait(sent, d, f, page, f.next)
     ELSE Start(Wait(sent, d, f, page, n + 1), d + 1,
                calls[n + 1].operation, calls[n + 1].port)

RouteTo(s, d, f, page, n) ==
  LET calls == Consumers[f.head]
      sent  == Enqueue(s, {calls[i].operation : i \in f.next + 1..n}, page)
  IN IF n = Len(calls)
     THEN FinishFrame(sent, d, f)
     ELSE IF calls[n + 1].operation \in Sink
     THEN Wait(sent, d, f, page, n)
     ELSE Start(Wait(sent, d, f, page, n + 1), d + 1,
                calls[n + 1].operation, calls[n + 1].port)

RoutePage(s, d, f, page, fresh) ==
  {RouteTo(s, d, f, page, n) : n \in Stops(s, f, page, fresh)}

\* Work items an attempt of frame f may end up with: at most HeadItems, fewer
\* when an attempt is over budget and is repeated with half the items.
Attempts(s, d, f) ==
  {k \in 1..(Items(f.head, f.port, Input(s, d, f)) - f.resume) : k <= HeadItems}

\* Mutant: the position after the page is the one before it.
RunPageRepeats(s, d, f, k) ==
  LET input == Input(s, d, f)
      page  == Output(f.head, f.port, input, f.resume, k)
      after == Send(f, 0, f.resume, f.resume + k = Items(f.head, f.port, input))
  IN IF page = <<>>
     THEN {FinishFrame(s, d, after)}
     ELSE RoutePage(s, d, after, page, TRUE)

RunPage(s, d, f, k) ==
  LET input == Input(s, d, f)
      page  == Output(f.head, f.port, input, f.resume, k)
      after == Send(f, 0, f.resume + k,
                    f.resume + k = Items(f.head, f.port, input))
  IN IF page = <<>>
     THEN {FinishFrame(s, d, after)}
     ELSE RoutePage(s, d, after, page, TRUE)

\* Mutant: a page that every consumer has is never finished.
SendPageStays(s, d, f) ==
  IF f.next = Len(Consumers[f.head])
  THEN {s}
  ELSE RoutePage(s, d, f, s.outputs[d], FALSE)

SendPage(s, d, f) ==
  IF f.next = Len(Consumers[f.head])
  THEN {FinishFrame(s, d, f)}
  ELSE RoutePage(s, d, f, s.outputs[d], FALSE)

\* Mutant: a failed root is not kept.
PinNothing(s, src) == s

PinRoot(s, src) == Start(s, 0, src, NoPort)

-----------------------------------------------------------------------------
(* Transactions of the boundaries.                                         *)

Publish(s, src, n)    == [s EXCEPT !.captured[src] = n]
SetControl(s, k, c)   == [s EXCEPT !.control[k] = c]
ForgetUpTo(s, k, n)   == [s EXCEPT !.settled[k] = n]

-----------------------------------------------------------------------------
(* validate_frames: what open() requires of the store it finds.            *)

ValidInput(s, d) ==
  LET f == s.controls[d] IN
  IF d = 0
  THEN f.port = NoPort /\ f.head \in Source /\ Published(s, f.head)
  ELSE LET p == s.controls[d - 1] IN
       /\ f.head \notin Source
       /\ f.port \in 1..Ports[f.head]
       /\ p.phase = "send"
       /\ p.next \in DOMAIN Consumers[p.head]
       /\ Consumers[p.head][p.next] = [operation |-> f.head, port |-> f.port]

ValidResume(s, d, f) == f.resume < Items(f.head, f.port, Input(s, d, f))

ValidPhase(s, d) ==
  LET f == s.controls[d] IN
  \/ /\ f.phase = "run"
     /\ ValidResume(s, d, f)
     /\ d \notin DOMAIN s.outputs
     /\ d + 1 \notin DOMAIN s.controls
  \/ /\ f.phase = "send"
     /\ f.next <= Len(Consumers[f.head])
     /\ f.done \/ ValidResume(s, d, f)
     /\ d \in DOMAIN s.outputs

ValidFrames(s) ==
  /\ \E n \in 0..MaxDepth : DOMAIN s.controls = 0..(n - 1)
  /\ DOMAIN s.outputs \subseteq DOMAIN s.controls
  /\ \A d \in DOMAIN s.controls :
       s.controls[d].head \in Heads /\ ValidInput(s, d) /\ ValidPhase(s, d)

-----------------------------------------------------------------------------
VARIABLES
  store,         \* what transactions read: every successful commit is in it
  durable,       \* store values a crash may leave behind
  pc,            \* where the round is; "idle" between rounds, "down" when closed
  left,          \* stack actions left in this round
  sourceCursor, rootCursor, sinkCursor,    \* in-memory rotations
  pending,       \* pending[src]: delivery polled and not yet acked, or 0
  loaded,        \* what drain() holds: an initialization or a prefix of rows
  failed,        \* root source whose page failed in this round, or NoSource
  needsReopen,   \* needs_reopen
  acked,         \* external: deliveries acked to the system behind src
  created,       \* external: sinks whose target exists
  target         \* external: target[k], the rows delivered to it

cursors  == <<sourceCursor, rootCursor, sinkCursor>>
memory   == <<left, cursors, pending, loaded, failed>>
external == <<acked, created, target>>
vars     == <<store, durable, pc, memory, needsReopen, external>>

Nothing == [init |-> FALSE, fresh |-> FALSE, upto |-> 0]

\* The cursor after one service, and the one before.
Turn(c, n)   == 1 + (c % n)
Before(c, n) == IF c = 1 THEN n ELSE c - 1

\* The boundary in service: its cursor already points to the next one.
Serviced == SourceOrder[Before(sourceCursor, Len(SourceOrder))]
Drained  == SinkOrder[Before(sinkCursor, Len(SinkOrder))]

Restart ==
  /\ left' = 0 /\ sourceCursor' = 1 /\ rootCursor' = 1 /\ sinkCursor' = 1
  /\ pending' = [src \in Source |-> 0]
  /\ loaded' = Nothing /\ failed' = NoSource

Init ==
  /\ store = EmptyStore /\ durable = {EmptyStore} /\ pc = "idle"
  /\ left = 0 /\ sourceCursor = 1 /\ rootCursor = 1 /\ sinkCursor = 1
  /\ pending = [src \in Source |-> 0] /\ loaded = Nothing
  /\ needsReopen = FALSE /\ failed = NoSource
  /\ acked = [src \in Source |-> 0]
  /\ created = {}
  /\ target = [k \in Sink |-> <<>>]

\* Commit of the transaction that made t; one without writes does nothing.
\* A failed commit may or may not have happened.
Commit(t, next) ==
  /\ durable' = durable \cup {t}
  /\ \/ store' = t /\ pc' = next /\ UNCHANGED needsReopen
     \/ /\ "commit" \in Faults /\ t # store
        /\ store' = store /\ pc' = "fail" /\ needsReopen' = TRUE

\* DurabilityBatch::sync.
Sync(next) ==
  /\ UNCHANGED store
  /\ \/ durable' = {store} /\ pc' = next /\ UNCHANGED needsReopen
     \/ /\ "sync" \in Faults
        /\ UNCHANGED durable /\ pc' = "fail" /\ needsReopen' = TRUE

\* An external call failed: whatever it did, the runtime must be reopened.
FailStop == pc' = "fail" /\ needsReopen' = TRUE

-----------------------------------------------------------------------------
(* capture: poll, record, commit, barrier, ack.                            *)

\* advance() may be called again after an error that needs no reopening.
Advance ==
  /\ pc \in {"idle", "error"} /\ ~needsReopen
  /\ sourceCursor' = Turn(sourceCursor, Len(SourceOrder))
  /\ left' = StackActions
  /\ failed' = NoSource
  /\ pc' = "capture"
  /\ UNCHANGED <<store, durable, rootCursor, sinkCursor, pending, loaded,
                 needsReopen, external>>

PollSome ==
  /\ pc = "capture"
  /\ pending[Serviced] = 0
  /\ store.captured[Serviced] < Len(Script[Serviced])
  /\ pending' = [pending EXCEPT ![Serviced] = store.captured[Serviced] + 1]
  /\ pc' = "record"
  /\ UNCHANGED <<store, durable, left, cursors, loaded, failed, needsReopen,
                 external>>

PollNone ==
  /\ pc = "capture" /\ pending[Serviced] = 0
  /\ pc' = "stack"
  /\ UNCHANGED <<store, durable, memory, needsReopen, external>>

PollFails ==
  /\ pc = "capture" /\ pending[Serviced] = 0 /\ "poll" \in Faults
  /\ FailStop
  /\ UNCHANGED <<store, durable, memory, external>>

\* A delivery that met a full queue is offered again, without a poll.
PollHeld ==
  /\ pc = "capture" /\ pending[Serviced] # 0
  /\ pc' = "record"
  /\ UNCHANGED <<store, durable, memory, needsReopen, external>>

RoomFor(s, src) == s.captured[src] - s.consumed[src] < QueueCap

Record ==
  /\ pc = "record" /\ RoomFor(store, Serviced)
  /\ Commit(Publish(store, Serviced, pending[Serviced]),
            IF Serviced \in AckBarrier THEN "captureSync" ELSE "ack")
  /\ UNCHANGED <<memory, external>>

RecordBackpressured ==
  /\ pc = "record" /\ ~RoomFor(store, Serviced)
  /\ pc' = "stack"
  /\ UNCHANGED <<store, durable, memory, needsReopen, external>>

CaptureSync ==
  /\ pc = "captureSync"
  /\ Sync("ack")
  /\ UNCHANGED <<memory, external>>

Watermark(src) == IF src \in AckBarrier THEN pending[src] ELSE acked[src]

Ack ==
  /\ pc = "ack"
  /\ acked' = [acked EXCEPT ![Serviced] = Watermark(Serviced)]
  /\ pending' = [pending EXCEPT ![Serviced] = 0]
  /\ pc' = "stack"
  /\ UNCHANGED <<store, durable, left, cursors, loaded, failed, needsReopen,
                 created, target>>

AckFails ==
  /\ pc = "ack" /\ "ack" \in Faults
  /\ \E w \in {acked[Serviced], Watermark(Serviced)} :
       acked' = [acked EXCEPT ![Serviced] = w]
  /\ pending' = [pending EXCEPT ![Serviced] = 0]
  /\ FailStop
  /\ UNCHANGED <<store, durable, left, cursors, loaded, failed, created, target>>

-----------------------------------------------------------------------------
(* Stack actions.                                                          *)

\* Mutant: the loop is not bounded by the round's allowance.
StackStepUnbounded(t) ==
  /\ Commit(t, IF t = store THEN "drain" ELSE "stack")
  /\ left' = left - 1
  /\ UNCHANGED failed

\* Commits t; the loop goes on after progress, until the round's allowance.
StackStep(t) ==
  /\ Commit(t, IF t = store \/ left = 1 THEN "drain" ELSE "stack")
  /\ left' = left - 1
  /\ UNCHANGED failed

\* The error of the active root: nothing of the page stays, earlier pages stay
\* committed, and the round skips the drain.
StackError ==
  /\ "step" \in Faults
  /\ failed' = store.controls[0].head
  /\ pc' = "fail"
  /\ UNCHANGED <<store, durable, left, needsReopen>>

RunFrame ==
  /\ pc = "stack" /\ ~Idle(store)
  /\ LET d == Top(store)
         f == store.controls[d]
     IN /\ f.phase = "run"
        /\ \/ \E k \in Attempts(store, d, f) :
                \E t \in RunPage(store, d, f, k) : StackStep(t)
           \/ StackError
  /\ UNCHANGED <<cursors, pending, loaded, external>>

SendFrame ==
  /\ pc = "stack" /\ ~Idle(store)
  /\ LET d == Top(store)
         f == store.controls[d]
     IN /\ f.phase = "send"
        /\ \/ \E t \in SendPage(store, d, f) : StackStep(t)
           \/ StackError
  /\ UNCHANGED <<cursors, pending, loaded, external>>

\* The root rotation: the source i places from the cursor, the cursor n
\* places on, and that the first n sources have nothing published.
RootAt(i)      == SourceOrder[1 + ((rootCursor - 1 + i) % Len(SourceOrder))]
RootTurn(n)    == 1 + ((rootCursor - 1 + n) % Len(SourceOrder))
Unpublished(n) == \A i \in 0..(n - 1) : ~Published(store, RootAt(i))

\* The first published source from the root cursor on runs its first page; an
\* error there leaves the root pinned, so that it is retried before any other.
NextRoot ==
  /\ pc = "stack" /\ Idle(store)
  /\ \E n \in 0..(Len(SourceOrder) - 1) :
       LET src == RootAt(n)
           f   == Run(src, NoPort, 0)
       IN /\ Unpublished(n) /\ Published(store, src)
          /\ rootCursor' = RootTurn(n + 1)
          /\ \/ \E k \in Attempts(store, 0, f) :
                  \E t \in RunPage(store, 0, f, k) : StackStep(t)
             \/ /\ "step" \in Faults
                /\ Commit(PinRoot(store, src), "fail")
                /\ failed' = src
                /\ UNCHANGED left
  /\ UNCHANGED <<sourceCursor, sinkCursor, pending, loaded, external>>

NoRoot ==
  /\ pc = "stack" /\ Idle(store)
  /\ Unpublished(Len(SourceOrder))
  /\ pc' = "drain"
  /\ UNCHANGED <<store, durable, memory, needsReopen, external>>

\* The byte allowance of the round covers the first action, not always the
\* next; the search for a root may stop in the middle of its rotation.
StackYield ==
  /\ pc = "stack" /\ left < StackActions
  /\ \E n \in 0..Len(SourceOrder) :
       /\ n > 0 => Idle(store) /\ Unpublished(n)
       /\ rootCursor' = RootTurn(n)
  /\ pc' = "drain"
  /\ UNCHANGED <<store, durable, left, sourceCursor, sinkCursor, pending,
                 loaded, failed, needsReopen, external>>

-----------------------------------------------------------------------------
(* drain: load, intent, barrier, delivery, settlement.                     *)

Load ==
  /\ pc = "drain"
  /\ sinkCursor' = Turn(sinkCursor, Len(SinkOrder))
  /\ LET k == SinkOrder[sinkCursor] IN
     \/ /\ k \notin Discard /\ store.control[k] # "ready"
        /\ loaded' = [init |-> TRUE, fresh |-> store.control[k] = "fresh", upto |-> 0]
        /\ pc' = "intent"
     \/ /\ k \notin Discard /\ store.control[k] = "ready"
        /\ \E n \in store.settled[k] + 1..Len(store.log[k]) :
             loaded' = [init |-> FALSE, fresh |-> FALSE, upto |-> n]
        /\ pc' = "intent"
     \/ /\ \/ k \in Discard
           \/ store.control[k] = "ready" /\ store.settled[k] = Len(store.log[k])
        /\ loaded' = Nothing /\ pc' = "finish"
     \/ "step" \in Faults /\ loaded' = Nothing /\ pc' = "fail"
  /\ UNCHANGED <<store, durable, left, sourceCursor, rootCursor, pending,
                 failed, needsReopen, external>>

\* A fresh sink first requires that its target is absent, then records that
\* it is about to create it.
Intent ==
  /\ pc = "intent"
  /\ \/ /\ loaded.fresh /\ Drained \notin created
        /\ Commit(SetControl(store, Drained, "initialize"), "drainSync")
     \/ /\ loaded.fresh /\ (Drained \in created \/ "target" \in Faults)
        /\ FailStop /\ UNCHANGED <<store, durable>>
     \/ /\ ~loaded.fresh
        /\ pc' = "drainSync" /\ UNCHANGED <<store, durable, needsReopen>>
  /\ UNCHANGED <<memory, external>>

\* Mutant: delivery without the barrier.
DrainSyncSkipped ==
  /\ pc = "drainSync" /\ pc' = "deliver"
  /\ UNCHANGED <<store, durable, memory, needsReopen, external>>

DrainSync ==
  /\ pc = "drainSync"
  /\ Sync("deliver")
  /\ UNCHANGED <<memory, external>>

\* The target takes only the rows past its own frontier.
Deliver ==
  /\ pc = "deliver"
  /\ LET k == Drained IN
     IF loaded.init
     THEN created' = created \cup {k} /\ UNCHANGED target
     ELSE /\ target' = [target EXCEPT ![k] =
                          @ \o SubSeq(store.log[k], Len(@) + 1, loaded.upto)]
          /\ UNCHANGED created
  /\ \/ pc' = "settle" /\ UNCHANGED needsReopen
     \/ "target" \in Faults /\ FailStop
  /\ UNCHANGED <<store, durable, memory, acked>>

DeliverFails ==
  /\ pc = "deliver" /\ "target" \in Faults
  /\ FailStop
  /\ UNCHANGED <<store, durable, memory, external>>

\* Mutant: settlement of the whole outbox instead of the delivered prefix.
SettleAll ==
  /\ pc = "settle"
  /\ LET k == Drained IN
     Commit(IF loaded.init THEN SetControl(store, k, "ready")
                           ELSE ForgetUpTo(store, k, Len(store.log[k])),
            "finish")
  /\ UNCHANGED <<memory, external>>

Settle ==
  /\ pc = "settle"
  /\ LET k == Drained IN
     Commit(IF loaded.init THEN SetControl(store, k, "ready")
                           ELSE ForgetUpTo(store, k, loaded.upto),
            "finish")
  /\ UNCHANGED <<memory, external>>

SettleFails ==
  /\ pc = "settle" /\ "step" \in Faults
  /\ FailStop
  /\ UNCHANGED <<store, durable, memory, external>>

-----------------------------------------------------------------------------
(* The end of a round, crashes and reopening.                              *)

\* record(), the lookup of the active frame or of a source's front, or
\* persist_initialize() refuses: the round ends, nothing of the transaction stays
\* and nothing needs reopening.  The search for a root has turned past the source
\* that it refuses.
Refuse ==
  /\ pc \in {"record", "stack", "intent"} /\ "step" \in Faults
  /\ pc = "intent" => loaded.fresh
  /\ \E n \in 0..Len(SourceOrder) :
       /\ n > 0 => pc = "stack" /\ Idle(store) /\ Unpublished(n - 1)
       /\ rootCursor' = RootTurn(n)
  /\ pc' = "fail"
  /\ UNCHANGED <<store, durable, left, sourceCursor, sinkCursor, pending, loaded,
                 failed, needsReopen, external>>

\* batch.finish(), then the answer of advance(): Ok, or the error of the round or
\* of the barrier.  What an uncertain commit left stays uncertain.
Finish ==
  /\ pc \in {"finish", "fail"}
  /\ \/ /\ durable' = (IF needsReopen THEN durable ELSE {store})
        /\ pc' = (IF pc = "finish" THEN "idle" ELSE "error")
        /\ UNCHANGED needsReopen
     \/ /\ "sync" \in Faults
        /\ needsReopen' = TRUE /\ pc' = "error" /\ UNCHANGED durable
  /\ left' = 0 /\ loaded' = Nothing
  /\ UNCHANGED <<store, cursors, pending, failed, external>>

\* The process ends: memory is lost, and what no barrier covered may be.
GoDown ==
  /\ \E s \in durable : store' = s /\ durable' = {s}
  /\ pc' = "down" /\ needsReopen' = FALSE
  /\ Restart
  /\ UNCHANGED external

Crash == pc # "down" /\ "crash" \in Faults /\ GoDown

\* main() ends on every error that advance() returns.
Exit == pc = "error" /\ GoDown

\* The same command is run again.
Open ==
  /\ pc = "down" /\ ValidFrames(store)
  /\ pc' = "idle"
  /\ UNCHANGED <<store, durable, memory, needsReopen, external>>

Capture == \/ Advance \/ PollSome \/ PollNone \/ PollFails \/ PollHeld
           \/ Record \/ RecordBackpressured \/ CaptureSync \/ Ack \/ AckFails
Stack   == RunFrame \/ SendFrame \/ NextRoot \/ NoRoot \/ StackYield
Drain   == Load \/ Intent \/ DrainSync \/ Deliver \/ DeliverFails \/ Settle
           \/ SettleFails

Round   == Capture \/ Stack \/ Drain \/ Refuse \/ Finish \/ Exit \/ Open

Next == Round \/ Crash

Spec == Init /\ [][Next]_vars

(***************************************************************************)
(* main() calls advance() while it succeeds and ends at its first error;   *)
(* after an end or a crash the operator runs the same command again, which *)
(* is the help main() prints.  A source that has something to offer does   *)
(* not answer every poll with nothing.  Nothing makes a failure stop.      *)
(***************************************************************************)
FairSpec ==
  /\ Spec
  /\ WF_vars(Round)
  /\ \A src \in Source : SF_vars(PollSome /\ Serviced = src)

-----------------------------------------------------------------------------
(* Properties.                                                             *)

Prefix(a, b) == Len(a) <= Len(b) /\ \A i \in 1..Len(a) : a[i] = b[i]

Phases == {"idle", "capture", "record", "captureSync", "ack", "stack", "drain",
           "intent", "drainSync", "deliver", "settle", "finish", "fail", "error",
           "down"}

StoreOK(s) ==
  /\ s \in [controls : {s.controls}, outputs : {s.outputs},
            captured : [Source -> Nat], consumed : [Source -> Nat],
            log      : [Sink -> Seq(Row)],
            control  : [Sink -> {"fresh", "initialize", "ready"}],
            settled  : [Sink -> Nat]]
  /\ DOMAIN s.controls \subseteq 0..(MaxDepth - 1)
  /\ s.controls \in [DOMAIN s.controls -> Frame]
  /\ s.outputs \in [DOMAIN s.outputs -> Change]

\* Types of the variables.
TypeOK ==
  /\ store \in durable /\ \A s \in durable : StoreOK(s)
  /\ pc \in Phases
  /\ left \in 0..StackActions
  /\ sourceCursor \in DOMAIN SourceOrder /\ rootCursor \in DOMAIN SourceOrder
  /\ sinkCursor \in DOMAIN SinkOrder
  /\ pending \in [Source -> Nat] /\ acked \in [Source -> Nat]
  /\ loaded \in [init : BOOLEAN, fresh : BOOLEAN, upto : Nat]
  /\ needsReopen \in BOOLEAN /\ failed \in Source \cup {NoSource}
  /\ created \subseteq Sink
  /\ target \in [Sink -> Seq(Row)]

(***************************************************************************)
(* Every store a crash may leave passes validate_frames, so open() never   *)
(* refuses what the runtime itself wrote: no transaction of route_page or  *)
(* finish_frame, and no pinned root, leaves a gap in the depths, a child   *)
(* that is not its parent's pending call, an orphan page, a position past  *)
(* the input, a root without published input or a stack over MAX_DEPTH.    *)
(***************************************************************************)
RestoreAccepts == \A s \in durable : ValidFrames(s)

(***************************************************************************)
(* What left the process is never ahead of what survives a crash: in every *)
(* store a crash may leave, all acked deliveries are captured, the rows of *)
(* a target are the first rows of its outbox history, and a target that    *)
(* exists has at least its initialization intent.  This is what the syncs  *)
(* before ack() and before deliver() are for.                              *)
(***************************************************************************)
EffectsAreDurable ==
  \A s \in durable :
    /\ \A src \in Source : acked[src] <= s.captured[src]
    /\ \A k \in Sink : Prefix(target[k], s.log[k])
    /\ \A k \in created : s.control[k] # "fresh"

(***************************************************************************)
(* An outbox forgets a row only when its target has it, and takes rows     *)
(* only when its target exists (settle() follows deliver()), so a restart  *)
(* finds every row either in the target or still in the outbox.            *)
(***************************************************************************)
SettledIsDelivered ==
  \A s \in durable, k \in Sink :
    /\ s.settled[k] <= Len(target[k])
    /\ s.control[k] = "ready" => k \in created

(***************************************************************************)
(* When advance() returns a semantic error that needs no reopening, the    *)
(* failed root is active in every store a restart may find, so its         *)
(* delivery is retried before another root (advance_next_root).            *)
(***************************************************************************)
FailedRootIsPinned ==
  pc = "error" /\ failed # NoSource /\ ~needsReopen =>
    \A s \in durable : 0 \in DOMAIN s.controls /\ s.controls[0].head = failed

Complete ==
  /\ Idle(store)
  /\ \A src \in Source : store.consumed[src] = Len(Script[src])
  /\ \A k \in Sink \ Discard : target[k] = store.log[k]

(***************************************************************************)
(* Once crashes and errors stop, every delivery a source offers is         *)
(* captured, run through the whole graph and delivered, however many       *)
(* rounds failed and however often the command was run again before:       *)
(* backpressure always clears, rotation starves no source, root or sink,   *)
(* and no round loops in place.  While one root fails for ever nothing of  *)
(* the sort holds: its error ends every round before the drain, and the    *)
(* program, whose next run begins all rotations anew.                      *)
(***************************************************************************)
EventuallyComplete ==
  <>[](pc \notin {"fail", "error", "down"}) => <>[]Complete
=============================================================================
