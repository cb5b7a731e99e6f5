------------------------------- MODULE Outbox -------------------------------
(***************************************************************************)
(* The durable outbox of a relation sink (operation/sink/buffered) and the *)
(* part of a round that drains it (flow/advance.rs), without the target:   *)
(* a sink module adds the delivery and the variables of its target.        *)
(*                                                                         *)
(* A row of weight w is |w| equal events, so a position inside a row is a  *)
(* position between two events, and an entry is the sequence of its        *)
(* events.  Every event has a permanent offset, which is the technical id  *)
(* of the target row that an insertion makes.  The caches of the outbox    *)
(* are read through and not modelled.                                      *)
(***************************************************************************)
EXTENDS Integers, Sequences, FiniteSets, FiniteSetsExt

CONSTANTS
  Row,        \* rows
  Pages,      \* pages the flow may hand over: sequences of events
  MaxEvents,  \* MAX_BUFFERED_EVENTS
  MaxBytes,   \* MAX_RETAINED_BYTES
  MaxBatch,   \* MAX_MUTATIONS_PER_BATCH
  MaxOffset,  \* largest event offset, u64::MAX in the code
  Faults,     \* "crash", "commit", "sync", "target"
  None        \* nothing loaded

Event == [row : Row, sign : {1, -1}]

ASSUME SinkAssumption ==
  /\ \A page \in Pages : page \in Seq(Event) /\ page # <<>> /\ Len(page) <= MaxEvents
  /\ MaxEvents \in Nat \ {0} /\ MaxBytes \in Nat \ {0}
  /\ MaxBatch \in Nat \ {0} /\ MaxOffset \in Nat \ {0}
  /\ Faults \subseteq {"crash", "commit", "sync", "target"}
  /\ None \notin [entry : Nat, offset : Nat]

-----------------------------------------------------------------------------
(* The store: control state, entries by the offset of their first event    *)
(* and, as history, all events accepted so far.  `pinned': the call stack  *)
(* of the flow waits with a page that the offsets left do not cover.       *)

Position(entry, offset) == [entry |-> entry, offset |-> offset]

EmptyStore ==
  [control |-> "fresh", head |-> Position(1, 1), tail |-> 1, bytes |-> 0,
   entries |-> [k \in {} |-> <<>>], log |-> <<>>, pinned |-> FALSE]

ItemBytes(page) == Len(page) + 1

PendingEvents(s) == s.tail - s.head.offset
IsEmpty(s) == s.head.offset = s.tail

EntryEnd(s, k) == k + Len(s.entries[k])

\* Encoded bytes of some entries.
EntryBytes(entries, keys) == MapThenSumSet(LAMBDA k : ItemBytes(entries[k]), keys)

\* The outbox takes a page when it is ready and both limits allow it.
Fits(s, page) ==
  /\ s.bytes + ItemBytes(page) <= MaxBytes
  /\ PendingEvents(s) + Len(page) <= MaxEvents

\* Mutant: a page takes one offset, however many events it has.
EnqueueOneOffset(s, page) ==
  [s EXCEPT !.entries = [k \in DOMAIN @ \cup {s.tail} |->
                           IF k = s.tail THEN page ELSE @[k]],
            !.tail  = @ + 1,
            !.bytes = @ + ItemBytes(page),
            !.log   = @ \o page]

Enqueue(s, page) ==
  [s EXCEPT !.entries = [k \in DOMAIN @ \cup {s.tail} |->
                           IF k = s.tail THEN page ELSE @[k]],
            !.tail  = @ + Len(page),
            !.bytes = @ + ItemBytes(page),
            !.log   = @ \o page]

\* BufferState::validate.
ValidState(s) ==
  /\ s.head.entry > 0 /\ s.head.entry <= s.head.offset /\ s.head.offset <= s.tail
  /\ IF IsEmpty(s) THEN s.head.entry = s.tail /\ s.bytes = 0 ELSE s.bytes >= 1

\* What decode_restored and validate_buffer require of a store.
ValidBuffer(s) ==
  IF s.control # "ready" THEN DOMAIN s.entries = {}
  ELSE /\ ValidState(s)
       /\ PendingEvents(s) <= MaxEvents /\ s.bytes <= MaxBytes
       /\ IF IsEmpty(s) THEN DOMAIN s.entries = {}
          ELSE /\ s.head.entry \in DOMAIN s.entries
               /\ s.head.offset < EntryEnd(s, s.head.entry)
               /\ \A k \in DOMAIN s.entries :
                    /\ k \in s.head.entry..(s.tail - 1)
                    /\ EntryEnd(s, k) \in DOMAIN s.entries \cup {s.tail}
               /\ s.bytes = EntryBytes(s.entries, DOMAIN s.entries)

\* The event at an offset that the outbox still holds.
EntryOf(s, offset) == Max({k \in DOMAIN s.entries : k <= offset})
EventAt(s, offset) ==
  s.entries[EntryOf(s, offset)][offset - EntryOf(s, offset) + 1]

\* All events the outbox still holds, by offset.
Retained(s) == [o \in s.head.entry..(s.tail - 1) |-> EventAt(s, o)]

(***************************************************************************)
(* load: the next n events.  Where a batch ends depends on its event and   *)
(* byte limits, which may cut it inside an entry and inside a row.         *)
(***************************************************************************)
Consumed(s, end) == {k \in DOMAIN s.entries : EntryEnd(s, k) <= end}

\* Mutant: a batch that is cut short still counts for the whole outbox.
LoadedAll(s, n) ==
  [before   |-> s.head, tail |-> s.tail,
   events   |-> [i \in 1..n |-> EventAt(s, s.head.offset + i - 1)],
   after    |-> Position(s.tail, s.tail),
   consumed |-> DOMAIN s.entries]

Loaded(s, n) ==
  LET end == s.head.offset + n IN
  [before   |-> s.head, tail |-> s.tail,
   events   |-> [i \in 1..n |-> EventAt(s, s.head.offset + i - 1)],
   after    |-> Position(IF end = s.tail THEN end ELSE EntryOf(s, end), end),
   consumed |-> Consumed(s, end)]

\* Mutant: the bytes of the consumed entries are not given back.
SettleKeepsBytes(s, batch) ==
  [s EXCEPT !.head = batch.after,
            !.entries = [k \in DOMAIN @ \ batch.consumed |-> @[k]]]

\* Mutant: a settlement that writes nothing.
SettleNothing(s, batch) == s

Settle(s, batch) ==
  [s EXCEPT !.head = batch.after,
            !.bytes = @ - EntryBytes(s.entries, batch.consumed),
            !.entries = [k \in DOMAIN @ \ batch.consumed |-> @[k]]]

-----------------------------------------------------------------------------
VARIABLES
  store,       \* what transactions read
  durable,     \* store values a crash may leave behind
  pc,          \* where the round is
  loaded,      \* what drain() holds
  needsReopen  \* needs_reopen of the flow

outboxVars == <<store, durable, pc, loaded, needsReopen>>

OutboxInit ==
  /\ store = EmptyStore /\ durable = {EmptyStore} /\ pc = "stack"
  /\ loaded = None /\ needsReopen = FALSE

Commit(t, next) ==
  /\ durable' = durable \cup {t}
  /\ \/ store' = t /\ pc' = next /\ UNCHANGED needsReopen
     \/ /\ "commit" \in Faults /\ t # store
        /\ store' = store /\ pc' = "finish" /\ needsReopen' = TRUE

FailStop == pc' = "finish" /\ needsReopen' = TRUE

\* What the flow sends adds up to a relation: no row is ever taken away more
\* often than it was there.
Weight(events, row) ==
  Cardinality({i \in DOMAIN events : events[i] = [row |-> row, sign |-> 1]})
    - Cardinality({i \in DOMAIN events : events[i] = [row |-> row, sign |-> -1]})
WellFormed(events) ==
  \A n \in DOMAIN events, r \in Row : Weight(SubSeq(events, 1, n), r) >= 0

TryEnqueue ==
  /\ pc = "stack" /\ store.control = "ready" /\ ~store.pinned
  /\ \E page \in Pages :
       /\ store.tail + Len(page) <= MaxOffset
       /\ Fits(store, page)
       /\ WellFormed(store.log \o page)
       /\ Commit(Enqueue(store, page), "stack")
  /\ UNCHANGED loaded

\* A page that would pass the largest offset is an error, whether it fits or not,
\* and the round ends before the drain.  The page stays on the stack, so every
\* later round meets it first, and fails again.
Exhausted ==
  /\ pc = "stack" /\ store.control = "ready"
  /\ \/ store.pinned
     \/ \E page \in Pages : /\ store.tail + Len(page) > MaxOffset
                            /\ WellFormed(store.log \o page)
  /\ Commit([store EXCEPT !.pinned = TRUE], "fail")
  /\ UNCHANGED loaded

\* The stack ends: nothing to do, or an outbox that is full or not ready.
StackDone ==
  /\ pc = "stack" /\ ~store.pinned /\ pc' = "load"
  /\ UNCHANGED <<store, durable, loaded, needsReopen>>

Initialization(fresh) == [before |-> None, fresh |-> fresh]
IsInitialization == loaded.before = None

\* load(): the first load of a process validates the whole buffer.
Load ==
  /\ pc = "load" /\ ValidBuffer(store)
  /\ \/ /\ store.control # "ready"
        /\ loaded' = Initialization(store.control = "fresh")
        /\ pc' = "intent"
     \/ /\ store.control = "ready" /\ ~IsEmpty(store)
        /\ \E n \in 1..PendingEvents(store) :
             n <= MaxBatch /\ loaded' = Loaded(store, n)
        /\ pc' = "sync"
     \/ /\ store.control = "ready" /\ IsEmpty(store)
        /\ pc' = "finish" /\ UNCHANGED loaded
  /\ UNCHANGED <<store, durable, needsReopen>>

\* Mutant: the intent to create the target is not recorded.
PersistInitializeSkipped(absent) ==
  /\ pc = "intent" /\ pc' = "sync"
  /\ UNCHANGED <<store, durable, loaded, needsReopen>>

\* require_absent, then the intent to create the target.
PersistInitialize(absent) ==
  /\ pc = "intent"
  /\ \/ /\ loaded.fresh /\ absent
        /\ Commit([store EXCEPT !.control = "initialize"], "sync")
     \/ /\ loaded.fresh /\ (~absent \/ "target" \in Faults)
        /\ FailStop /\ UNCHANGED <<store, durable>>
     \/ /\ ~loaded.fresh
        /\ pc' = "sync" /\ UNCHANGED <<store, durable, needsReopen>>
  /\ UNCHANGED loaded

\* Mutant: no barrier before the delivery.
SyncSkipped ==
  /\ pc = "sync" /\ pc' = "deliver"
  /\ UNCHANGED <<store, durable, loaded, needsReopen>>

Sync ==
  /\ pc = "sync"
  /\ \/ durable' = {store} /\ pc' = "deliver" /\ UNCHANGED needsReopen
     \/ "sync" \in Faults /\ FailStop /\ UNCHANGED durable
  /\ UNCHANGED <<store, loaded>>

SettleLoaded ==
  /\ pc = "settle"
  /\ Commit(IF IsInitialization THEN [store EXCEPT !.control = "ready"]
                                ELSE Settle(store, loaded), "finish")
  /\ UNCHANGED loaded

Finish ==
  /\ pc \in {"finish", "fail"}
  /\ \/ /\ ~needsReopen /\ durable' = {store} /\ UNCHANGED needsReopen
        /\ pc' = IF pc = "finish" THEN "stack" ELSE "closed"
     \/ needsReopen /\ pc' = "closed" /\ UNCHANGED <<durable, needsReopen>>
     \/ /\ "sync" \in Faults
        /\ pc' = "closed" /\ needsReopen' = TRUE /\ UNCHANGED durable
  /\ loaded' = None
  /\ UNCHANGED store

Stop ==
  /\ \E s \in durable : store' = s /\ durable' = {s}
  /\ pc' = "down" /\ loaded' = None /\ needsReopen' = FALSE

Crash == "crash" \in Faults /\ pc # "down" /\ Stop

\* main() ends when advance() returns an error.
Close == pc = "closed" /\ Stop

\* A sink restores itself at its first load, not when the store is opened.
Open ==
  /\ pc = "down" /\ pc' = "stack"
  /\ UNCHANGED <<store, durable, loaded, needsReopen>>

\* The steps of a round that do not touch the target.
OutboxStep == \/ TryEnqueue \/ Exhausted \/ StackDone \/ Load \/ Sync \/ SettleLoaded
              \/ Finish \/ Close \/ Open

-----------------------------------------------------------------------------
(* Properties of every sink.                                               *)

(***************************************************************************)
(* load() accepts every buffer that a crash may leave, wherever batches    *)
(* ended and whichever settlements were lost; and offsets are permanent:   *)
(* they count all events ever accepted, and never pass the largest one.    *)
(***************************************************************************)
BuffersAreValid ==
  \A s \in durable :
    /\ ValidBuffer(s)
    /\ s.tail = Len(s.log) + 1 /\ s.tail <= MaxOffset

(***************************************************************************)
(* Once errors and crashes stop, the sink gets ready, and every event that *)
(* stays accepted is delivered and settled: a full outbox always makes     *)
(* room again, and no interruption of an initialization or of a delivery   *)
(* leaves the sink without a step to take.  Exhausted offsets are an error *)
(* that never stops: what is buffered then stays where it is.              *)
(***************************************************************************)
EventuallySettled ==
  <>[](~needsReopen /\ pc \notin {"fail", "closed", "down"}) =>
    /\ <>[](store.control = "ready")
    /\ \A n \in 1..MaxOffset : <>[](store.tail > n) => <>[](store.head.offset > n)
=============================================================================
