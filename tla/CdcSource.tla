------------------------------ MODULE CdcSource ------------------------------
(***************************************************************************)
(* A change-data-capture source: operation/scan/cdc_runtime.rs with the    *)
(* snapshot rules of cdc_convert.rs, driven by the round of flow/advance.rs *)
(* (poll, record, commit, barrier, ack; the stack consumes; final barrier). *)
(*                                                                         *)
(* A table goes through a bootstrap that is hidden until it is sealed: the *)
(* phase, the checkpoint and the input queue are in the store, the         *)
(* connector is in the process and the replication slot (PostgreSQL) is in *)
(* the database.  A restart in the middle of a bootstrap drops the slot,   *)
(* discards the queue over several rounds and starts again.                *)
(*                                                                         *)
(* The database has numbered changes.  A snapshot at change p is the rows  *)
(* [kind |-> "row" or "last", at |-> p, n |-> i]; change n is              *)
(* [kind |-> "event", at |-> n, n |-> n].  A checkpoint is the number of   *)
(* the last change that a connector restarted from it will not send again. *)
(***************************************************************************)
EXTENDS Integers, Sequences, SequencesExt

CONSTANTS
  Sources,       \* [postgres, rows, spool]: PostgreSQL or MySQL, rows of the table at
                 \* its snapshot, capacity of the input queue during bootstrap
  MaxChanges,    \* bound: changes the database makes
  MaxRecords,    \* bound: records of a delivery
  StreamBytes,   \* STREAMING_BYTES, the queue's capacity afterwards
  ResetBatch,    \* RESET_BATCH_ENTRIES
  Faults,        \* "crash", "commit", "sync", "poll", "ack"
  None           \* no checkpoint, no slot, no delivery

ASSUME CdcAssumption ==
  /\ Sources \subseteq [postgres : BOOLEAN, rows : Nat, spool : Nat \ {0}]
  /\ MaxChanges \in Nat /\ MaxRecords \in Nat \ {0} /\ ResetBatch \in Nat \ {0}
  /\ StreamBytes \in Nat \ {0}
  /\ MaxRecords <= StreamBytes   \* a delivery fits an empty queue
  /\ Faults \subseteq {"crash", "commit", "sync", "poll", "ack"}
  /\ None \notin Int

VARIABLE source   \* what is captured, chosen once

Postgres     == source.postgres
SnapshotRows == source.rows
SpoolBytes   == source.spool

RESET_REQUIRES_SOURCE_CLEANUP == Postgres
CAPTURE_ACCEPTS_STREAMING     == Postgres

-----------------------------------------------------------------------------
(* What a connector sends.                                                 *)

Rec(kind, at, n) == [kind |-> kind, at |-> at, n |-> n]

Heartbeat == Rec("beat", 0, 0)

Snapshot(p) ==
  [i \in 1..SnapshotRows |-> Rec(IF i = SnapshotRows THEN "last" ELSE "row", p, i)]

Events(from, to) == [i \in 1..(to - from) |-> Rec("event", from + i, from + i)]

\* The notification that the snapshot is complete.
Done == Rec("done", 0, 0)

-----------------------------------------------------------------------------
(* convert_values: the rows of a delivery and the snapshot's progress.     *)

NoProgress == [saw |-> FALSE, complete |-> FALSE]

\* One record; c is what the records before it gave.
ConvertRecord(c, r, capturing) ==
  LET bad       == [c EXCEPT !.ok = FALSE]
      streaming == ~capturing \/ (CAPTURE_ACCEPTS_STREAMING /\ c.complete)
  IN CASE ~c.ok \/ r.kind = "beat" -> c
       [] r.kind = "done" ->
            IF ~capturing \/ c.sealed \/ (c.saw /\ ~c.complete) THEN bad
            ELSE [c EXCEPT !.sealed = TRUE,
                           !.complete = @ \/ CAPTURE_ACCEPTS_STREAMING]
       [] r.kind \in {"row", "last"} ->
            IF ~capturing \/ c.sealed \/ c.complete THEN bad
            ELSE [c EXCEPT !.rows = Append(@, r), !.saw = TRUE,
                           !.complete = r.kind = "last"]
       [] r.kind = "event" ->
            IF ~streaming THEN bad ELSE [c EXCEPT !.rows = Append(@, r)]

Convert(records, capturing, progress) ==
  LET after[i \in 0..Len(records)] ==
        IF i = 0 THEN [rows |-> <<>>, sealed |-> FALSE, saw |-> progress.saw,
                       complete |-> progress.complete, ok |-> TRUE]
        ELSE ConvertRecord(after[i - 1], records[i], capturing)
  IN after[Len(records)]

-----------------------------------------------------------------------------
(* The store: the source's cells and queue, and the rows consumed so far.  *)

EmptyStore == [phase |-> "fresh", checkpoint |-> None, input |-> <<>>,
               bytes |-> 0, taken |-> <<>>]

Phase == {"fresh", "capturing", "sealed", "streaming", "resetting"}
Visible(s) == s.phase \in {"sealed", "streaming"}

Bytes(entries) == Len(FlattenSeq(entries))

\* Mutant: the bytes of discarded entries stay in the account.
DiscardFrontKeepsBytes(s, count) ==
  LET k == IF count < Len(s.input) THEN count ELSE Len(s.input)
  IN [s EXCEPT !.input = SubSeq(@, k + 1, Len(@))]

\* Queue::discard_front.
DiscardFront(s, count) ==
  LET k == IF count < Len(s.input) THEN count ELSE Len(s.input)
  IN [s EXCEPT !.input = SubSeq(@, k + 1, Len(@)),
               !.bytes = @ - Bytes(SubSeq(s.input, 1, k))]

BeginCapture(s) == [s EXCEPT !.phase = "capturing"]

\* Mutant: the checkpoint outlives the discarded rows.
ResetKeepsCheckpoint(s) ==
  LET t == DiscardFront(s, ResetBatch)
  IN IF t.input = <<>> THEN [t EXCEPT !.phase = "fresh"]
                       ELSE [t EXCEPT !.phase = "resetting"]

\* Mutant: an emptied queue does not end the reset.
ResetNeverEnds(s) == [DiscardFront(s, ResetBatch) EXCEPT !.phase = "resetting"]

Reset(s) ==
  LET t == DiscardFront(s, ResetBatch)
  IN IF t.input = <<>>
     THEN [t EXCEPT !.phase = "fresh", !.checkpoint = None]
     ELSE [t EXCEPT !.phase = "resetting"]

Capacity(streaming) == IF streaming THEN StreamBytes ELSE SpoolBytes

\* Mutant: a heartbeat does not wait for a full queue.
FitsHeartbeat(s, d) ==
  d.rows = <<>> \/ s.bytes + Len(d.rows) <= Capacity(d.streaming)

\* try_push, and a heartbeat's own check.
Fits(s, d) ==
  IF d.rows = <<>>
  THEN d.streaming => s.bytes <= StreamBytes
  ELSE s.bytes + Len(d.rows) <= Capacity(d.streaming)

\* Mutant: the seal is recorded without the rows that came with it.
RecordCaptureDrops(s, d) ==
  [s EXCEPT !.input = IF d.rows = <<>> \/ d.sealed THEN @ ELSE Append(@, d.rows),
            !.bytes = IF d.sealed THEN @ ELSE @ + Len(d.rows),
            !.checkpoint = d.checkpoint,
            !.phase = IF d.streaming THEN "streaming"
                      ELSE IF d.sealed THEN "sealed" ELSE @]

RecordCapture(s, d) ==
  [s EXCEPT !.input = IF d.rows = <<>> THEN @ ELSE Append(@, d.rows),
            !.bytes = @ + Len(d.rows),
            !.checkpoint = d.checkpoint,
            !.phase = IF d.streaming THEN "streaming"
                      ELSE IF d.sealed THEN "sealed" ELSE @]

Consume(s) ==
  [DiscardFront(s, 1) EXCEPT !.taken = @ \o Head(s.input)]

\* The phase decides which cells a store has.
ValidPhase(s) ==
  /\ s.phase = "fresh" => s.checkpoint = None /\ s.input = <<>>
  /\ s.phase = "capturing" => s.input = <<>> \/ s.checkpoint # None
  /\ Visible(s) => s.checkpoint # None
  /\ ~Postgres /\ s.phase = "resetting" => s.input = <<>> \/ s.checkpoint # None

\* What restore() requires of the store it finds.
Restorable(s) == s.bytes <= Capacity(s.phase = "streaming") /\ ValidPhase(s)

-----------------------------------------------------------------------------
VARIABLES
  store,       \* what transactions read
  durable,     \* store values a crash may leave behind
  pc,          \* where the round is
  nextStep,    \* NextStep of the runtime
  resume,      \* checkpoint the next streaming connector starts from
  progress,    \* SnapshotProgress after the last acked delivery
  delivery,    \* the delivery in hand, or None
  needsReopen, \* needs_reopen of the flow
  connector,   \* external: the running connector
  slot,        \* external: last change the replication slot may forget, or None
  changes      \* external: changes made in the database

process  == <<nextStep, resume, progress, delivery>>
external == <<connector, slot, changes>>
vars     == <<source, store, durable, pc, process, needsReopen, external>>

\* `sent' counts the records acked.
Stopped == [mode |-> "off", at |-> 0, sent |-> 0]

Restart ==
  /\ nextStep' = "restore" /\ resume' = None /\ progress' = NoProgress
  /\ delivery' = None /\ connector' = Stopped

Init ==
  /\ source \in Sources
  /\ store = EmptyStore /\ durable = {EmptyStore} /\ pc = "down"
  /\ nextStep = "restore" /\ resume = None /\ progress = NoProgress
  /\ delivery = None /\ needsReopen = FALSE
  /\ connector = Stopped /\ slot = None /\ changes = 0

Commit(t, next) ==
  /\ durable' = durable \cup {t}
  /\ \/ store' = t /\ pc' = next /\ UNCHANGED needsReopen
     \/ /\ "commit" \in Faults
        /\ store' = store /\ pc' = "finish" /\ needsReopen' = TRUE

FailStop == pc' = "finish" /\ needsReopen' = TRUE

-----------------------------------------------------------------------------
(* restore and poll.                                                       *)

\* Mutant: a sealed bootstrap is taken for an interrupted one.
StepAfterResets(phase) ==
  CASE phase = "fresh"     -> "begin"
    [] phase \in {"capturing", "sealed"} -> "prepareReset"
    [] phase = "resetting" -> "reset"
    [] phase = "streaming" -> "stream"

StepAfter(phase) ==
  CASE phase = "fresh"     -> "begin"
    [] phase = "capturing" -> "prepareReset"
    [] phase = "resetting" -> "reset"
    [] phase \in {"sealed", "streaming"} -> "stream"

Restore ==
  /\ pc = "down" /\ Restorable(store)
  /\ nextStep' = StepAfter(store.phase)
  /\ resume' = (IF Visible(store) \/ ~Postgres THEN store.checkpoint ELSE None)
  /\ pc' = "poll"
  /\ UNCHANGED <<store, durable, progress, delivery, needsReopen, external>>

Maintenance(kind) == [kind |-> kind]

PollBegin ==
  /\ pc = "poll" /\ delivery = None
  /\ nextStep \in {"begin", "reset"}
  /\ delivery' = Maintenance(nextStep)
  /\ pc' = "record"
  /\ UNCHANGED <<store, durable, nextStep, resume, progress, needsReopen, external>>

\* Mutant: the slot stays.
PollPrepareResetKeepsSlot ==
  /\ pc = "poll" /\ delivery = None /\ nextStep = "prepareReset"
  /\ delivery' = Maintenance("reset")
  /\ connector' = Stopped
  /\ pc' = "record"
  /\ UNCHANGED <<store, durable, nextStep, resume, progress, needsReopen, slot,
                 changes>>

PollPrepareReset ==
  /\ pc = "poll" /\ delivery = None /\ nextStep = "prepareReset"
  /\ delivery' = Maintenance("reset")
  /\ connector' = Stopped
  /\ slot' = (IF RESET_REQUIRES_SOURCE_CLEANUP THEN None ELSE slot)
  /\ pc' = "record"
  /\ UNCHANGED <<store, durable, nextStep, resume, progress, needsReopen, changes>>

Absent(c) == c.mode = "off"

\* A slot must be absent for a snapshot, and there to continue from.
MayStart == Postgres => (slot = None) = (nextStep = "capture")

\* Starting a connector; a snapshot creates the slot it will stream from.
StartConnector ==
  /\ pc = "poll" /\ delivery = None /\ Absent(connector) /\ MayStart
  /\ \/ /\ nextStep = "capture"
        /\ connector' = [mode |-> "snapshot", at |-> changes, sent |-> 0]
        /\ slot' = (IF Postgres THEN changes ELSE None)
     \/ /\ nextStep = "stream" /\ resume # None
        /\ connector' = [mode |-> "stream", sent |-> 0,
                         at |-> IF Postgres /\ slot > resume THEN slot ELSE resume]
        /\ UNCHANGED slot
  /\ \/ UNCHANGED <<pc, needsReopen>>
     \/ "poll" \in Faults /\ FailStop
  /\ UNCHANGED <<store, durable, process, changes>>

\* All rows and changes a connector sends in its life, if nothing more is
\* changed; MySQL's snapshot connector ends with the snapshot.
Life ==
  IF connector.mode = "stream" THEN Events(connector.at, changes)
  ELSE Snapshot(connector.at)
       \o Events(connector.at, IF CAPTURE_ACCEPTS_STREAMING THEN changes ELSE connector.at)

\* The last change among its first n: the rows of a snapshot come before changes.
ChangeAfter(n) ==
  LET rows == IF connector.mode = "stream" THEN 0 ELSE SnapshotRows
  IN connector.at + (IF n > rows THEN n - rows ELSE 0)

\* A delivery of `records' with the next k rows and changes.
Polled(records, k) ==
  LET streaming == nextStep = "stream"
      c == Convert(records, ~streaming, progress)
  IN [kind |-> "cdc", rows |-> c.rows, sealed |-> c.sealed, streaming |-> streaming,
      progress |-> [saw |-> c.saw, complete |-> c.complete],
      checkpoint |-> ChangeAfter(connector.sent + k), sent |-> k, ok |-> c.ok]

\* The snapshot of an empty table: no row is marked as the last, and changes
\* follow the completion.
EmptySnapshot == connector.mode = "snapshot" /\ SnapshotRows = 0

\* What the next poll may return: the next rows and changes, none of them with
\* a heartbeat, and, after the last row of a snapshot, its completion.
Deliveries ==
  LET next(k) == SubSeq(Life, connector.sent + 1, connector.sent + k)
      amounts == {k \in 0..MaxRecords : connector.sent + k <= Len(Life)}
  IN {Polled(IF k = 0 THEN <<Heartbeat>> ELSE next(k), k) :
        k \in {k \in amounts : EmptySnapshot => k = 0}} \cup
     {Polled(InsertAt(next(j[1]), j[2] + 1, Done), j[1]) :
        j \in {j \in amounts \X (0..MaxRecords) :
                /\ connector.mode = "snapshot" /\ j[2] <= j[1]
                /\ connector.sent + j[2] >= SnapshotRows
                /\ EmptySnapshot => j[2] = 0}}

Running == pc = "poll" /\ delivery = None /\ ~Absent(connector)
           /\ nextStep \in {"capture", "stream"}

PollDelivery ==
  /\ Running
  /\ \E d \in Deliveries :
       /\ d.ok /\ delivery' = d
  /\ pc' = "record"
  /\ UNCHANGED <<store, durable, nextStep, resume, progress, needsReopen, external>>

PollNone ==
  /\ Running
  /\ pc' = "stack"
  /\ UNCHANGED <<store, durable, process, needsReopen, external>>

\* A failed connection, start or conversion, or a cleanup whose outcome is lost.
PollFails ==
  /\ pc = "poll" /\ delivery = None
  /\ nextStep \in {"prepareReset", "capture", "stream"}
  /\ \/ "poll" \in Faults
     \/ Absent(connector) /\ nextStep # "prepareReset" /\ ~MayStart
     \/ Running /\ \E d \in Deliveries : ~d.ok
  /\ slot' \in {slot} \cup (IF nextStep = "prepareReset" THEN {None} ELSE {})
  /\ FailStop
  /\ UNCHANGED <<store, durable, process, connector, changes>>

PollHeld ==
  /\ pc = "poll" /\ delivery # None
  /\ pc' = "record"
  /\ UNCHANGED <<store, durable, process, needsReopen, external>>

-----------------------------------------------------------------------------
(* record, barrier and ack.                                                *)

RecordMaintenance ==
  /\ pc = "record" /\ delivery.kind # "cdc"
  /\ Commit(IF delivery.kind = "begin" THEN BeginCapture(store) ELSE Reset(store), "ack")
  /\ UNCHANGED <<process, external>>

Record ==
  /\ pc = "record" /\ delivery.kind = "cdc" /\ Fits(store, delivery)
  /\ Commit(RecordCapture(store, delivery), "sync")
  /\ UNCHANGED <<process, external>>

\* A full queue: a streaming delivery waits, a bootstrap ends the round with
\* an error and the delivery in hand.
RecordRefused ==
  /\ pc = "record" /\ delivery.kind = "cdc" /\ ~Fits(store, delivery)
  /\ pc' = IF delivery.streaming THEN "stack" ELSE "finish"
  /\ UNCHANGED <<store, durable, process, needsReopen, external>>

\* Mutant: no barrier before the ACK.
SyncSkipped ==
  /\ pc = "sync" /\ pc' = "ack"
  /\ UNCHANGED <<store, durable, process, needsReopen, external>>

Sync ==
  /\ pc = "sync"
  /\ \/ durable' = {store} /\ pc' = "ack" /\ UNCHANGED needsReopen
     \/ "sync" \in Faults /\ FailStop /\ UNCHANGED durable
  /\ UNCHANGED <<store, process, external>>

AckMaintenance ==
  /\ pc = "ack" /\ delivery.kind # "cdc"
  /\ nextStep' = (IF delivery.kind = "begin" THEN "capture"
                  ELSE IF store.phase = "fresh" THEN "begin" ELSE "reset")
  /\ resume' = (IF delivery.kind = "begin" THEN resume ELSE None)
  /\ progress' = NoProgress
  /\ delivery' = None
  /\ pc' = "stack"
  /\ UNCHANGED <<store, durable, needsReopen, external>>

\* Mutant: the progress of a snapshot is forgotten between its deliveries.
AckForgetsProgress ==
  /\ pc = "ack" /\ delivery.kind = "cdc"
  /\ slot' = (IF Postgres THEN delivery.checkpoint ELSE None)
  /\ IF delivery.sealed
     THEN connector' = Stopped /\ nextStep' = "stream" /\ UNCHANGED progress
     ELSE /\ connector' = [connector EXCEPT !.sent = @ + delivery.sent]
          /\ UNCHANGED <<nextStep, progress>>
  /\ resume' = delivery.checkpoint
  /\ delivery' = None
  /\ pc' = "stack"
  /\ UNCHANGED <<store, durable, needsReopen, changes>>

Ack ==
  /\ pc = "ack" /\ delivery.kind = "cdc"
  /\ slot' = (IF Postgres THEN delivery.checkpoint ELSE None)
  /\ IF delivery.sealed
     THEN connector' = Stopped /\ nextStep' = "stream" /\ UNCHANGED progress
     ELSE /\ connector' = [connector EXCEPT !.sent = @ + delivery.sent]
          /\ progress' = (IF delivery.streaming THEN progress ELSE delivery.progress)
          /\ UNCHANGED nextStep
  /\ resume' = delivery.checkpoint
  /\ delivery' = None
  /\ pc' = "stack"
  /\ UNCHANGED <<store, durable, needsReopen, changes>>

\* An ACK that may or may not have arrived, or a connector that does not stop.
AckFails ==
  /\ pc = "ack" /\ delivery.kind = "cdc" /\ "ack" \in Faults
  /\ slot' \in {slot, IF Postgres THEN delivery.checkpoint ELSE None}
  /\ delivery' = None
  /\ FailStop
  /\ UNCHANGED <<store, durable, nextStep, resume, progress, connector, changes>>

-----------------------------------------------------------------------------
(* The rest of the round, failures and the database.                       *)

ConsumePublished ==
  /\ pc = "stack" /\ Visible(store) /\ store.input # <<>>
  /\ Commit(Consume(store), "stack")
  /\ UNCHANGED <<process, external>>

StackDone ==
  /\ pc = "stack" /\ pc' = "finish"
  /\ UNCHANGED <<store, durable, process, needsReopen, external>>

Finish ==
  /\ pc = "finish"
  /\ \/ ~needsReopen /\ durable' = {store} /\ pc' = "poll" /\ UNCHANGED needsReopen
     \/ needsReopen /\ pc' = "closed" /\ UNCHANGED <<durable, needsReopen>>
     \/ /\ "sync" \in Faults
        /\ pc' = "closed" /\ needsReopen' = TRUE /\ UNCHANGED durable
  /\ UNCHANGED <<store, process, external>>

Crash ==
  /\ pc # "down" /\ ("crash" \in Faults \/ pc = "closed")
  /\ \E s \in durable : store' = s /\ durable' = {s}
  /\ pc' = "down" /\ needsReopen' = FALSE
  /\ Restart
  /\ UNCHANGED <<slot, changes>>

DatabaseChanges ==
  /\ changes < MaxChanges
  /\ changes' = changes + 1
  /\ UNCHANGED <<store, durable, pc, process, needsReopen, connector, slot>>

Poll  == Restore \/ PollBegin \/ PollPrepareReset \/ StartConnector
         \/ PollDelivery \/ PollNone \/ PollFails \/ PollHeld
Turn  == Poll \/ RecordMaintenance \/ Record \/ RecordRefused \/ Sync
         \/ AckMaintenance \/ Ack \/ AckFails \/ ConsumePublished \/ StackDone
         \/ Finish

Same(action) == action /\ UNCHANGED source

Round == Same(Turn)

Next == Round \/ Same(Crash) \/ Same(DatabaseChanges)

Spec == Init /\ [][Next]_vars

\* The caller keeps calling advance() and reopens; the connector does not
\* answer for ever with nothing or heartbeats, and the stack consumes.
FairSpec ==
  /\ Spec
  /\ WF_vars(Round) /\ WF_vars(Same(Crash /\ pc = "closed"))
  /\ SF_vars(Same(PollDelivery /\ delivery'.sent > 0))
  /\ SF_vars(Same(PollDelivery /\ delivery'.sealed))
  /\ SF_vars(Same(ConsumePublished))

-----------------------------------------------------------------------------
(* Properties.                                                             *)

(***************************************************************************)
(* What a source hands to the flow is one snapshot of its table followed   *)
(* by every later change up to the checkpoint, in order, each once; and    *)
(* nothing before the bootstrap is sealed.  In every store a crash may     *)
(* leave: record() writes rows, checkpoint and phase together, and an      *)
(* interrupted bootstrap leaves no row behind (Reset).                     *)
(***************************************************************************)
CapturedOnce ==
  \A s \in durable :
    IF Visible(s)
    THEN \E p \in 0..s.checkpoint :
           s.taken \o FlattenSeq(s.input) = Snapshot(p) \o Events(p, s.checkpoint)
    ELSE s.taken = <<>>

(***************************************************************************)
(* restore() accepts every store a crash may leave, and the queue's byte   *)
(* account is exact there: also when a heartbeat arrives while the spool   *)
(* of the bootstrap is over STREAMING_BYTES, and in the middle of a reset  *)
(* of several rounds.                                                      *)
(***************************************************************************)
RestoreAccepts == \A s \in durable : s.bytes = Bytes(s.input) /\ Restorable(s)

(***************************************************************************)
(* The replication slot, which no transaction covers, agrees with every    *)
(* store a crash may leave: a bootstrap can always create its slot         *)
(* (validate_absent_slot), a sealed source always finds it                 *)
(* (validate_streaming_slot), and the slot still has every change after    *)
(* the checkpoint.                                                         *)
(***************************************************************************)
SlotAgrees ==
  Postgres => \A s \in durable :
    /\ s.phase \in {"fresh", "resetting"} => slot = None
    /\ Visible(s) => slot # None /\ slot <= s.checkpoint

\* convert_values never refuses what a sound connector sends, however the
\* snapshot, its completion and the first changes are cut into deliveries.
ConversionAccepts == Running => \A d \in Deliveries : d.ok

\* The spool holds whatever the bootstrap may send.
Roomy == SnapshotRows + (IF CAPTURE_ACCEPTS_STREAMING THEN MaxChanges ELSE 0) <= SpoolBytes

(***************************************************************************)
(* Once failures and crashes stop, the bootstrap is sealed and every       *)
(* change of the database is consumed: interrupted bootstraps and resets   *)
(* end, and a full queue drains.  Provided the spool is roomy: one that    *)
(* cannot hold the bootstrap stays full.                                   *)
(***************************************************************************)
EventuallyConsumed ==
  (Roomy /\ <>[](~needsReopen /\ pc # "down")) =>
    <>[](Visible(store) /\ store.input = <<>> /\ store.checkpoint = changes)
=============================================================================
