------------------------------- MODULE Store -------------------------------
(***************************************************************************)
(* Transactions over the key space: one write transaction at a time, begun *)
(* directly (its commit synchronizes the log) or inside a durability batch *)
(* (commits wait for the batch's next barrier), and read snapshots.  The   *)
(* store holds a partitioned map of weights and a queue whose data ids are *)
(* neighbours, so that the map's keys border on the queue's.  (A cell is a *)
(* namespace with one key and brings nothing else.)                        *)
(***************************************************************************)
EXTENDS StoreQueue

CONSTANTS
  MapKey,        \* keys of the map: pairs of a partition and a local key, as bytes
  Payload,       \* values of the queue
  Difference,    \* differences a caller adds to a weight
  Capacity,      \* byte capacity a caller pushes under
  ReadBound,     \* byte bounds a caller reads under
  Limit,         \* item and byte limits of a page
  MapId, QueueId,
  MaxCalls,      \* bound: calls in one direct transaction
  MaxBatched,    \* bound: calls in one batched transaction
  MaxUnsynced    \* bound: commits between two barriers

ASSUME StoreAssumption ==
  /\ Capacity \in Nat \ {0}
  /\ MaxCalls \in Nat /\ MaxBatched \in Nat /\ MaxUnsynced \in Nat
  /\ {MapId, QueueId} \subseteq DataId /\ MapId # QueueId
  /\ MapKey \subseteq Seq(Byte) \X Seq(Byte)
  /\ Payload \subseteq [size : Nat, data : Seq(Nat)]
  /\ Difference \subseteq Int /\ ReadBound \subseteq Nat
  /\ Limit \subseteq [items : Nat \ {0}, bytes : Nat \ {0}]

VARIABLES
  log,       \* the states a crash may recover, the last one being visible
  batch,     \* whether a durability batch is in use
  pending,   \* DurabilityBatch::pending
  tx,        \* the write transaction
  scan,      \* a paged scan inside the transaction
  reply,     \* what the last call answered; none once it no longer matters
  failed     \* the runtime must be reconstructed before it is used again

vars == <<log, batch, pending, tx, scan, reply, failed>>

db == Last(log)

MapP == data_prefix(MapId)
QueueP == data_prefix(QueueId)

Partition == {pk[1] : pk \in MapKey}
Encoded == [pk \in MapKey |-> encode_key(pk[1], pk[2])]
Decoded == [k \in {Encoded[pk] : pk \in MapKey} |-> decode_key(k)]

NoTx(view) ==
  [open |-> FALSE, sync |-> FALSE, view |-> view, poisoned |-> FALSE, writes |-> FALSE,
   calls |-> 0]

NoScan ==
  [live |-> FALSE, part |-> <<>>, ascending |-> TRUE, resume |-> <<>>, seen |-> <<>>,
   stable |-> {}]

Init ==
  /\ log = << <<>> >>
  /\ batch = FALSE
  /\ pending = FALSE
  /\ tx = NoTx(<<>>)
  /\ scan = NoScan
  /\ reply = Reply("none", <<>>)
  /\ failed = FALSE

------------------------------------------------------------------------------
(* Transactions. *)

StartBatch ==
  /\ ~ failed /\ ~ batch /\ ~ tx.open
  /\ batch' = TRUE
  /\ pending' = FALSE
  /\ UNCHANGED <<log, tx, scan, reply, failed>>

Begin ==
  /\ ~ failed /\ ~ tx.open
  /\ batch => Len(log) <= MaxUnsynced
  /\ tx' = [NoTx(db) EXCEPT !.open = TRUE, !.sync = ~ batch]
  /\ reply' = Reply("none", <<>>)
  /\ UNCHANGED <<log, batch, pending, scan, failed>>

\* The keys of the map, as partition and local key.
MapKeys(view) ==
  {<<Decoded[k].partition, Decoded[k].key>> : k \in Owned(view, MapP)}

\* The caller of a scan may count on the keys that stay while it lasts.
Watching(view) ==
  IF scan.live THEN [scan EXCEPT !.stable = @ \cap MapKeys(view)] ELSE NoScan

\* A storage error stops a call after any of its writes and poisons.
StorageFails(outcome) ==
  \E n \in DOMAIN outcome.views :
    /\ tx' = [tx EXCEPT !.view = outcome.views[n], !.writes = @ \/ n > 1, !.poisoned = TRUE]
    /\ scan' = NoScan
    /\ reply' = Reply("storage", <<>>)

\* The call runs to its end; its answer is recorded, and poisons if it is hard.
Completes(outcome) ==
  LET view == Last(outcome.views)
  IN /\ tx' = [tx EXCEPT !.view = view,
                         !.writes = @ \/ Len(outcome.views) > 1,
                         !.poisoned = outcome.reply.kind \in HardErrors,
                         !.calls = @ + 1]
     /\ scan' = Watching(view)
     /\ reply' = outcome.reply

\* The open transaction takes a call.  A poisoned one answers every call the
\* same way and touches nothing.
Healthy ==
  /\ tx.open /\ ~ tx.poisoned
  /\ tx.calls < IF tx.sync THEN MaxCalls ELSE MaxBatched

Call(outcome) ==
  /\ Completes(outcome) \/ StorageFails(outcome)
  /\ UNCHANGED <<log, batch, pending, failed>>

CallPoisoned ==
  /\ tx.open /\ tx.poisoned
  /\ reply' = Reply("poisoned", <<>>)
  /\ UNCHANGED <<log, batch, pending, tx, scan, failed>>

\* A call that wrote nothing ends in an error that poisons the transaction.
Poisons(kind) ==
  /\ tx.open /\ ~ tx.poisoned
  /\ tx' = [tx EXCEPT !.poisoned = TRUE]
  /\ scan' = NoScan
  /\ reply' = Reply(kind, <<>>)
  /\ UNCHANGED <<log, batch, pending, failed>>

\* A handle of another store is refused and poisons.
CallForeign == Poisons("wrong_store")

\* Mutant: only a commit that RocksDB accepts arms the barrier.
ArmsOnSuccess(accepted) == pending \/ (~ tx.sync /\ accepted /\ tx.writes /\ ~ tx.poisoned)

\* A batched commit attempt arms the barrier before it is made.
Arms(accepted) == pending \/ (~ tx.sync /\ tx.writes)

Closing == tx' = NoTx(Last(log')) /\ scan' = NoScan

\* Poisoned: nothing is published.  No writes: RocksDB is not entered.
Commit ==
  /\ tx.open
  /\ log' = IF tx.poisoned \/ ~ tx.writes THEN log
            ELSE IF tx.sync THEN <<tx.view>> ELSE Append(log, tx.view)
  /\ pending' = Arms(TRUE)
  /\ reply' = Reply(CASE tx.poisoned               -> "poisoned"
                      [] ~ tx.poisoned /\ tx.sync  -> "durable"
                      [] OTHER                     -> "committed", <<>>)
  /\ Closing
  /\ UNCHANGED <<batch, failed>>

\* RocksDB reports an error: the writes may be in the log or not.
CommitFails ==
  /\ tx.open /\ ~ tx.poisoned /\ tx.writes
  /\ log' \in {log, Append(log, tx.view)}
  /\ pending' = Arms(FALSE)
  /\ reply' = Reply("commit_error", <<>>)
  /\ failed' = TRUE
  /\ Closing
  /\ UNCHANGED batch

Drop ==
  /\ tx.open
  /\ log' = log
  /\ reply' = Reply("none", <<>>)
  /\ Closing
  /\ UNCHANGED <<batch, pending, failed>>

\* The barrier, within a batch or as its end, also after a failed commit.
Sync(ends) ==
  /\ batch /\ ~ tx.open
  /\ log' = IF pending THEN <<db>> ELSE log
  /\ pending' = FALSE
  /\ batch' = ~ ends
  /\ reply' = Reply("synced", <<>>)
  /\ UNCHANGED <<tx, scan, failed>>

SyncFails ==
  /\ batch /\ ~ tx.open /\ pending
  /\ reply' = Reply("sync_error", <<>>)
  /\ failed' = TRUE
  /\ UNCHANGED <<log, batch, pending, tx, scan>>

\* The process stops at any time and the store is opened again.
Restart ==
  /\ \E i \in DOMAIN log : log' = <<log[i]>>
  /\ batch' = FALSE
  /\ pending' = FALSE
  /\ reply' = Reply("none", <<>>)
  /\ failed' = FALSE
  /\ Closing

------------------------------------------------------------------------------
(* The queue. *)

TryPush ==
  /\ Healthy
  /\ \E v \in Payload : Call(try_push(tx.view, QueueP, v, Capacity))

PopFront ==
  /\ Healthy
  /\ \E max \in ReadBound : Call(pop_front_bounded(tx.view, QueueP, max))

DiscardFront ==
  /\ Healthy
  /\ \E n \in 0 .. 2 : Call(discard_front(tx.view, QueueP, n))

QueuedBytes == Healthy /\ Call(queued_bytes(tx.view, QueueP))

\* A read transaction's snapshot is the last committed state.
SnapshotFront ==
  /\ ~ failed
  /\ \E max \in ReadBound : reply' = front_bounded(db, QueueP, max).reply
  /\ UNCHANGED <<log, batch, pending, tx, scan, failed>>

------------------------------------------------------------------------------
(* The partitioned map of weights. *)

Adjust ==
  /\ Healthy
  /\ \E pk \in MapKey, d \in Difference :
       Call(adjust_encoded(tx.view, MapP, Encoded[pk], d))

SetMultiplicity ==
  /\ Healthy
  /\ \E pk \in MapKey, w \in 0 .. MaxWeight :
       Call(Outcome(<<tx.view, set_encoded(tx.view, MapP, Encoded[pk], w)>>,
                    Reply("set", <<>>)))

Multiplicity ==
  /\ Healthy
  /\ \E pk \in MapKey :
       Call(Unchanged(tx.view, Reply("some", <<read_weight(tx.view, MapP, Encoded[pk])>>)))

PartitionIsEmpty ==
  /\ Healthy
  /\ \E p \in Partition :
       Call(Unchanged(tx.view,
              Reply(IF namespace_is_empty(tx.view, MapP, partition_prefix(p), <<>>)
                    THEN "none" ELSE "held", <<>>)))

HasOtherKey ==
  /\ Healthy
  /\ \E pk \in MapKey :
       Call(Unchanged(tx.view,
              Reply(IF namespace_is_empty(tx.view, MapP, partition_prefix(pk[1]), <<pk[2]>>)
                    THEN "only" ELSE "other", <<>>)))

\* A scan of the whole map (no part) or of one partition begins with no resume
\* key; its caller may go on writing between two pages.  Bound: one scan in a
\* direct transaction, begun before its other calls.
StartScan ==
  /\ tx.open /\ ~ tx.poisoned /\ tx.sync /\ tx.calls = 0 /\ scan = NoScan
  /\ \E part \in {<<>>} \cup {<<p>> : p \in Partition}, ascending \in BOOLEAN :
       scan' = [live |-> TRUE, part |-> part, ascending |-> ascending, resume |-> <<>>,
                seen |-> <<>>,
                stable |-> {pk \in MapKeys(tx.view) : part = <<>> \/ part = <<pk[1]>>}]
  /\ UNCHANGED <<log, batch, pending, tx, reply, failed>>

PageOf(limit) ==
  IF scan.part = <<>>
  THEN scan_map(tx.view, MapP, scan.ascending, Unbounded, Unbounded, scan.resume, limit)
  ELSE scan_partition(tx.view, MapP, scan.part[1], scan.ascending, scan.resume, limit)

\* The partition and local key of an entry of a page.
EntryKey(entry) ==
  IF scan.part = <<>> THEN <<decode_key(entry.key).partition, decode_key(entry.key).key>>
  ELSE <<scan.part[1], entry.key>>

\* The next page, from the continuation of the last one, under any limit.  A
\* first entry over the limit is an error the caller may retry.
NextPage ==
  /\ tx.open /\ ~ tx.poisoned /\ scan.live
  /\ \E limit \in Limit :
       LET page == PageOf(limit)
       IN IF page.error
          THEN reply' = Reply("too_large", <<>>) /\ UNCHANGED scan
          ELSE /\ reply' = Reply("page", <<>>)
               /\ scan' = [scan EXCEPT !.live = page.continuation # <<>>,
                                       !.resume = page.continuation,
                                       !.seen = @ \o [i \in DOMAIN page.entries |->
                                                        EntryKey(page.entries[i])]]
  /\ UNCHANGED <<log, batch, pending, tx, failed>>

\* RocksDB fails while a page is read: the scan ends with its transaction.
PageFails == scan.live /\ Poisons("storage")

Next ==
  \/ StartBatch \/ Begin \/ Commit \/ CommitFails \/ Drop
  \/ (\E ends \in BOOLEAN : Sync(ends)) \/ SyncFails \/ Restart
  \/ CallPoisoned \/ CallForeign
  \/ TryPush \/ PopFront \/ DiscardFront \/ QueuedBytes \/ SnapshotFront
  \/ Adjust \/ SetMultiplicity \/ Multiplicity \/ PartitionIsEmpty \/ HasOtherKey
  \/ StartScan \/ NextPage \/ PageFails

Spec == Init /\ [][Next]_vars

------------------------------------------------------------------------------
(* Properties. *)

\* The order of partitioned keys is the order of their pairs.
KeyBefore(a, b) == LexLess(a[1], b[1]) \/ (a[1] = b[1] /\ LexLess(a[2], b[2]))

\* A scan in pages meets its keys in strict order of partition and local key,
\* never one twice, whatever is written between its pages; and when it has no
\* continuation left, every key of its range that was there all along has been
\* met, also next to another collection's keys.
ScanIsComplete ==
  /\ \A i \in 1 .. Len(scan.seen) - 1 :
       IF scan.ascending THEN KeyBefore(scan.seen[i], scan.seen[i + 1])
       ELSE KeyBefore(scan.seen[i + 1], scan.seen[i])
  /\ \A i \in DOMAIN scan.seen : scan.part # <<>> => scan.seen[i][1] = scan.part[1]
  /\ ~ scan.live => scan.stable \subseteq ToSet(scan.seen)

\* What the physical keys stand for.
Fifo(view) ==
  LET metadata == read_metadata(view, QueueP).metadata
  IN [i \in 1 .. metadata.tail - metadata.head |->
        IF Has(view, QueueP, encode_sequence(metadata.head + i - 1))
        THEN Read(view, QueueP, encode_sequence(metadata.head + i - 1))
        ELSE Value(0, <<>>)]

Contents(view) ==
  [fifo    |-> Fifo(view),
   weights |-> {[at |-> <<Decoded[k].partition, Decoded[k].key>>,
                 weight |-> Read(view, MapP, k).data[1]] : k \in Owned(view, MapP)}]
=============================================================================
