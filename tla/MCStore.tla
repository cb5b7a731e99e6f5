------------------------------ MODULE MCStore ------------------------------
(***************************************************************************)
(* Two partitions whose framings share their first byte, next to a queue   *)
(* whose metadata key is the successor of the map's prefix.  What the      *)
(* bytes stand for is kept in variables of its own, so that it is computed *)
(* once in a step.                                                         *)
(***************************************************************************)
EXTENDS Store

MCMapKey == {<< <<>>, <<>> >>, << <<>>, <<255>> >>, << <<0>>, <<>> >>}
MCPayload == {Value(0, <<7>>), Value(1, <<8>>)}
MCDifference == {-1, 1}
MCReadBound == {0, 24}
MCLimit == {[items |-> 1, bytes |-> 64], [items |-> 2, bytes |-> 11]}

VARIABLES keptContents, draftContents

MCInit ==
  /\ Init
  /\ keptContents = [i \in DOMAIN log |-> Contents(log[i])]
  /\ draftContents = Contents(tx.view)

MCNext ==
  /\ Next
  /\ keptContents' = [i \in DOMAIN log' |-> Contents(log'[i])]
  /\ draftContents' = IF tx'.poisoned THEN Last(keptContents') ELSE Contents(tx'.view)

MCSpec == MCInit /\ [][MCNext]_<<vars, keptContents, draftContents>>

Contract == INSTANCE StoreContract WITH
  kept <- keptContents,
  open <- tx.open,
  healthy <- ~ tx.poisoned,
  draft <- draftContents,
  EntryBytes <- SequenceBytes

\* The bytes in RocksDB implement the contract: the queue is a FIFO with exact
\* byte accounting whose numbering never shows, the map a multiset of
\* partitioned keys, and no call ever finds the queue corrupt; a transaction
\* that met a hard error, even between two writes of one call, publishes
\* nothing; and what a successful barrier or direct commit covers survives a
\* crash.
ImplementsContract == Contract!Spec
=============================================================================
