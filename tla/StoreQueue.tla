----------------------------- MODULE StoreQueue -----------------------------
(***************************************************************************)
(* The persistent FIFO queue.  Its metadata (head, tail and queued bytes)  *)
(* is kept under the empty key and its entries under their sequence        *)
(* numbers; an empty queue keeps nothing.  The eight-byte big-endian       *)
(* sequence key is one byte here and still counts for eight.               *)
(***************************************************************************)
EXTENDS DataNamespace

CONSTANT MaxSequence   \* u64::MAX of a sequence number

ASSUME QueueAssumption == MaxSequence \in 1 .. 255

SequenceBytes == 8
MetadataBytes == 24
MetadataKey == <<>>

Metadata(head, tail, bytes) == [head |-> head, tail |-> tail, bytes |-> bytes]

EmptyMetadata == Metadata(0, 0, 0)

encode_sequence(sequence) == <<sequence>>

\* Metadata that may be stored: the queue is not empty and every entry has at
\* least the bytes of its key.
is_valid(metadata) ==
  /\ metadata.tail > metadata.head
  /\ metadata.bytes >= (metadata.tail - metadata.head) * SequenceBytes

item_bytes(value) == value.size + SequenceBytes

stored_metadata(metadata) ==
  Value(MetadataBytes, <<metadata.head, metadata.tail, metadata.bytes>>)

\* The metadata, or why it cannot be trusted.
read_metadata(view, prefix) ==
  IF Has(view, prefix, MetadataKey)
  THEN LET data == Read(view, prefix, MetadataKey).data
           metadata == Metadata(data[1], data[2], data[3])
       IN [ok |-> is_valid(metadata), metadata |-> metadata]
  ELSE [ok |-> namespace_is_empty(view, prefix, <<>>, <<>>), metadata |-> EmptyMetadata]

Corrupt(views) == Outcome(views, Reply("corrupt", <<>>))

try_push(view, prefix, value, capacity) ==
  LET found    == read_metadata(view, prefix)
      metadata == found.metadata
      empty    == metadata.head = metadata.tail
      entry    == put(view, prefix, encode_sequence(metadata.tail), value)
      updated  == Metadata(metadata.head, metadata.tail + 1, metadata.bytes + item_bytes(value))
  IN IF ~ found.ok \/ (~ empty /\ ~ Has(view, prefix, encode_sequence(metadata.tail - 1)))
     THEN Corrupt(<<view>>)
     ELSE IF metadata.bytes + item_bytes(value) > capacity
     THEN Unchanged(view, Reply("full", <<>>))
     ELSE IF metadata.tail = MaxSequence
     THEN Unchanged(view, Reply("exhausted", <<>>))
     ELSE IF ~ empty /\ Has(view, prefix, encode_sequence(metadata.tail))
     THEN Corrupt(<<view>>)
     ELSE Outcome(<<view, entry, put(entry, prefix, MetadataKey, stored_metadata(updated))>>,
                  Reply("pushed", <<>>))

\* The last part of a removal: the views so far end without the removed entries.
finish_front_removal(views, prefix, metadata, reply) ==
  LET view == Last(views)
  IN IF metadata.head = metadata.tail
     THEN LET erased == erase(view, prefix, MetadataKey)
          IN IF metadata.bytes # 0 \/ ~ namespace_is_empty(erased, prefix, <<>>, <<>>)
             THEN Corrupt(views)
             ELSE Outcome(Append(views, erased), reply)
     ELSE IF Has(view, prefix, encode_sequence(metadata.head)) /\ is_valid(metadata)
          THEN Outcome(Append(views, put(view, prefix, MetadataKey, stored_metadata(metadata))),
                       reply)
          ELSE Corrupt(views)

pop_front_bounded(view, prefix, max) ==
  LET found    == read_metadata(view, prefix)
      metadata == found.metadata
      key      == encode_sequence(metadata.head)
      front    == get_bounded(view, prefix, key, max).reply
      bytes    == metadata.bytes - item_bytes(Read(view, prefix, key))
      rest     == Metadata(metadata.head + 1, metadata.tail, bytes)
  IN IF found.ok /\ metadata.head = metadata.tail
     THEN Unchanged(view, Reply("none", <<>>))
     ELSE IF ~ found.ok \/ front.kind = "none"
     THEN Corrupt(<<view>>)
     ELSE IF front.kind = "too_large"
     THEN Unchanged(view, front)
     ELSE IF bytes < 0
     THEN Corrupt(<<view>>)
     ELSE finish_front_removal(<<view, erase(view, prefix, key)>>, prefix, rest, front)

\* The front is read without being removed.
front_bounded(view, prefix, max) ==
  LET found == read_metadata(view, prefix)
      front == get_bounded(view, prefix, encode_sequence(found.metadata.head), max).reply
  IN IF found.ok /\ found.metadata.head = found.metadata.tail
     THEN Unchanged(view, Reply("none", <<>>))
     ELSE IF ~ found.ok \/ front.kind = "none"
     THEN Corrupt(<<view>>)
     ELSE Unchanged(view, front)

\* Entries leave one by one and the metadata is written once, at the end.
discard_front(view, prefix, entries) ==
  LET found    == read_metadata(view, prefix)
      metadata == found.metadata
      gone     == IF entries < metadata.tail - metadata.head
                  THEN entries ELSE metadata.tail - metadata.head
      key(i)   == encode_sequence(metadata.head + i)
      views[i \in 0 .. gone] == IF i = 0 THEN view ELSE erase(views[i - 1], prefix, key(i - 1))
      bytes[i \in 0 .. gone] ==
        IF i = 0 THEN metadata.bytes ELSE bytes[i - 1] - item_bytes(Read(view, prefix, key(i - 1)))
      missing  == {i \in 0 .. gone - 1 : ~ Has(view, prefix, key(i)) \/ bytes[i + 1] < 0}
      rest     == Metadata(metadata.head + gone, metadata.tail, bytes[gone])
  IN IF found.ok /\ metadata.head = metadata.tail
     THEN Unchanged(view, Reply("empty", <<>>))
     ELSE IF ~ found.ok \/ missing # {}
     THEN Corrupt(<<view>>)
     ELSE IF gone = 0
     THEN Unchanged(view, Reply("left", <<>>))
     ELSE finish_front_removal([i \in 1 .. gone + 1 |-> views[i - 1]], prefix, rest,
                     Reply(IF rest.head = rest.tail THEN "empty" ELSE "left", <<>>))

queued_bytes(view, prefix) ==
  LET found == read_metadata(view, prefix)
  IN IF found.ok THEN Unchanged(view, Reply("some", <<found.metadata.bytes>>))
     ELSE Corrupt(<<view>>)
=============================================================================
