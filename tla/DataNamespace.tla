--------------------------- MODULE DataNamespace ---------------------------
(***************************************************************************)
(* The key space of the store: one ordered map from byte keys to values,   *)
(* shared by every collection.  A collection owns the keys that begin with *)
(* the prefix of its data id.  A byte is a number 0..255 and a key a       *)
(* sequence of bytes.  A value is its encoded size with the numbers it     *)
(* encodes.                                                                *)
(*                                                                         *)
(* An operation is a sequence of reads and writes inside a transaction.    *)
(* Its outcome lists the views of the data after each of its writes, the   *)
(* first being the view it began with, so that a storage failure between   *)
(* two writes has a view to stop at.                                       *)
(***************************************************************************)
EXTENDS Integers, Sequences, FiniteSets, SequencesExt

CONSTANT MaxWeight   \* u64::MAX of a stored multiplicity

ASSUME NamespaceAssumption == MaxWeight \in Nat \ {0}

Value(size, data) == [size |-> size, data |-> data]

------------------------------------------------------------------------------
(* Key order and prefixes. *)

Byte == 0 .. 255

LexLess(a, b) ==
  \E n \in 0 .. Len(a) :
    /\ n <= Len(b)
    /\ SubSeq(a, 1, n) = SubSeq(b, 1, n)
    /\ \/ n = Len(a) /\ n < Len(b)
       \/ n < Len(a) /\ n < Len(b) /\ a[n + 1] < b[n + 1]

LexLeq(a, b) == a = b \/ LexLess(a, b)

DataDomain == 2

\* A number without its last byte.
Shifted(n) == n \div 256

DataId == {id \in Nat : Shifted(Shifted(Shifted(id))) \in Byte}

\* The domain and the four bytes of the id, the highest first.
data_prefix(id) ==
  <<DataDomain, Shifted(Shifted(Shifted(id))), Shifted(Shifted(id)) % 256, Shifted(id) % 256, id % 256>>

\* The next prefix: the last byte that can grow grows, the ones after it wrap.
prefix_successor(prefix) ==
  LET grows == CHOOSE i \in DOMAIN prefix :
                 /\ prefix[i] # 255
                 /\ \A j \in DOMAIN prefix : j > i => prefix[j] = 255
  IN [i \in DOMAIN prefix |-> CASE i < grows -> prefix[i]
                                [] i = grows -> prefix[i] + 1
                                [] i > grows -> 0]

StripPrefix(prefix, key) == SubSeq(key, Len(prefix) + 1, Len(key))

\* The collection's own keys, without its prefix.
Owned(view, prefix) ==
  {StripPrefix(prefix, key) : key \in {k \in DOMAIN view : IsPrefix(prefix, k)}}

------------------------------------------------------------------------------
(* Point reads and writes. *)

Has(view, prefix, key) == prefix \o key \in DOMAIN view

Read(view, prefix, key) == view[prefix \o key]

put(view, prefix, key, value) ==
  [k \in DOMAIN view \cup {prefix \o key} |-> IF k = prefix \o key THEN value ELSE view[k]]

erase(view, prefix, key) ==
  [k \in DOMAIN view \ {prefix \o key} |-> view[k]]

Reply(kind, data) == [kind |-> kind, data |-> data]

Outcome(views, reply) == [views |-> views, reply |-> reply]

Unchanged(view, reply) == Outcome(<<view>>, reply)

\* The errors of a call after which the transaction cannot commit.  A value
\* over the caller's byte bound is the one error that can be retried.
HardErrors == {"storage", "wrong_store", "corrupt", "exhausted", "underflow", "overflow"}

get_bounded(view, prefix, key, max) ==
  Unchanged(view,
    CASE ~ Has(view, prefix, key)              -> Reply("none", <<>>)
      [] Has(view, prefix, key)
         /\ Read(view, prefix, key).size > max -> Reply("too_large", <<>>)
      [] OTHER                                 -> Reply("some", Read(view, prefix, key).data))

\* Whether no key of the namespace begins with suffix, leaving out the key
\* suffix \o excluded when that is the first of them (excluded is empty or
\* holds one key).
namespace_is_empty(view, prefix, suffix, excluded) ==
  LET keys  == {k \in Owned(view, prefix) : IsPrefix(suffix, k)}
      first == {k \in keys : \A other \in keys : LexLeq(k, other)}
      skip  == {k \in first : excluded # <<>> /\ k = suffix \o excluded[1]}
  IN keys \ skip = {}

------------------------------------------------------------------------------
(* Scans.  A bound is empty or holds one [key, inclusive]. *)

Unbounded == <<>>
Included(key) == <<[key |-> key, inclusive |-> TRUE]>>
Excluded(key) == <<[key |-> key, inclusive |-> FALSE]>>

later_bound(left, right) ==
  IF left = <<>> \/ right = <<>>
  THEN left \o right
  ELSE IF left[1].key = right[1].key
  THEN <<[left[1] EXCEPT !.inclusive = @ /\ right[1].inclusive]>>
  ELSE IF LexLess(left[1].key, right[1].key) THEN right ELSE left

earlier_bound(left, right) ==
  IF left = <<>> \/ right = <<>>
  THEN left \o right
  ELSE IF left[1].key = right[1].key
  THEN <<[left[1] EXCEPT !.inclusive = @ /\ right[1].inclusive]>>
  ELSE IF LexLess(left[1].key, right[1].key) THEN left ELSE right

within_lower(key, lower) ==
  lower = <<>> \/ LexLess(lower[1].key, key) \/ (key = lower[1].key /\ lower[1].inclusive)

within_upper(key, upper) ==
  upper = <<>> \/ LexLess(key, upper[1].key) \/ (key = upper[1].key /\ upper[1].inclusive)

\* The order in which an iterator meets keys.
Before(ascending, a, b) == IF ascending THEN LexLess(a, b) ELSE LexLess(b, a)

\* The keys of a finite set as the iterator meets them: the i-th one has i - 1
\* keys before it.
InDirection(keys, ascending) ==
  [i \in 1 .. Cardinality(keys) |->
     CHOOSE k \in keys : Cardinality({j \in keys : Before(ascending, j, k)}) = i - 1]

\* The physical keys from the seek key to the iterator's bound.  The lower bound
\* of the iterator is the first key of the range; only an ascending iterator has
\* an upper bound.  A descending scan without an upper key seeks the first key of
\* the next namespace, and may meet it.
Visited(view, prefix, ascending, lower, upper) ==
  LET low  == IF lower = <<>> THEN prefix ELSE prefix \o lower[1].key
      high == IF upper = <<>> THEN prefix_successor(prefix) ELSE prefix \o upper[1].key
  IN {k \in DOMAIN view :
        /\ LexLeq(low, k)
        /\ IF ascending THEN LexLess(k, prefix_successor(prefix)) ELSE LexLeq(k, high)}

Admits(prefix, lower, upper, k) ==
  /\ IsPrefix(prefix, k)
  /\ within_lower(StripPrefix(prefix, k), lower)
  /\ within_upper(StripPrefix(prefix, k), upper)

\* Mutant: a descending scan stops at a key of another namespace.
EndsAtForeign(prefix, ascending, lower, upper, k) ==
  \/ ~ IsPrefix(prefix, k)
  \/ IF ascending
     THEN /\ within_lower(StripPrefix(prefix, k), lower)
          /\ ~ within_upper(StripPrefix(prefix, k), upper)
     ELSE ~ within_lower(StripPrefix(prefix, k), lower)

\* The loop ends at the first key after the range; it passes over the keys before
\* the range, and a descending one over the keys of other namespaces.
Ends(prefix, ascending, lower, upper, k) ==
  IF ascending
  THEN \/ ~ IsPrefix(prefix, k)
       \/ /\ within_lower(StripPrefix(prefix, k), lower)
          /\ ~ within_upper(StripPrefix(prefix, k), upper)
  ELSE IsPrefix(prefix, k) /\ ~ within_lower(StripPrefix(prefix, k), lower)

\* The keys the loop reaches and admits.
Admitted(view, prefix, ascending, lower, upper) ==
  LET visited == Visited(view, prefix, ascending, lower, upper)
      last    == {k \in visited : Ends(prefix, ascending, lower, upper, k)}
  IN InDirection({k \in visited : /\ Admits(prefix, lower, upper, k)
                                  /\ \A e \in last : ~ Before(ascending, e, k)}, ascending)

\* One page: the longest run of admitted entries within both limits, an error
\* when not even the first one fits, and a continuation (the last key, without
\* the part of it the caller strips) exactly when admitted entries are left.
scan_data(view, prefix, ascending, lower, upper, limit, stripped) ==
  LET keys     == Admitted(view, prefix, ascending, lower, upper)
      cost(i)  == Len(StripPrefix(prefix, keys[i])) + view[keys[i]].size
      total[n \in 0 .. Len(keys)] == IF n = 0 THEN 0 ELSE total[n - 1] + cost(n)
      fits     == {n \in 0 .. Len(keys) : n <= limit.items /\ total[n] <= limit.bytes}
      taken    == CHOOSE n \in fits : \A other \in fits : other <= n
      local(i) == StripPrefix(stripped, StripPrefix(prefix, keys[i]))
  IN [error        |-> taken = 0 /\ keys # <<>>,
      entries      |-> [i \in 1 .. taken |-> [key |-> local(i), data |-> view[keys[i]].data]],
      continuation |-> IF taken < Len(keys) /\ taken > 0 THEN <<local(taken)>> ELSE <<>>]

\* A resume key (empty or one key) moves the end the scan starts from.
scan_key_suffix(view, prefix, ascending, lower, upper, resume, limit, stripped) ==
  LET after == IF resume = <<>> THEN Unbounded ELSE Excluded(resume[1])
  IN scan_data(view, prefix, ascending,
               IF ascending THEN later_bound(lower, after) ELSE lower,
               IF ascending THEN upper ELSE earlier_bound(upper, after),
               limit, stripped)

------------------------------------------------------------------------------
(* Partitioned keys. *)

escape(byte) == IF byte = 0 THEN <<0, 255>> ELSE <<byte>>

\* The bytes that frame a partition: a zero is escaped, two zeros end it.
partition_prefix(partition) ==
  LET escaped[n \in 0 .. Len(partition)] ==
        IF n = 0 THEN <<>> ELSE escaped[n - 1] \o escape(partition[n])
  IN escaped[Len(partition)] \o <<0, 0>>

encode_key(partition, key) == partition_prefix(partition) \o key

Reading(at, partition) == [ok |-> FALSE, at |-> at, partition |-> partition, key |-> <<>>]

Found(at, partition, key) == [ok |-> TRUE, at |-> at, partition |-> partition, key |-> key]

\* One turn of the loop that decodes bytes, unless it has ended: at is the next
\* byte to look at.
decode_turn(bytes, s) ==
  LET last == Len(bytes)
  IN CASE s.ok \/ s.at > last -> s
       [] ~ s.ok /\ s.at <= last /\ bytes[s.at] # 0 ->
            Reading(s.at + 1, Append(s.partition, bytes[s.at]))
       [] ~ s.ok /\ s.at < last /\ bytes[s.at] = 0 /\ bytes[s.at + 1] = 255 ->
            Reading(s.at + 2, Append(s.partition, 0))
       [] ~ s.ok /\ s.at < last /\ bytes[s.at] = 0 /\ bytes[s.at + 1] = 0 ->
            Found(s.at, s.partition, SubSeq(bytes, s.at + 2, last))
       [] OTHER -> Reading(last + 1, <<>>)

\* The partition and the local key of an encoded key; not ok for bytes that no
\* partitioned key encodes to.
decode_key(bytes) ==
  LET after[n \in 0 .. Len(bytes)] ==
        IF n = 0 THEN Reading(1, <<>>)
        ELSE decode_turn(bytes, after[n - 1])
  IN after[Len(bytes)]

\* One page of a partition, in local keys.
scan_partition(view, prefix, partition, ascending, resume, limit) ==
  LET framed == partition_prefix(partition)
      upper  == [framed EXCEPT ![Len(framed)] = @ + 1]
  IN scan_key_suffix(view, prefix, ascending, Included(framed), Excluded(upper),
                     IF resume = <<>> THEN <<>> ELSE <<framed \o resume[1]>>, limit, framed)

\* One page of the whole map, in partitioned keys.
scan_map(view, prefix, ascending, lower, upper, resume, limit) ==
  scan_key_suffix(view, prefix, ascending, lower, upper, resume, limit, <<>>)

------------------------------------------------------------------------------
(* Positive weights. *)

WeightBytes == 8

read_weight(view, prefix, key) ==
  IF Has(view, prefix, key) THEN Read(view, prefix, key).data[1] ELSE 0

set_encoded(view, prefix, key, weight) ==
  IF weight = 0 THEN erase(view, prefix, key)
  ELSE put(view, prefix, key, Value(WeightBytes, <<weight>>))

adjust_encoded(view, prefix, key, difference) ==
  LET before == read_weight(view, prefix, key)
      after  == before + difference
  IN CASE after < 0         -> Unchanged(view, Reply("underflow", <<>>))
       [] after > MaxWeight -> Unchanged(view, Reply("overflow", <<>>))
       [] after = before    -> Unchanged(view, Reply("change", <<before, after>>))
       [] OTHER -> Outcome(<<view, set_encoded(view, prefix, key, after)>>,
                           Reply("change", <<before, after>>))
=============================================================================
