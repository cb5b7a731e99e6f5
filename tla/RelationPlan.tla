---------------------------- MODULE RelationPlan ----------------------------
(***************************************************************************)
(* operation/sink/relation: what a delivery does to a relation target.     *)
(*                                                                         *)
(* Every insertion makes a target row whose technical id is the offset of  *)
(* its event; every deletion takes the oldest live id of its row.  A plan  *)
(* asks the target once for each row it deletes: how far the target knows  *)
(* that row (through) and its oldest live ids.  Events at or before `from' *)
(* or `through' were applied by an earlier delivery of the same events.    *)
(*                                                                         *)
(* A batch is what Outbox!Loaded returns.                                  *)
(***************************************************************************)
EXTENDS Integers, Sequences, FiniteSets

First(batch) == batch.before.offset
End(batch)   == First(batch) + Len(batch.events)
At(batch, offset) == batch.events[offset - First(batch) + 1]
Rows(batch) == {At(batch, o).row : o \in First(batch)..(End(batch) - 1)}
Offsets(batch, row, sign) ==
  {o \in First(batch)..(End(batch) - 1) : At(batch, o) = [row |-> row, sign |-> sign]}

\* The n smallest numbers of a set.
Smallest(set, n) == {x \in set : Cardinality({y \in set : y < x}) < n}

\* A lookup request: how many ids of a row the plan may need.
Take(batch, from, row) == Cardinality({o \in Offsets(batch, row, -1) : o >= from})

Requested(batch, from) == {row \in Rows(batch) : Take(batch, from, row) > 0}

\* Progress and ids of a row; a row that is not looked up has none.
Through(m, row) == IF row \in DOMAIN m THEN m[row].through ELSE 0
Ids(m, row)     == IF row \in DOMAIN m THEN m[row].ids ELSE {}

\* Mutant: what the target already has is planned again.
RemainingAll(batch, from, m, row, sign) ==
  {o \in Offsets(batch, row, sign) : o >= from}

Remaining(batch, from, m, row, sign) ==
  {o \in Offsets(batch, row, sign) : o >= from /\ o > Through(m, row)}

\* The ids a row's deletions take from: looked up, then inserted by the plan.
Supply(batch, from, m, row) == Ids(m, row) \cup Remaining(batch, from, m, row, 1)

\* Deletions of the same row before the one at offset o.
Earlier(batch, from, m, o) ==
  Cardinality({d \in Remaining(batch, from, m, At(batch, o).row, -1) : d < o})

\* Mutant: a deletion takes the youngest row.
VictimYoungest(batch, from, m, o) ==
  LET supply == Supply(batch, from, m, At(batch, o).row)
  IN CHOOSE id \in supply :
       Cardinality({j \in supply : j > id}) = Earlier(batch, from, m, o)

\* The id that the deletion at offset o takes: ids leave in ascending order.
Victim(batch, from, m, o) ==
  LET supply == Supply(batch, from, m, At(batch, o).row)
  IN CHOOSE id \in supply :
       Cardinality({j \in supply : j < id}) = Earlier(batch, from, m, o)

Inserts(batch, from, m) == UNION {Remaining(batch, from, m, r, 1) : r \in Rows(batch)}
Deletes(batch, from, m) == UNION {Remaining(batch, from, m, r, -1) : r \in Rows(batch)}

\* validate_matches and the uniqueness of ids over all rows.
ValidMatches(batch, from, m) ==
  /\ \A row \in DOMAIN m :
       /\ m[row].through < batch.tail
       /\ Cardinality(m[row].ids) <= Take(batch, from, row)
       /\ \A id \in m[row].ids : id # 0 /\ id <= m[row].through
  /\ \A r, q \in DOMAIN m : r # q => m[r].ids \cap m[q].ids = {}

\* The plan's own checks: a deletion finds an older id, and an id that the
\* outbox still holds (retained) was born there as the same row.
Plannable(batch, from, m, retained) ==
  /\ from >= First(batch) /\ from <= batch.tail /\ End(batch) <= batch.tail
  /\ ValidMatches(batch, from, m)
  /\ \A o \in Deletes(batch, from, m) :
       LET row == At(batch, o).row IN
       /\ Earlier(batch, from, m, o) < Cardinality(Supply(batch, from, m, row))
       /\ LET id == Victim(batch, from, m, o) IN
          /\ id < o
          /\ id >= batch.before.entry /\ id <= Through(m, row)
             => retained[id] = [row |-> row, sign |-> 1]
=============================================================================
