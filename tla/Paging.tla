------------------------------- MODULE Paging -------------------------------
(***************************************************************************)
(* What the paged computations share: events and their weights, bounded    *)
(* scans of an ordered map, and the outcome of a step.                     *)
(*                                                                         *)
(* A row is a positive number; the order of numbers is the order of the    *)
(* rows' canonical encodings.  A change is a sequence of events            *)
(* [row, diff] with diff # 0.  A computation keeps weights in the store,   *)
(* reads its input at a position (Resume: an ordinal and a cursor) and     *)
(* writes output events.  The byte and item budgets of a page are left     *)
(* out: a page is a run of the steps below in one transaction, and it may  *)
(* end after any of them.  A page over budget, or one that fails, is       *)
(* rolled back to where it began, which is the state after an earlier      *)
(* step.                                                                   *)
(***************************************************************************)
EXTENDS Integers, Sequences, FiniteSets, SequencesExt

CONSTANTS
  MaxWeight,   \* u64::MAX of a stored multiplicity
  MaxDiff      \* i64::MAX of an output difference

ASSUME PagingAssumption == MaxWeight \in Nat \ {0} /\ MaxDiff \in Nat \ {0}

None == 0      \* no row: the absent cursor, or a NULL-extended side

Event(row, diff) == [row |-> row, diff |-> diff]

When(condition, events) == IF condition THEN events ELSE <<>>

Ascending(S) == SetToSortSeq(S, LAMBDA a, b : a < b)

\* MapPartition::scan in ascending order: at least one entry when there is one,
\* and a continuation exactly when entries are left.
ScanPages(keys, after) ==
  LET rest == Ascending({k \in keys : k > after})
  IN IF rest = <<>> THEN {[entries |-> <<>>, continuation |-> None]}
     ELSE {[entries |-> SubSeq(rest, 1, n),
            continuation |-> IF n < Len(rest) THEN rest[n] ELSE None] : n \in 1 .. Len(rest)}

\* Checked arithmetic on a multiplicity: what adding a difference gives.
Adjusted(weight, diff) ==
  CASE weight + diff < 0         -> [ok |-> FALSE, failure |-> "negative"]
    [] weight + diff > MaxWeight -> [ok |-> FALSE, failure |-> "overflow"]
    [] OTHER                     -> [ok |-> TRUE, weight |-> weight + diff]

\* A step that fails changes nothing; the caller rolls the page back.
Failed(failure) == [failure |-> failure]

\* A difference that an i64 cannot hold fails the step.
Stepped(state, output, ordinal, cursor) ==
  IF \E i \in DOMAIN output : output[i].diff > MaxDiff \/ output[i].diff < -MaxDiff
  THEN Failed("overflow")
  ELSE [failure |-> "none", state |-> state, output |-> output,
        resume |-> [ordinal |-> ordinal, cursor |-> cursor]]
=============================================================================
