----------------------------- MODULE AtomicOps ------------------------------
(***************************************************************************)
(* The operations that treat a slice of events in one application: the     *)
(* aggregation, DISTINCT, the running event count, and the stateless       *)
(* filter, projection and UNION ALL.                                       *)
(***************************************************************************)
EXTENDS Aggregate

CONSTANTS
  Predicate,  \* [rows -> {"true", "false", "null"}]: the filter's expression
  Image       \* [rows -> rows]: the projection's expressions

\* A result of one application: nothing but the failure when it fails.
Applied(state, output) == [failure |-> "none", state |-> state, output |-> output]

(***************************************************************************)
(* DISTINCT.  The weight of the current run of equal rows is in memory.    *)
(***************************************************************************)
Presence(before, after) ==
  CASE before = 0 /\ after > 0 -> 1
    [] before > 0 /\ after = 0 -> -1
    [] OTHER                   -> 0

\* flush_weight
FlushWeight(run) == IF run.key = None THEN run.weights ELSE [run.weights EXCEPT ![run.key] = run.current]

\* Mutant: a run of equal rows is loaded from the store at every event.
DistinctLoadAlways(run, row) ==
  [run EXCEPT !.key = row, !.current = run.weights[row]]

\* The load of a row that is not the pending one writes the pending weight.
DistinctLoad(run, row) ==
  IF run.key = row THEN run
  ELSE LET flushed == FlushWeight(run)
       IN [run EXCEPT !.weights = flushed, !.key = row, !.current = flushed[row]]

DistinctEvent(run, e) ==
  LET loaded   == DistinctLoad(run, e.row)
      adjusted == Adjusted(loaded.current, e.diff)
      change   == Presence(loaded.current, adjusted.weight)
  IN CASE run.failure # "none" -> run
       [] ~adjusted.ok         -> [run EXCEPT !.failure = adjusted.failure]
       [] OTHER -> [loaded EXCEPT !.current = adjusted.weight,
                                  !.output = @ \o When(change # 0, <<Event(<<e.row>>, change)>>)]

DistinctApply(weights, slice) ==
  LET start == [weights |-> weights, key |-> None, current |-> 0, output |-> <<>>,
                failure |-> "none"]
      done  == FoldLeft(DistinctEvent, start, slice)
  IN IF done.failure # "none" THEN Failed(done.failure)
     ELSE Applied(FlushWeight(done), done.output)

(***************************************************************************)
(* RunningEventCount: one row per event, whatever its difference.          *)
(***************************************************************************)
RunningCountApply(count, slice) ==
  IF count + Len(slice) > MaxWeight THEN Failed("overflow")
  ELSE Applied(count + Len(slice), [i \in DOMAIN slice |-> Event(<<count + i>>, 1)])

(***************************************************************************)
(* Stateless operations.                                                   *)
(***************************************************************************)
FilterApply(slice) ==
  Applied(0, LET kept == SelectSeq(slice, LAMBDA e : Predicate[e.row] = "true")
             IN [i \in DOMAIN kept |-> Event(<<kept[i].row>>, kept[i].diff)])

ProjectionApply(slice) ==
  Applied(0, [i \in DOMAIN slice |-> Event(<<Image[slice[i].row]>>, slice[i].diff)])

UnionAllApply(slice) == Applied(0, [i \in DOMAIN slice |-> Event(<<slice[i].row>>, slice[i].diff)])

Apply(op, s, slice) ==
  CASE op.kind = "Aggregate"    -> AggregateApply(op, s, slice)
    [] op.kind = "Distinct"     -> DistinctApply(s, slice)
    [] op.kind = "RunningCount" -> RunningCountApply(s, slice)
    [] op.kind = "Filter"       -> FilterApply(slice)
    [] op.kind = "Projection"   -> ProjectionApply(slice)
    [] op.kind = "UnionAll"     -> UnionAllApply(slice)

AtomicState(op) ==
  CASE op.kind = "Aggregate" -> AggregateState
    [] op.kind = "Distinct"  -> [r \in AggRow |-> 0]
    [] OTHER                 -> 0

\* Resume::batch
BatchStart == [batch |-> TRUE]

\* Operation::step: any slice the budget admits, at least one event.
AtomicSteps(op, s, change, resume) ==
  {LET result == Apply(op, s, SubSeq(change, resume.ordinal + 1, resume.ordinal + n))
   IN IF result.failure # "none" THEN Failed(result.failure)
      ELSE [failure |-> "none", state |-> result.state, output |-> result.output,
            resume |-> [ordinal |-> resume.ordinal + n, cursor |-> BatchStart]] :
     n \in 1 .. Len(change) - resume.ordinal}

(***************************************************************************)
(* Reference: the relation that each operation stands for.                 *)
(***************************************************************************)
WeightOf(relation, rows) == FoldLeft(LAMBDA acc, r : acc + relation[r], 0, SetToSeq(rows))

AtomicReference(op, relation, events) ==
  LET present == {r \in AggRow : relation[r] > 0}
      image(r) == {x \in AggRow : Image[x] = r}
  IN CASE op.kind = "Aggregate" -> [o \in AggregateReference(op, relation) |-> 1]
       [] op.kind = "Distinct"  -> [o \in {<<r>> : r \in present} |-> 1]
       [] op.kind = "RunningCount" -> [o \in {<<n>> : n \in 1 .. events} |-> 1]
       [] op.kind = "Filter" ->
            [o \in {<<r>> : r \in {x \in present : Predicate[x] = "true"}} |-> relation[o[1]]]
       [] op.kind = "Projection" ->
            [o \in {<<Image[r]>> : r \in present} |-> WeightOf(relation, image(o[1]))]
       [] op.kind = "UnionAll" -> [o \in {<<r>> : r \in present} |-> relation[o[1]]]
=============================================================================
