----------------------------- MODULE Aggregate ------------------------------
(***************************************************************************)
(* The incremental grouped aggregation (transform/aggregate).  A group has *)
(* an identifier, a row count, a statistic (non-null count and sum) and    *)
(* cached extremes; the values a group has seen are kept in an ordered     *)
(* partition named by the identifier.  One application runs over a slice   *)
(* of events: the state of the current group and one value of its          *)
(* partition stay in memory (PendingGroup, PendingExtreme) until the run   *)
(* of equal keys ends.  One argument expression is modelled, with any set  *)
(* of calls on it.                                                         *)
(***************************************************************************)
EXTENDS Paging

CONSTANTS
  AggRow,      \* input rows
  GroupOf,     \* [AggRow -> the encoded grouping values]
  ArgOf,       \* [AggRow -> the argument: a number, or NullArg]
  NullArg,
  MaxGroupId,  \* u64::MAX of a group identifier
  MaxSum       \* i64::MAX of a SUM result

ASSUME AggregateAssumption ==
  /\ AggRow \subseteq Nat \ {0} /\ MaxGroupId \in Nat /\ MaxSum \in Nat
  /\ NullArg \in Int /\ \A r \in AggRow : ArgOf[r] \in Int

GroupKey == {GroupOf[r] : r \in AggRow}
Argument == {ArgOf[r] : r \in AggRow} \ {NullArg}

\* A stored group has a positive weight: weight 0 is an absent group.
NoGroup == [id |-> 0, weight |-> 0, count |-> 0, sum |-> 0, min |-> NullArg, max |-> NullArg]

NoExtreme == [id |-> 0, key |-> NullArg, stored |-> 0, current |-> 0]

AggregateState ==
  [groups  |-> [g \in GroupKey |-> NoGroup],
   entries |-> [id \in 0 .. MaxGroupId |-> [v \in Argument |-> 0]],
   control |-> 0]

(***************************************************************************)
(* configure_call: the slots the calls need.                               *)
(***************************************************************************)
Counts(cfg)   == cfg.calls \cap {"Count", "Sum", "Avg"} # {}
Sums(cfg)     == cfg.calls \cap {"Sum", "Avg"} # {}
HasLayout(cfg) == cfg.calls \cap {"Min", "Max"} # {}

\* AVG as a fraction in lowest terms.
Fraction(sum, count) ==
  LET size    == IF sum < 0 THEN -sum ELSE sum
      divides == {d \in 1 .. count : count % d = 0 /\ size % d = 0}
      gcd     == CHOOSE d \in divides : \A c \in divides : c <= d
  IN IF sum < 0 THEN <<-(size \div gcd), count \div gcd>> ELSE <<size \div gcd, count \div gcd>>

\* group_output: the value of each call.
GroupOutput(cfg, group) ==
  [c \in cfg.calls |->
     CASE c = "CountAll" -> <<group.weight>>
       [] c = "Count"    -> <<group.count>>
       [] c = "Sum"      -> IF group.count = 0 THEN <<>> ELSE <<group.sum>>
       [] c = "Avg"      -> IF group.count = 0 THEN <<>> ELSE Fraction(group.sum, group.count)
       [] c = "Min"      -> IF group.min = NullArg THEN <<>> ELSE <<group.min>>
       [] c = "Max"      -> IF group.max = NullArg THEN <<>> ELSE <<group.max>>]

\* count_value refuses a count that the result type cannot hold.
Countable(cfg, group) == "CountAll" \in cfg.calls => group.weight <= MaxDiff

(***************************************************************************)
(* The application of a slice.  `run` holds the collections as the         *)
(* transaction sees them, what is pending, and the output so far.          *)
(***************************************************************************)
Opened(s) ==
  [groups |-> s.groups, entries |-> s.entries, nextId |-> s.control, key |-> None,
   group |-> NoGroup, extreme |-> NoExtreme, output |-> <<>>, failure |-> "none"]

Refused(run, failure) == [run EXCEPT !.failure = failure]

\* flush_slot: write what is pending of the partition; the slot is kept.
FlushExtreme(run) ==
  LET p == run.extreme
  IN IF p.current = p.stored THEN run
     ELSE [run EXCEPT !.entries[p.id][p.key] = p.current, !.extreme.stored = p.current]

\* flush_all also empties the slot.
FlushAllExtremes(run) == [FlushExtreme(run) EXCEPT !.extreme = NoExtreme]

\* flush_pending_group
FlushGroup(run) == IF run.key = None THEN run ELSE [run EXCEPT !.groups[run.key] = run.group]

\* The start of a run of equal grouping keys: flush, then PendingGroup::load.
StartRun(run, key) ==
  IF run.key = key THEN run
  ELSE LET flushed == FlushGroup(FlushAllExtremes(run))
       IN [flushed EXCEPT !.key = key, !.group = flushed.groups[key]]

\* new_group_state: the identifier is never used again.
NewGroupState(run) ==
  IF run.group.weight > 0 THEN run
  ELSE [run EXCEPT !.group = [NoGroup EXCEPT !.id = run.nextId], !.nextId = run.nextId + 1]

\* promote_cached_extreme
Promote(cfg, group, v) ==
  [group EXCEPT
     !.min = IF "Min" \in cfg.calls /\ (group.min = NullArg \/ v < group.min) THEN v ELSE @,
     !.max = IF "Max" \in cfg.calls /\ (group.max = NullArg \/ v > group.max) THEN v ELSE @]

\* caches_key
Caches(cfg, group, v) == group.min = v \/ group.max = v

\* refresh_cached_extreme: first and last of the partition.
Refresh(cfg, group, v, partition) ==
  LET left  == {a \in Argument : partition[a] > 0}
      first == IF left = {} THEN NullArg ELSE CHOOSE a \in left : \A b \in left : a <= b
      last  == IF left = {} THEN NullArg ELSE CHOOSE a \in left : \A b \in left : b <= a
  IN [group EXCEPT !.min = IF group.min = v THEN first ELSE @,
                   !.max = IF group.max = v THEN last ELSE @]

\* PendingExtrema::adjust, after a key that is not the pending one flushed it.
ExtremeWeight(run, v) ==
  IF run.extreme.id = run.group.id /\ run.extreme.key = v THEN run.extreme.current
  ELSE run.entries[run.group.id][v]

PendExtreme(run, v, weight) ==
  IF run.extreme.id = run.group.id /\ run.extreme.key = v
  THEN [run EXCEPT !.extreme.current = weight]
  ELSE LET flushed == FlushExtreme(run)
       IN [flushed EXCEPT !.extreme =
             [id |-> run.group.id, key |-> v,
              stored |-> run.entries[run.group.id][v], current |-> weight]]

\* Mutant: the extreme is read again before the pending value is written.
LeaveExtremeStale(cfg, run, v) ==
  LET flushed == FlushExtreme(run)
  IN [flushed EXCEPT !.group = Refresh(cfg, @, v, run.entries[run.group.id])]

\* The value has left the partition and was cached: write, then read again.
LeaveExtreme(cfg, run, v) ==
  LET flushed == FlushExtreme(run)
  IN [flushed EXCEPT !.group = Refresh(cfg, @, v, flushed.entries[run.group.id])]

\* apply_extrema_row
ApplyExtrema(cfg, run, v, diff) ==
  LET before   == ExtremeWeight(run, v)
      adjusted == Adjusted(before, diff)
      pended   == PendExtreme(run, v, adjusted.weight)
      promoted == IF before = 0 THEN [pended EXCEPT !.group = Promote(cfg, @, v)] ELSE pended
  IN CASE ~HasLayout(cfg) \/ v = NullArg \/ run.failure # "none" -> run
       [] ~adjusted.ok -> Refused(run, adjusted.failure)
       [] adjusted.weight = 0 /\ Caches(cfg, promoted.group, v) -> LeaveExtreme(cfg, promoted, v)
       [] OTHER -> promoted

\* apply_statistics_row and Statistic::apply
ApplyStatistics(cfg, run, v, diff) ==
  LET adjusted == Adjusted(run.group.count, diff)
      sum      == IF Sums(cfg) THEN run.group.sum + v * diff ELSE 0
  IN CASE ~Counts(cfg) \/ v = NullArg \/ run.failure # "none" -> run
       [] ~adjusted.ok -> Refused(run, adjusted.failure)
       [] \/ "Count" \in cfg.calls /\ adjusted.weight > MaxDiff
          \/ "Sum" \in cfg.calls /\ sum \notin -MaxSum - 1 .. MaxSum -> Refused(run, "overflow")
       [] OTHER -> [run EXCEPT !.group.count = adjusted.weight, !.group.sum = sum]

Emit(run, events) == [run EXCEPT !.output = @ \o events]

\* The group is empty: its row goes, and nothing of it may be left.
CloseGroup(cfg, run, old) ==
  IF \/ run.group.count # 0 \/ run.group.sum # 0
     \/ run.group.min # NullArg \/ run.group.max # NullArg
  THEN Refused(run, "invalid state")
  ELSE [FlushAllExtremes(Emit(run, <<Event(<<run.key, old>>, -1)>>)) EXCEPT !.group = NoGroup]

\* The group stays or appears: its row is replaced when a result changed.
ReplaceGroup(cfg, run, existed, old) ==
  LET new == GroupOutput(cfg, run.group)
  IN IF ~Countable(cfg, run.group) THEN Refused(run, "overflow")
     ELSE Emit(run, When(existed /\ old # new, <<Event(<<run.key, old>>, -1)>>)
                    \o When(~existed \/ old # new, <<Event(<<run.key, new>>, 1)>>))

\* The body of the loop in apply, for one event.
ApplyEvent(cfg, before, e) ==
  LET started  == StartRun(before, GroupOf[e.row])
      existed  == started.group.weight > 0
      old      == GroupOutput(cfg, started.group)
      created  == NewGroupState(started)
      adjusted == Adjusted(created.group.weight, e.diff)
      weighed  == [created EXCEPT !.group.weight = adjusted.weight]
      updated  == ApplyStatistics(cfg, ApplyExtrema(cfg, weighed, ArgOf[e.row], e.diff),
                                  ArgOf[e.row], e.diff)
  IN CASE before.failure # "none"                         -> before
       [] ~existed /\ e.diff < 0                          -> Refused(started, "negative")
       [] ~existed /\ started.nextId = MaxGroupId         -> Refused(started, "ids exhausted")
       [] ~adjusted.ok                                    -> Refused(started, adjusted.failure)
       [] updated.failure # "none"                        -> updated
       [] updated.failure = "none" /\ adjusted.weight = 0 -> CloseGroup(cfg, updated, old)
       [] OTHER                                           -> ReplaceGroup(cfg, updated, existed, old)

\* AggregateOperation::apply on a slice.
AggregateApply(cfg, s, slice) ==
  LET done == FoldLeft(LAMBDA run, e : ApplyEvent(cfg, run, e), Opened(s), slice)
      end  == FlushGroup(FlushAllExtremes(done))
  IN [failure |-> done.failure, output |-> done.output,
      state |-> [groups |-> end.groups, entries |-> end.entries, control |-> end.nextId]]

(***************************************************************************)
(* Reference: the aggregates of a relation, from their SQL definitions.    *)
(***************************************************************************)
AggregateOutput(cfg, relation, g) ==
  LET rows  == {r \in AggRow : GroupOf[r] = g /\ relation[r] > 0}
      given == {r \in rows : ArgOf[r] # NullArg}
      total(S, f(_)) == FoldLeft(LAMBDA acc, r : acc + f(r), 0, SetToSeq(S))
      weight(r) == relation[r]
      scaled(r) == relation[r] * ArgOf[r]
      args  == {ArgOf[r] : r \in given}
  IN [c \in cfg.calls |->
        CASE c = "CountAll" -> <<total(rows, weight)>>
          [] c = "Count"    -> <<total(given, weight)>>
          [] c = "Sum" /\ given # {} -> <<total(given, scaled)>>
          [] c = "Avg" /\ given # {} -> Fraction(total(given, scaled), total(given, weight))
          [] c = "Min" /\ given # {} -> <<CHOOSE a \in args : \A b \in args : a <= b>>
          [] c = "Max" /\ given # {} -> <<CHOOSE a \in args : \A b \in args : b <= a>>
          [] OTHER -> <<>>]

AggregateReference(cfg, relation) ==
  {<<g, AggregateOutput(cfg, relation, g)>> :
     g \in {GroupOf[r] : r \in {x \in AggRow : relation[x] > 0}}}

\* The partition of a live group holds what the relation holds, and nothing is
\* left under an identifier that is not in use.
AggregateEntries(cfg, s, relation) ==
  \A id \in 0 .. MaxGroupId, v \in Argument :
    s.entries[id][v] =
      IF HasLayout(cfg) /\ \E g \in GroupKey : s.groups[g].weight > 0 /\ s.groups[g].id = id
      THEN LET g    == CHOOSE x \in GroupKey : s.groups[x].weight > 0 /\ s.groups[x].id = id
               rows == {r \in AggRow : GroupOf[r] = g /\ ArgOf[r] = v}
           IN FoldLeft(LAMBDA acc, r : acc + relation[r], 0, SetToSeq(rows))
      ELSE 0
=============================================================================
