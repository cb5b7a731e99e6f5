---------------------------- MODULE SinkContract ----------------------------
(***************************************************************************)
(* What a sink promises to the flow: its target relation is, at all times, *)
(* the sum of a prefix of the events that the flow handed over, and that   *)
(* prefix never shrinks.  The sink forgets (settles) only events that the  *)
(* target has.  A crash may take back events that were accepted and not    *)
(* yet applied, whose source still has them, and settlements.              *)
(***************************************************************************)
EXTENDS Integers, Sequences, FiniteSets

CONSTANTS
  Row,     \* rows
  Event    \* [row : Row, sign : {1, -1}], one unit of weight each

VARIABLES
  log,      \* events accepted from the flow
  applied,  \* how many of them the target has
  relation, \* the target: how often it holds each row
  settled   \* how many events the sink will not deliver again

vars == <<log, applied, relation, settled>>

Count(events, row, sign) ==
  Cardinality({i \in DOMAIN events : events[i] = [row |-> row, sign |-> sign]})

\* The multiset of rows that a sequence of events adds up to.
Sum(events) == [r \in Row |-> Count(events, r, 1) - Count(events, r, -1)]

Init == log = <<>> /\ applied = 0 /\ relation = Sum(<<>>) /\ settled = 0

Accept ==
  /\ log' \in Seq(Event) /\ Len(log) <= Len(log')
  /\ SubSeq(log', 1, Len(log)) = log
  /\ UNCHANGED <<applied, relation, settled>>

Apply ==
  /\ \E n \in applied..Len(log) :
       applied' = n /\ relation' = Sum(SubSeq(log, 1, n))
  /\ UNCHANGED <<log, settled>>

Settle ==
  /\ settled' \in settled..applied
  /\ UNCHANGED <<log, applied, relation>>

Lose ==
  /\ \E n \in applied..Len(log) : log' = SubSeq(log, 1, n)
  /\ settled' \in 0..settled
  /\ UNCHANGED <<applied, relation>>

Next == Accept \/ Apply \/ Settle \/ Lose

Spec == Init /\ [][Next]_vars
=============================================================================
