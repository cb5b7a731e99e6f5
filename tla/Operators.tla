----------------------------- MODULE Operators ------------------------------
(***************************************************************************)
(* One operation in the call stack of a flow: a change is offered on its   *)
(* input, and pages of steps work it off, each committing the operation's  *)
(* state, its output and the position in the change.  A crash loses the    *)
(* page under way: what is restored is the position of the last one, which *)
(* is where the model already is, so a crash is a stuttering step and the  *)
(* restored position is required to be accepted in every state.            *)
(*                                                                         *)
(* relation and events are history: the relation the events completed so   *)
(* far add up to, and their number.  result adds the output up, as every   *)
(* consumer does.                                                          *)
(***************************************************************************)
EXTENDS EquiJoin, AsOfJoin, AtomicOps

CONSTANTS
  Op,         \* the operations to check, each a record with its kind
  Diff,       \* differences of an offered event
  LaterRow    \* rows of the events after the first of an offered change

VARIABLES
  op,         \* the operation (never changes)
  state,      \* its durable collections
  change,     \* the offered change, empty between two changes
  resume,     \* the durable position in it
  relation, events,
  result,     \* output row -> weight, of the rows with a nonzero weight
  overdrawn,  \* some event of the output took a weight below zero
  failure     \* what made the operation fail-stop

vars == <<op, state, change, resume, relation, events, result, overdrawn, failure>>

JoinOp(o) == o.kind \in JoinKind
AsOfOp(o) == o.kind = "AsOf"

Input(o) == IF JoinOp(o) THEN JoinRow ELSE IF AsOfOp(o) THEN AsOfRow ELSE AggRow

\* Operation::initial_resume
StartCursor(o) == IF JoinOp(o) THEN JoinStart ELSE IF AsOfOp(o) THEN AsOfStart ELSE BatchStart

\* Operation::step
Steps(o, s, c, r) ==
  IF JoinOp(o) THEN JoinSteps(o, s, c, r)
  ELSE IF AsOfOp(o) THEN AsOfSteps(o, s, c, r) ELSE AtomicSteps(o, s, c, r)

\* Operation::validate_resume
Resumable(o, c, r) ==
  IF JoinOp(o) THEN JoinResumable(o, c, r)
  ELSE IF AsOfOp(o) THEN AsOfResumable(o, c, r) ELSE r.ordinal < Len(c) /\ r.cursor = BatchStart

Init ==
  /\ op \in Op
  /\ state = (IF JoinOp(op) THEN JoinState ELSE IF AsOfOp(op) THEN AsOfState ELSE AtomicState(op))
  /\ change = <<>> /\ resume = [ordinal |-> 0, cursor |-> StartCursor(op)]
  /\ relation = [r \in Input(op) |-> 0] /\ events = 0
  /\ result = <<>> /\ overdrawn = FALSE /\ failure = "none"

(***************************************************************************)
(* History.                                                                *)
(***************************************************************************)
\* The relation after one more event.
Plus(rel, e) == [rel EXCEPT ![e.row] = @ + e.diff]

RelationAfter(rel, sequence) == FoldLeft(Plus, rel, sequence)

WeightIn(bag, row) == IF row \in DOMAIN bag THEN bag[row] ELSE 0

\* The accumulated output after one more event, without the rows of weight 0.
Accumulate(acc, e) ==
  LET weight == WeightIn(acc.bag, e.row) + e.diff
      rows   == IF weight = 0 THEN DOMAIN acc.bag \ {e.row} ELSE DOMAIN acc.bag \cup {e.row}
  IN [bag |-> [r \in rows |-> IF r = e.row THEN weight ELSE acc.bag[r]],
      overdrawn |-> acc.overdrawn \/ weight < 0]

(***************************************************************************)
(* Actions.                                                                *)
(***************************************************************************)
\* One event, or two of which the second is of few rows: an event does not
\* know what follows it.
Changes(rows) ==
  LET first == {Event(r, d) : r \in rows, d \in Diff}
      later == {Event(r, d) : r \in rows \cap LaterRow, d \in Diff}
  IN {<<e>> : e \in first} \cup (first \X later)

\* A relation that upstream may have: every prefix of the events keeps it one.
StaysRelation(rel, c) ==
  \A n \in DOMAIN c : \A r \in DOMAIN rel :
    RelationAfter(rel, SubSeq(c, 1, n))[r] \in 0 .. MaxWeight

\* The operations that keep every row's own weight also meet changes that no
\* relation allows, and must refuse them.  The others trust their upstream.
KeepsWeights(o) == JoinOp(o) \/ AsOfOp(o) \/ o.kind = "Distinct"

\* A frame is pushed with a change and the initial position.
Offer ==
  /\ failure = "none" /\ change = <<>>
  /\ \E c \in Changes(Input(op)) :
       /\ KeepsWeights(op) \/ StaysRelation(relation, c)
       /\ change' = c
  /\ resume' = [ordinal |-> 0, cursor |-> StartCursor(op)]
  /\ UNCHANGED <<op, state, relation, events, result, overdrawn, failure>>

\* The page fails: nothing of it is committed, and the flow stops.
Fail(step) ==
  /\ step.failure # "none"
  /\ failure' = step.failure
  /\ UNCHANGED <<op, state, change, resume, relation, events, result, overdrawn>>

\* The page commits: state, output and position together.
Commit(step) ==
  LET done == SubSeq(change, resume.ordinal + 1, step.resume.ordinal)
      acc  == FoldLeft(Accumulate, [bag |-> result, overdrawn |-> overdrawn], step.output)
      over == step.resume.ordinal = Len(change)
  IN /\ step.failure = "none"
     /\ state' = step.state
     /\ result' = acc.bag /\ overdrawn' = acc.overdrawn
     /\ relation' = RelationAfter(relation, done)
     /\ events' = (IF op.kind = "RunningCount" THEN events + Len(done) ELSE events)
     /\ change' = (IF over THEN <<>> ELSE change)
     /\ resume' = (IF over THEN [ordinal |-> 0, cursor |-> StartCursor(op)] ELSE step.resume)
     /\ UNCHANGED <<op, failure>>

Step ==
  /\ failure = "none" /\ change # <<>>
  /\ \E step \in Steps(op, state, change, resume) : Fail(step) \/ Commit(step)

Next == Offer \/ Step

Spec == Init /\ [][Next]_vars

(***************************************************************************)
(* Properties.                                                             *)
(***************************************************************************)
BetweenEvents == resume.cursor = StartCursor(op)

Support(f) == {r \in DOMAIN f : f[r] # 0}

Reference ==
  IF JoinOp(op) THEN JoinReference(op, relation)
  ELSE IF AsOfOp(op) THEN AsOfReference(op, relation)
  ELSE AtomicReference(op, relation, events)

\* The durable collections say what the input says: the weights are the
\* relation's, the support counts of an outer, semi or anti join are the number
\* of qualifying partners, and the ordered partition of a group holds the
\* group's values and nothing of groups that are gone.
StateIsRelation ==
  CASE JoinOp(op)            -> state.rows = relation /\ JoinSupport(op, state)
    [] AsOfOp(op)            -> state = relation
    [] op.kind = "Distinct"  -> state = relation
    [] op.kind = "Aggregate" -> AggregateEntries(op, state, relation)
    [] OTHER                 -> TRUE

\* Between two events of the input, what every consumer has added up of the
\* output is the relation the operation is defined to compute of the input so
\* far: a join in all its kinds with and without a residual predicate, the ASOF
\* join, each aggregate, DISTINCT, and the stateless operations; and what the
\* operation keeps for the next event says the same of the input; however the
\* work was cut into pages.
ResultIsRelation ==
  BetweenEvents =>
    /\ DOMAIN result = Support(Reference)
    /\ \A r \in DOMAIN result : result[r] = Reference[r]
    /\ StateIsRelation

\* No event of the output takes back more than earlier events gave, not even
\* between two pages of one input event: a consumer that keeps weights refuses
\* a negative one and stops the flow.
OutputNeverOverdraws == ~overdrawn

\* An operation stops only for a change it has to refuse: one that takes a
\* weight below zero or beyond its type, an ambiguous ASOF match, or a group
\* identifier that does not exist.  Its checks on its own durable state and
\* cursors (match counts, influence interval, empty groups) never fail.
StopsOnlyForInput ==
  /\ failure \in {"none", "negative", "overflow", "ambiguous", "ids exhausted"}
  /\ failure = "negative" =>
       \E n \in DOMAIN change, r \in DOMAIN relation :
         RelationAfter(relation, SubSeq(change, resume.ordinal + 1, n))[r] < 0
  /\ failure = "ambiguous" =>
       \E n \in resume.ordinal + 1 .. Len(change) :
         LET rel == RelationAfter(relation, SubSeq(change, resume.ordinal + 1, n))
         IN \E rows \in {relation, rel} : \E l \in AsOfLeft, a, b \in AsOfRight :
              a # b /\ Wins(op, rows, l, a) /\ Wins(op, rows, l, b)

\* The position a restart finds in the frame is accepted by validate_resume: a
\* flow that stopped in the middle of an event can be opened again.
RestoredPositionIsValid == change # <<>> => Resumable(op, change, resume)
=============================================================================
