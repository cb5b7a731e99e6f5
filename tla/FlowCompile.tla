----------------------------- MODULE FlowCompile ----------------------------
(***************************************************************************)
(* A program becomes a flow: either a SQL query is lowered to operations,  *)
(* or a caller declares them one by one with FlowFactory::operation; then  *)
(* the factory finishes the definition, constructs the operations and      *)
(* derives the topology.  Any of the steps may refuse the program.         *)
(***************************************************************************)
EXTENDS QueryMeaning

CONSTANTS
  Queries,      \* SQL programs: a logical plan and the scans its text declares
  Offered,      \* definitions a caller may declare: their kind and input count
  MaxDeclared,  \* bound on the operations a caller declares
  Databases     \* contents of the tables the properties are checked on

VARIABLES
  query,     \* the SQL program, NoQuery when a caller declares the operations
  declared,  \* what the factory was given
  flow       \* the outcome: its stage, error, definition and topology

vars == <<query, declared, flow>>

NoQuery == [declared |-> {}, plan |-> [node |-> "none"]]

NoFlow == [stage |-> "open", error |-> "none", nodes |-> <<>>, topology |-> NoTopology("none")]

Init ==
  /\ query \in Queries \cup {NoQuery}
  /\ declared = <<>>
  /\ flow = NoFlow

Refuse(error) == flow' = [flow EXCEPT !.stage = "refused", !.error = error]

\* SqlProgram::start lowers the query and adds the sink.
Lower ==
  /\ flow.stage = "open" /\ query # NoQuery
  /\ LET program == lower_query(query.plan, query.declared)
     IN /\ declared' = program.operations
        /\ IF program.error = "none" THEN flow' = [flow EXCEPT !.stage = "declared"]
           ELSE Refuse(program.error)
  /\ UNCHANGED query

Sound(declarations) == finish_definition(Factory, declarations).error \in {"none", "empty"}

\* A caller declares an operation.
Operation(id, offered, inputs) ==
  /\ declared' = Append(declared, [id |-> id, definition |-> offered, kind |-> offered.kind,
                                   arity |-> offered.arity, inputs |-> inputs])
  /\ UNCHANGED <<query, flow>>

\* FlowFactory::build up to the durable setup, which Deployment models.
Build ==
  /\ flow.stage = IF query = NoQuery THEN "open" ELSE "declared"
  /\ LET definition == finish_definition(Factory, declared)
         topology == construct(definition.nodes)
     IN IF definition.error # "none" THEN Refuse(definition.error)
        ELSE IF topology.error # "none" THEN Refuse(topology.error)
        ELSE flow' = [stage |-> "built", error |-> "none", nodes |-> definition.nodes,
                      topology |-> topology]
  /\ UNCHANGED <<query, declared>>

\* References a caller can hold: to its own operations, and to another factory's.
Refs == {Ref(Factory, i) : i \in DOMAIN declared} \cup {Ref("other", 1)}

\* A declaration that makes the definition invalid is the last: nothing declared
\* after it can make the definition valid again.
Declares ==
  /\ flow.stage = "open" /\ query = NoQuery
  /\ Len(declared) < MaxDeclared /\ Sound(declared)
  /\ \E id \in {Id("op", Len(declared) + 1), Id("op", 1), NoId}, offered \in Offered :
       \E count \in {offered.arity, 1} : \E inputs \in [1 .. count -> Refs] :
         Operation(id, offered, inputs)

Next == Lower \/ Declares \/ Build

Spec == Init /\ [][Next]_vars

------------------------------------------------------------------------------

\* The flow of a query computes what its logical plan means: the relation at the
\* sink is the plan's, whatever the joins were turned into, whichever columns
\* the shared scans kept and whichever names the operations use (plan.rs).
QueryIsComputed ==
  (flow.stage = "built" /\ query # NoQuery) =>
    \A db \in Databases :
      SameBag(Relations(flow.nodes, db)[Len(flow.nodes)].rows, Meaning(query.plan, db))

\* The topology of every flow carries exactly the declared edges: each operation
\* runs in one segment, no consumer is left out when an operation joins its
\* producer's segment, and a chain of calls fits the bound on frames
\* (build/validate.rs, resolve).
TopologyIsSound ==
  flow.stage = "built" =>
    /\ CarriesEdges(flow.nodes, flow.topology)
    /\ BoundsCalls(flow.nodes, flow.topology)

RECURSIVE Reasons(_)
Reasons(plan) ==
  UNION {Reasons(Inputs(plan)[k]) : k \in DOMAIN Inputs(plan)}
  \cup CASE plan.node = "join" ->
              LET condition == collect_join_condition(plan)
              IN (IF plan.constraint # "on" \/ plan.type \notin SupportedJoin THEN {"join semantics"} ELSE {})
                 \cup (IF condition.keys = <<>> THEN {"no key"} ELSE {})
         [] plan.node = "asof" ->
              (IF plan.constraint \notin {"on", "using"} THEN {"asof semantics"} ELSE {})
              \cup (IF "float" \in {TypeOf(plan.leftKey, SchemaOf(plan.left)),
                                    TypeOf(plan.rightKey, SchemaOf(plan.right))}
                    THEN {"asof key"} ELSE {})
         [] plan.node = "aggregate" ->
              (IF plan.groups = <<>> THEN {"global aggregate"} ELSE {})
              \cup (IF \E k \in DOMAIN plan.calls :
                         plan.calls[k].modified \/ plan.calls[k].fn \notin BuiltinFunction
                    THEN {"aggregate function"} ELSE {})
              \cup (IF \E k \in DOMAIN plan.groups : TypeOf(plan.groups[k], SchemaOf(plan.input)) = "float"
                    THEN {"float group"} ELSE {})
              \cup (IF Repeats(SchemaOf(plan)) THEN {"duplicate field"} ELSE {})
         [] plan.node \in {"project", "union"} ->
              IF Repeats(SchemaOf(plan)) THEN {"duplicate field"} ELSE {}
         [] OTHER -> {}

\* A query is refused exactly for a reason that can be read off its plan: what
\* its joins, groups and output names ask for, a scan it does not read, or a
\* call chain over the bound.  No combination of supported nodes makes the
\* operations disagree with the plan about a schema, a position or a name, and
\* the definition a query is lowered to is always a valid one (plan.rs).
RefusedForAReason ==
  query # NoQuery =>
    LET reasons == Reasons(query.plan)
                   \cup (IF Repeats(SchemaOf(query.plan)) THEN {"duplicate field"} ELSE {})
                   \cup (IF query.declared # {s.index : s \in Scans(query.plan)}
                         THEN {"unreachable"} ELSE {})
    IN /\ flow.stage = "refused" => flow.error \in reasons \cup {"depth"}
       /\ flow.stage \in {"declared", "built"} => reasons = {}
=============================================================================
