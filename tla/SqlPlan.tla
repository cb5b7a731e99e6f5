------------------------------ MODULE SqlPlan -------------------------------
(***************************************************************************)
(* The lowering of a logical plan to the operations of a flow.             *)
(*                                                                         *)
(* A logical plan is what DataFusion hands over: its columns are qualified *)
(* and may share a name, and its scans already leave out unused columns.   *)
(* An operation sees unqualified columns whose names are unique, so every  *)
(* column reference is rewritten by position.  A field is a name, a type   *)
(* ("int", or "float", which no join or group key may have) and whether it *)
(* may be NULL; a logical field also has a qualifier.  Expressions are     *)
(* columns, literals and comparisons of two of them.                       *)
(***************************************************************************)
EXTENDS FlowTopology

CONSTANTS
  Table,       \* Table[i]: the columns of scan i
  Projecting,  \* scans whose definition can leave columns out (CDC scans)
  JoinName     \* JoinName[k]: the internal name of column k of a join

Null == 0

Col(q, name)    == [op |-> "col", q |-> q, name |-> name]
Lit(value)      == [op |-> "lit", value |-> value]
Cmp(op, l, r)   == [op |-> op, left |-> l, right |-> r]
Field(name, type, null) == [name |-> name, type |-> type, null |-> null]
Qualified(schema, q) ==
  [k \in DOMAIN schema |->
     [q |-> q, name |-> schema[k].name, type |-> schema[k].type, null |-> schema[k].null]]
Unqualified(schema) ==
  [k \in DOMAIN schema |-> Field(schema[k].name, schema[k].type, schema[k].null)]
Nullable(schema) == [k \in DOMAIN schema |-> [schema[k] EXCEPT !.null = TRUE]]

Positions(col, schema) == {k \in DOMAIN schema : schema[k].q = col.q /\ schema[k].name = col.name}
Position(col, schema) == CHOOSE k \in Positions(col, schema) : TRUE

Operands(e) == IF e.op \in {"col", "lit"} THEN {e} ELSE {e.left, e.right}
Columns(e) == {o \in Operands(e) : o.op = "col"}
Within(e, schema) == Columns(e) # {} /\ \A c \in Columns(e) : Positions(c, schema) # {}

\* What an expression bound to a schema gives, and whether it may be null.
TypeOf(e, schema) ==
  IF e.op = "col" THEN schema[Position(e, schema)].type ELSE IF e.op = "lit" THEN "int" ELSE "bool"
MayBeNull(e, schema) ==
  \E o \in Operands(e) : IF o.op = "col" THEN schema[Position(o, schema)].null ELSE o.value = Null

------------------------------------------------------------------------------
(* Logical plans (DataFusion). *)

Scan(index, projection)    == [node |-> "scan", index |-> index, projection |-> projection]
Alias(q, input)            == [node |-> "alias", q |-> q, input |-> input]
Filter(predicate, input)   == [node |-> "filter", predicate |-> predicate, input |-> input]
Project(items, input)      == [node |-> "project", items |-> items, input |-> input]
Distinct(input)            == [node |-> "distinct", input |-> input]
Union(inputs)              == [node |-> "union", inputs |-> inputs]
Aggregate(groups, calls, input) ==
  [node |-> "aggregate", groups |-> groups, calls |-> calls, input |-> input]
Join(type, constraint, on, filter, left, right) ==
  [node |-> "join", type |-> type, constraint |-> constraint, on |-> on, filter |-> filter,
   left |-> left, right |-> right]
AsOf(constraint, on, op, leftKey, rightKey, left, right) ==
  [node |-> "asof", constraint |-> constraint, on |-> on, op |-> op, leftKey |-> leftKey, rightKey |-> rightKey,
   left |-> left, right |-> right]
\* An item of a projection; q is empty when it has an alias.
Item(expr, q, name) == [expr |-> expr, q |-> q, name |-> name]
\* A call of an aggregate function; count(*) is the count of a literal.
FunctionCall(fn, arg, modified, name) == [fn |-> fn, arg |-> arg, modified |-> modified, name |-> name]

NamedField(expr, q, name, schema) ==
  [q |-> q, name |-> name, type |-> TypeOf(expr, schema), null |-> MayBeNull(expr, schema)]

\* The schema of a join of two schemas.
JoinSchema(type, left, right) ==
  CASE type \in {"LeftSemi", "LeftAnti"}   -> left
    [] type \in {"RightSemi", "RightAnti"} -> right
    [] OTHER -> (IF type \in {"Right", "Full"} THEN Nullable(left) ELSE left)
                \o (IF type \in {"Left", "Full"} THEN Nullable(right) ELSE right)

RECURSIVE SchemaOf(_)
SchemaOf(plan) ==
  CASE plan.node = "scan" ->
         Qualified([k \in DOMAIN plan.projection |-> Table[plan.index][plan.projection[k]]], "scan")
    [] plan.node = "alias" -> Qualified(SchemaOf(plan.input), plan.q)
    [] plan.node \in {"filter", "distinct"} -> SchemaOf(plan.input)
    [] plan.node = "project" ->
         [k \in DOMAIN plan.items |->
            NamedField(plan.items[k].expr, plan.items[k].q, plan.items[k].name, SchemaOf(plan.input))]
    [] plan.node = "aggregate" ->
         [k \in DOMAIN plan.groups |->
            NamedField(plan.groups[k], plan.groups[k].q, plan.groups[k].name, SchemaOf(plan.input))]
         \o [k \in DOMAIN plan.calls |->
               [q |-> "", name |-> plan.calls[k].name, type |-> "int",
                null |-> plan.calls[k].fn # "count"]]
    [] plan.node = "union" ->
         LET first == SchemaOf(plan.inputs[1])
         IN [k \in DOMAIN first |->
               [first[k] EXCEPT !.q = "",
                  !.null = \E i \in DOMAIN plan.inputs : SchemaOf(plan.inputs[i])[k].null]]
    [] plan.node = "join" -> JoinSchema(plan.type, SchemaOf(plan.left), SchemaOf(plan.right))
    [] plan.node = "asof" -> JoinSchema("Left", SchemaOf(plan.left), SchemaOf(plan.right))

Inputs(plan) ==
  CASE plan.node = "scan"             -> <<>>
    [] plan.node = "union"            -> plan.inputs
    [] plan.node \in {"join", "asof"} -> <<plan.left, plan.right>>
    [] OTHER                          -> <<plan.input>>

RECURSIVE Scans(_)
Scans(plan) ==
  IF plan.node = "scan" THEN {plan}
  ELSE UNION {Scans(Inputs(plan)[k]) : k \in DOMAIN Inputs(plan)}

------------------------------------------------------------------------------
(* Definitions of operations, and the schemas they bind. *)

EquiJoin(kind, keys, names, residual) ==
  [op |-> "equi_join", kind |-> kind, keys |-> keys, names |-> names, residual |-> residual]

LeftOnlyKind(kind) == kind \in {"LeftSemi", "LeftAnti"}

input_count(definition) ==
  CASE definition.op = "scan"                       -> 0
    [] definition.op \in {"equi_join", "asof_join"} -> 2
    [] definition.op = "union_all"                  -> definition.count
    [] OTHER                                        -> 1

\* The variant of Operation that a definition constructs.
OperationKind(definition) ==
  CASE definition.op = "scan"                       -> "source"
    [] definition.op \in {"equi_join", "asof_join"} -> "paged"
    [] definition.op = "sink"                       -> "sink"
    [] OTHER                                        -> "atomic"

Schema(fields) == [error |-> "none", schema |-> fields]
NoSchema(error) == [error |-> error, schema |-> <<>>]

select_schema(fields, input) ==
  IF \E k \in DOMAIN fields : MayBeNull(fields[k].expr, Qualified(input, "")) /\ ~ fields[k].null
  THEN NoSchema("narrowing")
  ELSE Schema([k \in DOMAIN fields |->
                 Field(fields[k].name, TypeOf(fields[k].expr, Qualified(input, "")), fields[k].null)])

\* The columns of a join under its own names.  The right columns are padded in
\* an outer join, the left ones only when the right rows are preserved too.
join_schema(definition, left, right) ==
  LET padded == (IF definition.kind = "FullOuter" THEN Nullable(left) ELSE left)
                \o (IF LeftOnlyKind(definition.kind) THEN <<>>
                    ELSE IF definition.kind \in {"LeftOuter", "FullOuter"} THEN Nullable(right)
                    ELSE right)
  IN IF Len(definition.names) # Len(padded) THEN NoSchema("name count")
     ELSE Schema([k \in DOMAIN padded |-> [padded[k] EXCEPT !.name = definition.names[k]]])

\* The two sides of every key have one type, one that a key may have.
bind_keys(keys, left, right) ==
  \A k \in DOMAIN keys :
    LET type == TypeOf(keys[k][1], Qualified(left, ""))
    IN type = TypeOf(keys[k][2], Qualified(right, "")) /\ type # "float"

\* A residual sees the columns of both inputs, by port, and is a condition.
bind_residual(residual, left, right) ==
  \A k \in DOMAIN residual :
    TypeOf(residual[k], Qualified(left, "left") \o Qualified(right, "right")) = "bool"

equi_join_schema(definition, left, right) ==
  LET named == join_schema(definition, left, right)
  IN IF named.error # "none" THEN named
     ELSE IF ~bind_keys(definition.keys, left, right) THEN NoSchema("key type")
     ELSE IF ~bind_residual(definition.residual, left, right) THEN NoSchema("residual type")
     ELSE named

aggregate_schema(definition, input) ==
  LET schema == Qualified(input, "")
      groups == [k \in DOMAIN definition.groups |->
                   Field(definition.groups[k].name, TypeOf(definition.groups[k].expr, schema),
                         MayBeNull(definition.groups[k].expr, schema))]
      calls  == [k \in DOMAIN definition.calls |->
                   Field(definition.calls[k].name, "int",
                         definition.calls[k].fn \notin {"CountAll", "Count"})]
  IN IF \E k \in DOMAIN groups : groups[k].type = "float" THEN NoSchema("float group")
     ELSE Schema(groups \o calls)

\* The keys of an ASOF join must be of a type that can be indexed, in pairs.
asof_schema(definition, left, right) ==
  LET pairs == Append(definition.keys, definition.order)
      types(k) == <<TypeOf(pairs[k][1], Qualified(left, "")), TypeOf(pairs[k][2], Qualified(right, ""))>>
  IN IF \E k \in DOMAIN pairs : types(k)[1] # types(k)[2] \/ types(k)[1] = "float" THEN NoSchema("asof key")
     ELSE join_schema([definition EXCEPT !.kind = "LeftOuter"], left, right)

\* A filter passes its input's schema on, provided its predicate is a condition.
filter_schema(predicate, input) ==
  IF TypeOf(predicate, Qualified(input, "")) # "bool" THEN NoSchema("predicate type")
  ELSE Schema(input)

\* Every input has the schema of the first.
union_schema(inputs) ==
  IF \A i \in DOMAIN inputs : inputs[i] = inputs[1] THEN Schema(inputs[1])
  ELSE NoSchema("union schema")

\* The fields a definition makes of its inputs' schemas.
bound_schema(definition, inputs) ==
  CASE definition.op = "scan" ->
         Schema([k \in DOMAIN definition.projection |->
                   Table[definition.index][definition.projection[k]]])
    [] definition.op = "distinct"  -> Schema(inputs[1])
    [] definition.op = "filter"    -> filter_schema(definition.predicate, inputs[1])
    [] definition.op = "select"    -> select_schema(definition.fields, inputs[1])
    [] definition.op = "equi_join" -> equi_join_schema(definition, inputs[1], inputs[2])
    [] definition.op = "asof_join" -> asof_schema(definition, inputs[1], inputs[2])
    [] definition.op = "aggregate" -> aggregate_schema(definition, inputs[1])
    [] definition.op = "union_all" -> union_schema(inputs)

Repeats(schema) == Cardinality({schema[k].name : k \in DOMAIN schema}) # Len(schema)

\* The names of a schema are unique.
unique_schema(out) == IF Repeats(out.schema) THEN NoSchema("duplicate field") ELSE out

\* The output schema of a definition for its inputs' schemas.
output_schema(definition, inputs) ==
  IF Len(inputs) # input_count(definition) THEN NoSchema("input count")
  ELSE unique_schema(bound_schema(definition, inputs))

------------------------------------------------------------------------------
(* The lowerer: what it has declared, the relation of every scan lowered so *)
(* far, and the first error, after which it goes on with nothing.           *)

Relation(node, schema) == [node |-> node, schema |-> schema]

Lowered(state, relation) == [state |-> state, relation |-> relation]

Failed(state, error) == Lowered([state EXCEPT !.error = error], Relation(0, <<>>))

\* FlowFactory::operation
Declare(id, definition, inputs) ==
  [id |-> id, definition |-> definition, kind |-> OperationKind(definition),
   arity |-> input_count(definition), inputs |-> inputs]

Factory == "factory"

\* The lowerer goes on with an operation whose output schema is bound.
push_transform(state, inputs, definition, bound) ==
  LET declared == Declare(Id("transform", state.next), definition,
                          [k \in DOMAIN inputs |-> Ref(Factory, inputs[k].node)])
  IN IF state.error # "none" THEN Failed(state, state.error)
     ELSE IF bound.error # "none" THEN Failed(state, bound.error)
     ELSE Lowered([state EXCEPT !.operations = Append(@, declared), !.next = @ + 1],
                  Relation(Len(state.operations) + 1, bound.schema))

add_transform(state, inputs, definition) ==
  push_transform(state, inputs, definition,
                 output_schema(definition, [k \in DOMAIN inputs |-> inputs[k].schema]))

\* The columns at the positions, under the target's names and nullability.
project_columns(state, relation, positions, target) ==
  LET schema == relation.schema
      fields == [k \in DOMAIN positions |->
                   [name |-> target[k].name, expr |-> Col("", schema[positions[k]].name),
                    null |-> target[k].null]]
  IN IF state.error # "none" THEN Failed(state, state.error)
     ELSE IF Len(positions) # Len(target) \/ \E k \in DOMAIN positions : positions[k] > Len(schema)
     THEN Failed(state, "diverged")
     ELSE IF schema = target /\ positions = [k \in DOMAIN positions |-> k]
     THEN Lowered(state, relation)
     ELSE add_transform(state, <<relation>>, [op |-> "select", fields |-> fields])

MapColumns(e, image(_)) ==
  LET leaf(o) == IF o.op = "col" THEN image(o) ELSE o
  IN IF e.op \in {"col", "lit"} THEN leaf(e)
     ELSE [e EXCEPT !.left = leaf(@), !.right = leaf(@)]

\* A logical column becomes the physical column at its position.
rewrite_columns(e, logical, physical) ==
  MapColumns(e, LAMBDA c : Col("", physical[Position(c, logical)].name))

\* The union of the columns that the occurrences of each scan read, in order.
scan_projections(plan, declared) ==
  [i \in declared |->
     SelectSeq(Iota(1, Len(Table[i])), LAMBDA k :
       \E scan \in Scans(plan) : scan.index = i /\ Contains(scan.projection, k))]

\* A CDC scan captures only the columns; a sequence always has its one column.
project_scan_definition(index, projection) ==
  [op |-> "scan", index |-> index,
   projection |-> IF index \in Projecting THEN projection ELSE [k \in DOMAIN Table[index] |-> k]]

\* The first occurrence declares the scan, narrowed to the shared columns.
share_scan(state, index, shared) ==
  LET definition == project_scan_definition(index, shared)
      physical   == output_schema(definition, <<>>).schema
      declared   == [state EXCEPT !.operations =
                       Append(@, Declare(Id("scan", index), definition, <<>>))]
      relation   == Relation(Len(state.operations) + 1, physical)
      target     == [k \in DOMAIN shared |-> Table[index][shared[k]]]
      result     == IF physical = Table[index] THEN project_columns(declared, relation, shared, target)
                    ELSE IF physical = target THEN Lowered(declared, relation)
                    ELSE Failed(state, "scan schema")
  IN Lowered([result.state EXCEPT !.scans[index] = <<result.relation>>], result.relation)

\* Every occurrence reads the shared relation through its own columns.
lower_scan(state, plan, projections) ==
  LET shared == projections[plan.index]
      first  == IF state.scans[plan.index] # <<>>
                THEN Lowered(state, state.scans[plan.index][1])
                ELSE share_scan(state, plan.index, shared)
      positions == [k \in DOMAIN plan.projection |->
                      CHOOSE p \in DOMAIN shared : shared[p] = plan.projection[k]]
  IN project_columns(first.state, first.relation, positions, Unqualified(SchemaOf(plan)))

------------------------------------------------------------------------------
(* Joins. *)

\* A pair of expressions that can be a key: one of each input, of one type that
\* a key may have; in the order of the inputs.
InOrder(l, r, left, right) ==
  IF Within(l, left) /\ Within(r, right) THEN <<<<l, r>>>>
  ELSE IF Within(r, left) /\ Within(l, right) THEN <<<<r, l>>>> ELSE <<>>

supported_join_key(l, r, left, right) ==
  SelectSeq(InOrder(l, r, left, right), LAMBDA pair :
    TypeOf(pair[1], left) = TypeOf(pair[2], right) /\ TypeOf(pair[1], left) # "float")

\* The conditions of ON and of the filter, the keys apart from the residuals.
collect_join_condition(plan) ==
  LET left  == SchemaOf(plan.left)
      right == SchemaOf(plan.right)
      conditions == [k \in DOMAIN plan.on |-> Cmp("eq", plan.on[k][1], plan.on[k][2])] \o plan.filter
      key(e) == IF e.op = "eq" THEN supported_join_key(e.left, e.right, left, right) ELSE <<>>
  IN [keys      |-> FlattenSeq([k \in DOMAIN conditions |-> key(conditions[k])]),
      residuals |-> SelectSeq(conditions, LAMBDA e : key(e) = <<>>)]

\* Mutant: a right join keeps the order of its swapped inputs.
orient_join_in_swapped_order(type, left, right, keys) ==
  LET swapped == type \in {"Right", "RightSemi", "RightAnti"}
      kind    == CASE type = "Inner" -> "Inner"
                   [] type \in {"Left", "Right"} -> "LeftOuter"
                   [] type = "Full" -> "FullOuter"
                   [] type \in {"LeftSemi", "RightSemi"} -> "LeftSemi"
                   [] type \in {"LeftAnti", "RightAnti"} -> "LeftAnti"
      l       == IF swapped THEN right ELSE left
      r       == IF swapped THEN left ELSE right
  IN [kind |-> kind, inputs |-> <<l, r>>, swapped |-> swapped,
      keys |-> IF swapped THEN [k \in DOMAIN keys |-> <<keys[k][2], keys[k][1]>>] ELSE keys,
      order |-> Iota(1, Len(l.schema) + IF LeftOnlyKind(kind) THEN 0 ELSE Len(r.schema))]

\* A right join is the left join of the swapped inputs, its columns put back.
orient_join(type, left, right, keys) ==
  LET swapped == type \in {"Right", "RightSemi", "RightAnti"}
      kind    == CASE type = "Inner" -> "Inner"
                   [] type \in {"Left", "Right"} -> "LeftOuter"
                   [] type = "Full" -> "FullOuter"
                   [] type \in {"LeftSemi", "RightSemi"} -> "LeftSemi"
                   [] type \in {"LeftAnti", "RightAnti"} -> "LeftAnti"
      l       == IF swapped THEN right ELSE left
      r       == IF swapped THEN left ELSE right
      lefts   == Len(l.schema)
      rights  == Len(r.schema)
  IN [kind |-> kind, inputs |-> <<l, r>>, swapped |-> swapped,
      keys |-> IF swapped THEN [k \in DOMAIN keys |-> <<keys[k][2], keys[k][1]>>] ELSE keys,
      order |-> IF LeftOnlyKind(kind) THEN Iota(1, lefts)
                ELSE IF swapped THEN Iota(lefts + 1, rights) \o Iota(1, lefts)
                ELSE Iota(1, lefts + rights)]

\* A residual sees both inputs of the join by their port.
rewrite_join_residual(e, logicalLeft, logicalRight, inputs, swapped) ==
  LET left  == IF swapped THEN inputs[2].schema ELSE inputs[1].schema
      right == IF swapped THEN inputs[1].schema ELSE inputs[2].schema
      image(c) == IF Positions(c, logicalLeft) # {}
                  THEN Col(IF swapped THEN "right" ELSE "left", left[Position(c, logicalLeft)].name)
                  ELSE Col(IF swapped THEN "left" ELSE "right", right[Position(c, logicalRight)].name)
  IN MapColumns(e, image)

JoinNames(count) == [k \in 1 .. count |-> JoinName[k]]

\* The output of a join in the order of the logical plan, under internal names.
align_join_output(joined, schema, order) ==
  project_columns(joined.state, joined.relation, order,
    [k \in DOMAIN schema |-> Field(JoinName[k], schema[k].type, schema[k].null)])

\* The join of the oriented inputs, its columns put back.
add_join(plan, state, join, residuals) ==
  LET residual == [k \in DOMAIN residuals |->
                     rewrite_join_residual(residuals[k], SchemaOf(plan.left), SchemaOf(plan.right),
                                           join.inputs, join.swapped)]
  IN align_join_output(
       add_transform(state, join.inputs,
                     EquiJoin(join.kind, join.keys, JoinNames(Len(join.order)), residual)),
       SchemaOf(plan), join.order)

\* The joins that orient_join turns into one of its kinds.
SupportedJoin == {"Inner", "Left", "Right", "Full", "LeftSemi", "LeftAnti", "RightSemi", "RightAnti"}

\* The checks of the plan come first in the code; they read the plan only, and
\* a refused program keeps nothing of what it declared.
lower_conditions(plan, condition, left, right) ==
  LET keys == [k \in DOMAIN condition.keys |->
                 <<rewrite_columns(condition.keys[k][1], SchemaOf(plan.left), left.relation.schema),
                   rewrite_columns(condition.keys[k][2], SchemaOf(plan.right), right.relation.schema)>>]
      ambiguous == \E k \in DOMAIN condition.residuals : \E c \in Columns(condition.residuals[k]) :
                     Positions(c, SchemaOf(plan.left)) # {} /\ Positions(c, SchemaOf(plan.right)) # {}
  IN IF right.state.error # "none" THEN right
     ELSE IF plan.constraint # "on" THEN Failed(right.state, "join semantics")
     ELSE IF condition.keys = <<>> THEN Failed(right.state, "no key")
     ELSE IF ambiguous THEN Failed(right.state, "ambiguous")
     ELSE IF plan.type \notin SupportedJoin THEN Failed(right.state, "join semantics")
     ELSE add_join(plan, right.state, orient_join(plan.type, left.relation, right.relation, keys),
                   condition.residuals)

lower_join(plan, left, right) ==
  lower_conditions(plan, collect_join_condition(plan), left, right)

asof_direction(op) ==
  CASE op = "lt"  -> [forward |-> TRUE, exact |-> FALSE]
    [] op = "le"  -> [forward |-> TRUE, exact |-> TRUE]
    [] op = "gt"  -> [forward |-> FALSE, exact |-> FALSE]
    [] op = "ge"  -> [forward |-> FALSE, exact |-> TRUE]

lower_asof_join(plan, left, right) ==
  LET inLeft(e)  == rewrite_columns(e, SchemaOf(plan.left), left.relation.schema)
      inRight(e) == rewrite_columns(e, SchemaOf(plan.right), right.relation.schema)
      count == Len(left.relation.schema) + Len(right.relation.schema)
      definition == [op |-> "asof_join", kind |-> "AsOf", direction |-> asof_direction(plan.op),
                     keys |-> [k \in DOMAIN plan.on |-> <<inLeft(plan.on[k][1]), inRight(plan.on[k][2])>>],
                     order |-> <<inLeft(plan.leftKey), inRight(plan.rightKey)>>,
                     names |-> JoinNames(count)]
      joined == add_transform(right.state, <<left.relation, right.relation>>, definition)
  IN IF right.state.error # "none" THEN right
     ELSE IF plan.constraint \notin {"on", "using"} THEN Failed(right.state, "asof semantics")
     ELSE align_join_output(joined, SchemaOf(plan), Iota(1, count))

------------------------------------------------------------------------------
(* Aggregates and whole plans. *)

BuiltinFunction == {"count", "sum", "avg", "min", "max"}

\* The call of an operation for a function of the plan.
lower_aggregate_call(call, logical, physical) ==
  [name |-> call.name, arg |-> rewrite_columns(call.arg, logical, physical),
   fn |-> CASE call.fn = "count" -> IF call.arg.op = "lit" THEN "CountAll" ELSE "Count"
            [] call.fn = "sum" -> "Sum" [] call.fn = "avg" -> "Avg"
            [] call.fn = "min" -> "Min" [] call.fn = "max" -> "Max"]

lower_aggregate(plan, input) ==
  LET logical == SchemaOf(plan.input)
      physical == input.relation.schema
      definition == [op |-> "aggregate",
                     groups |-> [k \in DOMAIN plan.groups |->
                                   [name |-> plan.groups[k].name,
                                    expr |-> rewrite_columns(plan.groups[k], logical, physical)]],
                     calls |-> [k \in DOMAIN plan.calls |->
                                  lower_aggregate_call(plan.calls[k], logical, physical)]]
  IN IF input.state.error # "none" THEN input
     ELSE IF plan.groups = <<>> THEN Failed(input.state, "global aggregate")
     ELSE IF \E k \in DOMAIN plan.calls : plan.calls[k].modified \/ plan.calls[k].fn \notin BuiltinFunction
     THEN Failed(input.state, "aggregate function")
     ELSE add_transform(input.state, <<input.relation>>, definition)

lower_filter(plan, input) ==
  IF input.state.error # "none" THEN input
  ELSE add_transform(input.state, <<input.relation>>,
         [op |-> "filter",
          predicate |-> rewrite_columns(plan.predicate, SchemaOf(plan.input), input.relation.schema)])

lower_projection(plan, input) ==
  LET schema == SchemaOf(plan)
      fields == [k \in DOMAIN plan.items |->
                   [name |-> schema[k].name, null |-> schema[k].null,
                    expr |-> rewrite_columns(plan.items[k].expr, SchemaOf(plan.input),
                                             input.relation.schema)]]
  IN IF input.state.error # "none" THEN input
     ELSE add_transform(input.state, <<input.relation>>, [op |-> "select", fields |-> fields])

\* Mutant: an input of a union keeps its own nullability.
align_union_input_by_name(input, plan) ==
  LET target == Unqualified(SchemaOf(plan))
  IN project_columns(input.state, input.relation, Iota(1, Len(target)),
       [k \in DOMAIN target |-> [target[k] EXCEPT !.null = input.relation.schema[k].null]])

\* Every input of a union under the union's names and nullability.
align_union_input(input, plan) ==
  project_columns(input.state, input.relation, Iota(1, Len(SchemaOf(plan))), Unqualified(SchemaOf(plan)))

RECURSIVE lower(_, _, _)
lower(state, plan, projections) ==
  CASE plan.node = "scan"     -> lower_scan(state, plan, projections)
    [] plan.node = "alias"    -> lower(state, plan.input, projections)
    [] plan.node = "filter"   -> lower_filter(plan, lower(state, plan.input, projections))
    [] plan.node = "project"  -> lower_projection(plan, lower(state, plan.input, projections))
    [] plan.node = "distinct" ->
         LET input == lower(state, plan.input, projections)
         IN add_transform(input.state, <<input.relation>>, [op |-> "distinct"])
    [] plan.node = "aggregate" -> lower_aggregate(plan, lower(state, plan.input, projections))
    [] plan.node \in {"join", "asof"} ->
         LET left  == lower(state, plan.left, projections)
             right == lower(left.state, plan.right, projections)
         IN IF plan.node = "join" THEN lower_join(plan, left, right)
            ELSE lower_asof_join(plan, left, right)
    [] plan.node = "union" ->
         LET inputs[k \in DOMAIN plan.inputs] ==
               align_union_input(
                 lower(IF k = 1 THEN state ELSE inputs[k - 1].state, plan.inputs[k], projections), plan)
             all == [k \in DOMAIN plan.inputs |-> inputs[k].relation]
         IN add_transform(inputs[Len(plan.inputs)].state, all,
                          [op |-> "union_all", count |-> Len(plan.inputs)])

\* A lowered query under its own column names, and the sink that takes it.
named_output(output, schema) ==
  project_columns(output.state, output.relation, Iota(1, Len(schema)), schema)

add_sink(named) ==
  [error |-> named.state.error,
   operations |-> IF named.state.error # "none" THEN <<>>
                  ELSE Append(named.state.operations,
                         Declare(Id("sink", 0), [op |-> "sink"], <<Ref(Factory, named.relation.node)>>))]

\* The program's operations.  A declared scan that the plan does not read, such
\* as one of an unused common table expression, is refused.
lower_query(plan, declared) ==
  LET start == [operations |-> <<>>, next |-> 0, scans |-> [i \in declared |-> <<>>],
                error |-> "none"]
  IN IF declared # {s.index : s \in Scans(plan)} THEN [error |-> "unreachable", operations |-> <<>>]
     ELSE add_sink(named_output(lower(start, plan, scan_projections(plan, declared)),
                                Unqualified(SchemaOf(plan))))
=============================================================================
