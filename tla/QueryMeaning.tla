---------------------------- MODULE QueryMeaning ----------------------------
(***************************************************************************)
(* What a logical plan means, and what a graph of operations computes, for *)
(* a given content of the scanned tables.  A relation is a sequence of     *)
(* rows read as a bag; NULL is the value Null.  What one operation does to *)
(* a stream of changes is the subject of Operators; here an operation is   *)
(* known by the relation it maintains.                                     *)
(***************************************************************************)
EXTENDS SqlPlan

Rows(relation) == ToSet(relation)
Copies(relation, row) == Cardinality({i \in DOMAIN relation : relation[i] = row})
SameBag(r, s) ==
  /\ Len(r) = Len(s)
  /\ \A row \in Rows(r) \cup Rows(s) : Copies(r, row) = Copies(s, row)

Nulls(count) == [k \in 1 .. count |-> Null]

ValueOf(e, row, schema) == IF e.op = "col" THEN row[Position(e, schema)] ELSE e.value

\* A comparison with NULL holds for nothing.
Holds(e, row, schema) ==
  LET l == ValueOf(e.left, row, schema)
      r == ValueOf(e.right, row, schema)
  IN l # Null /\ r # Null /\ (IF e.op = "eq" THEN l = r ELSE l < r)

HoldAll(conditions, row, schema) == \A k \in DOMAIN conditions : Holds(conditions[k], row, schema)

MapRows(relation, f(_)) == [i \in DOMAIN relation |-> f(relation[i])]

Unmatched(rows, others, match(_, _)) == SelectSeq(rows, LAMBDA x : ~ \E y \in Rows(others) : match(x, y))

Matched(rows, others, match(_, _)) == SelectSeq(rows, LAMBDA x : \E y \in Rows(others) : match(x, y))

Pairs(left, right, match(_, _)) ==
  FlattenSeq([i \in DOMAIN left |->
    LET matching == SelectSeq(right, LAMBDA r : match(left[i], r))
    IN MapRows(matching, LAMBDA r : left[i] \o r)])

\* The eight joins of SQL.
JoinRows(type, left, right, leftWidth, rightWidth, match(_, _)) ==
  LET flipped(r, l) == match(l, r)
      leftAlone  == MapRows(Unmatched(left, right, match), LAMBDA l : l \o Nulls(rightWidth))
      rightAlone == MapRows(Unmatched(right, left, flipped), LAMBDA r : Nulls(leftWidth) \o r)
      pairs      == Pairs(left, right, match)
  IN CASE type = "Inner"     -> pairs
       [] type = "Left"      -> pairs \o leftAlone
       [] type = "Right"     -> pairs \o rightAlone
       [] type = "Full"      -> pairs \o leftAlone \o rightAlone
       [] type = "LeftSemi"  -> Matched(left, right, match)
       [] type = "LeftAnti"  -> Unmatched(left, right, match)
       [] type = "RightSemi" -> Matched(right, left, flipped)
       [] type = "RightAnti" -> Unmatched(right, left, flipped)

Distance(x, y) == IF x < y THEN y - x ELSE x - y

\* Every left row with the nearest right row on the allowed side, or padded.
AsOfRows(left, right, rightWidth, allowed(_, _), distance(_, _)) ==
  MapRows(left, LAMBDA l :
    LET candidates == {r \in Rows(right) : allowed(l, r)}
        nearest    == CHOOSE r \in candidates : \A s \in candidates : distance(l, r) <= distance(l, s)
    IN l \o (IF candidates = {} THEN Nulls(rightWidth) ELSE nearest))

\* Every row once.
Once(rows) == FoldLeft(LAMBDA kept, row : IF Contains(kept, row) THEN kept ELSE Append(kept, row), <<>>, rows)

SumOf(values) == FoldSeq(LAMBDA a, b : a + b, 0, values)

\* An aggregate function over the values that are not NULL.
Reduce(fn, values) ==
  LET known == SelectSeq(values, LAMBDA v : v # Null)
  IN CASE fn = "count_all" -> Len(values)
       [] fn = "count"     -> Len(known)
       [] known = <<>> /\ fn \in {"sum", "avg", "min", "max"} -> Null
       [] known # <<>> /\ fn = "sum" -> SumOf(known)
       [] known # <<>> /\ fn = "avg" -> SumOf(known) \div Len(known)
       [] known # <<>> /\ fn = "min" -> Min(Rows(known))
       [] known # <<>> /\ fn = "max" -> Max(Rows(known))

\* One row per group: its key, and every function over its rows.
GroupRows(rows, key(_), calls, value(_, _)) ==
  LET keys == Once(MapRows(rows, key))
  IN MapRows(keys, LAMBDA k :
       LET members == SelectSeq(rows, LAMBDA r : key(r) = k)
       IN k \o [c \in DOMAIN calls |-> Reduce(calls[c], [i \in DOMAIN members |-> value(c, members[i])])])

------------------------------------------------------------------------------
(* The meaning of a plan. *)

RECURSIVE Meaning(_, _)
Meaning(plan, db) ==
  CASE plan.node = "scan" ->
         MapRows(db[plan.index], LAMBDA row : [k \in DOMAIN plan.projection |-> row[plan.projection[k]]])
    [] plan.node = "alias" -> Meaning(plan.input, db)
    [] plan.node = "filter" ->
         SelectSeq(Meaning(plan.input, db), LAMBDA row : Holds(plan.predicate, row, SchemaOf(plan.input)))
    [] plan.node = "project" ->
         MapRows(Meaning(plan.input, db), LAMBDA row :
           [k \in DOMAIN plan.items |-> ValueOf(plan.items[k].expr, row, SchemaOf(plan.input))])
    [] plan.node = "distinct" -> Once(Meaning(plan.input, db))
    [] plan.node = "union" ->
         FlattenSeq([k \in DOMAIN plan.inputs |-> Meaning(plan.inputs[k], db)])
    [] plan.node = "aggregate" ->
         LET schema == SchemaOf(plan.input)
         IN GroupRows(Meaning(plan.input, db),
              LAMBDA row : [k \in DOMAIN plan.groups |-> ValueOf(plan.groups[k], row, schema)],
              [c \in DOMAIN plan.calls |->
                 IF plan.calls[c].fn = "count" /\ plan.calls[c].arg.op = "lit" THEN "count_all"
                 ELSE plan.calls[c].fn],
              LAMBDA c, row : ValueOf(plan.calls[c].arg, row, schema))
    [] plan.node = "join" ->
         LET left   == SchemaOf(plan.left)
             right  == SchemaOf(plan.right)
             on     == [k \in DOMAIN plan.on |-> Cmp("eq", plan.on[k][1], plan.on[k][2])]
         IN JoinRows(plan.type, Meaning(plan.left, db), Meaning(plan.right, db), Len(left), Len(right),
              LAMBDA l, r : HoldAll(on \o plan.filter, l \o r, left \o right))
    [] plan.node = "asof" ->
         LET left  == SchemaOf(plan.left)
             right == SchemaOf(plan.right)
             lv(l) == ValueOf(plan.leftKey, l, left)
             rv(r) == ValueOf(plan.rightKey, r, right)
             on    == [k \in DOMAIN plan.on |-> Cmp("eq", plan.on[k][1], plan.on[k][2])]
         IN AsOfRows(Meaning(plan.left, db), Meaning(plan.right, db), Len(right),
              LAMBDA l, r : /\ HoldAll(on, l \o r, left \o right)
                            /\ lv(l) # Null /\ rv(r) # Null
                            /\ CASE plan.op = "lt" -> lv(l) < rv(r) [] plan.op = "le" -> lv(l) <= rv(r)
                                 [] plan.op = "gt" -> lv(l) > rv(r) [] plan.op = "ge" -> lv(l) >= rv(r),
              LAMBDA l, r : Distance(lv(l), rv(r)))

------------------------------------------------------------------------------
(* What the declared operations compute. *)

\* The relation that an operation maintains over its inputs' relations.
Maintains(definition, schemas, inputs, db) ==
  LET bare(k) == Qualified(schemas[k], "")
      keysAgree(l, r) ==
        \A k \in DOMAIN definition.keys :
          LET lv == ValueOf(definition.keys[k][1], l, bare(1))
              rv == ValueOf(definition.keys[k][2], r, bare(2))
          IN lv # Null /\ lv = rv
      ports == Qualified(schemas[1], "left") \o Qualified(schemas[2], "right")
      lo(l) == ValueOf(definition.order[1], l, bare(1))
      ro(r) == ValueOf(definition.order[2], r, bare(2))
  IN CASE definition.op = "scan" ->
            MapRows(db[definition.index],
              LAMBDA row : [k \in DOMAIN definition.projection |-> row[definition.projection[k]]])
       [] definition.op = "filter" ->
            SelectSeq(inputs[1], LAMBDA row : Holds(definition.predicate, row, bare(1)))
       [] definition.op = "select" ->
            MapRows(inputs[1], LAMBDA row :
              [k \in DOMAIN definition.fields |-> ValueOf(definition.fields[k].expr, row, bare(1))])
       [] definition.op = "distinct"  -> Once(inputs[1])
       [] definition.op = "union_all" -> FlattenSeq(inputs)
       [] definition.op = "aggregate" ->
            GroupRows(inputs[1],
              LAMBDA row : [k \in DOMAIN definition.groups |-> ValueOf(definition.groups[k].expr, row, bare(1))],
              [c \in DOMAIN definition.calls |->
                 CASE definition.calls[c].fn = "CountAll" -> "count_all"
                   [] definition.calls[c].fn = "Count" -> "count" [] definition.calls[c].fn = "Sum" -> "sum"
                   [] definition.calls[c].fn = "Avg" -> "avg"     [] definition.calls[c].fn = "Min" -> "min"
                   [] definition.calls[c].fn = "Max" -> "max"],
              LAMBDA c, row : ValueOf(definition.calls[c].arg, row, bare(1)))
       [] definition.op = "equi_join" ->
            JoinRows(CASE definition.kind = "LeftOuter" -> "Left"
                       [] definition.kind = "FullOuter" -> "Full"
                       [] OTHER -> definition.kind,
              inputs[1], inputs[2], Len(schemas[1]), Len(schemas[2]),
              LAMBDA l, r : keysAgree(l, r) /\ HoldAll(definition.residual, l \o r, ports))
       [] definition.op = "asof_join" ->
            AsOfRows(inputs[1], inputs[2], Len(schemas[2]),
              LAMBDA l, r : /\ keysAgree(l, r) /\ lo(l) # Null /\ ro(r) # Null
                            /\ IF definition.direction.forward THEN lo(l) <= ro(r) ELSE lo(l) >= ro(r)
                            /\ definition.direction.exact \/ lo(l) # ro(r),
              LAMBDA l, r : Distance(lo(l), ro(r)))
       [] definition.op = "sink" -> inputs[1]

\* The relation of every operation of a definition, over the edges it declares.
Relations(nodes, db) ==
  LET extend(done, node) ==
        LET schemas == [p \in DOMAIN node.inputs |-> done[node.inputs[p]].schema]
            inputs  == [p \in DOMAIN node.inputs |-> done[node.inputs[p]].rows]
        IN Append(done, [rows   |-> Maintains(node.definition, schemas, inputs, db),
                         schema |-> IF node.kind = "sink" THEN schemas[1]
                                    ELSE output_schema(node.definition, schemas).schema])
  IN FoldLeft(extend, <<>>, nodes)
=============================================================================
