---------------------------- MODULE MCFlowCompile ---------------------------
(***************************************************************************)
(* Three scans: a CDC table with a NULLable and a float column, a sequence *)
(* (which cannot leave its column out), and a CDC table one of whose       *)
(* columns has the name the lowerer gives to the second column of a join.  *)
(***************************************************************************)
EXTENDS FlowCompile

MCJoinName == <<"j1", "j2", "j3", "j4", "j5", "j6", "j7", "j8">>

MCTable == << <<Field("a", "int", FALSE), Field("b", "int", TRUE), Field("f", "float", FALSE)>>,
              <<Field("n", "int", FALSE)>>,
              <<Field("a", "int", TRUE), Field("j2", "int", FALSE)>> >>

MCDatabases ==
  {<< <<<<1, 0, 1>>, <<1, 2, 2>>, <<2, 1, 1>>, <<2, 1, 1>>, <<3, 3, 2>>>>,
      <<<<1>>, <<2>>>>,
      <<<<0, 1>>, <<1, 2>>, <<1, 2>>, <<2, 3>>, <<4, 1>>>> >>,
   << <<<<1, 2, 1>>>>, <<>>, <<>> >>,
   << <<>>, <<<<2>>>>, <<<<2, 1>>>> >>}

\* A leaf is a scan with some of its columns under the alias of its side.
Leaf(q, index, projection) == Alias(q, Scan(index, projection))

LeftLeaf == Leaf("l", 1, <<1, 2, 3>>)

\* The right input and the int column of it that the conditions use.
Rights == {[leaf |-> Leaf("r", 1, <<2>>),       col |-> "b"],
           [leaf |-> Leaf("r", 1, <<1, 3>>),    col |-> "a"],
           [leaf |-> Leaf("r", 2, <<1>>),       col |-> "n"],
           [leaf |-> Leaf("r", 3, <<1, 2>>),    col |-> "a"],
           [leaf |-> Leaf("r", 3, <<2>>),       col |-> "j2"]}

\* ON pairs and filters; the last two have no key.
Conditions(col) ==
  {[on |-> <<<<Col("l", "a"), Col("r", col)>>>>, filter |-> <<>>],
   [on |-> <<>>, filter |-> <<Cmp("eq", Col("r", col), Col("l", "a"))>>],
   [on |-> <<<<Col("l", "a"), Col("r", col)>>>>, filter |-> <<Cmp("lt", Col("l", "b"), Col("r", col))>>],
   [on |-> <<<<Col("l", "b"), Col("r", col)>>>>,
    filter |-> <<Cmp("eq", Col("l", "a"), Col("l", "b")), Cmp("lt", Lit(1), Col("r", col))>>],
   [on |-> <<<<Col("l", "f"), Col("r", col)>>>>, filter |-> <<>>],
   [on |-> <<>>, filter |-> <<Cmp("lt", Col("l", "a"), Col("r", col))>>]}

Joins ==
  UNION {{Join(type, constraint, c.on, c.filter, LeftLeaf, right.leaf) :
            type \in SupportedJoin, constraint \in {"on"}, c \in Conditions(right.col)} : right \in Rights}
  \cup {Join("Inner", "using", <<<<Col("l", "a"), Col("r", "a")>>>>, <<>>, LeftLeaf, Leaf("r", 1, <<1>>))}

\* Both float columns of a self join are compared, beside a key.
FloatJoins ==
  {Join(type, "on", <<<<Col("l", "f"), Col("r", "f")>>, <<Col("l", "a"), Col("r", "a")>>>>, <<>>,
        LeftLeaf, Leaf("r", 1, <<1, 3>>)) : type \in SupportedJoin}

AsOfs ==
  {AsOf(c.constraint, c.on, op, Col("l", key), Col("r", "j2"), LeftLeaf, Leaf("r", 3, <<1, 2>>)) :
     c \in {[constraint |-> "on", on |-> <<>>]}
           \cup {[constraint |-> constraint, on |-> <<<<Col("l", "a"), Col("r", "a")>>>>] :
                   constraint \in {"on", "using"}},
     op \in {"lt", "le", "gt", "ge"},
     key \in {"b", "f"}}

\* The columns of a plan in reverse, under fresh names.
Names == <<"x1", "x2", "x3", "x4", "x5", "x6">>
Renamed(plan) ==
  LET schema == SchemaOf(plan)
      n == Len(schema)
  IN Project([k \in DOMAIN schema |->
                Item(Col(schema[n + 1 - k].q, schema[n + 1 - k].name), "", Names[k])], plan)

FirstCol(plan) == Col(SchemaOf(plan)[1].q, SchemaOf(plan)[1].name)
LastCol(plan) == Col(Last(SchemaOf(plan)).q, Last(SchemaOf(plan)).name)

Grouped(plan, fn) ==
  Aggregate(<<FirstCol(plan)>>,
            <<FunctionCall("count", Lit(1), FALSE, "all"), FunctionCall(fn, LastCol(plan), FALSE, fn)>>, plan)

\* A union with the whole of scan 3, first or last: names and nullability differ.
Unions(plan) ==
  LET two == Project(<<Item(FirstCol(plan), "", "a"), Item(Lit(1), "", "j2")>>, plan)
  IN {Union(<<two, Leaf("u", 3, <<1, 2>>)>>), Union(<<Leaf("u", 3, <<1, 2>>), two>>)}

Tops(plan) ==
  {plan, Renamed(plan), Distinct(Renamed(plan)), Renamed(Distinct(plan)),
   Renamed(Filter(Cmp("lt", Lit(1), FirstCol(plan)), plan)), Grouped(plan, "sum"), Grouped(plan, "count")}
  \cup Unions(plan)

\* A join of a join with a third scan, under an alias.
Nested ==
  {Renamed(Join(type, "on", <<<<Col("m", "x1"), Col("t", "a")>>>>, <<>>,
                Alias("m", Renamed(join)), Leaf("t", 3, <<1>>))) :
     type \in SupportedJoin,
     join \in {Join(t, "on", <<<<Col("l", "a"), Col("r", "b")>>>>, <<>>, LeftLeaf, Leaf("r", 1, <<2>>)) :
                 t \in {"Left", "RightAnti", "Full"}}}

\* The first two read no column of their scan.
Singles ==
  {Project(<<Item(Lit(1), "", "one")>>, Leaf("l", 1, <<>>)),
   Project(<<Item(Lit(1), "", "one")>>, Leaf("l", 2, <<>>)),
   Leaf("l", 1, <<1>>), Leaf("l", 1, <<3, 1>>), Leaf("l", 2, <<1>>), LeftLeaf,
   Aggregate(<<>>, <<FunctionCall("count", Lit(1), FALSE, "all")>>, LeftLeaf),
   Aggregate(<<Col("l", "f")>>, <<FunctionCall("count", Lit(1), FALSE, "all")>>, LeftLeaf),
   Aggregate(<<Col("l", "a")>>, <<FunctionCall("median", Col("l", "b"), FALSE, "m")>>, LeftLeaf),
   Aggregate(<<Col("l", "a")>>, <<FunctionCall("count", Col("l", "b"), TRUE, "m")>>, LeftLeaf)}
  \cup {Aggregate(<<Col("l", "a")>>, <<FunctionCall(fn, Col("l", "b"), FALSE, fn)>>, LeftLeaf) :
          fn \in {"avg", "min", "max"}}

Plans == UNION {Tops(join) : join \in Joins \cup FloatJoins \cup AsOfs} \cup Nested \cup Singles

MCQueries ==
  {[declared |-> {s.index : s \in Scans(plan)}, plan |-> plan] : plan \in Plans}
  \cup {[declared |-> {1, 2}, plan |-> LeftLeaf]}

MCOffered == {[kind |-> "source", arity |-> 0], [kind |-> "atomic", arity |-> 1],
              [kind |-> "atomic", arity |-> 2], [kind |-> "paged", arity |-> 2],
              [kind |-> "sink", arity |-> 1]}
=============================================================================
