---------------------------- MODULE FlowTopology ----------------------------
(***************************************************************************)
(* From the operations a factory declares to the graph the call stack runs *)
(* on.  A declaration has an id, a definition and references to its        *)
(* inputs; a definition is known here by its kind, the number of inputs it *)
(* requires and the data it names in the store.  Operations are numbered   *)
(* from 1.  An operation that computes inside its producer's transaction   *)
(* and is its only consumer joins the producer's segment as its tail.      *)
(***************************************************************************)
EXTENDS Integers, Sequences, FiniteSets, SequencesExt, FiniteSetsExt

CONSTANTS
  MaxOperations,   \* MAX_OPERATIONS
  MaxDepth         \* MAX_DEPTH, the bound on call frames

ASSUME TopologyBounds == MaxOperations \in Nat \ {0} /\ MaxDepth \in Nat \ {0}

\* Ids are a kind and a number; NoId stands for every id that is refused: empty,
\* too long or with a NUL.
Id(kind, index) == [kind |-> kind, index |-> index]
NoId == Id("", 0)

\* A reference names the factory it comes from and an operation of it.
Ref(factory, index) == [factory |-> factory, index |-> index]

\* An operation of the durable definition, its inputs by number.
Node(declared) ==
  [declared EXCEPT !.inputs = [p \in DOMAIN declared.inputs |-> declared.inputs[p].index]]

\* The numbers of the operations that a node may read: the ones before it.
InputNotEarlier(nodes) ==
  \E i \in DOMAIN nodes : \E p \in DOMAIN nodes[i].inputs : nodes[i].inputs[p] >= i

\* Why a definition is refused, "none" when it is not.  Which of several reasons
\* is reported is not told apart.
validate_definition(nodes) ==
  IF nodes = <<>> THEN "empty"
  ELSE IF Len(nodes) > MaxOperations THEN "operations"
  ELSE IF \E i \in DOMAIN nodes : nodes[i].id = NoId THEN "id"
  ELSE IF \E i, j \in DOMAIN nodes : i < j /\ nodes[i].id = nodes[j].id THEN "duplicate id"
  ELSE IF \E i \in DOMAIN nodes : Len(nodes[i].inputs) > MaxOperations THEN "inputs"
  ELSE IF \E i \in DOMAIN nodes : Len(nodes[i].inputs) # nodes[i].arity THEN "input count"
  ELSE IF InputNotEarlier(nodes) THEN "not earlier"
  ELSE "none"

\* The definition of a factory's declarations, unless one refers to another
\* factory or to an operation that is not declared before it.
finish_definition(factory, declarations) ==
  LET foreign == \E i \in DOMAIN declarations : \E p \in DOMAIN declarations[i].inputs :
                   LET ref == declarations[i].inputs[p]
                   IN ref.factory # factory \/ ref.index >= i
      nodes == [i \in DOMAIN declarations |-> Node(declarations[i])]
  IN [error |-> IF foreign THEN "foreign" ELSE validate_definition(nodes), nodes |-> nodes]

Call(operation, port) == [operation |-> operation, port |-> port]

Iota(from, count) == [k \in 1 .. count |-> from + k - 1]

\* The calls an operation's output is sent to, by consumer and then by port.
DirectConsumers(nodes) ==
  [i \in DOMAIN nodes |->
     FlattenSeq([c \in DOMAIN nodes |->
       LET ports == SelectSeq(Iota(1, Len(nodes[c].inputs)), LAMBDA p : nodes[c].inputs[p] = i)
       IN [k \in DOMAIN ports |-> Call(c, ports[k])]])]

\* Mutant: an atomic operation joins a producer that has other consumers too.
FusedDespiteSiblings(nodes, calls, i) ==
  nodes[i].kind = "atomic" /\ Len(nodes[i].inputs) = 1

\* Operation i runs in the tail of its producer's segment.
Fused(nodes, calls, i) ==
  /\ nodes[i].kind = "atomic" /\ Len(nodes[i].inputs) = 1
  /\ Len(calls[nodes[i].inputs[1]]) = 1

\* The derived topology, or why there is none.
resolve(nodes) ==
  LET calls == DirectConsumers(nodes)
      fused(i) == Fused(nodes, calls, i)
      headOf[i \in DOMAIN nodes] == IF fused(i) THEN headOf[nodes[i].inputs[1]] ELSE i
      tails == [h \in DOMAIN nodes |->
                  SelectSeq(Iota(1, Len(nodes)), LAMBDA i : i # h /\ headOf[i] = h)]
      depth[i \in DOMAIN nodes] ==
        IF fused(i) \/ nodes[i].kind = "sink" THEN 0
        ELSE 1 + Max({0} \cup {depth[headOf[nodes[i].inputs[p]]] : p \in DOMAIN nodes[i].inputs})
      error ==
        IF \E i \in DOMAIN nodes : nodes[i].inputs = <<>> /\ nodes[i].kind # "source"
        THEN "root"
        ELSE IF \E i \in DOMAIN nodes : calls[i] = <<>> /\ nodes[i].kind # "sink"
        THEN "terminal"
        ELSE IF \E i \in DOMAIN nodes : depth[i] > MaxDepth THEN "depth"
        ELSE "none"
  IN [error     |-> error,
      tails     |-> tails,
      heads     |-> [i \in DOMAIN nodes |-> ~ fused(i)],
      consumers |-> [i \in DOMAIN nodes |-> calls[Last(<<i>> \o tails[i])]],
      rank      |-> depth]

\* Construction binds the operations in order: a sink has no output to read.
ReadsSink(nodes) ==
  \E i \in DOMAIN nodes : \E p \in DOMAIN nodes[i].inputs : nodes[nodes[i].inputs[p]].kind = "sink"

NoTopology(error) ==
  [error |-> error, tails |-> <<>>, heads |-> <<>>, consumers |-> <<>>, rank |-> <<>>]

construct(nodes) == IF ReadsSink(nodes) THEN NoTopology("no output") ELSE resolve(nodes)

------------------------------------------------------------------------------
(* What the topology must be. *)

Segment(topology, h) == <<h>> \o topology.tails[h]

Edges(nodes) ==
  {<<nodes[i].inputs[p], i, p>> : <<i, p>> \in
     {ip \in (DOMAIN nodes) \X (1 .. MaxOperations) : ip[2] \in DOMAIN nodes[ip[1]].inputs}}

\* Segments cover every operation once and carry exactly the declared edges:
\* inside a segment from one operation to the next, and between segments from
\* the last operation of one to the head of another, at the declared port.
CarriesEdges(nodes, topology) ==
  LET heads == {h \in DOMAIN nodes : topology.heads[h]}
      inner == UNION {{<<Segment(topology, h)[k], Segment(topology, h)[k + 1], 1>> :
                          k \in 1 .. Len(topology.tails[h])} : h \in heads}
      outer == UNION {{<<Last(Segment(topology, h)), topology.consumers[h][k].operation,
                          topology.consumers[h][k].port>> :
                          k \in DOMAIN topology.consumers[h]} : h \in heads}
  IN /\ inner \cap outer = {}
     /\ inner \cup outer = Edges(nodes)
     /\ \A i \in DOMAIN nodes : Cardinality({h \in heads : Contains(Segment(topology, h), i)}) = 1
     /\ \A h \in heads, k \in DOMAIN nodes : Contains(topology.tails[h], k) => nodes[k].kind = "atomic"

\* The frames of a call chain fit the bound: every call goes from a segment to
\* one of a higher rank, and no rank is over the bound.  A sink is called from
\* one place and is in no chain.
BoundsCalls(nodes, topology) ==
  \A h \in DOMAIN nodes : topology.heads[h] /\ nodes[h].kind # "sink" =>
    /\ topology.rank[h] \in 1 .. MaxDepth
    /\ \A k \in DOMAIN topology.consumers[h] :
         LET c == topology.consumers[h][k].operation
         IN nodes[c].kind # "sink" => nodes[c].kind # "source" /\ topology.rank[c] > topology.rank[h]
=============================================================================
