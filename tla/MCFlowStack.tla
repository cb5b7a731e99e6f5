---------------------------- MODULE MCFlowStack ----------------------------
(***************************************************************************)
(* Instances of FlowStack for TLC: two topologies with rows that remember  *)
(* the path they took, the properties that need such rows, and a reference *)
(* definition of what every sink must receive.                             *)
(***************************************************************************)
EXTENDS FlowStack, SequencesExt

(***************************************************************************)
(* A row is <<id, via>>: via is 0 for a captured row, and 2 * port or      *)
(* 2 * port + 1 for the two rows that computation "a" emits for an input   *)
(* row.  Row 2 has only the first of them, so some pages come out empty.   *)
(***************************************************************************)
RowId == 1..3
Emits(id, via) == ~(id = 2 /\ via % 2 = 1)
Item(port, input, i) ==
  <<input[(i + 1) \div 2][1], 2 * port + ((i + 1) % 2)>>

MCRow    == RowId \X {0, 2, 3, 4, 5}
MCChange == [1..1 -> MCRow] \cup [1..2 -> MCRow]

MCItems(h, p, input) == IF h = "a" THEN 2 * Len(input) ELSE Len(input)

MCOutput(h, p, input, from, k) ==
  IF h = "a"
  THEN SelectSeq([i \in 1..k |-> Item(p, input, from + i)],
                 LAMBDA r : Emits(r[1], r[2]))
  ELSE SubSeq(input, from + 1, from + k)

To(operation, port) == [operation |-> operation, port |-> port]

\* One source feeds sink x and both ports of a; a feeds y and the discard z.
FanSources   == <<"s">>
FanSinks     == <<"x", "y", "z">>
FanHeads     == {"s", "a"}
FanConsumers == [s |-> <<To("x", 1), To("a", 1), To("a", 2)>>,
                 a |-> <<To("y", 1), To("z", 1)>>]
FanPorts     == [s |-> 0, a |-> 2]
FanRank      == [s |-> 1, a |-> 2]
FanScript    == [s |-> << <<<<1, 0>>, <<2, 0>>>> >>]

\* Two sources meet in a; the second also feeds sink x, after a.
PairSources   == <<"s", "t">>
PairSinks     == <<"y", "x">>
PairHeads     == {"s", "t", "a"}
PairConsumers == [s |-> <<To("a", 1)>>, t |-> <<To("a", 2), To("x", 1)>>,
                  a |-> <<To("y", 1)>>]
PairPorts     == [s |-> 0, t |-> 0, a |-> 2]
PairRank      == [s |-> 1, t |-> 1, a |-> 2]
PairScript    == [s |-> << <<<<1, 0>>>>, <<<<3, 0>>>> >>, t |-> << <<<<2, 0>>>> >>]

-----------------------------------------------------------------------------
(* Reference: what a sink must have received by one path, given the rows   *)
(* captured from the source at its start.                                  *)

PathsTo ==
  [k \in Sink |->
     {p \in Source \X {0, 2, 3, 4, 5} :
        \E i \in DOMAIN Consumers[p[1]] :
          LET c == Consumers[p[1]][i] IN
          \/ c.operation = k /\ p[2] = 0
          \/ /\ c.operation = "a" /\ p[2] \div 2 = c.port
             /\ \E j \in DOMAIN Consumers["a"] : Consumers["a"][j].operation = k}]

Reference(path, n) ==
  LET rows == FlattenSeq(SubSeq(Script[path[1]], 1, n))
      kept == SelectSeq(rows, LAMBDA r : Emits(r[1], path[2]))
  IN [i \in DOMAIN kept |-> <<kept[i][1], path[2]>>]

Received(s, k, path) ==
  SelectSeq(s.log[k], LAMBDA r :
     /\ r[2] = path[2]
     /\ \E n \in DOMAIN Script[path[1]] :
          \E i \in DOMAIN Script[path[1]][n] : Script[path[1]][n][i][1] = r[1])

(***************************************************************************)
(* Exactly once, in order: along every path from a source to a sink, the   *)
(* rows a store holds or has passed on are a prefix of what the consumed   *)
(* deliveries and the one in progress give, and all of what the consumed   *)
(* ones give.  In every store a crash may leave, so neither paging, retry, *)
(* backpressure between consumers (route_page) nor a crash loses, repeats  *)
(* or reorders a row of finish_frame's consumed input.                     *)
(***************************************************************************)
ExactlyOnce ==
  \A s \in durable, k \in Sink : \A path \in PathsTo[k] :
    LET consumed == s.consumed[path[1]]
        active   == ~Idle(s) /\ s.controls[0].head = path[1]
        got      == Received(s, k, path)
    IN /\ IsPrefix(Reference(path, consumed), got)
       /\ IF active THEN IsPrefix(got, Reference(path, consumed + 1))
                    ELSE got = Reference(path, consumed)
=============================================================================
