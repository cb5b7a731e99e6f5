---------------------------- MODULE MCOperators -----------------------------
(***************************************************************************)
(* A small instance of Operators.                                          *)
(*                                                                         *)
(* Joins: two left and two right rows of one key, and a left row with a    *)
(* NULL key.  The residual holds for three of the four pairs, so that a    *)
(* row has two, one or no partner.  ASOF: left rows at 1, 2 and NULL,      *)
(* right rows at 1, 2 and again at 2.  Aggregates: a group with two        *)
(* values and a NULL, and a second group.                                  *)
(***************************************************************************)
EXTENDS Operators

MCLeftRow == {1, 2, 3}
MCRightRow == {4, 5}
MCKey == [r \in 1 .. 5 |-> IF r = 3 THEN 0 ELSE 1]
MCQualifying == {<<1, 4>>, <<1, 5>>, <<2, 4>>}

MCAsOfLeft == {1, 2, 3}
MCAsOfRight == {4, 5, 6}
MCPart == [r \in 1 .. 6 |-> 1]
MCOrderOf == [r \in 1 .. 6 |-> CASE r \in {1, 4} -> 1 [] r = 3 -> -1 [] OTHER -> 2]
MCNullOrder == -1

MCAggRow == {1, 2, 3, 4}
MCGroupOf == [r \in MCAggRow |-> IF r = 4 THEN 2 ELSE 1]
MCArgOf == <<-1, 2, -9, 2>>
MCNullArg == -9
MCPredicate == <<"true", "false", "null", "true">>
MCImage == <<1, 1, 2, 3>>

MCDiff == {-1, 1, 2}

MCOp ==
  [kind : JoinKind, residual : BOOLEAN]
  \cup [kind : {"AsOf"}, forward : BOOLEAN, exact : BOOLEAN]
  \cup [kind : {"Aggregate"}, calls : {{"CountAll", "Max"}, {"Count", "Sum"}, {"Avg", "Min", "Max"}}]
  \cup [kind : {"Distinct", "RunningCount", "Filter", "Projection", "UnionAll"}]
=============================================================================
