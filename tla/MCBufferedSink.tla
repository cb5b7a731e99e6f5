--------------------------- MODULE MCBufferedSink ---------------------------
(***************************************************************************)
(* Instances of BufferedSink for TLC: two rows, pages that insert and      *)
(* delete within one page and across pages, and a row of weight two.       *)
(***************************************************************************)
EXTENDS BufferedSink

Plus(r)  == [row |-> r, sign |-> 1]
Minus(r) == [row |-> r, sign |-> -1]

MCPages == {<<Plus("a"), Plus("a")>>, <<Minus("a"), Plus("b")>>,
            <<Plus("a"), Minus("a"), Minus("a")>>}
=============================================================================
