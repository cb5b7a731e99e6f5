--------------------------- MODULE MCVersionedSink ---------------------------
(***************************************************************************)
(* Instances of VersionedSink for TLC: two rows, pages that insert and     *)
(* delete within one page and across pages.                                *)
(***************************************************************************)
EXTENDS VersionedSink

Plus(r)  == [row |-> r, sign |-> 1]
Minus(r) == [row |-> r, sign |-> -1]

MCPages == {<<Plus("a"), Plus("b")>>, <<Minus("a"), Minus("b"), Plus("a")>>}
=============================================================================
