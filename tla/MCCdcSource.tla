----------------------------- MODULE MCCdcSource -----------------------------
(***************************************************************************)
(* PostgreSQL sources whose spool holds the bootstrap exactly, may         *)
(* overflow, and an empty table; a MySQL source with a longer snapshot and *)
(* one with an empty table.                                                *)
(***************************************************************************)
EXTENDS CdcSource

MCSources ==
  {[postgres |-> TRUE,  rows |-> 2, spool |-> 5],
   [postgres |-> TRUE,  rows |-> 2, spool |-> 3],
   [postgres |-> TRUE,  rows |-> 0, spool |-> 3],
   [postgres |-> FALSE, rows |-> 3, spool |-> 3],
   [postgres |-> FALSE, rows |-> 0, spool |-> 1]}
==============================================================================
