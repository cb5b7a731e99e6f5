---------------------------- MODULE MCDeployment ----------------------------
(***************************************************************************)
(* A program, the same program written differently and pointed at another  *)
(* server, another program, over MySQL and ClickHouse, and one that writes *)
(* to a SQLite file.  The first path is also known by a symbolic link.     *)
(***************************************************************************)
EXTENDS Deployment, TLC

MCProgram(words, layout, scan, sink, server) ==
  [query |-> [words |-> words, layout |-> layout],
   scan  |-> [kind |-> scan, server |-> server, database |-> "db", table |-> "t"],
   sink  |-> [kind |-> sink, server |-> server, database |-> "db", table |-> "u"]]

Here  == MCProgram("q", "plain", "postgres_cdc", "postgres", "s1")
There == MCProgram("q", "dense", "postgres_cdc", "postgres", "s2")
Other == MCProgram("r", "plain", "mysql_cdc", "clickhouse", "s1")
Local == [MCProgram("q", "plain", "mysql_cdc", "sqlite", "s1") EXCEPT !.sink.server = "f1"]

MCStart(name, program) == [name |-> name, program |-> program]

MCWorlds ==
  {\* two directories of one program race for its target
   [starts |-> {MCStart("d1", Here), MCStart("d2", Here)}, lives |-> 1, tables |-> 1],
   \* and for one that is made in two steps
   [starts |-> {MCStart("d1", Other), MCStart("d2", Other)}, lives |-> 1, tables |-> 1],
   \* and for a table that cannot tell whose it is
   [starts |-> {MCStart("d1", Local), MCStart("d2", Local)}, lives |-> 1, tables |-> 1],
   \* one directory is reached by other programs, through a link, and from a
   \* connection that was pointed at another server
   [starts |-> {MCStart("d1", Here), MCStart("d1", There), MCStart("l1", Other)}, lives |-> 1, tables |-> 1],
   \* the directory is removed and built again, the table dropped and recreated
   [starts |-> {MCStart("d1", Here)}, lives |-> 2, tables |-> 2],
   [starts |-> {MCStart("d1", Other)}, lives |-> 2, tables |-> 2]}

MCServers == {"s1", "s2", "f1"}

MCPaths == {"d1", "d2"}

MCLinks == [name \in {"l1"} |-> "d1"]

CONSTANTS p1, p2

MCSymmetry == Permutations({p1, p2})
=============================================================================
