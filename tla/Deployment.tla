----------------------------- MODULE Deployment -----------------------------
(***************************************************************************)
(* The life of SQL programs on one host: processes start programs on state *)
(* directories (SqlProgram::start), which are built once and opened ever   *)
(* after, and the running flows use objects outside their directory: a     *)
(* replication slot on the server they capture from and the tables of the  *)
(* sink on the server they deliver to.  Processes race on names that may   *)
(* be symbolic links, crash anywhere and may be pointed at another server  *)
(* by a changed connection; operators remove directories and recreate      *)
(* source tables.  A SQLite file is a server of its own.  (A discard sink  *)
(* and a sequence scan have nothing outside.)                              *)
(*                                                                         *)
(* Rows, rounds and delivery are the subject of FlowStack, CdcSource and   *)
(* the sink modules, the planner's of FlowCompile: the programs here are   *)
(* ones it accepts.                                                        *)
(***************************************************************************)
EXTENDS Integers, FiniteSets

CONSTANTS
  Process,    \* processes
  Path,       \* canonical state paths
  Link,       \* symbolic links: Link[name] is the path it points to
  Server,     \* database servers and SQLite files
  Worlds,     \* environments: what is started (a program, its connections resolved,
              \* on a name) and the bounds: how often a directory and a source
              \* table are created
  None        \* no process, no definition

ASSUME DeploymentAssumption ==
  /\ Path \cap DOMAIN Link = {}
  /\ \A name \in DOMAIN Link : Link[name] \in Path
  /\ \A world \in Worlds :
       /\ \A start \in world.starts :
            /\ start.name \in Path \cup DOMAIN Link
            /\ start.program.scan.server \in Server /\ start.program.sink.server \in Server
       /\ world.lives \in Nat \ {0} /\ world.tables \in Nat \ {0}
  /\ None \notin Process

------------------------------------------------------------------------------
(* Identities and the names derived from them. *)

\* The query without its layout and the case of its unquoted words.
canonical_query(query) == query.words

\* The objects of a database's sink carry the name of the sink; a SQLite table
\* carries nothing that tells whose it is.
Marked(sink) == sink.kind # "sqlite"

\* What of an endpoint is part of the program: not how its server is reached, but
\* the path of a SQLite file is.
scan_identity(scan) == [kind |-> scan.kind, database |-> scan.database, table |-> scan.table]
sink_identity(sink) ==
  [kind |-> sink.kind, database |-> IF Marked(sink) THEN sink.database ELSE sink.server,
   table |-> sink.table]

identity(program) ==
  [query |-> canonical_query(program.query),
   scan  |-> scan_identity(program.scan), sink |-> sink_identity(program.sink)]

derived_name(domain, id, path) == [domain |-> domain, id |-> id, path |-> path]

\* Mutant: the name of a scan depends on the program only.
scan_name_of_program(id, path) == derived_name("scan", id, "")

\* The engine and the replication slot of a scan.
scan_name(id, path) == derived_name("scan", id, path)

\* The marker of the sink's objects.
sink_name(id, path) == derived_name("sink", id, path)

NoMarker == derived_name("none", None, None)

HasSlot(scan) == scan.kind = "postgres_cdc"

\* PostgreSQL and SQLite make their objects in one transaction; ClickHouse and
\* Doris make a state table, named after the sink, and then the view of it.
Transactional(sink) == sink.kind \in {"postgres", "sqlite"}

------------------------------------------------------------------------------
VARIABLES
  world,    \* the environment, chosen once
  dir,      \* state directories
  lock,     \* who holds the database of a directory
  proc,     \* processes
  slots,    \* external: replication slots, on their server
  active,   \* external: the slots that a connection is using
  targets,  \* external: the sinks' objects: the marker of who made them and who wrote to them
  tables    \* external: how often the source table of a server was created

external == <<slots, active, targets, tables>>
vars == <<world, dir, lock, proc, external>>

\* A directory: how far its setup is, and what a published one keeps.  As history,
\* how often it was created, the servers it captured from, and how many of its
\* connectors found another table than the one that was discovered.
NoDirectory == [stage |-> "absent", definition |-> None, phase |-> "fresh", sink |-> "fresh",
                life |-> 0, captured |-> {}, strays |-> 0]

Idle == [pc |-> "idle", program |-> None, path |-> None, spec |-> None, step |-> "restore",
         connected |-> FALSE]

Init ==
  /\ world \in Worlds
  /\ dir = [path \in Path |-> NoDirectory]
  /\ lock = [path \in Path |-> None]
  /\ proc = [p \in Process |-> Idle]
  /\ slots = {} /\ active = {} /\ targets = {}
  /\ tables = [server \in Server |-> 1]

To(p, pc) == proc' = [proc EXCEPT ![p].pc = pc]

\* Everything a process holds is released with it; its connection to a slot may
\* be noticed by the server at once or later.
End(p) ==
  /\ proc' = [proc EXCEPT ![p] = Idle]
  /\ lock' = [path \in Path |-> IF lock[path] = p THEN None ELSE lock[path]]

MySlot(p) ==
  {s \in slots : proc[p].connected /\ s.name = dir[proc[p].path].definition.scan.name
                 /\ s.server = proc[p].program.scan.server}

\* An error of start() or of a round ends the process.
Refuse(p) ==
  /\ End(p)
  /\ active' = active \ MySlot(p)
  /\ UNCHANGED <<dir, slots, targets, tables>>

------------------------------------------------------------------------------
(* SqlProgram::start *)

Exists(path) == dir[path].stage # "absent"

\* A name that exists is resolved to its canonical path and will be opened; one
\* that does not is kept (under its canonical parent) and will be built.
resolve_state_path(name) ==
  LET path == IF name \in Path THEN name ELSE Link[name]
  IN IF Exists(path) THEN [path |-> path, exists |-> TRUE] ELSE [path |-> name, exists |-> FALSE]

Start(p, name, program) ==
  LET state == resolve_state_path(name)
  IN /\ proc[p].pc = "idle"
     /\ proc' = [proc EXCEPT ![p] = [Idle EXCEPT !.pc = IF state.exists THEN "open" ELSE "discover",
                                                !.program = program, !.path = state.path]]
     /\ UNCHANGED <<dir, lock, external>>

\* What a discovery reads at the server of the connection.
ScanSpec(p) ==
  LET program == proc[p].program
  IN [name |-> scan_name(identity(program), proc[p].path), server |-> program.scan.server,
      table |-> tables[program.scan.server]]

SinkSpec(p) ==
  LET program == proc[p].program
  IN [name |-> IF Marked(program.sink) THEN sink_name(identity(program), proc[p].path) ELSE NoMarker,
      server |-> program.sink.server, table |-> program.sink.table]

SlotOf(spec) == [server |-> spec.server, name |-> spec.name]

\* The objects that have one of the names a sink uses.
TargetsAt(sink) ==
  {t \in targets : /\ t.server = sink.server
                   /\ IF t.part = "state" THEN t.marker = sink.name ELSE t.table = sink.table}

\* Scans are discovered before the query is planned: the slot must be absent.
DiscoverScan(p) ==
  /\ proc[p].pc = "discover"
  /\ IF HasSlot(proc[p].program.scan) /\ SlotOf(ScanSpec(p)) \in slots THEN Refuse(p)
     ELSE /\ proc' = [proc EXCEPT ![p].pc = "plan", ![p].spec = ScanSpec(p)]
          /\ UNCHANGED <<dir, lock, external>>

\* The sink after it: none of its objects may exist.  A SQLite file is not looked at.
DiscoverSink(p) ==
  /\ proc[p].pc = "plan"
  /\ LET sink == SinkSpec(p)
     IN IF Marked(proc[p].program.sink) /\ TargetsAt(sink) # {} THEN Refuse(p)
        ELSE /\ proc' = [proc EXCEPT ![p].pc = "create",
                                     ![p].spec = [owner_identity |-> identity(proc[p].program),
                                                  scan |-> proc[p].spec, sink |-> sink]]
             /\ UNCHANGED <<dir, lock, external>>

Occupied(name) == name \in DOMAIN Link \/ Exists(name)

\* Mutant: a directory that is there already is taken for the new one.
CreateDirAll(p) ==
  /\ proc[p].pc = "create"
  /\ IF proc[p].path \in DOMAIN Link THEN Refuse(p)
     ELSE /\ dir' = [dir EXCEPT ![proc[p].path] =
                       [NoDirectory EXCEPT !.stage = "created", !.life = dir[proc[p].path].life]]
          /\ To(p, "database")
          /\ UNCHANGED <<lock, external>>

\* FlowFactory::build and StoreSetup::commit: the directory must be a new one.
CreateDir(p) ==
  LET path == proc[p].path
  IN /\ proc[p].pc = "create"
     /\ IF Occupied(path) THEN Refuse(p)
        ELSE /\ dir[path].life < world.lives
             /\ dir' = [dir EXCEPT ![path] =
                          [NoDirectory EXCEPT !.stage = "created", !.life = dir[path].life + 1]]
             /\ To(p, "database")
             /\ UNCHANGED <<lock, external>>

\* A process that tries to open the directory may hold its lock: the setup fails
\* and the directory stays incomplete.
CreateDatabase(p) ==
  LET path == proc[p].path
  IN /\ proc[p].pc = "database"
     /\ IF lock[path] # None THEN Refuse(p)
        ELSE /\ dir' = [dir EXCEPT ![path].stage = "database"]
             /\ lock' = [lock EXCEPT ![path] = p]
             /\ To(p, "publish")
             /\ UNCHANGED <<external>>

\* Marker, catalog and definition in one durable transaction.
Publish(p) ==
  /\ proc[p].pc = "publish"
  /\ dir' = [dir EXCEPT ![proc[p].path].stage = "published", ![proc[p].path].definition = proc[p].spec]
  /\ To(p, "live")
  /\ UNCHANGED <<lock, external>>

\* Store::open: the directory is still there, and the database is not in use.
AcquireLock(p) ==
  LET path == proc[p].path
  IN /\ proc[p].pc = "open"
     /\ IF ~ Exists(path) \/ lock[path] # None THEN Refuse(p)
        ELSE /\ lock' = [lock EXCEPT ![path] = p]
             /\ To(p, "check")
             /\ UNCHANGED <<dir, external>>

\* Mutant: any published flow is opened.
AcceptsAnyOwner(p) == dir[proc[p].path].stage = "published"

\* FlowFactory::open: a complete setup of this program.
Accepts(p) ==
  /\ dir[proc[p].path].stage = "published"
  /\ dir[proc[p].path].definition.owner_identity = identity(proc[p].program)

Open(p) ==
  /\ proc[p].pc = "check"
  /\ IF ~ Accepts(p) THEN Refuse(p)
     ELSE /\ To(p, "live")
          /\ UNCHANGED <<dir, lock, external>>

------------------------------------------------------------------------------
(* A running flow: its source. *)

Live(p) == proc[p].pc = "live"
Running(p) == proc[p].pc \in {"live", "starting"}
Definition(p) == dir[proc[p].path].definition
Phase(p) == dir[proc[p].path].phase

\* The flow begins a bootstrap, after the reset of an interrupted one.
BeginCapture(p) ==
  /\ Live(p) /\ Phase(p) = "fresh"
  /\ dir' = [dir EXCEPT ![proc[p].path].phase = "capturing"]
  /\ proc' = [proc EXCEPT ![p].step = "capture"]
  /\ UNCHANGED <<lock, external>>

\* Mutant: the cluster that the connection reaches is not compared.
VerifyTableOnly(p) ==
  LET server == proc[p].program.scan.server
  IN tables[server] = Definition(p).scan.table

\* Mutant: a table of the same name will do.
VerifyServerOnly(p) == proc[p].program.scan.server = Definition(p).scan.server

\* The server, its database and the table are the ones of the definition.
verify(p) ==
  LET server == proc[p].program.scan.server
  IN server = Definition(p).scan.server /\ tables[server] = Definition(p).scan.table

ServerSlot(p) == [server |-> proc[p].program.scan.server, name |-> Definition(p).scan.name]
OwnSlot(p) == IF HasSlot(proc[p].program.scan) THEN {ServerSlot(p)} ELSE {}

\* A connector is about to start: what it needs is checked in a transaction of its
\* own, and may change before the connector itself connects.
Verify(p, slot_state) ==
  IF verify(p) /\ slot_state THEN To(p, "starting") /\ UNCHANGED <<dir, lock, external>>
  ELSE Refuse(p)

VerifySnapshot(p) ==
  /\ Live(p) /\ Phase(p) = "capturing" /\ proc[p].step = "capture" /\ ~ proc[p].connected
  /\ Verify(p, OwnSlot(p) \cap slots = {})

VerifyStreaming(p) ==
  /\ Live(p) /\ Phase(p) = "streaming" /\ ~ proc[p].connected
  /\ Verify(p, OwnSlot(p) \subseteq slots \ active)

\* The connector comes up on the table it finds; one that does not is a Crash.
Connect(p) ==
  LET server == proc[p].program.scan.server
      stray  == IF tables[server] = Definition(p).scan.table THEN 0 ELSE 1
  IN /\ proc' = [proc EXCEPT ![p].pc = "live", ![p].connected = TRUE]
     /\ dir' = [dir EXCEPT ![proc[p].path].captured = @ \cup {server},
                           ![proc[p].path].strays = @ + stray]
     /\ active' = active \cup OwnSlot(p)
     /\ UNCHANGED <<lock, targets, tables>>

\* The snapshot's connector creates the slot, the other one continues from it.
StartSnapshot(p) ==
  /\ proc[p].pc = "starting" /\ Phase(p) = "capturing"
  /\ Connect(p) /\ slots' = slots \cup OwnSlot(p)

StartStreaming(p) ==
  /\ proc[p].pc = "starting" /\ Phase(p) = "streaming"
  /\ Connect(p) /\ slots' = slots

\* The bootstrap is complete: its connector stops.
Seal(p) ==
  /\ Live(p) /\ Phase(p) = "capturing" /\ proc[p].connected
  /\ dir' = [dir EXCEPT ![proc[p].path].phase = "streaming"]
  /\ proc' = [proc EXCEPT ![p].connected = FALSE]
  /\ active' = active \ MySlot(p)
  /\ UNCHANGED <<lock, slots, targets, tables>>

\* An interrupted bootstrap: the slot goes first, checked by the cluster only.
PrepareReset(p) ==
  /\ Live(p) /\ Phase(p) = "capturing" /\ proc[p].step = "restore"
  /\ IF HasSlot(proc[p].program.scan)
        /\ (proc[p].program.scan.server # Definition(p).scan.server \/ ServerSlot(p) \in active)
     THEN Refuse(p)
     ELSE /\ slots' = slots \ {ServerSlot(p)}
          /\ proc' = [proc EXCEPT ![p].step = "reset"]
          /\ UNCHANGED <<dir, lock, active, targets, tables>>

Reset(p) ==
  /\ Live(p) /\ Phase(p) = "capturing" /\ proc[p].step = "reset"
  /\ dir' = [dir EXCEPT ![proc[p].path].phase = "fresh"]
  /\ UNCHANGED <<lock, proc, external>>

------------------------------------------------------------------------------
(* A running flow: its sink. *)

Sink(p) == dir[proc[p].path].sink

\* verify_identity: the server is the one of the definition.
SameServer(p) == proc[p].program.sink.server = Definition(p).sink.server

Found(p) == TargetsAt([Definition(p).sink EXCEPT !.server = proc[p].program.sink.server])

Parts(sink) == IF Transactional(sink) THEN {"table"} ELSE {"state", "view"}

\* Mutant: the marker is not compared.
OwnedByAnybody(p) == {t.part : t \in Found(p)} = Parts(proc[p].program.sink)

\* require_owned_layout, verify_state and verify_view: all are there and are its
\* own.  Of a SQLite table require_exact_layout compares the layout only.
Owned(p) ==
  /\ {t.part : t \in Found(p)} = Parts(proc[p].program.sink)
  /\ \A t \in Found(p) : t.marker = Definition(p).sink.name

\* A new sink finds none of its objects.
require_absent(p) == SameServer(p) /\ Found(p) = {}

PersistInitialize(p) ==
  /\ Live(p) /\ Sink(p) = "fresh"
  /\ IF require_absent(p)
     THEN /\ dir' = [dir EXCEPT ![proc[p].path].sink = "initialize"]
          /\ UNCHANGED <<lock, proc, external>>
     ELSE Refuse(p)

Create(p, part) ==
  /\ targets' = targets \cup {[server |-> proc[p].program.sink.server, part |-> part,
                               table |-> Definition(p).sink.table,
                               marker |-> Definition(p).sink.name, writers |-> {}]}
  /\ UNCHANGED <<dir, lock, proc, slots, active, tables>>

\* The objects that are missing and may be created now: the state table before
\* the view of it, and neither where a name is taken.
Missing(p) ==
  LET found == {t.part : t \in Found(p)}
  IN IF found = {} THEN {IF Transactional(proc[p].program.sink) THEN "table" ELSE "state"}
     ELSE IF found = {"state"} THEN {"view"} ELSE {}

CreateTarget(p) ==
  /\ Live(p) /\ Sink(p) = "initialize" /\ SameServer(p)
  /\ \E part \in Missing(p) : Create(p, part)

\* The objects are there as it leaves them: owned and empty.
FinishInitialize(p) ==
  /\ Live(p) /\ Sink(p) = "initialize" /\ (SameServer(p) => Missing(p) = {})
  /\ IF SameServer(p) /\ Owned(p) /\ \A t \in Found(p) : t.writers = {}
     THEN /\ dir' = [dir EXCEPT ![proc[p].path].sink = "ready"]
          /\ UNCHANGED <<lock, proc, external>>
     ELSE Refuse(p)

Deliver(p) ==
  /\ Live(p) /\ Sink(p) = "ready"
  /\ IF SameServer(p) /\ Owned(p)
     THEN /\ targets' = (targets \ Found(p)) \cup
                         {[t EXCEPT !.writers = @ \cup {[path |-> proc[p].path,
                                                        life |-> dir[proc[p].path].life]}] : t \in Found(p)}
          /\ UNCHANGED <<dir, lock, proc, slots, active, tables>>
     ELSE Refuse(p)

------------------------------------------------------------------------------
(* The environment. *)

\* A crash, a signal or any error; the slot's server may not know yet.
Crash(p) ==
  /\ proc[p].pc # "idle"
  /\ End(p)
  /\ active' \in {active, active \ MySlot(p)}
  /\ UNCHANGED <<dir, slots, targets, tables>>

\* A server notices that a slot's connection is gone.
SlotReleased(slot) ==
  /\ slot \in active /\ \A p \in Process : slot \notin MySlot(p)
  /\ active' = active \ {slot}
  /\ UNCHANGED <<dir, lock, proc, slots, targets, tables>>

\* An operator removes a directory that no process uses.
RemoveDirectory(path) ==
  /\ Exists(path)
  /\ \A p \in Process : proc[p].path # path \/ proc[p].pc \in {"discover", "plan", "create", "open"}
  /\ dir' = [dir EXCEPT ![path] = [NoDirectory EXCEPT !.life = dir[path].life]]
  /\ UNCHANGED <<lock, proc, external>>

\* The source table is dropped and created again, at any time.
RecreateTable(server) ==
  /\ tables[server] < world.tables
  /\ tables' = [tables EXCEPT ![server] = @ + 1]
  /\ UNCHANGED <<dir, lock, proc, slots, active, targets>>

Build(p) == DiscoverScan(p) \/ DiscoverSink(p) \/ CreateDir(p) \/ CreateDatabase(p) \/ Publish(p)
Reopen(p) == AcquireLock(p) \/ Open(p)
Source(p) ==
  \/ BeginCapture(p) \/ VerifySnapshot(p) \/ StartSnapshot(p) \/ Seal(p)
  \/ PrepareReset(p) \/ Reset(p) \/ VerifyStreaming(p) \/ StartStreaming(p)
SinkSteps(p) == PersistInitialize(p) \/ CreateTarget(p) \/ FinishInitialize(p) \/ Deliver(p)

Step ==
  \/ \E p \in Process :
       \/ \E start \in world.starts : Start(p, start.name, start.program)
       \/ Build(p) \/ Reopen(p) \/ Source(p) \/ SinkSteps(p) \/ Crash(p)
  \/ \E slot \in slots : SlotReleased(slot)
  \/ \E path \in Path : RemoveDirectory(path)
  \/ \E server \in Server : RecreateTable(server)

Next == Step /\ UNCHANGED world

Spec == Init /\ [][Next]_vars

------------------------------------------------------------------------------

\* Every running flow is alone on its directory and runs the definition of its
\* own program.
RunsItsOwnState ==
  \A p \in Process : Running(p) =>
    /\ dir[proc[p].path].stage = "published"
    /\ Definition(p).owner_identity = identity(proc[p].program)
    /\ \A q \in Process \ {p} : Running(q) => proc[q].path # proc[p].path

\* All connectors of one life of a directory capture from one server, although its
\* program's connection may have been pointed elsewhere; and a table that was
\* dropped and created again is captured by one connector at most: by the last
\* one, if it happens between its check and its start, which nothing notices.
CapturesItsOwn ==
  \A path \in Path : Cardinality(dir[path].captured) <= 1 /\ dir[path].strays <= 1

\* One life of one directory writes to a target that carries a marker: also after
\* a race of two directories for it, and after the directory was removed and built
\* again under the same names.  A SQLite table has none: two directories that both
\* found it absent may both write to it, but never two lives of one directory.
OneWriter ==
  \A t \in targets : \A w1, w2 \in t.writers :
    w1 # w2 => t.marker = NoMarker /\ w1.path # w2.path

\* Every running flow runs its own program's definition alone, however its
\* directory was reached and whoever raced for it (start, Store::open,
\* FlowFactory::open), captures from the source of that definition (discover,
\* verify, start) and has its target to itself, as far as the target can tell
\* (require_absent, initialize, require_owned_layout, require_exact_layout).
OneOwner == RunsItsOwnState /\ CapturesItsOwn /\ OneWriter

\* What a published directory left outside stays until it needs it: its slot
\* while it streams, its own target once the sink is ready; no reset, setup or
\* delivery of another directory takes them away (drop_snapshot_slot).
KeepsItsOwn ==
  \A path \in Path : dir[path].stage = "published" =>
    LET definition == dir[path].definition
    IN /\ (dir[path].phase = "streaming" /\ HasSlot(definition.owner_identity.scan)) =>
            SlotOf(definition.scan) \in slots
       /\ dir[path].sink = "ready" =>
            /\ TargetsAt(definition.sink) # {}
            /\ \A t \in TargetsAt(definition.sink) : t.marker = definition.sink.name

\* A published definition is never replaced, an unfinished setup is finished by
\* the process that began it or by nobody, and no start deletes or repairs what
\* it refuses (StoreSetup::commit, open.rs).
PublishedIsKept ==
  [][\A path \in Path :
       LET before == dir[path]
           after  == dir'[path]
       IN (after.stage # "absent" /\ before.stage # "absent") =>
            /\ after.life = before.life
            /\ before.stage = "published" =>
                 after.stage = "published" /\ after.definition = before.definition
            /\ after.stage # before.stage =>
                 \E p \in Process : proc[p].path = path /\ proc[p].pc \in {"database", "publish"}]_vars
=============================================================================
