-------------------------- MODULE DeploymentProofs --------------------------
(***************************************************************************)
(* What Deployment promises, for any number of processes, directories,     *)
(* servers and programs.  The invariant says, in this order, what a        *)
(* process knows at each step of start() and which lock it has by then     *)
(* (Steps), that at most one process is setting up or running a directory  *)
(* (Exclusive), what a directory keeps (Kept), and what of it is outside:  *)
(* the slot of a flow that captures or streams (SlotKept) and the objects  *)
(* of its sink (TargetKept).  That no two directories share a slot or a    *)
(* marked target rests on the derived names, which contain the path.  What *)
(* a directory captured from has an invariant of its own (Capture), which  *)
(* rests on this one: the source table never gets older.                   *)
(***************************************************************************)
EXTENDS Deployment, FiniteSetTheorems, TLAPS

Names == Path \cup DOMAIN Link
Programs == UNION {{start.program : start \in w.starts} : w \in Worlds}
Identities == {identity(program) : program \in Programs}
DerivedNames == [domain : {"scan", "sink"}, id : Identities, path : Names]
Markers == DerivedNames \cup {NoMarker}
ScanSpecs == [name : DerivedNames, server : Server, table : Nat]
SinkSpecs == [name : Markers, server : Server,
              table : {program.sink.table : program \in Programs}]
Definitions == [owner_identity : Identities, scan : ScanSpecs, sink : SinkSpecs]
Generations == [path : Path, life : Nat]

Directories ==
  [stage : {"absent", "created", "database", "published"}, definition : Definitions \cup {None},
   phase : {"fresh", "capturing", "streaming"}, sink : {"fresh", "initialize", "ready"},
   life : Nat, captured : SUBSET Server, strays : Nat]

Processes ==
  [pc : {"idle", "discover", "plan", "create", "database", "publish", "open", "check", "live",
         "starting"},
   program : Programs \cup {None}, path : Names \cup {None},
   spec : ScanSpecs \cup Definitions \cup {None},
   step : {"restore", "capture", "reset"}, connected : BOOLEAN]

Slots == [server : Server, name : DerivedNames]

Targets == [server : Server, part : {"table", "state", "view"},
            table : {program.sink.table : program \in Programs},
            marker : Markers, writers : SUBSET Generations]

TypeOK ==
  /\ world \in Worlds
  /\ dir \in [Path -> Directories]
  /\ lock \in [Path -> Process \cup {None}]
  /\ proc \in [Process -> Processes]
  /\ slots \subseteq Slots /\ active \subseteq Slots
  /\ targets \subseteq Targets
  /\ tables \in [Server -> Nat]

\* A definition of the program `id' for the directory `path'.
Derived(definition, id, path) ==
  /\ definition \in Definitions
  /\ definition.owner_identity = id
  /\ definition.scan.name = scan_name(id, path)
  /\ definition.sink.name = IF Marked(id.sink) THEN sink_name(id, path) ELSE NoMarker

\* What a process has and knows, by where it is.
StepOf(p) ==
  LET my == proc[p]
  IN /\ my.pc # "idle" => my.program \in Programs /\ my.path \in Names
     /\ my.pc \in {"database", "publish", "open", "check", "live", "starting"} => my.path \in Path
     /\ my.pc \in {"publish", "check", "live", "starting"} => lock[my.path] = p
     /\ my.pc = "plan" => /\ my.spec \in ScanSpecs
                          /\ my.spec.name = scan_name(identity(my.program), my.path)
     /\ my.pc \in {"create", "database", "publish"} =>
          Derived(my.spec, identity(my.program), my.path)
     /\ my.pc = "database" => dir[my.path].stage = "created"
     /\ my.pc = "publish" => dir[my.path].stage = "database"
     /\ my.pc \in {"live", "starting"} =>
          /\ dir[my.path].stage = "published"
          /\ dir[my.path].definition.owner_identity = identity(my.program)
     /\ my.connected => my.pc = "live"

Steps == \A p \in Process : StepOf(p)

\* Setting up a directory, or running on it.
Owner(p) == proc[p].pc \in {"database", "publish", "live", "starting"}

Exclusive ==
  \A p, q \in Process : Owner(p) /\ Owner(q) /\ proc[p].path = proc[q].path => p = q

\* What is in a directory: nothing before it is published, then a definition with
\* names of its own.
KeptIn(path) ==
  LET d == dir[path]
  IN /\ d.stage # "published" => d.phase = "fresh" /\ d.sink = "fresh"
     /\ d.stage = "published" => Derived(d.definition, d.definition.owner_identity, path)

Kept == \A path \in Path : KeptIn(path)

\* The directory has a slot, if its program uses one.
Slotted(path) ==
  HasSlot(dir[path].definition.owner_identity.scan) => SlotOf(dir[path].definition.scan) \in slots

\* A flow that has a connector or is about to start one.
Connecting(p) == proc[p].connected \/ proc[p].pc = "starting"

\* A connected flow has its slot, no reset runs beside its connector, and one that
\* is about to start has reached the server of its definition.
ConnectedOf(p) ==
  /\ Connecting(p) => /\ Phase(p) # "fresh"
                      /\ Phase(p) = "capturing" => proc[p].step = "capture"
  /\ proc[p].connected => Slotted(proc[p].path)
  /\ proc[p].pc = "starting" =>
       ~proc[p].connected /\ proc[p].program.scan.server = Definition(p).scan.server

\* So has a directory whose flow streams when it runs.
StreamsFrom(path) == dir[path].phase = "streaming" => Slotted(path)

SlotKept == (\A p \in Process : ConnectedOf(p)) /\ (\A path \in Path : StreamsFrom(path))

\* Only one life of one directory wrote to a target with a marker, and only one
\* life of each directory to one without.
Written(t) ==
  \A w1, w2 \in t.writers : w1 # w2 => t.marker = NoMarker /\ w1.path # w2.path

Me(path) == [path |-> path, life |-> dir[path].life]

\* Where a sink has begun, no earlier life of its directory wrote.
BegunAt(path) ==
  dir[path].sink # "fresh" =>
    \A t \in TargetsAt(dir[path].definition.sink) : \A w \in t.writers :
      w.path = path => w = Me(path)

\* The objects of a ready sink carry its marker, if it has one, one of them is the
\* table or the view, and nobody else wrote to the marked ones.
ReadyAt(path) ==
  /\ BegunAt(path)
  /\ dir[path].sink = "ready" =>
       LET sink == dir[path].definition.sink
       IN /\ \E t \in TargetsAt(sink) : t.part # "state"
          /\ \A t \in TargetsAt(sink) :
               /\ t.marker = sink.name
               /\ t.marker # NoMarker => t.writers \subseteq {Me(path)}

TargetKept == (\A t \in targets : Written(t)) /\ (\A path \in Path : ReadyAt(path))

IInv == TypeOK /\ Steps /\ Exclusive /\ Kept /\ SlotKept /\ TargetKept

-----------------------------------------------------------------------------
(* Frames: what a step leaves alone stays as it was.                       *)

\* A process that does not move keeps what it knows if its lock stays and, once
\* it owns a directory, stage and definition do too.
LEMMA StaysStep ==
  ASSUME Steps, NEW q \in Process, proc'[q] = proc[q],
         proc[q].pc \in {"publish", "check", "live", "starting"} => lock'[proc[q].path] = lock[proc[q].path],
         Owner(q) => /\ dir'[proc[q].path].stage = dir[proc[q].path].stage
                     /\ dir'[proc[q].path].definition = dir[proc[q].path].definition
  PROVE  StepOf(q)'
<1> StepOf(q)
  BY DEF Steps
<1> QED BY DEF StepOf, Owner

\* Ownership does not spread: it suffices that a process that becomes an owner is
\* alone on its path.
LEMMA StaysExclusive ==
  ASSUME Exclusive, NEW p \in Process, \A q \in Process \ {p} : proc'[q] = proc[q],
         Owner(p)' => \A q \in Process \ {p} : Owner(q) => proc[q].path # proc'[p].path
  PROVE  Exclusive'
BY DEF Exclusive, Owner

\* A directory that keeps its stage and definition.
LEMMA StaysKept ==
  ASSUME NEW path \in Path, KeptIn(path),
         dir'[path].stage = dir[path].stage, dir'[path].definition = dir[path].definition,
         dir[path].stage # "published" => dir'[path].phase = dir[path].phase
                                          /\ dir'[path].sink = dir[path].sink
  PROVE  KeptIn(path)'
BY DEF KeptIn

\* A connected process whose directory and slot stay.
LEMMA StaysConnected ==
  ASSUME NEW q \in Process, ConnectedOf(q), proc'[q] = proc[q],
         Connecting(q) =>     /\ dir'[proc[q].path].phase = dir[proc[q].path].phase
                              /\ dir'[proc[q].path].definition = dir[proc[q].path].definition
                              /\ Slotted(proc[q].path) => Slotted(proc[q].path)'
  PROVE  ConnectedOf(q)'
BY DEF ConnectedOf, Connecting, Phase, Definition

\* A sink that was ready stays so while the targets stay.
LEMMA StaysReady ==
  ASSUME NEW path \in Path, ReadyAt(path), targets' = targets,
         dir'[path].sink # "fresh" => /\ dir'[path].sink = dir[path].sink
                                      /\ dir'[path].definition = dir[path].definition
                                      /\ dir'[path].life = dir[path].life
  PROVE  ReadyAt(path)'
<1>1. CASE dir'[path].sink = "fresh"
  BY <1>1 DEF ReadyAt, BegunAt
<1>2. CASE dir'[path].sink # "fresh"
  <2>1. /\ dir'[path].sink = dir[path].sink /\ dir'[path].definition = dir[path].definition
        /\ dir'[path].life = dir[path].life
    BY <1>2
  <2>2. Me(path)' = Me(path)
    BY <2>1 DEF Me
  <2>3. TargetsAt(dir[path].definition.sink)' = TargetsAt(dir[path].definition.sink)
    BY <2>1 DEF TargetsAt
  <2> QED BY <2>1, <2>2, <2>3 DEF ReadyAt, BegunAt
<1> QED BY <1>1, <1>2

-----------------------------------------------------------------------------
(* Processes that end or start.                                            *)

\* A process that ends releases what it holds, and nothing else changes.
LEMMA EndStep ==
  ASSUME IInv, NEW p \in Process, End(p), active' \subseteq active,
         UNCHANGED <<world, dir, slots, targets, tables>>
  PROVE  IInv'
<1>1. proc' = [proc EXCEPT ![p] = Idle] /\ Idle \in Processes /\ Idle.pc = "idle" /\ ~Idle.connected
  BY DEF End, Idle, Processes
<1>2. TypeOK'
  <2>1. proc' \in [Process -> Processes]
    BY <1>1 DEF IInv, TypeOK
  <2>2. lock' \in [Path -> Process \cup {None}]
    BY DEF IInv, TypeOK, End
  <2> QED BY <2>1, <2>2 DEF IInv, TypeOK
<1>3. proc'[p] = Idle /\ \A q \in Process \ {p} : proc'[q] = proc[q]
  BY <1>1 DEF IInv, TypeOK
<1>4. Steps'
  <2> SUFFICES ASSUME NEW q \in Process PROVE StepOf(q)'
    BY DEF Steps
  <2>1. CASE q = p
    BY <2>1, <1>1, <1>3 DEF StepOf
  <2>2. CASE q # p
    <3>1. proc[q].pc \in {"publish", "check", "live", "starting"} => lock'[proc[q].path] = lock[proc[q].path]
      BY <2>2 DEF IInv, Steps, StepOf, End
    <3> QED BY <2>2, <3>1, <1>3, StaysStep DEF IInv
  <2> QED BY <2>1, <2>2
<1>5. Exclusive'
  BY <1>1, <1>3, StaysExclusive DEF IInv, Owner
<1>6. Kept'
  BY DEF IInv, Kept, KeptIn
<1>7. SlotKept'
  <2>1. \A path \in Path : StreamsFrom(path)'
    BY DEF IInv, SlotKept, StreamsFrom, Slotted
  <2>2. ASSUME NEW q \in Process PROVE ConnectedOf(q)'
    <3>1. CASE q = p
      BY <3>1, <1>1, <1>3 DEF ConnectedOf, Connecting
    <3>2. CASE q # p
      <4>1. ConnectedOf(q) /\ proc'[q] = proc[q]
        BY <3>2, <1>3 DEF IInv, SlotKept
      <4> QED BY <4>1, StaysConnected DEF Slotted
    <3> QED BY <3>1, <3>2
  <2> QED BY <2>1, <2>2 DEF SlotKept
<1>8. TargetKept'
  <2>1. \A path \in Path : ReadyAt(path)'
    BY StaysReady DEF IInv, TargetKept
  <2> QED BY <2>1 DEF IInv, TargetKept, Written
<1> QED BY <1>2, <1>4, <1>5, <1>6, <1>7, <1>8 DEF IInv

\* A refused start or a failed round.
LEMMA RefuseStep ==
  ASSUME IInv, NEW p \in Process, Refuse(p), UNCHANGED world
  PROVE  IInv'
BY EndStep DEF Refuse

\* A crash, at any step.
LEMMA CrashStep ==
  ASSUME IInv, NEW p \in Process, Crash(p), UNCHANGED world
  PROVE  IInv'
BY EndStep DEF Crash

\* What is left to show of a step that changes one process and nothing else but
\* locks: its types, what it knows afterwards, and that it is alone if it
\* becomes an owner.
LEMMA MoveStep ==
  ASSUME IInv, NEW p \in Process, \A q \in Process \ {p} : proc'[q] = proc[q],
         proc' \in [Process -> Processes], lock' \in [Path -> Process \cup {None}],
         \A q \in Process \ {p} :
           proc[q].pc \in {"publish", "check", "live", "starting"} => lock'[proc[q].path] = lock[proc[q].path],
         StepOf(p)', proc'[p].connected = FALSE, proc'[p].pc # "starting",
         Owner(p)' => \A q \in Process \ {p} : Owner(q) => proc[q].path # proc'[p].path,
         UNCHANGED <<world, dir, external>>
  PROVE  IInv'
<1>1. TypeOK'
  BY DEF IInv, TypeOK, external
<1>2. Steps'
  BY StaysStep DEF IInv, Steps
<1>3. Exclusive'
  BY StaysExclusive DEF IInv
<1>4. Kept'
  BY DEF IInv, Kept, KeptIn
<1>5. SlotKept'
  <2>1. \A path \in Path : StreamsFrom(path)'
    BY DEF IInv, SlotKept, StreamsFrom, Slotted, external
  <2>2. ASSUME NEW q \in Process \ {p} PROVE ConnectedOf(q)'
    <3>1. ConnectedOf(q) /\ proc'[q] = proc[q]
      BY DEF IInv, SlotKept
    <3> QED BY <3>1, StaysConnected DEF Slotted, external
  <2>3. ConnectedOf(p)'
    BY DEF ConnectedOf, Connecting
  <2> QED BY <2>1, <2>2, <2>3 DEF SlotKept
<1>6. TargetKept'
  <2>1. \A path \in Path : ReadyAt(path)'
    BY StaysReady DEF IInv, TargetKept, external
  <2> QED BY <2>1 DEF IInv, TargetKept, Written, external
<1> QED BY <1>1, <1>2, <1>3, <1>4, <1>5, <1>6 DEF IInv

-----------------------------------------------------------------------------
(* SqlProgram::start.                                                      *)

PCs == {"idle", "discover", "plan", "create", "database", "publish", "open", "check", "live",
        "starting"}

\* A process that only goes on to another step.
LEMMA ToFacts ==
  ASSUME TypeOK, NEW p \in Process, NEW pc \in PCs, To(p, pc)
  PROVE  /\ proc' \in [Process -> Processes]
         /\ proc'[p] = [proc[p] EXCEPT !.pc = pc]
         /\ \A q \in Process \ {p} : proc'[q] = proc[q]
<1>1. proc[p] \in Processes
  BY DEF TypeOK
<1>2. [proc[p] EXCEPT !.pc = pc] \in Processes
  BY <1>1 DEF Processes, PCs
<1> QED BY <1>2 DEF TypeOK, To

\* The fields of such a process.
LEMMA ToFields ==
  ASSUME TypeOK, NEW p \in Process, NEW pc \in PCs, To(p, pc)
  PROVE  /\ proc'[p].pc = pc
         /\ proc'[p].program = proc[p].program /\ proc'[p].path = proc[p].path
         /\ proc'[p].spec = proc[p].spec /\ proc'[p].step = proc[p].step
         /\ proc'[p].connected = proc[p].connected
<1>1. proc[p] \in Processes
  BY DEF TypeOK
<1>2. proc'[p] = [proc[p] EXCEPT !.pc = pc]
  BY ToFacts
<1> QED BY <1>1, <1>2 DEF Processes

\* The programs that are started, and their servers.
LEMMA ProgramFacts ==
  ASSUME TypeOK, NEW program \in Programs
  PROVE  /\ identity(program) \in Identities
         /\ program.scan.server \in Server /\ program.sink.server \in Server
         /\ program.sink.table \in {other.sink.table : other \in Programs}
BY DeploymentAssumption DEF Programs, Identities

\* What a started process is to do with a name.
LEMMA ResolveFacts ==
  ASSUME NEW name \in Names
  PROVE  /\ resolve_state_path(name).exists \in BOOLEAN
         /\ resolve_state_path(name).path \in Names
         /\ resolve_state_path(name).exists => resolve_state_path(name).path \in Path
BY DeploymentAssumption DEF resolve_state_path, Names

\* start() resolves the name and begins to build or to open.
LEMMA StartStep ==
  ASSUME IInv, NEW p \in Process, NEW start \in world.starts,
         Start(p, start.name, start.program), UNCHANGED world
  PROVE  IInv'
<1> DEFINE state == resolve_state_path(start.name)
           begun == [Idle EXCEPT !.pc = IF state.exists THEN "open" ELSE "discover",
                                 !.program = start.program, !.path = state.path]
<1>1. start.name \in Names /\ start.program \in Programs
  BY DeploymentAssumption DEF IInv, TypeOK, Names, Programs
<1>2. state.path \in Names /\ (state.exists => state.path \in Path)
  BY <1>1, ResolveFacts
<1>3. Idle \in Processes
  BY DEF Idle, Processes
<1>4. /\ begun \in Processes /\ begun.pc \in {"open", "discover"}
      /\ begun.pc = "open" => state.exists
      /\ begun.program = start.program /\ begun.path = state.path
      /\ begun.connected = Idle.connected
  <2> HIDE DEF state
  <2> QED BY <1>1, <1>2, <1>3 DEF Processes
<1>10. Idle.connected = FALSE
  BY DEF Idle
<1>5. proc' = [proc EXCEPT ![p] = begun]
  BY DEF Start
<1> HIDE DEF begun, state
<1>6. proc' \in [Process -> Processes] /\ proc'[p] = begun
      /\ \A q \in Process \ {p} : proc'[q] = proc[q]
  BY <1>4, <1>5 DEF IInv, TypeOK
<1>7. StepOf(p)'
  BY <1>1, <1>2, <1>4, <1>10, <1>6 DEF StepOf
<1>8. ~Owner(p)'
  BY <1>4, <1>6 DEF Owner
<1>9. lock' = lock /\ UNCHANGED <<dir, external>>
  BY DEF Start
<1> QED BY <1>4, <1>10, <1>6, <1>7, <1>8, <1>9, MoveStep DEF IInv, TypeOK

\* What a discovery makes of the program and the path.
LEMMA SpecFacts ==
  ASSUME IInv, NEW p \in Process, proc[p].pc # "idle"
  PROVE  /\ ScanSpec(p) \in ScanSpecs
         /\ ScanSpec(p).name = scan_name(identity(proc[p].program), proc[p].path)
         /\ SinkSpec(p) \in SinkSpecs
         /\ SinkSpec(p).name = IF Marked(identity(proc[p].program).sink)
                               THEN sink_name(identity(proc[p].program), proc[p].path) ELSE NoMarker
<1>1. proc[p].program \in Programs /\ proc[p].path \in Names
  BY DEF IInv, Steps, StepOf
<1>2. /\ identity(proc[p].program) \in Identities
      /\ proc[p].program.scan.server \in Server /\ proc[p].program.sink.server \in Server
      /\ proc[p].program.sink.table \in {other.sink.table : other \in Programs}
  BY <1>1, ProgramFacts DEF IInv
<1>3. /\ scan_name(identity(proc[p].program), proc[p].path) \in DerivedNames
      /\ sink_name(identity(proc[p].program), proc[p].path) \in DerivedNames
  BY <1>1, <1>2 DEF scan_name, sink_name, derived_name, DerivedNames
<1>4. tables[proc[p].program.scan.server] \in Nat
  BY <1>2 DEF IInv, TypeOK
<1>5. ScanSpec(p) \in ScanSpecs
  BY <1>2, <1>3, <1>4 DEF ScanSpec, ScanSpecs
<1>6. SinkSpec(p) \in SinkSpecs
  BY <1>2, <1>3 DEF SinkSpec, SinkSpecs, Markers
<1>7. Marked(identity(proc[p].program).sink) <=> Marked(proc[p].program.sink)
  BY DEF identity, sink_identity, Marked
<1> QED BY <1>5, <1>6, <1>7 DEF ScanSpec, SinkSpec

\* A process that goes on with a spec.
LEMMA SpecStep ==
  ASSUME IInv, NEW p \in Process, NEW pc \in {"plan", "create"},
         NEW spec \in ScanSpecs \cup Definitions,
         proc[p].pc \in {"discover", "plan"},
         proc' = [proc EXCEPT ![p].pc = pc, ![p].spec = spec],
         pc = "plan" => /\ spec \in ScanSpecs
                        /\ spec.name = scan_name(identity(proc[p].program), proc[p].path),
         pc = "create" => Derived(spec, identity(proc[p].program), proc[p].path),
         UNCHANGED <<world, dir, lock, external>>
  PROVE  IInv'
<1> DEFINE new == [proc[p] EXCEPT !.pc = pc, !.spec = spec]
<1>1. proc[p] \in Processes
  BY DEF IInv, TypeOK
<1>2. new \in Processes
  BY <1>1 DEF Processes
<1>3. new.pc = pc /\ new.program = proc[p].program /\ new.path = proc[p].path
      /\ new.spec = spec /\ new.connected = proc[p].connected
  BY <1>1 DEF Processes
<1>4. proc' = [proc EXCEPT ![p] = new]
  BY DEF IInv, TypeOK
<1> HIDE DEF new
<1>5. proc' \in [Process -> Processes] /\ proc'[p] = new
      /\ \A q \in Process \ {p} : proc'[q] = proc[q]
  BY <1>2, <1>4 DEF IInv, TypeOK
<1>6. StepOf(p)
  BY DEF IInv, Steps
<1>7. proc[p].connected = FALSE
  BY <1>1, <1>6 DEF StepOf, Processes
<1>8. StepOf(p)'
  BY <1>3, <1>5, <1>6, <1>7 DEF StepOf
<1>9. ~Owner(p)'
  BY <1>3, <1>5 DEF Owner
<1> QED BY <1>3, <1>5, <1>7, <1>8, <1>9, MoveStep DEF IInv, TypeOK

\* The scan is discovered: its slot is absent, and its spec is derived from the
\* program and the path.
LEMMA DiscoverScanStep ==
  ASSUME IInv, NEW p \in Process, DiscoverScan(p), UNCHANGED world
  PROVE  IInv'
<1>1. CASE Refuse(p)
  BY <1>1, RefuseStep
<1>2. CASE ~Refuse(p)
  <2>1. /\ proc[p].pc = "discover" /\ UNCHANGED <<dir, lock, external>>
        /\ proc' = [proc EXCEPT ![p].pc = "plan", ![p].spec = ScanSpec(p)]
    BY <1>2 DEF DiscoverScan
  <2> QED BY <2>1, SpecFacts, SpecStep
<1> QED BY <1>1, <1>2

\* The sink is discovered, and with it the definition is complete.
LEMMA DiscoverSinkStep ==
  ASSUME IInv, NEW p \in Process, DiscoverSink(p), UNCHANGED world
  PROVE  IInv'
<1>1. CASE Refuse(p)
  BY <1>1, RefuseStep
<1>2. CASE ~Refuse(p)
  <2> DEFINE spec == [owner_identity |-> identity(proc[p].program), scan |-> proc[p].spec,
                      sink |-> SinkSpec(p)]
  <2>1. /\ proc[p].pc = "plan" /\ UNCHANGED <<dir, lock, external>>
        /\ proc' = [proc EXCEPT ![p].pc = "create", ![p].spec = spec]
    BY <1>2 DEF DiscoverSink
  <2>2. /\ proc[p].spec \in ScanSpecs /\ proc[p].program \in Programs
        /\ proc[p].spec.name = scan_name(identity(proc[p].program), proc[p].path)
    BY <2>1 DEF IInv, Steps, StepOf
  <2>3. Derived(spec, identity(proc[p].program), proc[p].path)
    BY <2>1, <2>2, SpecFacts, ProgramFacts DEF Derived, Definitions, IInv
  <2>4. spec \in Definitions
    BY <2>3 DEF Derived
  <2> HIDE DEF spec
  <2> QED BY <2>1, <2>3, <2>4, SpecStep
<1> QED BY <1>1, <1>2

\* Store::open takes the lock of an existing directory, if it is free.
LEMMA AcquireLockStep ==
  ASSUME IInv, NEW p \in Process, AcquireLock(p), UNCHANGED world
  PROVE  IInv'
<1>1. CASE Refuse(p)
  BY <1>1, RefuseStep
<1>2. CASE ~Refuse(p)
  <2>1. /\ proc[p].pc = "open" /\ lock[proc[p].path] = None /\ To(p, "check")
        /\ lock' = [lock EXCEPT ![proc[p].path] = p] /\ UNCHANGED <<dir, external>>
    BY <1>2 DEF AcquireLock
  <2>2. proc[p].path \in Path /\ ~proc[p].connected /\ StepOf(p)
    BY <2>1 DEF IInv, Steps, StepOf
  <2>3. /\ proc' \in [Process -> Processes] /\ \A q \in Process \ {p} : proc'[q] = proc[q]
        /\ proc'[p].pc = "check" /\ proc'[p].program = proc[p].program
        /\ proc'[p].path = proc[p].path /\ proc'[p].connected = proc[p].connected
    BY <2>1, ToFacts, ToFields DEF IInv, PCs
  <2>4. lock' \in [Path -> Process \cup {None}] /\ lock'[proc[p].path] = p
    BY <2>1, <2>2 DEF IInv, TypeOK
  <2>5. \A q \in Process \ {p} :
          proc[q].pc \in {"publish", "check", "live", "starting"} => lock'[proc[q].path] = lock[proc[q].path]
    BY <2>1, <2>2, DeploymentAssumption DEF IInv, Steps, StepOf, TypeOK
  <2>6. proc[p] \in Processes
    BY DEF IInv, TypeOK
  <2>7. proc'[p].connected = FALSE
    BY <2>2, <2>3, <2>6 DEF Processes
  <2>8. StepOf(p)' /\ ~Owner(p)'
    BY <2>1, <2>2, <2>3, <2>4, <2>7 DEF StepOf, Owner
  <2> QED BY <2>1, <2>3, <2>4, <2>5, <2>7, <2>8, MoveStep
<1> QED BY <1>1, <1>2

\* Who holds the lock of a published directory is the only one that may own it.
LEMMA OpenStep ==
  ASSUME IInv, NEW p \in Process, Open(p), UNCHANGED world
  PROVE  IInv'
<1>1. CASE Refuse(p)
  BY <1>1, RefuseStep
<1>2. CASE ~Refuse(p)
  <2>1. proc[p].pc = "check" /\ Accepts(p) /\ To(p, "live") /\ UNCHANGED <<dir, lock, external>>
    BY <1>2 DEF Open
  <2>2. proc[p].path \in Path /\ ~proc[p].connected /\ StepOf(p) /\ lock[proc[p].path] = p
    BY <2>1 DEF IInv, Steps, StepOf
  <2>3. /\ proc' \in [Process -> Processes] /\ \A q \in Process \ {p} : proc'[q] = proc[q]
        /\ proc'[p].pc = "live" /\ proc'[p].program = proc[p].program
        /\ proc'[p].path = proc[p].path /\ proc'[p].connected = proc[p].connected
    BY <2>1, ToFacts, ToFields DEF IInv, PCs
  <2>4. proc[p] \in Processes
    BY DEF IInv, TypeOK
  <2>5. proc'[p].connected = FALSE
    BY <2>2, <2>3, <2>4 DEF Processes
  <2>6. StepOf(p)'
    BY <2>1, <2>2, <2>3, <2>5 DEF StepOf, Accepts
  <2>7. \A q \in Process \ {p} : Owner(q) => proc[q].path # proc'[p].path
    BY <2>1, <2>2, <2>3 DEF IInv, Steps, StepOf, Owner, Accepts
  <2> QED BY <2>1, <2>3, <2>5, <2>6, <2>7, MoveStep DEF IInv, TypeOK
<1> QED BY <1>1, <1>2

-----------------------------------------------------------------------------
(* Steps on a directory of one's own.                                      *)

\* What is left to show of a step that changes one directory which nobody else
\* owns: all that concerns this process and this directory, and that other
\* directories keep their slots.
LEMMA OwnStep ==
  ASSUME IInv, NEW p \in Process, NEW path \in Path, NEW d \in Directories,
         proc[p].path = path, proc'[p].path = path,
         \A q \in Process \ {p} : proc'[q] = proc[q],
         \A q \in Process \ {p} : Owner(q) => proc[q].path # path,
         dir' = [dir EXCEPT ![path] = d],
         proc' \in [Process -> Processes], lock' \in [Path -> Process \cup {None}],
         \A q \in Process \ {p} :
           proc[q].pc \in {"publish", "check", "live", "starting"} => lock'[proc[q].path] = lock[proc[q].path],
         slots' \subseteq Slots, active' \subseteq Slots,
         \A other \in Path \ {path} :
           dir[other].stage = "published" /\ Slotted(other) => Slotted(other)',
         StepOf(p)', ConnectedOf(p)', KeptIn(path)', StreamsFrom(path)', ReadyAt(path)',
         UNCHANGED <<world, targets, tables>>
  PROVE  IInv'
<1>1. dir'[path] = d /\ \A other \in Path \ {path} : dir'[other] = dir[other]
  BY DEF IInv, TypeOK
<1>2. TypeOK'
  BY DEF IInv, TypeOK
<1>3. \A q \in Process \ {p} : Owner(q) => proc[q].path \in Path \ {path}
  BY DEF IInv, Steps, StepOf, Owner
<1>4. Steps'
  <2> SUFFICES ASSUME NEW q \in Process \ {p} PROVE StepOf(q)'
    BY DEF Steps
  <2> QED BY <1>1, <1>3, StaysStep DEF IInv
<1>5. Exclusive'
  BY StaysExclusive DEF IInv
<1>6. Kept'
  <2> SUFFICES ASSUME NEW other \in Path \ {path} PROVE KeptIn(other)'
    BY DEF Kept
  <2> QED BY <1>1 DEF IInv, Kept, KeptIn
<1>7. SlotKept'
  <2>1. ASSUME NEW other \in Path \ {path} PROVE StreamsFrom(other)'
    <3>1. StreamsFrom(other) /\ KeptIn(other)
      BY DEF IInv, SlotKept, Kept
    <3> QED BY <3>1, <1>1 DEF StreamsFrom, KeptIn
  <2>2. ASSUME NEW q \in Process \ {p} PROVE ConnectedOf(q)'
    <3>1. CASE ~Connecting(q)
      BY <3>1 DEF ConnectedOf, Connecting
    <3>2. CASE Connecting(q)
      <4>1. ConnectedOf(q) /\ proc'[q] = proc[q] /\ StepOf(q)
        BY DEF IInv, SlotKept, Steps
      <4>2. Owner(q) /\ dir[proc[q].path].stage = "published"
        BY <4>1, <3>2 DEF StepOf, Owner, Connecting
      <4> QED BY <4>1, <4>2, <1>1, <1>3, StaysConnected
    <3> QED BY <3>1, <3>2
  <2> QED BY <2>1, <2>2 DEF SlotKept
<1>8. TargetKept'
  <2>1. ASSUME NEW other \in Path \ {path} PROVE ReadyAt(other)'
    BY <1>1, StaysReady DEF IInv, TargetKept
  <2> QED BY <2>1 DEF IInv, TargetKept, Written
<1> QED BY <1>2, <1>4, <1>5, <1>6, <1>7, <1>8 DEF IInv

\* The directory is new, so nobody owns it.
LEMMA CreateDirStep ==
  ASSUME IInv, NEW p \in Process, CreateDir(p), UNCHANGED world
  PROVE  IInv'
<1>1. CASE Refuse(p)
  BY <1>1, RefuseStep
<1>2. CASE ~Refuse(p)
  <2>0. PICK path : path = proc[p].path
    OBVIOUS
  <2> DEFINE d == [NoDirectory EXCEPT !.stage = "created", !.life = dir[path].life + 1]
  <2>1. /\ proc[p].pc = "create" /\ ~Occupied(path) /\ To(p, "database")
        /\ dir' = [dir EXCEPT ![path] = d] /\ UNCHANGED <<lock, external>>
    BY <2>0, <1>2 DEF CreateDir
  <2>2. StepOf(p) /\ proc[p] \in Processes
    BY <2>0 DEF IInv, Steps, TypeOK
  <2>3. path \in Path /\ dir[path].stage = "absent"
    BY <2>0, <2>1, <2>2 DEF StepOf, Occupied, Exists, Names
  <2>4. NoDirectory \in Directories /\ dir[path] \in Directories
    BY <2>0, <2>3 DEF NoDirectory, Directories, IInv, TypeOK
  <2>15. dir[path].life + 1 \in Nat
    BY <2>0, <2>4 DEF Directories
  <2>5. d \in Directories /\ d.stage = "created"
        /\ d.phase = NoDirectory.phase /\ d.sink = NoDirectory.sink
    BY <2>0, <2>4, <2>15 DEF Directories
  <2>6. NoDirectory.phase = "fresh" /\ NoDirectory.sink = "fresh"
    BY <2>0 DEF NoDirectory
  <2> HIDE DEF d
  <2>7. /\ proc' \in [Process -> Processes] /\ \A q \in Process \ {p} : proc'[q] = proc[q]
        /\ proc'[p].pc = "database" /\ proc'[p].program = proc[p].program /\ proc'[p].path = path
        /\ proc'[p].spec = proc[p].spec /\ proc'[p].connected = proc[p].connected
    BY <2>0, <2>1, ToFacts, ToFields DEF IInv, PCs
  <2>8. dir'[path] = d
    BY <2>0, <2>1, <2>3 DEF IInv, TypeOK
  <2>9. \A q \in Process \ {p} : Owner(q) => proc[q].path # path
    BY <2>0, <2>3 DEF IInv, Steps, StepOf, Owner
  <2>10. StepOf(p)' /\ ConnectedOf(p)'
    BY <2>0, <2>1, <2>2, <2>3, <2>5, <2>7, <2>8 DEF StepOf, ConnectedOf, Connecting
  <2>11. KeptIn(path)' /\ StreamsFrom(path)' /\ ReadyAt(path)'
    BY <2>0, <2>5, <2>6, <2>8 DEF KeptIn, StreamsFrom, ReadyAt, BegunAt
  <2>12. \A other \in Path \ {path} : Slotted(other) => Slotted(other)'
    BY <2>0, <2>1, <2>3 DEF IInv, TypeOK, Slotted, external
  <2>13. lock' = lock /\ UNCHANGED <<slots, active, targets, tables>>
    BY <2>0, <2>1 DEF external
  <2>14. lock \in [Path -> Process \cup {None}] /\ slots \subseteq Slots /\ active \subseteq Slots
    BY <2>0 DEF IInv, TypeOK
  <2> QED BY <2>0, <2>1, <2>3, <2>5, <2>7, <2>9, <2>10, <2>11, <2>12, <2>13, <2>14, OwnStep
<1> QED BY <1>1, <1>2

\* The process that made the directory takes its lock.
LEMMA CreateDatabaseStep ==
  ASSUME IInv, NEW p \in Process, CreateDatabase(p), UNCHANGED world
  PROVE  IInv'
<1>1. CASE Refuse(p)
  BY <1>1, RefuseStep
<1>2. CASE ~Refuse(p)
  <2>0. PICK path : path = proc[p].path
    OBVIOUS
  <2> DEFINE d == [dir[path] EXCEPT !.stage = "database"]
  <2>1. /\ proc[p].pc = "database" /\ lock[path] = None /\ To(p, "publish")
        /\ dir' = [dir EXCEPT ![path].stage = "database"]
        /\ lock' = [lock EXCEPT ![path] = p] /\ UNCHANGED external
    BY <2>0, <1>2 DEF CreateDatabase
  <2>2. StepOf(p) /\ proc[p] \in Processes
    BY <2>0 DEF IInv, Steps, TypeOK
  <2>3. path \in Path /\ dir[path].stage = "created"
    BY <2>0, <2>1, <2>2 DEF StepOf
  <2>4. dir[path] \in Directories /\ KeptIn(path)
    BY <2>0, <2>3 DEF IInv, TypeOK, Kept
  <2>5. /\ d \in Directories /\ d.stage = "database" /\ d.phase = dir[path].phase
        /\ d.sink = dir[path].sink
    BY <2>0, <2>4 DEF Directories
  <2>6. dir' = [dir EXCEPT ![path] = d]
    BY <2>0, <2>1, <2>3 DEF IInv, TypeOK
  <2> HIDE DEF d
  <2>7. /\ proc' \in [Process -> Processes] /\ \A q \in Process \ {p} : proc'[q] = proc[q]
        /\ proc'[p].pc = "publish" /\ proc'[p].program = proc[p].program /\ proc'[p].path = path
        /\ proc'[p].spec = proc[p].spec /\ proc'[p].connected = proc[p].connected
    BY <2>0, <2>1, ToFacts, ToFields DEF IInv, PCs
  <2>8. dir'[path] = d
    BY <2>0, <2>6, <2>3 DEF IInv, TypeOK
  <2>9. \A q \in Process \ {p} : Owner(q) => proc[q].path # path
    BY <2>0, <2>1 DEF IInv, Exclusive, Owner
  <2>10. lock' \in [Path -> Process \cup {None}] /\ lock'[path] = p
    BY <2>0, <2>1, <2>3 DEF IInv, TypeOK
  <2>11. \A q \in Process \ {p} :
           proc[q].pc \in {"publish", "check", "live", "starting"} => lock'[proc[q].path] = lock[proc[q].path]
    BY <2>0, <2>1, <2>3, DeploymentAssumption DEF IInv, Steps, StepOf, TypeOK
  <2>12. StepOf(p)' /\ ConnectedOf(p)'
    BY <2>0, <2>1, <2>2, <2>3, <2>5, <2>7, <2>8, <2>10 DEF StepOf, ConnectedOf, Connecting
  <2>13. KeptIn(path)' /\ StreamsFrom(path)' /\ ReadyAt(path)'
    BY <2>0, <2>3, <2>4, <2>5, <2>8 DEF KeptIn, StreamsFrom, ReadyAt, BegunAt
  <2>14. \A other \in Path \ {path} : Slotted(other) => Slotted(other)'
    BY <2>0, <2>6, <2>1, <2>3 DEF IInv, TypeOK, Slotted, external
  <2>15. /\ UNCHANGED <<slots, active, targets, tables>>
         /\ slots \subseteq Slots /\ active \subseteq Slots
    BY <2>0, <2>1 DEF external, IInv, TypeOK
  <2> QED BY <2>0, <2>3, <2>5, <2>6, <2>7, <2>9, <2>10, <2>11, <2>12, <2>13, <2>14, <2>15, OwnStep
<1> QED BY <1>1, <1>2

\* Marker and definition become visible together, on a directory that is still
\* this process's.
LEMMA PublishStep ==
  ASSUME IInv, NEW p \in Process, Publish(p), UNCHANGED world
  PROVE  IInv'
<1>0. PICK path : path = proc[p].path
  OBVIOUS
<1> DEFINE d == [dir[path] EXCEPT !.stage = "published", !.definition = proc[p].spec]
<1>1. /\ proc[p].pc = "publish" /\ To(p, "live") /\ UNCHANGED <<lock, external>>
      /\ dir' = [dir EXCEPT ![path].stage = "published", ![path].definition = proc[p].spec]
  BY <1>0 DEF Publish
<1>2. StepOf(p) /\ proc[p] \in Processes
  BY <1>0 DEF IInv, Steps, TypeOK
<1>3. /\ path \in Path /\ dir[path].stage = "database" /\ lock[path] = p
      /\ proc[p].program \in Programs /\ Derived(proc[p].spec, identity(proc[p].program), path)
  BY <1>0, <1>1, <1>2 DEF StepOf
<1>4. dir[path] \in Directories /\ KeptIn(path) /\ proc[p].spec \in Definitions
  BY <1>0, <1>3 DEF IInv, TypeOK, Kept, Derived
<1>5. /\ d \in Directories /\ d.stage = "published" /\ d.definition = proc[p].spec
      /\ d.phase = dir[path].phase /\ d.sink = dir[path].sink
  BY <1>0, <1>4 DEF Directories
<1>6. dir' = [dir EXCEPT ![path] = d]
  BY <1>0, <1>1, <1>3 DEF IInv, TypeOK
<1> HIDE DEF d
<1>7. /\ proc' \in [Process -> Processes] /\ \A q \in Process \ {p} : proc'[q] = proc[q]
      /\ proc'[p].pc = "live" /\ proc'[p].program = proc[p].program /\ proc'[p].path = path
      /\ proc'[p].connected = proc[p].connected
  BY <1>0, <1>1, ToFacts, ToFields DEF IInv, PCs
<1>8. dir'[path] = d
  BY <1>0, <1>6, <1>3 DEF IInv, TypeOK
<1>9. \A q \in Process \ {p} : Owner(q) => proc[q].path # path
  BY <1>0, <1>1 DEF IInv, Exclusive, Owner
<1>10. ~proc[p].connected
  BY <1>0, <1>1, <1>2 DEF StepOf
<1>11. StepOf(p)' /\ ConnectedOf(p)'
  BY <1>0, <1>1, <1>2, <1>3, <1>5, <1>7, <1>8, <1>10 DEF StepOf, ConnectedOf, Connecting, Derived
<1>12. KeptIn(path)' /\ StreamsFrom(path)' /\ ReadyAt(path)'
  BY <1>0, <1>3, <1>4, <1>5, <1>8 DEF KeptIn, StreamsFrom, ReadyAt, BegunAt, Derived
<1>13. \A other \in Path \ {path} : Slotted(other) => Slotted(other)'
  BY <1>0, <1>6, <1>1, <1>3 DEF IInv, TypeOK, Slotted, external
<1>14. /\ UNCHANGED <<lock, slots, active, targets, tables>>
       /\ slots \subseteq Slots /\ active \subseteq Slots /\ lock \in [Path -> Process \cup {None}]
  BY <1>0, <1>1 DEF external, IInv, TypeOK
<1> QED BY <1>0, <1>3, <1>5, <1>6, <1>7, <1>9, <1>11, <1>12, <1>13, <1>14, OwnStep

-----------------------------------------------------------------------------
(* A running flow.                                                         *)

\* A running flow is alone on a published directory of its own program.
LEMMA LiveFacts ==
  ASSUME IInv, NEW p \in Process, Running(p), NEW path, path = proc[p].path
  PROVE  /\ path \in Path /\ dir[path] \in Directories /\ proc[p] \in Processes
         /\ dir[path].stage = "published" /\ KeptIn(path) /\ StepOf(p)
         /\ proc[p].program \in Programs
         /\ dir[path].definition \in Definitions
         /\ Derived(dir[path].definition, identity(proc[p].program), path)
         /\ \A q \in Process \ {p} : Owner(q) => proc[q].path # path
<1>1. StepOf(p) /\ proc[p] \in Processes
  BY DEF IInv, Steps, TypeOK
<1>2. /\ path \in Path /\ dir[path].stage = "published" /\ proc[p].program \in Programs
      /\ dir[path].definition.owner_identity = identity(proc[p].program)
  BY <1>1 DEF StepOf, Running
<1>3. dir[path] \in Directories /\ KeptIn(path)
  BY <1>2 DEF IInv, TypeOK, Kept
<1>4. Derived(dir[path].definition, identity(proc[p].program), path)
  BY <1>2, <1>3 DEF KeptIn
<1>5. \A q \in Process \ {p} : Owner(q) => proc[q].path # path
  BY DEF IInv, Exclusive, Owner, Running
<1> QED BY <1>1, <1>2, <1>3, <1>4, <1>5 DEF Derived

\* What is left to show of a step of a running flow that leaves the targets
\* alone.
LEMMA LiveStep ==
  ASSUME IInv, NEW p \in Process, Running(p), NEW path, path = proc[p].path,
         NEW d \in Directories, dir' = [dir EXCEPT ![path] = d],
         d.stage = dir[path].stage, d.definition = dir[path].definition,
         NEW my \in Processes, proc' = [proc EXCEPT ![p] = my],
         my.pc \in {"live", "starting"}, my.program = proc[p].program, my.path = path,
         slots' \subseteq Slots, active' \subseteq Slots,
         \A other \in Path \ {path} :
           dir[other].stage = "published" /\ Slotted(other) => Slotted(other)',
         ConnectedOf(p)', StreamsFrom(path)', ReadyAt(path)',
         UNCHANGED <<world, lock, targets, tables>>
  PROVE  IInv'
<1>1. /\ path \in Path /\ dir[path].stage = "published" /\ StepOf(p) /\ KeptIn(path)
      /\ Derived(dir[path].definition, identity(proc[p].program), path)
      /\ \A q \in Process \ {p} : Owner(q) => proc[q].path # path
  BY LiveFacts
<1>2. proc' \in [Process -> Processes] /\ proc'[p] = my /\ \A q \in Process \ {p} : proc'[q] = proc[q]
  BY DEF IInv, TypeOK
<1>3. dir'[path] = d
  BY <1>1 DEF IInv, TypeOK
<1>4. StepOf(p)'
  BY <1>1, <1>2, <1>3 DEF StepOf, Running, ConnectedOf
<1>5. KeptIn(path)'
  BY <1>1, <1>3 DEF KeptIn
<1>6. lock' \in [Path -> Process \cup {None}]
  BY DEF IInv, TypeOK
<1> QED BY <1>1, <1>2, <1>3, <1>4, <1>5, <1>6, OwnStep

\* The same, where slots stay.
LEMMA SlotsStay ==
  ASSUME IInv, slots \subseteq slots', NEW path \in Path, NEW d, dir' = [dir EXCEPT ![path] = d]
  PROVE  \A other \in Path \ {path} : Slotted(other) => Slotted(other)'
BY DEF IInv, TypeOK, Slotted

\* What is left to show when the phase of a flow changes.
LEMMA PhaseStep ==
  ASSUME IInv, NEW p \in Process, Running(p), NEW path, path = proc[p].path,
         NEW phase \in {"fresh", "capturing", "streaming"},
         dir' = [dir EXCEPT ![path].phase = phase],
         NEW my \in Processes, proc' = [proc EXCEPT ![p] = my],
         my.pc = "live", my.program = proc[p].program, my.path = path,
         my.connected => /\ phase # "fresh" /\ Slotted(path)
                         /\ phase = "capturing" => my.step = "capture",
         phase = "streaming" => Slotted(path),
         active' \subseteq Slots, UNCHANGED <<world, lock, slots, targets, tables>>
  PROVE  IInv'
<1> DEFINE d == [dir[path] EXCEPT !.phase = phase]
<1>1. path \in Path /\ dir[path] \in Directories /\ dir[path].stage = "published" /\ KeptIn(path)
  BY LiveFacts
<1>2. /\ d \in Directories /\ d.stage = dir[path].stage /\ d.definition = dir[path].definition
      /\ d.phase = phase /\ d.sink = dir[path].sink
      /\ d.life = dir[path].life
  BY <1>1 DEF Directories
<1>3. dir' = [dir EXCEPT ![path] = d]
  BY <1>1 DEF IInv, TypeOK
<1> HIDE DEF d
<1>4. dir'[path] = d /\ proc'[p] = my
  BY <1>1, <1>3 DEF IInv, TypeOK
<1>5. Slotted(path) => Slotted(path)'
  BY <1>2, <1>4 DEF Slotted
<1>6. ConnectedOf(p)' /\ StreamsFrom(path)'
  BY <1>2, <1>4, <1>5 DEF ConnectedOf, Connecting, StreamsFrom, Phase
<1>7. ReadyAt(path)'
  BY <1>1, <1>2, <1>4, StaysReady DEF IInv, TargetKept
<1>8. slots' \subseteq Slots
  BY DEF IInv, TypeOK
<1> QED BY <1>1, <1>2, <1>3, <1>6, <1>7, <1>8, SlotsStay, LiveStep

\* A bootstrap begins while nothing is connected.
LEMMA BeginCaptureStep ==
  ASSUME IInv, NEW p \in Process, BeginCapture(p), UNCHANGED world
  PROVE  IInv'
<1>1. PICK path : path = proc[p].path
  OBVIOUS
<1> DEFINE my == [proc[p] EXCEPT !.step = "capture"]
<1>2. /\ Running(p) /\ proc[p].pc = "live" /\ dir[path].phase = "fresh" /\ UNCHANGED <<lock, slots, active, targets, tables>>
      /\ dir' = [dir EXCEPT ![path].phase = "capturing"] /\ proc' = [proc EXCEPT ![p].step = "capture"]
  BY <1>1 DEF Live, Running, BeginCapture, Phase, external
<1>3. proc[p] \in Processes /\ active' \subseteq Slots
  BY <1>2 DEF IInv, TypeOK
<1>4. /\ my \in Processes /\ my.pc = proc[p].pc /\ my.program = proc[p].program
      /\ my.path = path /\ my.connected = proc[p].connected
  BY <1>1, <1>3 DEF Processes
<1>5. proc' = [proc EXCEPT ![p] = my]
  BY <1>2 DEF IInv, TypeOK
<1> HIDE DEF my
<1>6. ~proc[p].connected
  BY <1>1, <1>2 DEF IInv, SlotKept, ConnectedOf, Connecting, Phase
<1> QED BY <1>1, <1>2, <1>3, <1>4, <1>5, <1>6, PhaseStep

\* The connector that ends the bootstrap leaves the slot to stream from.
LEMMA SealStep ==
  ASSUME IInv, NEW p \in Process, Seal(p), UNCHANGED world
  PROVE  IInv'
<1>1. PICK path : path = proc[p].path
  OBVIOUS
<1> DEFINE my == [proc[p] EXCEPT !.connected = FALSE]
<1>2. /\ Running(p) /\ proc[p].pc = "live" /\ proc[p].connected /\ active' = active \ MySlot(p)
      /\ UNCHANGED <<lock, slots, targets, tables>>
      /\ dir' = [dir EXCEPT ![path].phase = "streaming"]
      /\ proc' = [proc EXCEPT ![p].connected = FALSE]
  BY <1>1 DEF Live, Running, Seal
<1>3. proc[p] \in Processes /\ active' \subseteq Slots
  BY <1>2 DEF IInv, TypeOK
<1>4. /\ my \in Processes /\ my.pc = proc[p].pc /\ my.program = proc[p].program
      /\ my.path = path /\ my.connected = FALSE
  BY <1>1, <1>3 DEF Processes
<1>5. proc' = [proc EXCEPT ![p] = my]
  BY <1>2 DEF IInv, TypeOK
<1> HIDE DEF my
<1>6. Slotted(path)
  BY <1>1, <1>2 DEF IInv, SlotKept, ConnectedOf
<1> QED BY <1>1, <1>2, <1>3, <1>4, <1>5, <1>6, PhaseStep

\* The phase goes back while nothing is connected.
LEMMA ResetStep ==
  ASSUME IInv, NEW p \in Process, Reset(p), UNCHANGED world
  PROVE  IInv'
<1>1. PICK path : path = proc[p].path
  OBVIOUS
<1>2. /\ Running(p) /\ proc[p].pc = "live" /\ dir[path].phase = "capturing" /\ proc[p].step = "reset"
      /\ dir' = [dir EXCEPT ![path].phase = "fresh"]
      /\ UNCHANGED <<lock, proc, slots, active, targets, tables>>
  BY <1>1 DEF Live, Running, Reset, Phase, external
<1>3. proc[p] \in Processes /\ active' \subseteq Slots /\ proc' = [proc EXCEPT ![p] = proc[p]]
  BY <1>2 DEF IInv, TypeOK
<1>4. ~proc[p].connected
  BY <1>1, <1>2 DEF IInv, SlotKept, ConnectedOf, Connecting, Phase
<1> QED BY <1>1, <1>2, <1>3, <1>4, PhaseStep

\* The slot that a flow reaches is the one of its definition, on its server.
LEMMA ServerSlotFacts ==
  ASSUME IInv, NEW p \in Process, Running(p), NEW path, path = proc[p].path
  PROVE  /\ ServerSlot(p) \in Slots /\ OwnSlot(p) \subseteq Slots
         /\ HasSlot(proc[p].program.scan) <=> HasSlot(dir[path].definition.owner_identity.scan)
         /\ proc[p].program.scan.server = Definition(p).scan.server =>
              ServerSlot(p) = SlotOf(dir[path].definition.scan)
<1>1. /\ dir[path].definition \in Definitions /\ proc[p].program \in Programs
      /\ Derived(dir[path].definition, identity(proc[p].program), path)
  BY LiveFacts
<1>2. proc[p].program.scan.server \in Server
  BY <1>1, ProgramFacts DEF IInv
<1>3. dir[path].definition.scan.name \in DerivedNames
  BY <1>1 DEF Definitions, ScanSpecs
<1>4. ServerSlot(p) \in Slots
  BY <1>2, <1>3 DEF ServerSlot, Slots, Definition
<1>5. HasSlot(proc[p].program.scan) <=> HasSlot(dir[path].definition.owner_identity.scan)
  BY <1>1 DEF Derived, HasSlot, identity, scan_identity
<1> QED BY <1>4, <1>5 DEF ServerSlot, OwnSlot, SlotOf, Definition

\* A flow that is about to start a connector has checked its server.
LEMMA VerifyStep ==
  ASSUME IInv, NEW p \in Process, VerifySnapshot(p) \/ VerifyStreaming(p), UNCHANGED world
  PROVE  IInv'
<1>1. CASE Refuse(p)
  BY <1>1, RefuseStep
<1>2. CASE ~Refuse(p)
  <2>1. PICK path : path = proc[p].path
    OBVIOUS
  <2>2. /\ Running(p) /\ dir[path].phase # "fresh" /\ ~proc[p].connected
        /\ dir[path].phase = "capturing" => proc[p].step = "capture"
        /\ verify(p) /\ To(p, "starting") /\ UNCHANGED <<dir, lock, slots, active, targets, tables>>
    BY <1>2, <2>1
    DEF VerifySnapshot, VerifyStreaming, Verify, Live, Running, Phase, external
  <2> DEFINE my == [proc[p] EXCEPT !.pc = "starting"]
  <2>3. /\ path \in Path /\ dir[path] \in Directories /\ proc[p] \in Processes
    BY <2>1, <2>2, LiveFacts
  <2>4. /\ my \in Processes /\ my.pc = "starting" /\ my.program = proc[p].program
        /\ my.path = path /\ my.connected = proc[p].connected /\ my.step = proc[p].step
    BY <2>1, <2>3 DEF Processes
  <2>5. dir' = [dir EXCEPT ![path] = dir[path]] /\ proc' = [proc EXCEPT ![p] = my]
    BY <2>2, <2>3 DEF IInv, TypeOK, To
  <2> HIDE DEF my
  <2>6. dir'[path] = dir[path] /\ proc'[p] = my
    BY <2>2, <2>5 DEF IInv, TypeOK
  <2>7. proc[p].program.scan.server = dir[path].definition.scan.server
    BY <2>1, <2>2 DEF verify, Definition
  <2>8. ConnectedOf(p)'
    BY <2>2, <2>4, <2>6, <2>7 DEF ConnectedOf, Connecting, Phase, Definition
  <2>9. StreamsFrom(path)' /\ ReadyAt(path)'
    <3>1. StreamsFrom(path)'
      BY <2>2, <2>3 DEF IInv, SlotKept, StreamsFrom, Slotted
    <3> QED BY <3>1, <2>2, <2>3, <2>6, StaysReady DEF IInv, TargetKept
  <2>10. slots' \subseteq Slots /\ active' \subseteq Slots
    BY <2>2 DEF IInv, TypeOK
  <2>11. \A other \in Path \ {path} : Slotted(other) => Slotted(other)'
    BY <2>2 DEF Slotted
  <2> QED BY <2>1, <2>2, <2>3, <2>4, <2>5, <2>8, <2>9, <2>10, <2>11, LiveStep
<1> QED BY <1>1, <1>2

\* A connector that starts has its slot.
LEMMA ConnectStep ==
  ASSUME IInv, NEW p \in Process, proc[p].pc = "starting", Connect(p),
         slots \subseteq slots', slots' \subseteq Slots,
         HasSlot(proc[p].program.scan) => ServerSlot(p) \in slots', UNCHANGED world
  PROVE  IInv'
<1>1. PICK path : path = proc[p].path
  OBVIOUS
<1>0. Running(p) /\ ConnectedOf(p)
  BY DEF Running, IInv, SlotKept
<1> DEFINE server == proc[p].program.scan.server
           stray == IF tables[server] = Definition(p).scan.table THEN 0 ELSE 1
           d == [dir[path] EXCEPT !.captured = @ \cup {server}, !.strays = @ + stray]
           my == [proc[p] EXCEPT !.pc = "live", !.connected = TRUE]
<1>2. /\ path \in Path /\ dir[path] \in Directories /\ proc[p] \in Processes
      /\ dir[path].stage = "published" /\ proc[p].program \in Programs
  BY <1>0, <1>1, LiveFacts
<1>3. server \in Server /\ stray \in Nat
  BY <1>2, ProgramFacts DEF IInv
<1>4. /\ dir' = [dir EXCEPT ![path].captured = @ \cup {server}, ![path].strays = @ + stray]
      /\ proc' = [proc EXCEPT ![p].pc = "live", ![p].connected = TRUE]
      /\ active' = active \cup OwnSlot(p) /\ UNCHANGED <<lock, targets, tables>>
  BY <1>1 DEF Connect
<1> HIDE DEF server, stray
<1>5. dir' = [dir EXCEPT ![path] = d] /\ proc' = [proc EXCEPT ![p] = my]
  BY <1>2, <1>4 DEF IInv, TypeOK
<1>6. /\ d \in Directories /\ d.stage = dir[path].stage /\ d.definition = dir[path].definition
      /\ d.phase = dir[path].phase /\ d.sink = dir[path].sink /\ d.life = dir[path].life
  <2> DEFINE captured == dir[path].captured \cup {server}
             strays == dir[path].strays + stray
  <2>1. captured \subseteq Server /\ strays \in Nat
    BY <1>2, <1>3 DEF Directories
  <2>2. d = [dir[path] EXCEPT !.captured = captured, !.strays = strays]
    OBVIOUS
  <2> HIDE DEF captured, strays, d
  <2> QED BY <1>2, <2>1, <2>2 DEF Directories
<1>7. /\ my \in Processes /\ my.pc = "live" /\ my.program = proc[p].program
      /\ my.path = path /\ my.step = proc[p].step
  BY <1>1, <1>2 DEF Processes
<1> HIDE DEF d, my
<1>8. dir'[path] = d /\ proc'[p] = my
  BY <1>5, <1>2 DEF IInv, TypeOK
<1>9. Slotted(path)'
  <2>1. ServerSlot(p) = SlotOf(dir[path].definition.scan)
    BY <1>0, <1>1, ServerSlotFacts DEF ConnectedOf
  <2> QED BY <2>1, <1>0, <1>1, <1>6, <1>8, ServerSlotFacts DEF Slotted
<1>10. ConnectedOf(p)' /\ StreamsFrom(path)'
  BY <1>0, <1>1, <1>6, <1>7, <1>8, <1>9 DEF ConnectedOf, Connecting, StreamsFrom, Phase
<1>11. ReadyAt(path)'
  BY <1>2, <1>4, <1>6, <1>8, StaysReady DEF IInv, TargetKept
<1>12. active' \subseteq Slots
  BY <1>0, <1>1, <1>4, ServerSlotFacts DEF IInv, TypeOK
<1>13. \A other \in Path \ {path} : Slotted(other) => Slotted(other)'
  BY <1>2, <1>5, SlotsStay
<1> QED BY <1>0, <1>1, <1>2, <1>4, <1>5, <1>6, <1>7, <1>10, <1>11, <1>12, <1>13, LiveStep

\* The bootstrap connects and creates its slot.
LEMMA StartSnapshotStep ==
  ASSUME IInv, NEW p \in Process, StartSnapshot(p), UNCHANGED world
  PROVE  IInv'
<1>1. proc[p].pc = "starting" /\ Connect(p) /\ slots' = slots \cup OwnSlot(p)
  BY DEF StartSnapshot
<1>2. slots' \subseteq Slots
  BY <1>1, ServerSlotFacts DEF IInv, TypeOK, Running
<1>3. HasSlot(proc[p].program.scan) => ServerSlot(p) \in slots'
  BY <1>1 DEF OwnSlot
<1> QED BY <1>1, <1>2, <1>3, ConnectStep

\* A sealed flow connects to the slot that is there.
LEMMA StartStreamingStep ==
  ASSUME IInv, NEW p \in Process, StartStreaming(p), UNCHANGED world
  PROVE  IInv'
<1>1. proc[p].pc = "starting" /\ Phase(p) = "streaming" /\ Connect(p) /\ slots' = slots
  BY DEF StartStreaming
<1>2. PICK path : path = proc[p].path
  OBVIOUS
<1>3. Running(p) /\ ConnectedOf(p) /\ slots \subseteq Slots
  BY <1>1 DEF Running, IInv, SlotKept, TypeOK
<1>4. path \in Path
  BY <1>2, <1>3, LiveFacts
<1>5. Slotted(path)
  BY <1>1, <1>2, <1>4 DEF IInv, SlotKept, StreamsFrom, Phase
<1>6. ServerSlot(p) = SlotOf(dir[path].definition.scan)
  BY <1>1, <1>2, <1>3, ServerSlotFacts DEF ConnectedOf
<1>7. HasSlot(proc[p].program.scan) => ServerSlot(p) \in slots'
  BY <1>1, <1>2, <1>3, <1>5, <1>6, ServerSlotFacts DEF Slotted
<1> QED BY <1>1, <1>3, <1>7, ConnectStep

\* A reset removes the slot of its own directory, and of no other: the names
\* contain the path.
LEMMA PrepareResetStep ==
  ASSUME IInv, NEW p \in Process, PrepareReset(p), UNCHANGED world
  PROVE  IInv'
<1>1. CASE Refuse(p)
  BY <1>1, RefuseStep
<1>2. CASE ~Refuse(p)
  <2>1. PICK path : path = proc[p].path
    OBVIOUS
  <2> DEFINE my == [proc[p] EXCEPT !.step = "reset"]
  <2>2. /\ Running(p) /\ proc[p].pc = "live" /\ dir[path].phase = "capturing" /\ proc[p].step = "restore"
        /\ slots' = slots \ {ServerSlot(p)} /\ proc' = [proc EXCEPT ![p].step = "reset"]
        /\ UNCHANGED <<dir, lock, active, targets, tables>>
    BY <1>2, <2>1 DEF Live, Running, PrepareReset, Phase
  <2>3. /\ path \in Path /\ dir[path] \in Directories /\ proc[p] \in Processes
        /\ dir[path].stage = "published" /\ KeptIn(path)
        /\ Derived(dir[path].definition, identity(proc[p].program), path)
    BY <2>1, <2>2, LiveFacts
  <2>4. /\ my \in Processes /\ my.pc = proc[p].pc /\ my.program = proc[p].program
        /\ my.path = path /\ my.connected = proc[p].connected
    BY <2>1, <2>3 DEF Processes
  <2>5. dir' = [dir EXCEPT ![path] = dir[path]] /\ proc' = [proc EXCEPT ![p] = my]
    BY <2>2, <2>3 DEF IInv, TypeOK
  <2> HIDE DEF my
  <2>6. dir'[path] = dir[path] /\ proc'[p] = my
    BY <2>2, <2>5 DEF IInv, TypeOK
  <2>7. ~proc[p].connected
    BY <2>1, <2>2 DEF IInv, SlotKept, ConnectedOf, Connecting, Phase
  <2>8. ASSUME NEW other \in Path \ {path}, dir[other].stage = "published", Slotted(other)
        PROVE  Slotted(other)'
    <3>0. KeptIn(other)
      BY DEF IInv, Kept
    <3>1. dir[other].definition.scan.name.path = other
      BY <2>8, <3>0 DEF KeptIn, Derived, scan_name, derived_name
    <3>3. ServerSlot(p).name.path = path
      BY <2>1, <2>3 DEF Derived, scan_name, derived_name, ServerSlot, Definition
    <3>2. SlotOf(dir[other].definition.scan) # ServerSlot(p)
      BY <3>1, <3>3 DEF SlotOf
    <3> QED BY <3>2, <2>2, <2>8 DEF Slotted
  <2>9. ConnectedOf(p)' /\ StreamsFrom(path)'
    BY <2>2, <2>4, <2>6, <2>7 DEF ConnectedOf, Connecting, StreamsFrom
  <2>10. ReadyAt(path)'
    BY <2>2, <2>3, <2>6, StaysReady DEF IInv, TargetKept
  <2>11. slots' \subseteq Slots /\ active' \subseteq Slots /\ my.pc = "live"
    BY <2>2, <2>4 DEF IInv, TypeOK
  <2> QED BY <2>1, <2>2, <2>3, <2>4, <2>5, <2>8, <2>9, <2>10, <2>11, LiveStep
<1> QED BY <1>1, <1>2

-----------------------------------------------------------------------------
(* A running flow: its sink.                                               *)

\* A sink that goes on: ready only over objects of its own that nobody wrote to.
LEMMA SinkPhaseStep ==
  ASSUME IInv, NEW p \in Process, Running(p), NEW path, path = proc[p].path,
         NEW phase \in {"initialize", "ready"},
         dir' = [dir EXCEPT ![path].sink = phase],
         \A t \in TargetsAt(dir[path].definition.sink) : t.writers = {},
         phase = "ready" => LET sink == dir[path].definition.sink
                            IN /\ \E t \in TargetsAt(sink) : t.part # "state"
                               /\ \A t \in TargetsAt(sink) : t.marker = sink.name,
         UNCHANGED <<world, lock, proc, external>>
  PROVE  IInv'
<1> DEFINE d == [dir[path] EXCEPT !.sink = phase]
<1>1. /\ path \in Path /\ dir[path] \in Directories /\ dir[path].stage = "published"
      /\ KeptIn(path) /\ proc[p] \in Processes
  BY LiveFacts
<1>2. /\ d \in Directories /\ d.stage = dir[path].stage /\ d.definition = dir[path].definition
      /\ d.phase = dir[path].phase /\ d.sink = phase
      /\ d.life = dir[path].life
  BY <1>1 DEF Directories
<1>3. dir' = [dir EXCEPT ![path] = d] /\ proc' = [proc EXCEPT ![p] = proc[p]]
  BY <1>1 DEF IInv, TypeOK
<1> HIDE DEF d
<1>4. dir'[path] = d /\ UNCHANGED <<proc, slots, active, targets, tables>>
  BY <1>1, <1>3 DEF IInv, TypeOK, external
<1>5. Slotted(path) => Slotted(path)'
  BY <1>2, <1>4 DEF Slotted
<1>6. ConnectedOf(p)'
  BY <1>2, <1>4, <1>5, StaysConnected DEF IInv, SlotKept
<1>7. StreamsFrom(path)'
  BY <1>1, <1>2, <1>4, <1>5 DEF IInv, SlotKept, StreamsFrom
<1>8. ReadyAt(path)'
  <2>1. TargetsAt(dir[path].definition.sink)' = TargetsAt(dir[path].definition.sink)
    BY <1>2, <1>4 DEF TargetsAt
  <2> QED BY <2>1, <1>2, <1>4 DEF ReadyAt, BegunAt
<1>9. slots' \subseteq Slots /\ active' \subseteq Slots /\ proc[p].pc \in {"live", "starting"}
  BY <1>4 DEF IInv, TypeOK, Running
<1>11. \A other \in Path \ {path} : Slotted(other) => Slotted(other)'
  BY <1>1, <1>3, <1>4, SlotsStay
<1> QED BY <1>1, <1>2, <1>3, <1>4, <1>6, <1>7, <1>8, <1>9, <1>11, LiveStep

\* On the server of the definition a flow finds the objects of its definition.
LEMMA FoundFacts ==
  ASSUME IInv, NEW p \in Process, Running(p), SameServer(p), NEW path, path = proc[p].path
  PROVE  /\ Found(p) = TargetsAt(dir[path].definition.sink)
         /\ Definition(p) = dir[path].definition
<1>1. dir[path].definition \in Definitions
  BY LiveFacts
<1>2. dir[path].definition.sink \in SinkSpecs
  BY <1>1 DEF Definitions
<1>3. [dir[path].definition.sink EXCEPT !.server = proc[p].program.sink.server] =
        dir[path].definition.sink
  BY <1>2 DEF SinkSpecs, SameServer, Definition
<1> QED BY <1>3 DEF Found, Definition

\* A new sink records that it begins to create its objects, where none are.
LEMMA PersistInitializeStep ==
  ASSUME IInv, NEW p \in Process, PersistInitialize(p), UNCHANGED world
  PROVE  IInv'
<1>1. CASE Refuse(p)
  BY <1>1, RefuseStep
<1>2. CASE ~Refuse(p)
  <2>1. PICK path : path = proc[p].path
    OBVIOUS
  <2>2. /\ Running(p) /\ SameServer(p) /\ Found(p) = {}
        /\ dir' = [dir EXCEPT ![path].sink = "initialize"] /\ UNCHANGED <<lock, proc, external>>
    BY <1>2, <2>1 DEF PersistInitialize, require_absent, Live, Running
  <2>3. TargetsAt(dir[path].definition.sink) = {}
    BY <2>1, <2>2, FoundFacts
  <2> QED BY <2>1, <2>2, <2>3, SinkPhaseStep
<1> QED BY <1>1, <1>2

\* A sink is ready once all its objects are there, its own and empty.
LEMMA FinishInitializeStep ==
  ASSUME IInv, NEW p \in Process, FinishInitialize(p), UNCHANGED world
  PROVE  IInv'
<1>1. CASE Refuse(p)
  BY <1>1, RefuseStep
<1>2. CASE ~Refuse(p)
  <2>1. PICK path : path = proc[p].path
    OBVIOUS
  <2>2. /\ Running(p) /\ SameServer(p) /\ Owned(p) /\ \A t \in Found(p) : t.writers = {}
        /\ dir' = [dir EXCEPT ![path].sink = "ready"] /\ UNCHANGED <<lock, proc, external>>
    BY <1>2, <2>1 DEF FinishInitialize, Live, Running
  <2>3. /\ Found(p) = TargetsAt(dir[path].definition.sink)
        /\ Definition(p) = dir[path].definition
    BY <2>1, <2>2, FoundFacts
  <2>4. \E t \in Found(p) : t.part # "state"
    BY <2>2 DEF Owned, Parts
  <2>5. \A t \in Found(p) : t.marker = dir[path].definition.sink.name
    BY <2>2, <2>3 DEF Owned
  <2>6. LET sink == dir[path].definition.sink
        IN /\ \E t \in TargetsAt(sink) : t.part # "state"
           /\ \A t \in TargetsAt(sink) : t.marker = sink.name
    BY <2>3, <2>4, <2>5
  <2> QED BY <2>1, <2>2, <2>3, <2>6, SinkPhaseStep
<1> QED BY <1>1, <1>2

\* What is left to show of a step that changes only the targets.
LEMMA TargetStep ==
  ASSUME IInv, targets' \subseteq Targets, TargetKept',
         UNCHANGED <<world, dir, lock, proc, slots, active, tables>>
  PROVE  IInv'
<1>1. TypeOK'
  BY DEF IInv, TypeOK
<1>2. Steps' /\ Exclusive' /\ Kept'
  BY DEF IInv, Steps, StepOf, Exclusive, Owner, Kept, KeptIn
<1>3. SlotKept'
  BY DEF IInv, SlotKept, ConnectedOf, Connecting, StreamsFrom, Slotted, Phase, Definition
<1> QED BY <1>1, <1>2, <1>3 DEF IInv

\* The markers of two directories differ.
LEMMA SinkNames ==
  ASSUME IInv, NEW p \in Process, Running(p), NEW path \in Path, dir[path].stage = "published",
         dir[path].definition.sink.name = dir[proc[p].path].definition.sink.name,
         dir[path].definition.sink.name # NoMarker
  PROVE  path = proc[p].path
<1>1. PICK mine : mine = proc[p].path
  OBVIOUS
<1>2. Derived(dir[mine].definition, identity(proc[p].program), mine)
  BY <1>1, LiveFacts
<1>3. KeptIn(path)
  BY DEF IInv, Kept
<1>4. Derived(dir[path].definition, dir[path].definition.owner_identity, path)
  BY <1>3 DEF KeptIn
<1>5. dir[path].definition.sink.name = sink_name(dir[path].definition.owner_identity, path)
  BY <1>4 DEF Derived
<1>6. dir[mine].definition.sink.name = sink_name(identity(proc[p].program), mine)
  BY <1>1, <1>2 DEF Derived
<1>7. dir[path].definition.sink.name.path = path
  BY <1>5 DEF sink_name, derived_name
<1>8. dir[mine].definition.sink.name.path = mine
  BY <1>6 DEF sink_name, derived_name
<1> QED BY <1>1, <1>7, <1>8

\* A sink that makes a state table has a marker.
LEMMA StateIsMarked ==
  ASSUME IInv, NEW p \in Process, Running(p), NEW path, path = proc[p].path,
         "state" \in Missing(p)
  PROVE  dir[path].definition.sink.name # NoMarker
<1>1. Derived(dir[path].definition, identity(proc[p].program), path)
  BY LiveFacts
<1>2. Marked(proc[p].program.sink)
  BY DEF Missing, Transactional, Marked
<1>3. Marked(identity(proc[p].program).sink)
  BY <1>2 DEF identity, sink_identity, Marked
<1>4. dir[path].definition.sink.name = sink_name(identity(proc[p].program), path)
  BY <1>1, <1>3 DEF Derived
<1> QED BY <1>4 DEF sink_name, NoMarker, derived_name

\* An object is created only where no name is taken, so never among the objects
\* of a ready sink.
LEMMA CreateTargetStep ==
  ASSUME IInv, NEW p \in Process, CreateTarget(p), UNCHANGED world
  PROVE  IInv'
<1>1. PICK path : path = proc[p].path
  OBVIOUS
<1>2. Running(p) /\ dir[path].sink = "initialize" /\ SameServer(p)
  BY <1>1 DEF CreateTarget, Sink, Live, Running
<1>3. PICK part \in Missing(p) : Create(p, part)
  BY DEF CreateTarget
<1>4. /\ path \in Path /\ dir[path].definition \in Definitions
      /\ proc[p].program \in Programs
  BY <1>1, <1>2, LiveFacts
<1>5. /\ Found(p) = TargetsAt(dir[path].definition.sink) /\ Definition(p) = dir[path].definition
      /\ proc[p].program.sink.server = dir[path].definition.sink.server
  BY <1>1, <1>2, FoundFacts DEF SameServer
<1> DEFINE sink == dir[path].definition.sink
           new == [server |-> proc[p].program.sink.server, part |-> part, table |-> Definition(p).sink.table,
                   marker |-> Definition(p).sink.name, writers |-> {}]
<1>6. targets' = targets \cup {new} /\ UNCHANGED <<dir, lock, proc, slots, active, tables>>
  BY <1>3 DEF Create
<1>7. part \in {"table", "state", "view"}
  BY <1>3 DEF Missing
<1>8. sink \in SinkSpecs
  BY <1>4 DEF Definitions
<1>9. new \in Targets
  BY <1>5, <1>7, <1>8 DEF Targets, SinkSpecs
<1>10. new.server = sink.server /\ new.part = part /\ new.table = sink.table
       /\ new.marker = sink.name /\ new.writers = {}
  BY <1>5
<1>11. part # "state" => \A t \in Found(p) : t.part = "state"
  BY <1>3 DEF Missing
<1> HIDE DEF new
<1>12. ASSUME NEW other \in Path, dir[other].sink = "ready"
       PROVE  new \notin {t \in {new} : /\ t.server = dir[other].definition.sink.server
                                       /\ IF t.part = "state" THEN t.marker = dir[other].definition.sink.name
                                          ELSE t.table = dir[other].definition.sink.table}
  <2> SUFFICES ASSUME new.server = dir[other].definition.sink.server,
                      IF part = "state" THEN sink.name = dir[other].definition.sink.name
                      ELSE sink.table = dir[other].definition.sink.table
               PROVE  FALSE
    BY <1>10
  <2>1. ReadyAt(other) /\ KeptIn(other)
    BY DEF IInv, TargetKept, Kept
  <2>2. dir[other].stage = "published"
    BY <1>12, <2>1 DEF KeptIn
  <2>3. CASE part = "state"
    <3>1. sink.name # NoMarker
      BY <2>3, <1>1, <1>2, <1>3, StateIsMarked
    <3> QED BY <2>3, <3>1, <2>2, <1>1, <1>2, <1>12, SinkNames
  <2>4. CASE part # "state"
    <3>1. PICK t \in TargetsAt(dir[other].definition.sink) : t.part # "state"
      BY <1>12, <2>1 DEF ReadyAt
    <3>2. t \in TargetsAt(sink)
      BY <3>1, <2>4, <1>10 DEF TargetsAt
    <3> QED BY <3>1, <3>2, <2>4, <1>5, <1>11
  <2> QED BY <2>3, <2>4
<1>13. ASSUME NEW other \in Path PROVE ReadyAt(other)'
  <2>1. dir' = dir /\ Me(other)' = Me(other) /\ ReadyAt(other)
    BY <1>6 DEF Me, IInv, TargetKept
  <2>2. TargetsAt(dir[other].definition.sink)' \subseteq TargetsAt(dir[other].definition.sink) \cup {new}
    BY <1>6 DEF TargetsAt
  <2>3. BegunAt(other)'
    BY <2>1, <2>2, <1>10 DEF ReadyAt, BegunAt
  <2>4. CASE dir[other].sink # "ready"
    BY <2>1, <2>3, <2>4 DEF ReadyAt
  <2>5. CASE dir[other].sink = "ready"
    <3>1. TargetsAt(dir[other].definition.sink)' = TargetsAt(dir[other].definition.sink)
      BY <1>6, <1>12, <2>5 DEF TargetsAt
    <3> QED BY <3>1, <2>1, <2>3 DEF ReadyAt
  <2> QED BY <2>4, <2>5
<1>14. targets' \subseteq Targets
  BY <1>6, <1>9 DEF IInv, TypeOK
<1>15. \A t \in targets' : Written(t)'
  BY <1>6, <1>10 DEF IInv, TargetKept, Written
<1> QED BY <1>6, <1>13, <1>14, <1>15, TargetStep DEF TargetKept

\* A delivery writes to objects that carry the flow's marker, and so to those of
\* no other directory, or to a table without one; where it writes, no other life of
\* its own directory did.
LEMMA DeliverStep ==
  ASSUME IInv, NEW p \in Process, Deliver(p), UNCHANGED world
  PROVE  IInv'
<1>1. CASE Refuse(p)
  BY <1>1, RefuseStep
<1>2. CASE ~Refuse(p)
  <2>1. PICK path : path = proc[p].path
    OBVIOUS
  <2> DEFINE me == [path |-> path, life |-> dir[path].life]
             after(t) == [t EXCEPT !.writers = @ \cup {me}]
  <2>2. /\ Running(p) /\ dir[path].sink = "ready" /\ SameServer(p)
        /\ targets' = (targets \ Found(p)) \cup {after(t) : t \in Found(p)}
        /\ UNCHANGED <<dir, lock, proc, slots, active, tables>>
    BY <1>2, <2>1 DEF Deliver, Sink, Live, Running
  <2>3. path \in Path /\ dir[path] \in Directories
    BY <2>1, <2>2, LiveFacts
  <2>4. Found(p) = TargetsAt(dir[path].definition.sink) /\ Definition(p) = dir[path].definition
    BY <2>1, <2>2, FoundFacts
  <2>5. me = Me(path) /\ me \in Generations /\ me.path = path
    BY <2>3 DEF Me, Directories, Generations
  <2> HIDE DEF me
  <2>6. \A t \in Found(p) : /\ t.marker = dir[path].definition.sink.name
                            /\ t.marker # NoMarker => t.writers \subseteq {me}
                            /\ \A w \in t.writers : w.path = path => w = me
    BY <2>2, <2>3, <2>4, <2>5 DEF IInv, TargetKept, ReadyAt, BegunAt
  <2>7. Found(p) \subseteq targets /\ targets \subseteq Targets
    BY DEF Found, TargetsAt, IInv, TypeOK
  <2>8. ASSUME NEW t \in Found(p)
        PROVE  /\ after(t) \in Targets /\ after(t).server = t.server /\ after(t).part = t.part
               /\ after(t).table = t.table /\ after(t).marker = t.marker
               /\ after(t).writers = t.writers \cup {me}
    <3>1. t \in Targets
      BY <2>7
    <3> QED BY <3>1, <2>5 DEF Targets
  <2> HIDE DEF after
  <2>9. targets' \subseteq Targets
    BY <2>2, <2>7, <2>8
  <2>10. ASSUME NEW u \in targets' PROVE Written(u)'
    <3>1. CASE u \in targets
      BY <3>1 DEF IInv, TargetKept, Written
    <3>2. CASE u \notin targets
      <4>1. PICK t \in Found(p) : u = after(t)
        BY <3>2, <2>2
      <4>2. Written(t) /\ u.marker = t.marker /\ u.writers = t.writers \cup {me}
        BY <4>1, <2>7, <2>8 DEF IInv, TargetKept
      <4> QED BY <4>1, <4>2, <2>5, <2>6 DEF Written
    <3> QED BY <3>1, <3>2
  <2>11. ASSUME NEW other \in Path PROVE ReadyAt(other)'
    <3> DEFINE sink == dir[other].definition.sink
    <3>1. dir' = dir /\ Me(other)' = Me(other) /\ ReadyAt(other)
      BY <2>2 DEF Me, IInv, TargetKept
    <3>2. ASSUME NEW t \in Found(p)
          PROVE  after(t) \in TargetsAt(sink)' <=> t \in TargetsAt(sink)
      BY <2>2, <2>7, <2>8 DEF TargetsAt
    <3>3. ASSUME NEW t \in targets \ Found(p)
          PROVE  t \in TargetsAt(sink)' <=> t \in TargetsAt(sink)
      BY <2>2 DEF TargetsAt
    <3>4. TargetsAt(sink)' \subseteq targets' /\ TargetsAt(sink) \subseteq targets
      BY DEF TargetsAt
    <3>5. ASSUME NEW u \in TargetsAt(sink)'
          PROVE  u \in TargetsAt(sink) \/ \E t \in Found(p) : t \in TargetsAt(sink) /\ u = after(t)
      <4>1. CASE u \in targets \ Found(p)
        BY <4>1, <3>3, <3>5
      <4>2. CASE u \notin targets \ Found(p)
        <5>1. PICK t \in Found(p) : u = after(t)
          BY <4>2, <3>4, <3>5, <2>2
        <5> QED BY <5>1, <3>2, <3>5
      <4> QED BY <4>1, <4>2
    <3>6. BegunAt(other)'
      <4> SUFFICES ASSUME dir[other].sink # "fresh", NEW u \in TargetsAt(sink)', NEW w \in u.writers,
                          w.path = other
                   PROVE  w = Me(other)
        BY <3>1 DEF BegunAt
      <4>1. CASE u \in TargetsAt(sink)
        BY <4>1, <3>1 DEF ReadyAt, BegunAt
      <4>2. CASE u \notin TargetsAt(sink)
        <5>1. PICK t \in Found(p) : t \in TargetsAt(sink) /\ u = after(t)
          BY <4>2, <3>5
        <5>2. w \in t.writers \/ w = me
          BY <5>1, <2>8
        <5> QED BY <5>1, <5>2, <3>1, <2>5 DEF ReadyAt, BegunAt
      <4> QED BY <4>1, <4>2
    <3>7. CASE dir[other].sink # "ready"
      BY <3>1, <3>6, <3>7 DEF ReadyAt
    <3>8. CASE dir[other].sink = "ready"
      <4>1. /\ \E t \in TargetsAt(sink) : t.part # "state"
            /\ \A t \in TargetsAt(sink) : /\ t.marker = sink.name
                                          /\ t.marker # NoMarker => t.writers \subseteq {Me(other)}
        BY <3>1, <3>8 DEF ReadyAt
      <4>2. dir[other].stage = "published"
        BY <3>8 DEF IInv, Kept, KeptIn
      <4>3. \E t \in TargetsAt(sink)' : t.part # "state"
        <5>1. PICK t \in TargetsAt(sink) : t.part # "state"
          BY <4>1
        <5>2. CASE t \in Found(p)
          BY <5>1, <5>2, <3>2, <2>8
        <5>3. CASE t \notin Found(p)
          BY <5>1, <5>3, <3>3, <3>4
        <5> QED BY <5>2, <5>3
      <4>4. ASSUME NEW u \in TargetsAt(sink)'
            PROVE  u.marker = sink.name /\ (u.marker # NoMarker => u.writers \subseteq {Me(other)})
        <5>1. CASE u \in TargetsAt(sink)
          BY <5>1, <4>1
        <5>2. CASE u \notin TargetsAt(sink)
          <6>1. PICK t \in Found(p) : t \in TargetsAt(sink) /\ u = after(t)
            BY <5>2, <4>4, <3>5
          <6>2. u.marker = sink.name /\ u.marker = t.marker /\ u.writers = t.writers \cup {me}
            BY <6>1, <4>1, <2>8
          <6>3. u.marker # NoMarker => other = path
            BY <6>1, <6>2, <4>2, <2>1, <2>2, <2>6, SinkNames
          <6> QED BY <6>1, <6>2, <6>3, <4>1, <2>5
        <5> QED BY <5>1, <5>2
      <4> QED BY <4>3, <4>4, <3>1, <3>6 DEF ReadyAt
    <3> QED BY <3>7, <3>8
  <2> QED BY <2>2, <2>9, <2>10, <2>11, TargetStep DEF TargetKept
<1> QED BY <1>1, <1>2

-----------------------------------------------------------------------------
(* The environment.                                                        *)

\* A server notices that a connection is gone.
LEMMA SlotReleasedStep ==
  ASSUME IInv, NEW slot, SlotReleased(slot), UNCHANGED world
  PROVE  IInv'
<1>1. /\ active' = active \ {slot} /\ targets' = targets
      /\ UNCHANGED <<world, dir, lock, proc, slots, tables>>
  BY DEF SlotReleased
<1>2. TypeOK'
  BY <1>1 DEF IInv, TypeOK
<1>3. Steps' /\ Exclusive' /\ Kept'
  BY <1>1 DEF IInv, Steps, StepOf, Exclusive, Owner, Kept, KeptIn
<1>4. SlotKept'
  BY <1>1 DEF IInv, SlotKept, ConnectedOf, Connecting, StreamsFrom, Slotted, Phase, Definition
<1>5. TargetKept'
  BY <1>1, StaysReady DEF IInv, TargetKept, Written
<1> QED BY <1>2, <1>3, <1>4, <1>5 DEF IInv

\* The source table is dropped and created again.
LEMMA RecreateTableStep ==
  ASSUME IInv, NEW server \in Server, RecreateTable(server), UNCHANGED world
  PROVE  IInv'
<1>1. /\ tables' = [tables EXCEPT ![server] = @ + 1] /\ targets' = targets
      /\ UNCHANGED <<world, dir, lock, proc, slots, active>>
  BY DEF RecreateTable
<1>2. TypeOK'
  BY <1>1 DEF IInv, TypeOK
<1>3. Steps' /\ Exclusive' /\ Kept'
  BY <1>1 DEF IInv, Steps, StepOf, Exclusive, Owner, Kept, KeptIn
<1>4. SlotKept'
  BY <1>1 DEF IInv, SlotKept, ConnectedOf, Connecting, StreamsFrom, Slotted, Phase, Definition
<1>5. TargetKept'
  BY <1>1, StaysReady DEF IInv, TargetKept, Written
<1> QED BY <1>2, <1>3, <1>4, <1>5 DEF IInv

\* Nobody owns a directory that is removed.
LEMMA RemoveDirectoryStep ==
  ASSUME IInv, NEW path \in Path, RemoveDirectory(path), UNCHANGED world
  PROVE  IInv'
<1> DEFINE d == [NoDirectory EXCEPT !.life = dir[path].life]
<1>1. /\ dir' = [dir EXCEPT ![path] = d] /\ UNCHANGED <<lock, proc, slots, active, targets, tables>>
      /\ \A p \in Process : proc[p].path # path \/ proc[p].pc \in {"discover", "plan", "create", "open"}
  BY DEF RemoveDirectory, external
<1>2. NoDirectory \in Directories /\ dir[path] \in Directories
  BY DEF NoDirectory, Directories, IInv, TypeOK
<1>3. d \in Directories /\ d.stage = NoDirectory.stage /\ d.phase = NoDirectory.phase
      /\ d.sink = NoDirectory.sink
  BY <1>2 DEF Directories
<1>4. NoDirectory.stage = "absent" /\ NoDirectory.phase = "fresh" /\ NoDirectory.sink = "fresh"
     
  BY DEF NoDirectory
<1> HIDE DEF d
<1>5. dir'[path] = d /\ \A other \in Path \ {path} : dir'[other] = dir[other]
  BY <1>1 DEF IInv, TypeOK
<1>6. TypeOK'
  BY <1>1, <1>3 DEF IInv, TypeOK
<1>7. \A q \in Process : Owner(q) => proc[q].path \in Path \ {path}
  BY <1>1 DEF IInv, Steps, StepOf, Owner
<1>8. Steps'
  <2> SUFFICES ASSUME NEW q \in Process PROVE StepOf(q)'
    BY DEF Steps
  <2> QED BY <1>1, <1>5, <1>7, StaysStep DEF IInv
<1>9. Exclusive'
  BY <1>1 DEF IInv, Exclusive, Owner
<1>10. Kept'
  <2> SUFFICES ASSUME NEW other \in Path PROVE KeptIn(other)'
    BY DEF Kept
  <2>1. CASE other = path
    BY <2>1, <1>3, <1>4, <1>5 DEF KeptIn
  <2>2. CASE other # path
    BY <2>2, <1>5 DEF IInv, Kept, KeptIn
  <2> QED BY <2>1, <2>2
<1>11. SlotKept'
  <2>1. ASSUME NEW other \in Path PROVE StreamsFrom(other)'
    <3>1. CASE other = path
      BY <3>1, <1>3, <1>4, <1>5 DEF StreamsFrom
    <3>2. CASE other # path
      BY <3>2, <1>1, <1>5 DEF IInv, SlotKept, StreamsFrom, Slotted
    <3> QED BY <3>1, <3>2
  <2>2. ASSUME NEW q \in Process PROVE ConnectedOf(q)'
    <3>1. CASE ~Connecting(q)
      BY <3>1, <1>1 DEF ConnectedOf, Connecting
    <3>2. CASE Connecting(q)
      <4>1. ConnectedOf(q) /\ StepOf(q)
        BY DEF IInv, SlotKept, Steps
      <4>2. proc[q].path \in Path \ {path}
        BY <3>2, <4>1, <1>7 DEF StepOf, Owner, Connecting
      <4> QED BY <4>1, <4>2, <1>1, <1>5, StaysConnected DEF Slotted
    <3> QED BY <3>1, <3>2
  <2> QED BY <2>1, <2>2 DEF SlotKept
<1>12. TargetKept'
  <2>1. ASSUME NEW other \in Path PROVE ReadyAt(other)'
    <3>1. CASE other = path
      BY <3>1, <1>3, <1>4, <1>5 DEF ReadyAt, BegunAt
    <3>2. CASE other # path
      BY <3>2, <1>1, <1>5, StaysReady DEF IInv, TargetKept
    <3> QED BY <3>1, <3>2
  <2> QED BY <2>1, <1>1 DEF IInv, TargetKept, Written
<1> QED BY <1>6, <1>8, <1>9, <1>10, <1>11, <1>12 DEF IInv

-----------------------------------------------------------------------------
(* The theorems.                                                           *)

\* Nothing exists at first.
LEMMA Initially ==
  ASSUME Init
  PROVE  IInv
<1>1. Idle \in Processes /\ Idle.pc = "idle" /\ Idle.connected = FALSE
  BY DEF Idle, Processes
<1>2. /\ NoDirectory \in Directories /\ NoDirectory.stage = "absent"
      /\ NoDirectory.phase = "fresh" /\ NoDirectory.sink = "fresh"
  BY DEF NoDirectory, Directories
<1>3. \A p \in Process : proc[p] = Idle
  BY DEF Init
<1>4. \A path \in Path : dir[path] = NoDirectory
  BY DEF Init
<1>5. TypeOK
  BY <1>1, <1>2 DEF Init, TypeOK
<1>6. Steps
  BY <1>1, <1>3 DEF Steps, StepOf
<1>7. Exclusive
  BY <1>1, <1>3 DEF Exclusive, Owner
<1>8. Kept
  BY <1>2, <1>4 DEF Kept, KeptIn
<1>9. SlotKept
  BY <1>1, <1>2, <1>3, <1>4 DEF SlotKept, ConnectedOf, Connecting, StreamsFrom
<1>10. TargetKept
  BY <1>2, <1>4 DEF TargetKept, ReadyAt, BegunAt, Init
<1> QED BY <1>5, <1>6, <1>7, <1>8, <1>9, <1>10 DEF IInv

\* Every step keeps the invariant.
LEMMA Inductive ==
  ASSUME IInv, [Next]_vars
  PROVE  IInv'
<1>1. CASE UNCHANGED vars
  <2>1. UNCHANGED <<world, dir, lock, proc, slots, active, tables>> /\ targets' = targets
    BY <1>1 DEF vars, external
  <2>2. targets' \subseteq Targets /\ TargetKept'
    BY <2>1, StaysReady DEF IInv, TypeOK, TargetKept, Written
  <2> QED BY <2>1, <2>2, TargetStep
<1>2. CASE Next
  <2>1. UNCHANGED world
    BY <1>2 DEF Next
  <2>2. ASSUME NEW p \in Process, NEW start \in world.starts, Start(p, start.name, start.program)
        PROVE  IInv'
    BY <2>1, <2>2, StartStep
  <2>3. ASSUME NEW p \in Process, Build(p) PROVE IInv'
    BY <2>1, <2>3, DiscoverScanStep, DiscoverSinkStep, CreateDirStep, CreateDatabaseStep,
       PublishStep DEF Build
  <2>4. ASSUME NEW p \in Process, Reopen(p) PROVE IInv'
    BY <2>1, <2>4, AcquireLockStep, OpenStep DEF Reopen
  <2>5. ASSUME NEW p \in Process, Source(p) PROVE IInv'
    BY <2>1, <2>5, BeginCaptureStep, VerifyStep, StartSnapshotStep, SealStep, PrepareResetStep,
       ResetStep, StartStreamingStep DEF Source
  <2>6. ASSUME NEW p \in Process, SinkSteps(p) PROVE IInv'
    BY <2>1, <2>6, PersistInitializeStep, CreateTargetStep, FinishInitializeStep,
       DeliverStep DEF SinkSteps
  <2>7. ASSUME NEW p \in Process, Crash(p) PROVE IInv'
    BY <2>1, <2>7, CrashStep
  <2>8. ASSUME NEW slot \in slots, SlotReleased(slot) PROVE IInv'
    BY <2>1, <2>8, SlotReleasedStep
  <2>9. ASSUME NEW path \in Path, RemoveDirectory(path) PROVE IInv'
    BY <2>1, <2>9, RemoveDirectoryStep
  <2>10. ASSUME NEW server \in Server, RecreateTable(server) PROVE IInv'
    BY <2>1, <2>10, RecreateTableStep
  <2> QED BY <1>2, <2>2, <2>3, <2>4, <2>5, <2>6, <2>7, <2>8, <2>9, <2>10 DEF Next, Step
<1> QED BY <1>1, <1>2

\* Every reachable state of start(), of the running flows and of what they leave
\* outside satisfies the invariant.
LEMMA Invariance == Spec => []IInv
<1>1. Init => IInv
  BY Initially
<1>2. IInv /\ [Next]_vars => IInv'
  BY Inductive
<1> QED BY <1>1, <1>2, PTL DEF Spec

\* A set with one element at most.
LEMMA AtMostOne ==
  ASSUME NEW S, \A x, y \in S : x = y
  PROVE  Cardinality(S) <= 1
<1>1. CASE S = {}
  BY <1>1, FS_EmptySet
<1>2. CASE S # {}
  <2>1. PICK x : S = {x}
    BY <1>2
  <2> QED BY <2>1, FS_Singleton
<1> QED BY <1>1, <1>2

-----------------------------------------------------------------------------
(* What a directory captured from.                                         *)

\* A table of the server that is or was there.
Sourced(spec) == spec.table <= tables[spec.server]

\* A connector that found another table than the discovered one leaves it behind
\* for good: nothing verifies after it.
CapturedBy(path) ==
  LET d == dir[path]
  IN /\ d.stage # "published" => d.captured = {} /\ d.strays = 0
     /\ d.stage = "published" =>
          /\ Sourced(d.definition.scan)
          /\ d.captured \subseteq {d.definition.scan.server}
          /\ d.strays \in {0, 1}
          /\ d.strays = 1 => d.definition.scan.table < tables[d.definition.scan.server]

CapturingOf(p) ==
  /\ proc[p].pc = "plan" => Sourced(proc[p].spec)
  /\ proc[p].pc \in {"create", "database", "publish"} => Sourced(proc[p].spec.scan)
  /\ proc[p].pc = "starting" => dir[proc[p].path].strays = 0

Capture == (\A path \in Path : CapturedBy(path)) /\ (\A p \in Process : CapturingOf(p))

\* A table gets only newer.
Newer == \A server \in Server : tables[server] <= tables'[server]

SameSource(path) ==
  /\ dir'[path].stage = dir[path].stage /\ dir'[path].definition = dir[path].definition
  /\ dir'[path].captured = dir[path].captured /\ dir'[path].strays = dir[path].strays

\* A table that was there still is, or was.
LEMMA StaysSourced ==
  ASSUME TypeOK, TypeOK', Newer, NEW spec \in ScanSpecs
  PROVE  /\ Sourced(spec) => Sourced(spec)'
         /\ spec.table < tables[spec.server] => spec.table < tables'[spec.server]
<1>1. spec.table \in Nat /\ spec.server \in Server
  BY DEF ScanSpecs
<1>2. tables[spec.server] \in Nat /\ tables'[spec.server] \in Nat
  BY <1>1 DEF TypeOK
<1>3. tables[spec.server] <= tables'[spec.server]
  BY <1>1 DEF Newer
<1> QED BY <1>1, <1>2, <1>3 DEF Sourced

LEMMA StaysCaptured ==
  ASSUME IInv, IInv', Newer, NEW path \in Path, CapturedBy(path), SameSource(path)
  PROVE  CapturedBy(path)'
<1>1. CASE dir[path].stage # "published"
  BY <1>1 DEF SameSource, CapturedBy
<1>2. CASE dir[path].stage = "published"
  <2>0. PICK spec : spec = dir[path].definition.scan
    OBVIOUS
  <2>1. spec \in ScanSpecs
    BY <1>2, <2>0 DEF IInv, Kept, KeptIn, Derived, Definitions
  <2>2. Sourced(spec)' /\ (spec.table < tables[spec.server] => spec.table < tables'[spec.server])
    BY <2>0, <2>1, <1>2, StaysSourced DEF IInv, CapturedBy
  <2>3. dir'[path].definition.scan = spec /\ dir'[path].stage = "published"
    BY <1>2, <2>0 DEF SameSource
  <2> QED BY <1>2, <2>0, <2>2, <2>3 DEF SameSource, CapturedBy, Sourced
<1> QED BY <1>1, <1>2

LEMMA StaysCapturing ==
  ASSUME IInv, IInv', Newer, NEW q \in Process, CapturingOf(q), proc'[q] = proc[q],
         proc[q].pc = "starting" => dir'[proc[q].path].strays = dir[proc[q].path].strays
  PROVE  CapturingOf(q)'
<1>1. StepOf(q)
  BY DEF IInv, Steps
<1>2. CASE proc[q].pc = "plan"
  BY <1>1, <1>2, StaysSourced DEF StepOf, CapturingOf, IInv, Sourced
<1>3. CASE proc[q].pc \in {"create", "database", "publish"}
  <2>1. proc[q].spec.scan \in ScanSpecs
    BY <1>1, <1>3 DEF StepOf, Derived, Definitions
  <2> QED BY <2>1, <1>3, StaysSourced DEF CapturingOf, IInv, Sourced
<1>4. CASE proc[q].pc \notin {"plan", "create", "database", "publish"}
  BY <1>4 DEF CapturingOf
<1> QED BY <1>2, <1>3, <1>4

\* What is left to show of a step that changes one process and one directory.
LEMMA CaptureFrame ==
  ASSUME IInv, IInv', Capture, Newer,
         NEW p \in Process, \A q \in Process \ {p} : proc'[q] = proc[q], CapturingOf(p)',
         NEW path \in Path, \A other \in Path \ {path} : SameSource(other), CapturedBy(path)',
         \A q \in Process \ {p} : proc[q].pc = "starting" /\ proc[q].path = path =>
                                    dir'[path].strays = dir[path].strays
  PROVE  Capture'
<1>1. ASSUME NEW other \in Path \ {path} PROVE CapturedBy(other)'
  BY <1>1, StaysCaptured DEF Capture
<1>2. ASSUME NEW q \in Process \ {p} PROVE CapturingOf(q)'
  <2>1. proc[q].pc = "starting" => proc[q].path \in Path
    BY DEF IInv, Steps, StepOf
  <2>2. proc[q].pc = "starting" => dir'[proc[q].path].strays = dir[proc[q].path].strays
    BY <2>1 DEF SameSource
  <2> QED BY <2>2, StaysCapturing DEF Capture
<1> QED BY <1>1, <1>2 DEF Capture

\* And of one that changes no directory's source.
LEMMA CaptureQuiet ==
  ASSUME IInv, IInv', Capture, Newer,
         NEW p \in Process, \A q \in Process \ {p} : proc'[q] = proc[q], CapturingOf(p)',
         \A path \in Path : SameSource(path)
  PROVE  Capture'
<1>1. ASSUME NEW path \in Path PROVE CapturedBy(path)'
  BY <1>1, StaysCaptured DEF Capture
<1>2. ASSUME NEW q \in Process \ {p} PROVE CapturingOf(q)'
  <2>1. proc[q].pc = "starting" => proc[q].path \in Path
    BY DEF IInv, Steps, StepOf
  <2>2. proc[q].pc = "starting" => dir'[proc[q].path].strays = dir[proc[q].path].strays
    BY <2>1 DEF SameSource
  <2> QED BY <2>2, StaysCapturing DEF Capture
<1> QED BY <1>1, <1>2 DEF Capture

LEMMA SameTables ==
  ASSUME IInv, tables' = tables
  PROVE  Newer
<1>1. \A server \in Server : tables[server] \in Nat
  BY DEF IInv, TypeOK
<1> QED BY <1>1 DEF Newer

\* A process that ends, or moves to a step that knows nothing of a source.
LEMMA CaptureMoves ==
  ASSUME IInv, IInv', Capture, NEW p \in Process, \A q \in Process \ {p} : proc'[q] = proc[q],
         proc'[p].pc \notin {"plan", "create", "database", "publish", "starting"},
         \A path \in Path : SameSource(path), tables' = tables
  PROVE  Capture'
<1>1. CapturingOf(p)'
  BY DEF CapturingOf
<1> QED BY <1>1, SameTables, CaptureQuiet

LEMMA CaptureEnds ==
  ASSUME IInv, IInv', Capture, NEW p \in Process, Refuse(p) \/ Crash(p)
  PROVE  Capture'
<1>1. proc' = [proc EXCEPT ![p] = Idle] /\ UNCHANGED <<dir, tables>>
  BY DEF Refuse, Crash, End
<1>2. proc'[p] = Idle /\ Idle.pc = "idle" /\ \A q \in Process \ {p} : proc'[q] = proc[q]
  BY <1>1 DEF IInv, TypeOK, Idle
<1>3. \A path \in Path : SameSource(path)
  BY <1>1 DEF SameSource
<1> QED BY <1>1, <1>2, <1>3, CaptureMoves

\* A start begins with a discovery or opens a directory.
LEMMA CaptureStarts ==
  ASSUME IInv, IInv', Capture, NEW p \in Process, NEW name, NEW program, Start(p, name, program)
  PROVE  Capture'
<1> DEFINE pc == IF resolve_state_path(name).exists THEN "open" ELSE "discover"
           begun == [Idle EXCEPT !.pc = pc, !.program = program, !.path = resolve_state_path(name).path]
<1>1. proc' = [proc EXCEPT ![p] = begun] /\ UNCHANGED <<dir, tables>>
  BY DEF Start, external
<1>2. begun.pc = pc /\ pc \in {"open", "discover"}
  BY DEF Idle
<1> HIDE DEF begun, pc
<1>3. proc'[p] = begun /\ \A q \in Process \ {p} : proc'[q] = proc[q]
  BY <1>1 DEF IInv, TypeOK
<1>4. \A path \in Path : SameSource(path)
  BY <1>1 DEF SameSource
<1> QED BY <1>1, <1>2, <1>3, <1>4, CaptureMoves

\* A discovery reads the table that is there, and the setup carries it along.
LEMMA CaptureDiscovers ==
  ASSUME IInv, IInv', Capture, NEW p \in Process, DiscoverScan(p) \/ DiscoverSink(p)
  PROVE  Capture'
<1>1. CASE Refuse(p)
  BY <1>1, CaptureEnds
<1>2. CASE ~Refuse(p) /\ DiscoverScan(p)
  <2>1. /\ proc' = [proc EXCEPT ![p].pc = "plan", ![p].spec = ScanSpec(p)]
        /\ UNCHANGED <<dir, tables>> /\ proc[p].pc # "idle"
    BY <1>2 DEF DiscoverScan, external
  <2>2. /\ proc'[p].pc = "plan" /\ proc'[p].spec = ScanSpec(p)
        /\ \A q \in Process \ {p} : proc'[q] = proc[q]
    BY <2>1 DEF IInv, TypeOK, Processes
  <2>3. ScanSpec(p).table = tables[ScanSpec(p).server] /\ ScanSpec(p).table \in Nat
    BY <2>1, SpecFacts DEF ScanSpec, ScanSpecs
  <2>4. CapturingOf(p)'
    BY <2>1, <2>2, <2>3 DEF CapturingOf, Sourced
  <2>5. \A path \in Path : SameSource(path)
    BY <2>1 DEF SameSource
  <2> QED BY <2>1, <2>2, <2>4, <2>5, SameTables, CaptureQuiet
<1>3. CASE ~Refuse(p) /\ DiscoverSink(p)
  <2> DEFINE spec == [owner_identity |-> identity(proc[p].program), scan |-> proc[p].spec,
                      sink |-> SinkSpec(p)]
  <2>1. /\ proc' = [proc EXCEPT ![p].pc = "create", ![p].spec = spec]
        /\ UNCHANGED <<dir, tables>> /\ proc[p].pc = "plan"
    BY <1>3 DEF DiscoverSink, external
  <2>2. spec.scan = proc[p].spec
    OBVIOUS
  <2> HIDE DEF spec
  <2>3. /\ proc'[p].pc = "create" /\ proc'[p].spec = spec
        /\ \A q \in Process \ {p} : proc'[q] = proc[q]
    BY <2>1 DEF IInv, TypeOK, Processes
  <2>4. CapturingOf(p)'
    BY <2>1, <2>2, <2>3 DEF Capture, CapturingOf, Sourced
  <2>5. \A path \in Path : SameSource(path)
    BY <2>1 DEF SameSource
  <2> QED BY <2>1, <2>3, <2>4, <2>5, SameTables, CaptureQuiet
<1> QED BY <1>1, <1>2, <1>3

\* A step of a setup: the process goes on, and the directory has captured nothing.
LEMMA CaptureBuilds ==
  ASSUME IInv, IInv', Capture, NEW p \in Process, NEW path \in Path, path = proc[p].path,
         proc[p].pc \in {"create", "database", "publish"}, dir[path].stage # "published",
         NEW pc \in {"database", "publish", "live"}, To(p, pc), tables' = tables,
         NEW d, dir' = [dir EXCEPT ![path] = d], d.captured = {}, d.strays = 0,
         d.stage = "published" => d.definition = proc[p].spec
  PROVE  Capture'
<1>1. /\ proc'[p].pc = pc /\ proc'[p].spec = proc[p].spec /\ proc'[p].path = path
      /\ \A q \in Process \ {p} : proc'[q] = proc[q]
  BY ToFields, ToFacts DEF IInv, PCs
<1>2. dir'[path] = d /\ \A other \in Path \ {path} : SameSource(other)
  BY DEF IInv, TypeOK, SameSource
<1>3. Sourced(proc[p].spec.scan) /\ Sourced(proc[p].spec.scan)'
  BY <1>1 DEF Capture, CapturingOf, Sourced
<1>4. CapturingOf(p)'
  BY <1>1, <1>3 DEF CapturingOf, Sourced
<1>5. CapturedBy(path)'
  BY <1>2, <1>3 DEF CapturedBy, Sourced
<1>6. ASSUME NEW q \in Process, proc[q].pc = "starting" PROVE proc[q].path # path
  BY <1>6 DEF IInv, Steps, StepOf
<1> QED BY <1>1, <1>2, <1>4, <1>5, <1>6, SameTables, CaptureFrame

LEMMA CaptureSetup ==
  ASSUME IInv, IInv', Capture, NEW p \in Process, CreateDir(p) \/ CreateDatabase(p) \/ Publish(p)
  PROVE  Capture'
<1>1. CASE Refuse(p)
  BY <1>1, CaptureEnds
<1>2. PICK path : path = proc[p].path
  OBVIOUS
<1>0. StepOf(p) /\ Capture
  BY DEF IInv, Steps
<1>3. CASE ~Refuse(p) /\ CreateDir(p)
  <2> DEFINE d == [NoDirectory EXCEPT !.stage = "created", !.life = dir[path].life + 1]
  <2>1. /\ proc[p].pc = "create" /\ ~Occupied(path) /\ To(p, "database") /\ tables' = tables
        /\ dir' = [dir EXCEPT ![path] = d]
    BY <1>2, <1>3 DEF CreateDir, external
  <2>2. path \in Path /\ dir[path].stage = "absent"
    BY <2>1, <1>0, <1>2 DEF StepOf, Occupied, Exists, Names
  <2>3. d.captured = {} /\ d.strays = 0 /\ d.stage = "created"
    BY DEF NoDirectory
  <2> HIDE DEF d
  <2> QED BY <2>1, <2>2, <2>3, <1>2, CaptureBuilds
<1>4. CASE ~Refuse(p) /\ CreateDatabase(p)
  <2> DEFINE d == [dir[path] EXCEPT !.stage = "database"]
  <2>1. /\ proc[p].pc = "database" /\ To(p, "publish") /\ tables' = tables
        /\ dir' = [dir EXCEPT ![path] = d]
    BY <1>2, <1>4 DEF CreateDatabase, external
  <2>2. path \in Path /\ dir[path].stage = "created" /\ dir[path] \in Directories
    BY <2>1, <1>0, <1>2 DEF StepOf, IInv, TypeOK
  <2>3. dir[path].captured = {} /\ dir[path].strays = 0
    BY <2>2, <1>0 DEF Capture, CapturedBy
  <2>4. d.captured = {} /\ d.strays = 0 /\ d.stage = "database"
    BY <2>2, <2>3 DEF Directories
  <2> HIDE DEF d
  <2> QED BY <2>1, <2>2, <2>4, <1>2, CaptureBuilds
<1>5. CASE ~Refuse(p) /\ Publish(p)
  <2> DEFINE d == [dir[path] EXCEPT !.stage = "published", !.definition = proc[p].spec]
  <2>1. /\ proc[p].pc = "publish" /\ To(p, "live") /\ tables' = tables
        /\ dir' = [dir EXCEPT ![path] = d]
    BY <1>2, <1>5 DEF Publish, external
  <2>2. path \in Path /\ dir[path].stage = "database" /\ dir[path] \in Directories
    BY <2>1, <1>0, <1>2 DEF StepOf, IInv, TypeOK
  <2>3. dir[path].captured = {} /\ dir[path].strays = 0
    BY <2>2, <1>0 DEF Capture, CapturedBy
  <2>4. d.captured = {} /\ d.strays = 0 /\ d.definition = proc[p].spec
    BY <2>2, <2>3 DEF Directories
  <2> HIDE DEF d
  <2> QED BY <2>1, <2>2, <2>4, <1>2, CaptureBuilds
<1> QED BY <1>1, <1>3, <1>4, <1>5

LEMMA CaptureReopens ==
  ASSUME IInv, IInv', Capture, NEW p \in Process, Reopen(p)
  PROVE  Capture'
<1>1. CASE Refuse(p)
  BY <1>1, CaptureEnds
<1>2. ASSUME NEW pc \in {"check", "live"}, To(p, pc), UNCHANGED <<dir, tables>> PROVE Capture'
  <2>1. proc'[p].pc = pc /\ \A q \in Process \ {p} : proc'[q] = proc[q]
    BY <1>2, ToFields, ToFacts DEF IInv, PCs
  <2>2. \A path \in Path : SameSource(path)
    BY <1>2 DEF SameSource
  <2> QED BY <1>2, <2>1, <2>2, CaptureMoves
<1> QED BY <1>1, <1>2 DEF Reopen, AcquireLock, Open, external

\* What another part of a flow keeps in the directory is not about its source.
LEMMA OtherPart ==
  ASSUME IInv, NEW path \in Path, NEW at, NEW phase,
         \/ dir' = [dir EXCEPT ![at].phase = phase]
         \/ dir' = [dir EXCEPT ![at].sink = phase]
  PROVE  SameSource(path)
<1>1. dir[path] \in Directories /\ dir \in [Path -> Directories]
  BY DEF IInv, TypeOK
<1>2. CASE dir' = [dir EXCEPT ![at].phase = phase]
  BY <1>1, <1>2 DEF SameSource, Directories
<1>3. CASE dir' = [dir EXCEPT ![at].sink = phase]
  BY <1>1, <1>3 DEF SameSource, Directories
<1> QED BY <1>2, <1>3

\* A connector is about to start only while the discovered table is there.
LEMMA CaptureVerifies ==
  ASSUME IInv, IInv', Capture, NEW p \in Process, VerifySnapshot(p) \/ VerifyStreaming(p)
  PROVE  Capture'
<1>1. CASE Refuse(p)
  BY <1>1, CaptureEnds
<1>2. CASE ~Refuse(p)
  <2>1. PICK path : path = proc[p].path
    OBVIOUS
  <2>2. Live(p) /\ verify(p) /\ To(p, "starting") /\ UNCHANGED <<dir, tables>>
    BY <1>2 DEF VerifySnapshot, VerifyStreaming, Verify, external
  <2>3. path \in Path /\ dir[path].stage = "published" /\ dir[path].definition \in Definitions
    BY <2>1, <2>2, LiveFacts DEF Live, Running
  <2>4. /\ proc'[p].pc = "starting" /\ proc'[p].path = path
        /\ \A q \in Process \ {p} : proc'[q] = proc[q]
    BY <2>1, <2>2, ToFields, ToFacts DEF IInv, PCs
  <2>5. dir[path].definition.scan.table = tables[dir[path].definition.scan.server]
    BY <2>1, <2>2 DEF verify, Definition
  <2>6. dir[path].definition.scan.table \in Nat
    BY <2>3 DEF Definitions, ScanSpecs
  <2>7. dir[path].strays = 0
    BY <2>3, <2>5, <2>6 DEF Capture, CapturedBy
  <2>8. CapturingOf(p)'
    BY <2>2, <2>4, <2>7 DEF CapturingOf
  <2>9. \A other \in Path : SameSource(other)
    BY <2>2 DEF SameSource
  <2> QED BY <2>2, <2>4, <2>8, <2>9, SameTables, CaptureQuiet
<1> QED BY <1>1, <1>2

\* The connector comes up on that table or on a newer one, and then it is the last.
LEMMA CaptureConnects ==
  ASSUME IInv, IInv', Capture, NEW p \in Process, proc[p].pc = "starting", Connect(p)
  PROVE  Capture'
<1>1. PICK path : path = proc[p].path
  OBVIOUS
<1> DEFINE server == proc[p].program.scan.server
           stray == IF tables[server] = Definition(p).scan.table THEN 0 ELSE 1
           my == [proc[p] EXCEPT !.pc = "live", !.connected = TRUE]
           d == [dir[path] EXCEPT !.captured = @ \cup {server}, !.strays = @ + stray]
<1>2. /\ path \in Path /\ dir[path].stage = "published" /\ dir[path].definition \in Definitions
      /\ dir[path] \in Directories /\ proc[p] \in Processes
      /\ \A q \in Process \ {p} : Owner(q) => proc[q].path # path
  BY <1>1, LiveFacts DEF Running
<1>3. Definition(p) = dir[path].definition
  BY <1>1 DEF Definition
<1>4. server = dir[path].definition.scan.server
  BY <1>1, <1>3 DEF IInv, SlotKept, ConnectedOf
<1>5. /\ proc' = [proc EXCEPT ![p] = my] /\ dir' = [dir EXCEPT ![path] = d] /\ tables' = tables
  BY <1>1, <1>2 DEF Connect, IInv, TypeOK
<1>6. /\ d.stage = "published" /\ d.definition = dir[path].definition
      /\ d.captured = dir[path].captured \cup {server} /\ d.strays = dir[path].strays + stray
  BY <1>2 DEF Directories
<1>7. my.pc = "live"
  BY <1>2 DEF Processes
<1>8. stray \in {0, 1} /\ (stray = 1 => tables[server] # dir[path].definition.scan.table)
  BY <1>3
<1> HIDE DEF d, my, stray, server
<1>9. proc'[p] = my /\ \A q \in Process \ {p} : proc'[q] = proc[q]
  BY <1>5 DEF IInv, TypeOK
<1>10. dir'[path] = d /\ \A other \in Path \ {path} : SameSource(other)
  BY <1>2, <1>5 DEF IInv, TypeOK, SameSource
<1>11. /\ dir[path].strays = 0 /\ dir[path].captured \subseteq {server}
       /\ Sourced(dir[path].definition.scan)
  BY <1>1, <1>2, <1>4 DEF Capture, CapturingOf, CapturedBy
<1>12. dir[path].definition.scan.table \in Nat /\ server \in Server
  BY <1>2, <1>4 DEF Definitions, ScanSpecs
<1>13. tables[server] \in Nat
  BY <1>12 DEF IInv, TypeOK
<1>14. stray = 1 => dir[path].definition.scan.table < tables[server]
  BY <1>4, <1>8, <1>11, <1>12, <1>13 DEF Sourced
<1>15. d.strays = stray
  BY <1>6, <1>8, <1>11
<1>16. CapturedBy(path)'
  BY <1>4, <1>5, <1>6, <1>8, <1>10, <1>11, <1>14, <1>15 DEF CapturedBy, Sourced
<1>17. CapturingOf(p)'
  BY <1>7, <1>9 DEF CapturingOf
<1>18. \A q \in Process \ {p} : proc[q].pc = "starting" => proc[q].path # path
  BY <1>2 DEF Owner
<1> QED BY <1>2, <1>5, <1>9, <1>10, <1>16, <1>17, <1>18, SameTables, CaptureFrame

LEMMA CaptureSource ==
  ASSUME IInv, IInv', Capture, NEW p \in Process, Source(p)
  PROVE  Capture'
<1>1. PICK path : path = proc[p].path
  OBVIOUS
<1>2. CASE Refuse(p)
  BY <1>2, CaptureEnds
<1>3. CASE VerifySnapshot(p) \/ VerifyStreaming(p)
  BY <1>3, CaptureVerifies
<1>4. CASE StartSnapshot(p) \/ StartStreaming(p)
  BY <1>4, CaptureConnects DEF StartSnapshot, StartStreaming
<1>5. ASSUME ~Refuse(p), BeginCapture(p) \/ Seal(p) \/ PrepareReset(p) \/ Reset(p)
      PROVE  Capture'
  <2>1. Live(p) /\ tables' = tables
    BY <1>5 DEF BeginCapture, Seal, PrepareReset, Reset, external
  <2>2. path \in Path /\ dir[path] \in Directories /\ proc[p] \in Processes
    BY <1>1, <2>1, LiveFacts DEF Live, Running
  <2>3. PICK my : proc' = [proc EXCEPT ![p] = my] /\ my.pc = "live"
    <3>1. CASE BeginCapture(p)
      <4> WITNESS [proc[p] EXCEPT !.step = "capture"]
      <4> QED BY <3>1, <2>1, <2>2 DEF BeginCapture, Live, Processes, IInv, TypeOK
    <3>2. CASE Seal(p)
      <4> WITNESS [proc[p] EXCEPT !.connected = FALSE]
      <4> QED BY <3>2, <2>1, <2>2 DEF Seal, Live, Processes, IInv, TypeOK
    <3>3. CASE PrepareReset(p)
      <4> WITNESS [proc[p] EXCEPT !.step = "reset"]
      <4> QED BY <3>3, <1>5, <2>1, <2>2 DEF PrepareReset, Live, Processes, IInv, TypeOK
    <3>4. CASE Reset(p)
      <4> WITNESS proc[p]
      <4> QED BY <3>4, <2>1 DEF Reset, Live, IInv, TypeOK
    <3> QED BY <1>5, <3>1, <3>2, <3>3, <3>4
  <2>4. \E phase : dir' = [dir EXCEPT ![path].phase = phase]
    <3>1. CASE BeginCapture(p) \/ Seal(p) \/ Reset(p)
      BY <3>1, <1>1 DEF BeginCapture, Seal, Reset
    <3>2. CASE PrepareReset(p)
      <4>1. dir' = dir
        BY <3>2, <1>5 DEF PrepareReset
      <4>2. dir' = [dir EXCEPT ![path].phase = dir[path].phase]
        BY <4>1, <2>2 DEF IInv, TypeOK, Directories
      <4> QED BY <4>2
    <3> QED BY <1>5, <3>1, <3>2
  <2>5. \A other \in Path : SameSource(other)
    BY <2>4, OtherPart
  <2>6. proc'[p] = my /\ \A q \in Process \ {p} : proc'[q] = proc[q]
    BY <2>3 DEF IInv, TypeOK
  <2> QED BY <2>1, <2>3, <2>5, <2>6, CaptureMoves
<1> QED BY <1>2, <1>3, <1>4, <1>5 DEF Source

LEMMA CaptureSink ==
  ASSUME IInv, IInv', Capture, NEW p \in Process, SinkSteps(p)
  PROVE  Capture'
<1>1. CASE Refuse(p)
  BY <1>1, CaptureEnds
<1>2. CASE ~Refuse(p)
  <2>1. Live(p) /\ tables' = tables /\ proc' = proc
    BY <1>2 DEF SinkSteps, PersistInitialize, CreateTarget, Create, FinishInitialize, Deliver, external
  <2>2. ASSUME NEW path \in Path PROVE SameSource(path)
    <3>1. UNCHANGED dir \/ \E phase : dir' = [dir EXCEPT ![proc[p].path].sink = phase]
      BY <1>2 DEF SinkSteps, PersistInitialize, CreateTarget, Create, FinishInitialize, Deliver
    <3>2. UNCHANGED dir => SameSource(path)
      BY DEF SameSource
    <3> QED BY <3>1, <3>2, OtherPart
  <2>3. proc'[p].pc = "live" /\ \A q \in Process \ {p} : proc'[q] = proc[q]
    BY <2>1 DEF Live
  <2> QED BY <2>1, <2>2, <2>3, CaptureMoves
<1> QED BY <1>1, <1>2

\* No process moves: a slot is released, a directory is removed, a table recreated.
LEMMA CaptureEnvironment ==
  ASSUME IInv, IInv', Capture, proc' = proc, Newer,
         \A path \in Path : \/ SameSource(path)
                            \/ /\ dir'[path] = [NoDirectory EXCEPT !.life = dir[path].life]
                               /\ \A p \in Process : proc[p].path = path => proc[p].pc # "starting"
  PROVE  Capture'
<1>1. ASSUME NEW path \in Path PROVE CapturedBy(path)'
  <2>1. CASE SameSource(path)
    BY <2>1, StaysCaptured DEF Capture
  <2>2. CASE ~SameSource(path)
    <3>1. dir'[path].stage = "absent" /\ dir'[path].captured = {} /\ dir'[path].strays = 0
      BY <2>2 DEF NoDirectory
    <3> QED BY <3>1 DEF CapturedBy
  <2> QED BY <2>1, <2>2
<1>2. ASSUME NEW q \in Process PROVE CapturingOf(q)'
  <2>1. proc[q].pc = "starting" => proc[q].path \in Path
    BY DEF IInv, Steps, StepOf
  <2>2. proc[q].pc = "starting" => dir'[proc[q].path].strays = dir[proc[q].path].strays
    BY <2>1 DEF SameSource
  <2> QED BY <2>2, StaysCapturing DEF Capture
<1> QED BY <1>1, <1>2 DEF Capture

LEMMA CaptureInductive ==
  ASSUME IInv, IInv', Capture, [Next]_vars
  PROVE  Capture'
<1>1. CASE UNCHANGED <<dir, proc, tables>>
  <2>1. \A path \in Path : SameSource(path)
    BY <1>1 DEF SameSource
  <2> QED BY <1>1, <2>1, SameTables, CaptureEnvironment
<1>2. ASSUME NEW p \in Process, NEW start \in world.starts, Start(p, start.name, start.program)
      PROVE  Capture'
  BY <1>2, CaptureStarts
<1>3. ASSUME NEW p \in Process, Build(p) PROVE Capture'
  BY <1>3, CaptureDiscovers, CaptureSetup DEF Build
<1>4. ASSUME NEW path \in Path, RemoveDirectory(path) PROVE Capture'
  <2>1. /\ dir' = [dir EXCEPT ![path] = [NoDirectory EXCEPT !.life = dir[path].life]]
        /\ UNCHANGED <<proc, tables>>
        /\ \A p \in Process : proc[p].path = path => proc[p].pc # "starting"
    BY <1>4 DEF RemoveDirectory, external
  <2>2. dir'[path] = [NoDirectory EXCEPT !.life = dir[path].life]
    BY <2>1 DEF IInv, TypeOK
  <2>3. \A other \in Path \ {path} : SameSource(other)
    BY <2>1 DEF SameSource, IInv, TypeOK
  <2> QED BY <2>1, <2>2, <2>3, SameTables, CaptureEnvironment
<1>5. ASSUME NEW server \in Server, RecreateTable(server) PROVE Capture'
  <2>1. tables' = [tables EXCEPT ![server] = @ + 1] /\ UNCHANGED <<dir, proc>>
    BY <1>5 DEF RecreateTable
  <2>2. Newer
    BY <2>1 DEF Newer, IInv, TypeOK
  <2>3. \A path \in Path : SameSource(path)
    BY <2>1 DEF SameSource
  <2> QED BY <2>1, <2>2, <2>3, CaptureEnvironment
<1>6. ASSUME NEW slot, SlotReleased(slot) PROVE UNCHANGED <<dir, proc, tables>>
  BY <1>6 DEF SlotReleased
<1>7. UNCHANGED vars => UNCHANGED <<dir, proc, tables>>
  BY DEF vars, external
<1> QED BY <1>1, <1>2, <1>3, <1>4, <1>5, <1>6, <1>7, CaptureReopens, CaptureSource, CaptureSink,
           CaptureEnds DEF Next, Step

LEMMA CaptureInvariance == Spec => [](IInv /\ Capture)
<1>1. Init => IInv /\ Capture
  <2> SUFFICES ASSUME Init PROVE Capture
    BY Initially
  <2>1. ASSUME NEW path \in Path PROVE CapturedBy(path)
    <3>1. dir[path] = NoDirectory
      BY DEF Init
    <3> QED BY <3>1 DEF NoDirectory, CapturedBy
  <2>2. ASSUME NEW p \in Process PROVE CapturingOf(p)
    <3>1. proc[p].pc = "idle"
      BY DEF Init, Idle
    <3> QED BY <3>1 DEF CapturingOf
  <2> QED BY <2>1, <2>2 DEF Capture
<1>2. IInv /\ Capture /\ [Next]_vars => (IInv /\ Capture)'
  BY Inductive, CaptureInductive
<1> QED BY <1>1, <1>2, PTL DEF Spec

-----------------------------------------------------------------------------
(* What a directory has to itself, and keeps.                              *)

\* Every running flow runs its own program's definition alone (start, Store::open,
\* FlowFactory::open); all connectors of one life of a directory capture from one
\* server, and of a table that was recreated between a connector's check and its
\* start at most that one connector captures (verify); and one life of one
\* directory writes to a target that carries a marker, one life of each directory
\* to a SQLite table (require_absent, initialize, require_owned_layout).
THEOREM DirectoryHasOneOwner == Spec => []OneOwner
<1>1. IInv /\ Capture => OneOwner
  <2> SUFFICES ASSUME IInv, Capture PROVE OneOwner
    OBVIOUS
  <2>1. ASSUME NEW p \in Process, Running(p)
        PROVE  /\ dir[proc[p].path].stage = "published"
               /\ Definition(p).owner_identity = identity(proc[p].program)
               /\ \A q \in Process \ {p} : Running(q) => proc[q].path # proc[p].path
    <3>1. StepOf(p)
      BY DEF IInv, Steps
    <3>2. \A q \in Process \ {p} : Running(q) => proc[q].path # proc[p].path
      BY <2>1 DEF IInv, Exclusive, Owner, Running
    <3> QED BY <2>1, <3>1, <3>2 DEF StepOf, Running, Definition
  <2>2. RunsItsOwnState
    BY <2>1 DEF RunsItsOwnState
  <2>3. ASSUME NEW path \in Path PROVE Cardinality(dir[path].captured) <= 1 /\ dir[path].strays <= 1
    <3>1. CapturedBy(path)
      BY DEF Capture
    <3>2. \A x, y \in dir[path].captured : x = y
      BY <3>1 DEF CapturedBy
    <3>3. dir[path].strays \in {0, 1}
      BY <3>1 DEF CapturedBy
    <3>4. dir[path].strays <= 1
      BY <3>3
    <3> QED BY <3>2, <3>4, AtMostOne
  <2>4. CapturesItsOwn
    BY <2>3 DEF CapturesItsOwn
  <2>5. OneWriter
    BY DEF OneWriter, IInv, TargetKept, Written
  <2> QED BY <2>2, <2>4, <2>5 DEF OneOwner
<1> QED BY <1>1, CaptureInvariance, PTL

\* A streaming directory still has its slot, and a ready sink its own objects,
\* whatever resets, setups and deliveries of other directories did
\* (drop_snapshot_slot, require_absent).
THEOREM DirectoryKeepsItsOwn == Spec => []KeepsItsOwn
<1>1. IInv => KeepsItsOwn
  <2> SUFFICES ASSUME IInv, NEW path \in Path, dir[path].stage = "published"
               PROVE  LET definition == dir[path].definition
                      IN /\ (dir[path].phase = "streaming" /\ HasSlot(definition.owner_identity.scan)) =>
                              SlotOf(definition.scan) \in slots
                         /\ dir[path].sink = "ready" =>
                              /\ TargetsAt(definition.sink) # {}
                              /\ \A t \in TargetsAt(definition.sink) : t.marker = definition.sink.name
    BY DEF KeepsItsOwn
  <2>1. StreamsFrom(path) /\ ReadyAt(path)
    BY DEF IInv, SlotKept, TargetKept
  <2> QED BY <2>1 DEF StreamsFrom, ReadyAt, Slotted
<1> QED BY <1>1, Invariance, PTL

\* What PublishedIsKept says of one directory.
KeptByStep(path) ==
  LET before == dir[path]
      after  == dir'[path]
  IN (after.stage # "absent" /\ before.stage # "absent") =>
       /\ after.life = before.life
       /\ before.stage = "published" =>
            after.stage = "published" /\ after.definition = before.definition
       /\ after.stage # before.stage =>
            \E p \in Process : proc[p].path = path /\ proc[p].pc \in {"database", "publish"}

\* The steps of a running flow leave stage, definition and life alone.
LEMMA LiveKeeps ==
  ASSUME IInv, NEW p \in Process, Source(p) \/ SinkSteps(p), NEW path \in Path
  PROVE  KeptByStep(path)
<1>1. dir[path] \in Directories
  BY DEF IInv, TypeOK
<1>2. SUFFICES /\ dir'[path].stage = dir[path].stage
               /\ dir'[path].definition = dir[path].definition
               /\ dir'[path].life = dir[path].life
  BY DEF KeptByStep
<1>3. CASE UNCHANGED dir
  BY <1>3
<1>4. ASSUME NEW phase, dir' = [dir EXCEPT ![proc[p].path].phase = phase]
      PROVE  /\ dir'[path].stage = dir[path].stage
             /\ dir'[path].definition = dir[path].definition
             /\ dir'[path].life = dir[path].life
  BY <1>1, <1>4 DEF IInv, TypeOK, Directories
<1>5. ASSUME NEW phase, dir' = [dir EXCEPT ![proc[p].path].sink = phase]
      PROVE  /\ dir'[path].stage = dir[path].stage
             /\ dir'[path].definition = dir[path].definition
             /\ dir'[path].life = dir[path].life
  BY <1>1, <1>5 DEF IInv, TypeOK, Directories
<1>6. ASSUME Connect(p)
      PROVE  /\ dir'[path].stage = dir[path].stage
             /\ dir'[path].definition = dir[path].definition
             /\ dir'[path].life = dir[path].life
  BY <1>1, <1>6 DEF IInv, TypeOK, Directories, Connect
<1>7. CASE Source(p)
  <2>1. UNCHANGED dir \/ Connect(p) \/ \E phase : dir' = [dir EXCEPT ![proc[p].path].phase = phase]
    BY <1>7 DEF Source, BeginCapture, VerifySnapshot, VerifyStreaming, Verify, StartSnapshot,
       StartStreaming, Seal, PrepareReset, Reset, Refuse
  <2> QED BY <2>1, <1>3, <1>4, <1>6
<1>8. CASE SinkSteps(p)
  <2>1. UNCHANGED dir \/ \E phase : dir' = [dir EXCEPT ![proc[p].path].sink = phase]
    BY <1>8 DEF SinkSteps, PersistInitialize, CreateTarget, Create, FinishInitialize, Deliver, Refuse
  <2> QED BY <2>1, <1>3, <1>5
<1> QED BY <1>7, <1>8

\* A setup changes the stage of a directory that is not published, and only by
\* the process that is setting it up.
LEMMA BuildKeeps ==
  ASSUME IInv, NEW p \in Process, Build(p), NEW path \in Path
  PROVE  KeptByStep(path)
<1>1. dir[path] \in Directories
  BY DEF IInv, TypeOK
<1>2. CASE UNCHANGED dir
  BY <1>2 DEF KeptByStep
<1>3. CASE proc[p].path # path
  <2>1. dir'[path] = dir[path]
    BY <1>3 DEF Build, DiscoverScan, DiscoverSink, CreateDir, CreateDatabase, Publish, Refuse,
       IInv, TypeOK
  <2> QED BY <2>1 DEF KeptByStep
<1>4. CASE proc[p].path = path /\ dir' # dir
  <2>1. CASE CreateDir(p)
    <3>1. dir[path].stage = "absent"
      BY <2>1, <1>4 DEF CreateDir, Refuse, Occupied, Exists
    <3> QED BY <3>1 DEF KeptByStep
  <2>2. CASE CreateDatabase(p)
    <3>1. proc[p].pc = "database" /\ dir' = [dir EXCEPT ![path].stage = "database"]
      BY <2>2, <1>4 DEF CreateDatabase, Refuse
    <3>2. dir[path].stage = "created"
      BY <3>1, <1>4 DEF IInv, Steps, StepOf
    <3>3. dir'[path].life = dir[path].life
      BY <3>1, <1>1 DEF IInv, TypeOK, Directories
    <3> QED BY <3>1, <3>2, <3>3, <1>4 DEF KeptByStep
  <2>3. CASE Publish(p)
    <3>1. /\ proc[p].pc = "publish"
          /\ dir' = [dir EXCEPT ![path].stage = "published", ![path].definition = proc[p].spec]
      BY <2>3, <1>4 DEF Publish
    <3>2. dir[path].stage = "database"
      BY <3>1, <1>4 DEF IInv, Steps, StepOf
    <3>3. dir'[path].life = dir[path].life
      BY <3>1, <1>1 DEF IInv, TypeOK, Directories
    <3> QED BY <3>1, <3>2, <3>3, <1>4 DEF KeptByStep
  <2>4. CASE DiscoverScan(p) \/ DiscoverSink(p)
    BY <2>4, <1>4 DEF DiscoverScan, DiscoverSink, Refuse
  <2> QED BY <2>1, <2>2, <2>3, <2>4 DEF Build
<1> QED BY <1>2, <1>3, <1>4

\* A published definition is never replaced, and a setup is finished by the process
\* that began it or by nobody (StoreSetup::commit, Store::open).
THEOREM PublishedDefinitionIsKept == Spec => PublishedIsKept
<1>1. IInv /\ [Next]_vars => [\A path \in Path : KeptByStep(path)]_vars
  <2> SUFFICES ASSUME IInv, Next, NEW path \in Path PROVE KeptByStep(path)
    BY DEF vars
  <2>1. CASE UNCHANGED dir
    BY <2>1 DEF KeptByStep
  <2>2. ASSUME NEW other \in Path, RemoveDirectory(other) PROVE KeptByStep(path)
    <3>1. dir' = [dir EXCEPT ![other] = [NoDirectory EXCEPT !.life = dir[other].life]]
      BY <2>2 DEF RemoveDirectory
    <3>2. CASE other = path
      BY <3>1, <3>2 DEF KeptByStep, NoDirectory, IInv, TypeOK
    <3>3. CASE other # path
      BY <3>1, <3>3 DEF KeptByStep, IInv, TypeOK
    <3> QED BY <3>2, <3>3
  <2>3. ASSUME NEW p \in Process, NEW start, Start(p, start.name, start.program) PROVE UNCHANGED dir
    BY <2>3 DEF Start
  <2>4. ASSUME NEW p \in Process, Reopen(p) \/ Crash(p) PROVE UNCHANGED dir
    BY <2>4 DEF Reopen, AcquireLock, Open, Crash, Refuse
  <2>5. ASSUME NEW slot, SlotReleased(slot) PROVE UNCHANGED dir
    BY <2>5 DEF SlotReleased
  <2>6. ASSUME NEW server, RecreateTable(server) PROVE UNCHANGED dir
    BY <2>6 DEF RecreateTable
  <2> QED BY <2>1, <2>2, <2>3, <2>4, <2>5, <2>6, LiveKeeps, BuildKeeps DEF Next, Step
<1>2. [][\A path \in Path : KeptByStep(path)]_vars => PublishedIsKept
  BY DEF PublishedIsKept, KeptByStep
<1> QED BY <1>1, <1>2, Invariance, PTL DEF Spec

=============================================================================
