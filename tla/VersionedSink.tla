---------------------------- MODULE VersionedSink ----------------------------
(***************************************************************************)
(* A relation sink whose target has no transaction to keep a frontier in:  *)
(* the outbox with operation/sink/clickhouse/target.rs and                 *)
(* doris/target.rs.                                                        *)
(*                                                                         *)
(* The target is a state table that keeps, of each technical id, the row   *)
(* of the highest version, and a view of the rows whose version is their   *)
(* id.  An insertion writes version = id and a deletion writes the offset  *)
(* of its event as the version of the row it takes, so a deleted row stays *)
(* as a tombstone and repetition is harmless in any order.                 *)
(*                                                                         *)
(* A delivery is several requests, each answered on its own.  A request    *)
(* whose answer is lost or late, and a Doris commit that is not yet        *)
(* visible, may take effect at any later time, also after the process was  *)
(* restarted and has delivered other batches (late).                       *)
(***************************************************************************)
EXTENDS Outbox, RelationPlan

CONSTANT MaxLate   \* bound: requests that may still take effect

ASSUME VersionedAssumption == MaxLate \in Nat

VARIABLES
  table,    \* external: the state table exists
  view,     \* external: the view exists
  rows,     \* external: id -> [row, version], what the state table shows
  late,     \* external: requests that failed and may still take effect
  matches,  \* answers to the lookups of the delivery in progress
  actions   \* the rows write_relation_batch is about to send

targetVars == <<table, view, rows, late>>
localVars  == <<matches, actions>>
vars == <<store, durable, pc, loaded, needsReopen, table, view, rows, late,
          matches, actions>>

Empty == [x \in {} |-> 0]

\* The state table is there, and has the layout that the sink gave it.
verify_state == table

\* The view is there, over that table.
verify_view == view

\* ensure_ready
Ready == verify_state /\ verify_view

Effect(kind, new) == [kind |-> kind, rows |-> new]

Live(row) == {id \in DOMAIN rows : rows[id] = [row |-> row, version |-> id]}

-----------------------------------------------------------------------------
(* The state table.                                                        *)

\* Mutant: the last write wins.
MergeOverwrites(old, new) ==
  [id \in DOMAIN old \cup DOMAIN new |-> IF id \in DOMAIN new THEN new[id] ELSE old[id]]

\* ReplacingMergeTree(version) and function_column.sequence_col.
Merge(old, new) ==
  [id \in DOMAIN old \cup DOMAIN new |->
     IF id \in DOMAIN new /\ (id \notin DOMAIN old \/ new[id].version >= old[id].version)
     THEN new[id] ELSE old[id]]

\* lookup, for one row: the highest version of any of its ids, dead ones
\* included, and its oldest live ids.
Lookup(row) ==
  LET versions == {rows[id].version : id \in {i \in DOMAIN rows : rows[i].row = row}}
  IN [through |-> IF versions = {} THEN 0 ELSE Max(versions),
      ids     |-> Smallest(Live(row), Take(loaded, First(loaded), row))]

\* Mutant: a deletion does not say when it happened.
TerminalMutationsUnversioned(batch, m) ==
  LET from    == First(batch)
      born    == Inserts(batch, from, m)
      deletes == Deletes(batch, from, m)
      Killer(id) == {o \in deletes : Victim(batch, from, m, o) = id}
  IN [id \in born \cup {Victim(batch, from, m, o) : o \in deletes} |->
        IF Killer(id) = {} THEN [row |-> At(batch, id).row, version |-> id]
        ELSE LET o == CHOOSE o \in Killer(id) : TRUE
             IN [row |-> At(batch, o).row, version |-> id + 1]]

\* terminal_mutations: the last thing a plan does to each id.
TerminalMutations(batch, m) ==
  LET from    == First(batch)
      born    == Inserts(batch, from, m)
      deletes == Deletes(batch, from, m)
      Killer(id) == {o \in deletes : Victim(batch, from, m, o) = id}
  IN [id \in born \cup {Victim(batch, from, m, o) : o \in deletes} |->
        IF Killer(id) = {} THEN [row |-> At(batch, id).row, version |-> id]
        ELSE LET o == CHOOSE o \in Killer(id) : TRUE
             IN [row |-> At(batch, o).row, version |-> o]]

\* The stored version of an id that a plan touches lies in the delivery's domain.
read_ids(mutations) ==
  \A id \in DOMAIN mutations \cap DOMAIN rows : rows[id].version \in id .. (loaded.tail - 1)

\* An id stays with the row that it was given to.
same_row(mutations) ==
  \A id \in DOMAIN mutations \cap DOMAIN rows : rows[id].row = mutations[id].row

Readable(mutations) == read_ids(mutations) /\ same_row(mutations)

Needed(mutations) ==
  {id \in DOMAIN mutations :
     id \notin DOMAIN rows \/ rows[id].version < mutations[id].version}

-----------------------------------------------------------------------------
Init == /\ OutboxInit
        /\ table = FALSE /\ view = FALSE /\ rows = Empty /\ late = {}
        /\ matches = Empty /\ actions = Empty

\* A request that changes the target: it happens and is answered, or it
\* fails, and then it has happened, will happen later, or never does.
Request(done, undone, effect, next) ==
  \/ done /\ pc' = next /\ UNCHANGED <<late, needsReopen>>
  \/ /\ "target" \in Faults /\ FailStop
     /\ \/ done /\ UNCHANGED late
        \/ undone /\ UNCHANGED late
        \/ undone /\ Cardinality(late) < MaxLate /\ late' = late \cup {effect}

\* initialize: look at both objects.
Inspect ==
  /\ pc = "deliver" /\ IsInitialization
  /\ \/ ~table /\ ~view /\ pc' = "createTable" /\ UNCHANGED needsReopen
     \/ table /\ pc' = "inspectView" /\ UNCHANGED needsReopen
     \/ ~table /\ view /\ FailStop
  /\ UNCHANGED <<store, durable, loaded, targetVars, localVars>>

CreateTable ==
  /\ pc = "createTable"
  /\ \/ /\ ~table
        /\ Request(table' = TRUE, UNCHANGED table, Effect("table", Empty), "inspectView")
     \/ table /\ FailStop /\ UNCHANGED <<table, late>>
  /\ UNCHANGED <<store, durable, loaded, view, rows, localVars>>

InspectView ==
  /\ pc = "inspectView" /\ verify_state
  /\ pc' = IF view THEN "count" ELSE "createView"
  /\ UNCHANGED <<store, durable, loaded, needsReopen, targetVars, localVars>>

CreateView ==
  /\ pc = "createView"
  /\ \/ /\ ~view
        /\ Request(view' = TRUE, UNCHANGED view, Effect("view", Empty), "count")
     \/ view /\ FailStop /\ UNCHANGED <<view, late>>
  /\ UNCHANGED <<store, durable, loaded, table, rows, localVars>>

CountRows ==
  /\ pc = "count" /\ verify_view
  /\ \/ rows = Empty /\ pc' = "settle" /\ UNCHANGED needsReopen
     \/ rows # Empty /\ FailStop
  /\ UNCHANGED <<store, durable, loaded, targetVars, localVars>>

\* deliver_prefix: ensure_ready, then a lookup for each row the batch deletes.
\* Requests are cut by size, so another request may take effect in between.
LookUp ==
  /\ pc = "deliver" /\ ~IsInitialization /\ Ready
  /\ \E row \in Requested(loaded, First(loaded)) \ DOMAIN matches :
       matches' = [r \in DOMAIN matches \cup {row} |->
                     IF r = row THEN Lookup(row) ELSE matches[r]]
  /\ UNCHANGED <<store, durable, pc, loaded, needsReopen, targetVars, actions>>

LookedUp ==
  /\ pc = "deliver" /\ ~IsInitialization /\ Ready
  /\ DOMAIN matches = Requested(loaded, First(loaded))

PlanAccepted ==
  /\ Plannable(loaded, First(loaded), matches, Retained(store))
  /\ Readable(TerminalMutations(loaded, matches))

\* plan, then read_ids: only what the table does not have yet is sent.
ReadIds ==
  /\ LookedUp
  /\ \/ /\ PlanAccepted
        /\ LET mutations == TerminalMutations(loaded, matches)
               needed    == Needed(mutations)
           IN /\ actions' = [id \in needed |-> mutations[id]]
              /\ pc' = IF needed = {} THEN "settle" ELSE "write"
        /\ UNCHANGED needsReopen
     \/ ~PlanAccepted /\ FailStop /\ UNCHANGED actions
  /\ matches' = Empty
  /\ UNCHANGED <<store, durable, loaded, targetVars>>

\* Mutant: the rows of a batch become visible in two parts.
WriteInParts ==
  /\ pc = "write"
  /\ \E part \in SUBSET DOMAIN actions :
       /\ rows' = Merge(rows, [id \in part |-> actions[id]])
       /\ actions' = [id \in DOMAIN actions \ part |-> actions[id]]
       /\ pc' = IF part = DOMAIN actions THEN "settle" ELSE "write"
  /\ UNCHANGED <<store, durable, loaded, needsReopen, table, view, late, matches>>

\* Mutant: a commit that is not yet visible counts as done.
WriteInvisible ==
  /\ pc = "write"
  /\ \/ Request(rows' = Merge(rows, actions), UNCHANGED rows, Effect("rows", actions), "settle")
     \/ /\ Cardinality(late) < MaxLate /\ late' = late \cup {Effect("rows", actions)}
        /\ pc' = "settle" /\ UNCHANGED <<rows, needsReopen>>
  /\ actions' = Empty
  /\ UNCHANGED <<store, durable, loaded, table, view, matches>>

\* One INSERT, or one Doris transaction; only a visible commit is a success.
Write ==
  /\ pc = "write"
  /\ Request(rows' = Merge(rows, actions), UNCHANGED rows, Effect("rows", actions), "settle")
  /\ actions' = Empty
  /\ UNCHANGED <<store, durable, loaded, table, view, matches>>

\* A read fails, or the work unit runs out of time before it.
TargetFails ==
  /\ "target" \in Faults
  /\ pc \in {"deliver", "createTable", "inspectView", "createView", "count", "write"}
  /\ FailStop /\ matches' = Empty /\ actions' = Empty
  /\ UNCHANGED <<store, durable, loaded, targetVars>>

\* A request that failed takes effect after all.
LateEffect ==
  /\ \E effect \in late :
       /\ late' = late \ {effect}
       /\ table' = (table \/ effect.kind = "table")
       /\ view'  = (view \/ effect.kind = "view")
       /\ rows'  = Merge(rows, effect.rows)
  /\ UNCHANGED <<store, durable, pc, loaded, needsReopen, localVars>>

Drain == /\ OutboxStep \/ PersistInitialize(~table /\ ~view)
         /\ UNCHANGED <<targetVars, localVars>>

Initialize == Inspect \/ CreateTable \/ InspectView \/ CreateView \/ CountRows
Deliver == LookUp \/ ReadIds \/ Write

Round == Drain \/ Initialize \/ Deliver \/ TargetFails

\* The request that a crash interrupts may have been sent.
Sent == CASE pc = "createTable" -> {Effect("table", Empty)}
          [] pc = "createView"  -> {Effect("view", Empty)}
          [] pc = "write"       -> {Effect("rows", actions)}
          [] OTHER              -> {}

CrashNow ==
  /\ Crash /\ matches' = Empty /\ actions' = Empty
  /\ late' \in {late} \cup {x \in {late \cup Sent} : Cardinality(x) <= MaxLate}
  /\ UNCHANGED <<table, view, rows>>

Next == Round \/ CrashNow \/ LateEffect

Spec == Init /\ [][Next]_vars

\* main() calls advance() while it succeeds, and the same command is run again
\* when it ended; the stack of a round ends.
FairSpec ==
  /\ Spec
  /\ WF_vars(Round) /\ WF_vars(StackDone /\ UNCHANGED <<targetVars, localVars>>)
-----------------------------------------------------------------------------
(* Properties.                                                             *)

(***************************************************************************)
(* The target never gives an answer that would stop the sink for ever: a   *)
(* view has its table, the table is empty until the sink is ready, every   *)
(* deletion finds an older id of the same row, and no id is bound to       *)
(* another row, whatever took effect late and between two requests.        *)
(***************************************************************************)
TargetNeverRefuses ==
  /\ pc = "intent" /\ loaded.fresh => ~table /\ ~view
  /\ view => table
  /\ pc = "count" => rows = Empty
  /\ pc = "deliver" /\ ~IsInitialization => Ready
  /\ LookedUp => PlanAccepted

\* The events that the target has.
Applied == IF rows = Empty THEN 0 ELSE Max({rows[id].version : id \in DOMAIN rows})

\* The state table that a sequence of events gives: the n-th insertion of a row
\* is taken by the n-th deletion of that row.
Reference(events) ==
  LET Births(r) == {i \in DOMAIN events : events[i] = [row |-> r, sign |-> 1]}
      Deaths(r) == {i \in DOMAIN events : events[i] = [row |-> r, sign |-> -1]}
      Rank(set, i) == Cardinality({j \in set : j < i})
  IN [id \in UNION {Births(r) : r \in Row} |->
        LET r    == events[id].row
            kill == {d \in Deaths(r) : Rank(Deaths(r), d) = Rank(Births(r), id)}
        IN [row |-> r, version |-> IF kill = {} THEN id ELSE CHOOSE d \in kill : TRUE]]

(***************************************************************************)
(* The state table depends on the events it has and on nothing else: not   *)
(* on how batches were cut, repeated or answered, nor on the order in      *)
(* which requests took effect (terminal_mutations, the version column).    *)
(***************************************************************************)
StateFollowsEvents ==
  \A s \in durable : rows = Reference(SubSeq(s.log, 1, Applied))

\* The relation a reader of the view sees.
Relation == [r \in Row |-> Cardinality(Live(r))]

Contract == INSTANCE SinkContract
              WITH log <- store.log, applied <- Applied, relation <- Relation,
                   settled <- store.head.offset - 1

\* The sink keeps the promise of SinkContract, although its target has neither
\* a transaction with the frontier nor requests that end when they fail: it
\* forgets only events that a reader can see.
ImplementsContract == Contract!Spec
=============================================================================
