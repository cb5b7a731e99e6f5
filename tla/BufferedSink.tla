---------------------------- MODULE BufferedSink ----------------------------
(***************************************************************************)
(* A relation sink whose target applies a delivery in one transaction and  *)
(* keeps a frontier, the offset of the next event it expects: the outbox   *)
(* with operation/sink/sqlite/target.rs and postgres/target.rs.            *)
(***************************************************************************)
EXTENDS Outbox, RelationPlan

VARIABLE target   \* external: the target

vars == <<store, durable, pc, loaded, needsReopen, target>>

NoTarget == [exists |-> FALSE, frontier |-> 1, live |-> [id \in {} |-> 0]]

\* lookup: of each row the oldest ids, as many as the plan may delete.
Lookup(t, batch, from) ==
  [row \in Requested(batch, from) |->
     [through |-> from - 1,
      ids     |-> Smallest({id \in DOMAIN t.live : t.live[id] = row},
                           Take(batch, from, row))]]

\* Mutant: a delivery is applied from its first event.
ApplyFromFirst(t, batch) ==
  LET from   == First(batch)
      m      == [r \in Requested(batch, from) |->
                   [through |-> from - 1,
                    ids |-> Smallest({id \in DOMAIN t.live : t.live[id] = r},
                                     Take(batch, from, r))]]
      killed == {Victim(batch, from, m, o) : o \in Deletes(batch, from, m)}
      born   == Inserts(batch, from, m)
  IN IF End(batch) <= t.frontier THEN t
     ELSE [t EXCEPT !.frontier = End(batch),
                    !.live = [id \in (DOMAIN @ \cup born) \ killed |->
                                IF id \in born THEN At(batch, id).row ELSE @[id]]]

\* One target transaction: insertions, deletions and the frontier.  Events
\* before the frontier were applied by an earlier delivery.
Apply(t, batch) ==
  LET from   == t.frontier
      m      == Lookup(t, batch, from)
      killed == {Victim(batch, from, m, o) : o \in Deletes(batch, from, m)}
      born   == Inserts(batch, from, m)
  IN IF End(batch) <= from THEN t
     ELSE [t EXCEPT !.frontier = End(batch),
                    !.live = [id \in (DOMAIN @ \cup born) \ killed |->
                                IF id \in born THEN At(batch, id).row ELSE @[id]]]

\* The checks of deliver() on the frontier, and of the plan.
Deliverable(s, t, batch) ==
  /\ t.exists
  /\ t.frontier >= First(batch) /\ t.frontier <= batch.tail
  /\ End(batch) > t.frontier =>
       Plannable(batch, t.frontier, Lookup(t, batch, t.frontier), Retained(s))

\* initialize() is repeatable as long as nothing was delivered.
Initializable(t) == t.exists => t.frontier = 1 /\ DOMAIN t.live = {}

-----------------------------------------------------------------------------
Init == OutboxInit /\ target = NoTarget

Accepted ==
  IF IsInitialization THEN Initializable(target)
                      ELSE Deliverable(store, target, loaded)

\* The answer of a transaction that happened may be lost.
Deliver ==
  /\ pc = "deliver" /\ Accepted
  /\ target' = IF IsInitialization THEN [target EXCEPT !.exists = TRUE]
                                   ELSE Apply(target, loaded)
  /\ \/ pc' = "settle" /\ UNCHANGED needsReopen
     \/ "target" \in Faults /\ FailStop
  /\ UNCHANGED <<store, durable, loaded>>

DeliverFails ==
  /\ pc = "deliver" /\ ("target" \in Faults \/ ~Accepted)
  /\ FailStop
  /\ UNCHANGED <<store, durable, loaded, target>>

Drain == (OutboxStep \/ PersistInitialize(~target.exists)) /\ UNCHANGED target

Round == Drain \/ Deliver \/ DeliverFails

Next == Round \/ (Crash /\ UNCHANGED target)

Spec == Init /\ [][Next]_vars

\* main() calls advance() while it succeeds, and the same command is run again
\* when it ended; the stack of a round ends.
FairSpec == Spec /\ WF_vars(Round) /\ WF_vars(StackDone /\ UNCHANGED target)

-----------------------------------------------------------------------------
(* Properties.                                                             *)

(***************************************************************************)
(* The target never refuses: its frontier lies in the loaded prefix, every *)
(* deletion finds an older id and every id the outbox still holds was born *)
(* as that row; an initialization finds no foreign target.  Otherwise      *)
(* deliver() would fail for ever.                                          *)
(***************************************************************************)
TargetNeverRefuses ==
  /\ pc = "deliver" => Accepted
  /\ pc = "intent" /\ loaded.fresh => ~target.exists

(***************************************************************************)
(* A deletion takes the oldest row: the target holds, of each row, the     *)
(* youngest insertions, in the number its weight gives.  So the ids in the *)
(* target do not depend on how batches were cut or repeated.               *)
(***************************************************************************)
YoungestSurvive ==
  \A r \in Row :
    LET applied == SubSeq(store.log, 1, target.frontier - 1)
        births  == {i \in DOMAIN applied : applied[i] = [row |-> r, sign |-> 1]}
    IN {id \in DOMAIN target.live : target.live[id] = r}
         = births \ Smallest(births, Cardinality(births) - Weight(applied, r))

\* The relation a reader of the target sees.
Relation == [r \in Row |-> Cardinality({id \in DOMAIN target.live : target.live[id] = r})]

Contract == INSTANCE SinkContract
              WITH log <- store.log, applied <- target.frontier - 1,
                   relation <- Relation, settled <- store.head.offset - 1

\* The sink keeps the promise of SinkContract: the target is always the sum of
\* a prefix of the accepted events, which grows and survives every crash, and
\* the outbox forgets only what the target has.
ImplementsContract == Contract!Spec
=============================================================================
