------------------------- MODULE VersionedSinkProofs -------------------------
(***************************************************************************)
(* Theorems about VersionedSink for every value of its constants.          *)
(***************************************************************************)
EXTENDS VersionedSink, OutboxProofs

-----------------------------------------------------------------------------
(* Which deletion takes which insertion: the n-th takes the n-th.          *)

Kills(log, d, id) ==
  \E r \in Row :
    /\ log[id] = [row |-> r, sign |-> 1] /\ log[d] = [row |-> r, sign |-> -1]
    /\ Cardinality(Evs(log, 1, id, r, 1)) = Cardinality(Evs(log, 1, d, r, -1))

\* Every deletion takes one older insertion of its row, and none is taken twice.
Paired(log) ==
  /\ \A d, id \in 1..Len(log) :
       Kills(log, d, id) => /\ id < d /\ log[id].sign = 1 /\ log[d].sign = -1
                            /\ log[id].row = log[d].row
  /\ \A d, i, j \in 1..Len(log) : Kills(log, d, i) /\ Kills(log, d, j) => i = j
  /\ \A c, d, i \in 1..Len(log) : Kills(log, c, i) /\ Kills(log, d, i) => c = d
  /\ \A d \in 1..Len(log) : log[d].sign = -1 => \E i \in 1..Len(log) : Kills(log, d, i)

\* The rank of an event among the events of its kind.
LEMMA EventRank ==
  ASSUME NEW log, NEW e \in Nat, NEW o \in 1..(e - 1), NEW r, NEW sign,
         log[o] = [row |-> r, sign |-> sign]
  PROVE  /\ o \in Evs(log, 1, e, r, sign)
         /\ Rank(Evs(log, 1, e, r, sign), o) = Cardinality(Evs(log, 1, o, r, sign))
<1>1. o \in Evs(log, 1, e, r, sign)
  BY DEF Evs
<1>2. o \in Nat /\ o <= e
  OBVIOUS
<1>3. Lower(Evs(log, 1, e, r, sign), o) = Evs(log, 1, o, r, sign)
  BY <1>2, EvsLower
<1>4. Rank(Evs(log, 1, e, r, sign), o) = Cardinality(Evs(log, 1, o, r, sign))
  BY <1>3, Zenon DEF Rank
<1> QED BY <1>1, <1>4

\* What a killing says.
LEMMA KillsRow ==
  ASSUME NEW log, NEW d, NEW id, Kills(log, d, id), NEW r, log[id].row = r \/ log[d].row = r
  PROVE  /\ log[id] = [row |-> r, sign |-> 1] /\ log[d] = [row |-> r, sign |-> -1] /\ r \in Row
         /\ Cardinality(Evs(log, 1, id, r, 1)) = Cardinality(Evs(log, 1, d, r, -1))
<1>1. PICK q \in Row :
        /\ log[id] = [row |-> q, sign |-> 1] /\ log[d] = [row |-> q, sign |-> -1]
        /\ Cardinality(Evs(log, 1, id, q, 1)) = Cardinality(Evs(log, 1, d, q, -1))
  BY DEF Kills
<1>2. log[id].row = q /\ log[d].row = q
  BY <1>1
<1>3. q = r
  BY <1>2
<1> QED BY <1>1, <1>3

\* In what the flow sends, deletions and insertions are paired.
LEMMA LogPaired ==
  ASSUME NEW log \in Seq(Event), WellFormed(log)
  PROVE  Paired(log)
<1>0. PICK e \in Nat : e = Len(log) + 1
  OBVIOUS
<1>1. e - 1 = Len(log) /\ 1..(e - 1) = 1..Len(log) /\ 1 <= e /\ e <= Len(log) + 1
  BY <1>0
<1> DEFINE B(r) == Evs(log, 1, e, r, 1)
           D(r) == Evs(log, 1, e, r, -1)
<1>2. \A r : Numbers(B(r)) /\ Numbers(D(r))
  BY EvsType
<1>3. ASSUME NEW d \in 1..Len(log), NEW id \in 1..Len(log), NEW r, Kills(log, d, id), log[id].row = r \/ log[d].row = r
      PROVE  /\ id \in B(r) /\ d \in D(r) /\ Rank(B(r), id) = Rank(D(r), d) /\ r \in Row
             /\ log[id] = [row |-> r, sign |-> 1] /\ log[d] = [row |-> r, sign |-> -1]
  <2>1. /\ log[id] = [row |-> r, sign |-> 1] /\ log[d] = [row |-> r, sign |-> -1] /\ r \in Row
        /\ Cardinality(Evs(log, 1, id, r, 1)) = Cardinality(Evs(log, 1, d, r, -1))
    BY <1>3, KillsRow
  <2>2. id \in 1..(e - 1) /\ d \in 1..(e - 1)
    BY <1>1
  <2>3. id \in B(r) /\ Rank(B(r), id) = Cardinality(Evs(log, 1, id, r, 1))
    BY <2>1, <2>2, EventRank
  <2>4. d \in D(r) /\ Rank(D(r), d) = Cardinality(Evs(log, 1, d, r, -1))
    BY <2>1, <2>2, EventRank
  <2> QED BY <2>1, <2>3, <2>4, Zenon
<1>4. ASSUME NEW r \in Row, NEW d \in D(r)
      PROVE  Rank(D(r), d) \in Nat /\ Rank(B(r), d) \in Nat /\ Rank(D(r), d) < Rank(B(r), d)
  <2>1. Cardinality(Evs(log, 1, 1, r, -1)) + Rank(D(r), d) + 1
          <= Cardinality(Evs(log, 1, 1, r, 1)) + Rank(B(r), d)
    BY <1>1, DeletionIsCovered
  <2>2. Cardinality({}) = 0
    BY FS_EmptySet
  <2>3. \A sign : Cardinality(Evs(log, 1, 1, r, sign)) = 0
    <3>1. \A sign : Evs(log, 1, 1, r, sign) = {}
      BY DEF Evs
    <3> QED BY <2>2, <3>1, Zenon
  <2>4. Rank(D(r), d) \in Nat /\ Rank(B(r), d) \in Nat
    BY <1>2, RankType
  <2> QED BY <2>1, <2>3, <2>4
<1> HIDE DEF B, D
<1>5. ASSUME NEW d \in 1..Len(log), NEW id \in 1..Len(log), Kills(log, d, id)
      PROVE  id < d /\ log[id].sign = 1 /\ log[d].sign = -1 /\ log[id].row = log[d].row
  <2>1. PICK r : r = log[id].row
    OBVIOUS
  <2>2. /\ id \in B(r) /\ d \in D(r) /\ Rank(B(r), id) = Rank(D(r), d) /\ r \in Row
        /\ log[id] = [row |-> r, sign |-> 1] /\ log[d] = [row |-> r, sign |-> -1]
    BY <1>3, <1>5, <2>1
  <2>3. Rank(B(r), id) < Rank(B(r), d) /\ Rank(B(r), d) \in Nat /\ Rank(B(r), id) \in Nat
    BY <1>4, <2>2
  <2>4. id \in Nat /\ d \in Nat
    OBVIOUS
  <2>5. ASSUME ~(id < d) PROVE FALSE
    <3>1. Lower(B(r), d) \in SUBSET Lower(B(r), id)
      <4>1. ASSUME NEW y \in B(r), y < d PROVE y < id
        <5>1. y \in Nat
          BY <1>2 DEF Numbers
        <5> QED BY <2>4, <2>5, <4>1, <5>1
      <4> QED BY <4>1 DEF Lower
    <3>2. Numbers(Lower(B(r), id))
      BY <1>2, RankType
    <3>3. Rank(B(r), d) <= Rank(B(r), id)
      BY <3>1, <3>2, NumbersParts DEF Rank
    <3> QED BY <2>3, <3>3
  <2> QED BY <2>2, <2>5
<1>6. ASSUME NEW d \in 1..Len(log), NEW i \in 1..Len(log), NEW j \in 1..Len(log),
             Kills(log, d, i), Kills(log, d, j)
      PROVE  i = j
  <2>1. PICK r : r = log[d].row
    OBVIOUS
  <2>2. i \in B(r) /\ j \in B(r) /\ Rank(B(r), i) = Rank(D(r), d) /\ Rank(B(r), j) = Rank(D(r), d)
    BY <1>3, <1>6, <2>1
  <2>3. Rank(B(r), i) = Rank(B(r), j)
    BY <2>2, Zenon
  <2> QED BY <1>2, <2>2, <2>3, RankOrders
<1>7. ASSUME NEW c \in 1..Len(log), NEW d \in 1..Len(log), NEW i \in 1..Len(log),
             Kills(log, c, i), Kills(log, d, i)
      PROVE  c = d
  <2>1. PICK r : r = log[i].row
    OBVIOUS
  <2>2. c \in D(r) /\ d \in D(r) /\ Rank(B(r), i) = Rank(D(r), d) /\ Rank(B(r), i) = Rank(D(r), c)
    BY <1>3, <1>7, <2>1
  <2>3. Rank(D(r), c) = Rank(D(r), d)
    BY <2>2, Zenon
  <2> QED BY <1>2, <2>2, <2>3, RankOrders
<1>8. ASSUME NEW d \in 1..Len(log), log[d].sign = -1 PROVE \E i \in 1..Len(log) : Kills(log, d, i)
  <2>1. PICK r \in Row : log[d] = [row |-> r, sign |-> -1]
    <3>1. log[d] \in Event
      OBVIOUS
    <3> QED BY <1>8, <3>1 DEF Event
  <2>2. d \in 1..(e - 1)
    BY <1>1
  <2>3. d \in D(r) /\ Rank(D(r), d) = Cardinality(Evs(log, 1, d, r, -1))
    BY <2>1, <2>2, EventRank DEF D
  <2>4. Rank(D(r), d) \in Nat /\ Rank(D(r), d) < Rank(B(r), d) /\ Rank(B(r), d) <= Cardinality(B(r))
        /\ Cardinality(B(r)) \in Nat /\ Rank(B(r), d) \in Nat
    BY <1>2, <1>4, <2>3, RankType
  <2>5. Rank(D(r), d) < Cardinality(B(r))
    BY <2>4
  <2>6. PICK i \in B(r) : Rank(B(r), i) = Rank(D(r), d)
    BY <1>2, <2>4, <2>5, RankOnto
  <2>7. i \in 1..(e - 1) /\ log[i] = [row |-> r, sign |-> 1]
    BY DEF B, Evs
  <2>8. Rank(B(r), i) = Cardinality(Evs(log, 1, i, r, 1))
    BY <2>7, EventRank DEF B
  <2>9. Kills(log, d, i)
    BY <2>1, <2>3, <2>6, <2>7, <2>8, Zenon DEF Kills
  <2> QED BY <1>1, <2>7, <2>9
<1> QED BY <1>5, <1>6, <1>7, <1>8 DEF Paired


-----------------------------------------------------------------------------
(* The state table that the first p events of a log give.                  *)

Births(log, p) == {id \in 1..p : log[id].sign = 1}

\* The version of an id: the event that took it, or the one that made it.
Takers(log, p, id) == {d \in 1..p : Kills(log, d, id)}
Version(log, p, id) ==
  IF Takers(log, p, id) = {} THEN id ELSE Choice(Takers(log, p, id))
State(log, p) ==
  [id \in Births(log, p) |-> [row |-> log[id].row, version |-> Version(log, p, id)]]

\* What the events after p, up to e, change in it.
Changed(log, p, e) ==
  {id \in Births(log, e) : id > p \/ Version(log, p, id) < Version(log, e, id)}
Diff(log, p, e) ==
  [id \in Changed(log, p, e) |-> [row |-> log[id].row, version |-> Version(log, e, id)]]

\* v is the version of an id.
Dates(log, p, id, v) ==
  /\ v \in Nat /\ id <= v /\ v <= p
  /\ v = id \/ Kills(log, v, id)
  /\ \A d \in 1..p : Kills(log, d, id) => v = d

\* A version is that of a birth or of a death up to p.
LEMMA VersionIs ==
  ASSUME NEW log, Paired(log), NEW p \in Nat, p <= Len(log), Len(log) \in Nat, NEW id \in Births(log, p)
  PROVE  Dates(log, p, id, Version(log, p, id))
<1>1. id \in 1..p /\ id \in Nat /\ id \in 1..Len(log) /\ id <= p
  BY DEF Births
<1>2. \A d \in 1..p : d \in 1..Len(log) /\ d \in Nat /\ d <= p
  OBVIOUS
<1>3. \A d \in 1..p : Kills(log, d, id) => id < d
  BY <1>1, <1>2 DEF Paired
<1>4. CASE Takers(log, p, id) = {}
  <2>1. Version(log, p, id) = id
    BY <1>4, Zenon DEF Version
  <2>2. \A d \in 1..p : ~Kills(log, d, id)
    BY <1>4 DEF Takers
  <2> QED BY <1>1, <2>1, <2>2 DEF Dates
<1>5. CASE Takers(log, p, id) # {}
  <2>1. Version(log, p, id) = Choice(Takers(log, p, id))
    BY <1>5, Zenon DEF Version
  <2>2. Version(log, p, id) \in Takers(log, p, id)
    BY <1>5, <2>1, Zenon DEF Choice
  <2>3. PICK v : v = Version(log, p, id)
    OBVIOUS
  <2>4. v \in 1..p /\ Kills(log, v, id)
    BY <2>2, <2>3 DEF Takers
  <2>5. \A d \in 1..p : Kills(log, d, id) => v = d
    BY <1>1, <1>2, <2>4 DEF Paired
  <2>6. v \in Nat /\ id <= v /\ v <= p
    BY <1>1, <1>2, <1>3, <2>4
  <2> QED BY <2>3, <2>4, <2>5, <2>6 DEF Dates
<1> QED BY <1>4, <1>5

\* Versions are determined by what they stand for.
LEMMA VersionUnique ==
  ASSUME NEW log, NEW p \in Nat, NEW id \in 1..p, NEW v, Dates(log, p, id, v), NEW w, Dates(log, p, id, w)
  PROVE  v = w
<1>1. v \in Nat /\ w \in Nat /\ id <= v /\ v <= p /\ id <= w /\ w <= p
  BY DEF Dates
<1>2. v \in 1..p /\ w \in 1..p
  BY <1>1
<1>3. CASE Kills(log, v, id)
  BY <1>2, <1>3 DEF Dates
<1>4. CASE Kills(log, w, id)
  BY <1>2, <1>4 DEF Dates
<1> QED BY <1>3, <1>4 DEF Dates

\* They only grow.
LEMMA VersionGrows ==
  ASSUME NEW log, Paired(log), Len(log) \in Nat, NEW p \in Nat, NEW q \in Nat, p <= q, q <= Len(log),
         NEW id \in Births(log, p)
  PROVE  /\ id \in Births(log, q)
         /\ Version(log, p, id) \in Nat /\ Version(log, q, id) \in Nat
         /\ Version(log, p, id) <= Version(log, q, id)
         /\ Version(log, q, id) <= p => Version(log, p, id) = Version(log, q, id)
<1>1. id \in 1..p /\ id \in 1..q /\ id \in Nat /\ p <= Len(log)
  BY DEF Births
<1>2. id \in Births(log, q)
  BY <1>1 DEF Births
<1>3. PICK v : v = Version(log, p, id)
  OBVIOUS
<1>4. PICK w : w = Version(log, q, id)
  OBVIOUS
<1>5. Dates(log, p, id, v) /\ Dates(log, q, id, w)
  BY <1>1, <1>2, <1>3, <1>4, VersionIs
<1>6. v \in Nat /\ w \in Nat /\ id <= v /\ v <= p /\ id <= w /\ w <= q
  BY <1>5 DEF Dates
<1>7. v \in 1..p /\ v \in 1..q
  BY <1>1, <1>6
<1>8. v <= w
  <2>1. CASE v = id
    BY <1>6, <2>1
  <2>2. CASE Kills(log, v, id)
    BY <1>5, <1>6, <1>7, <2>2 DEF Dates
  <2> QED BY <1>5, <2>1, <2>2 DEF Dates
<1>9. ASSUME w <= p PROVE v = w
  <2>1. CASE w = id
    BY <1>6, <1>8, <2>1
  <2>2. CASE Kills(log, w, id)
    <3>1. w \in 1..p
      BY <1>1, <1>6, <1>9
    <3> QED BY <1>5, <2>2, <3>1 DEF Dates
  <2> QED BY <1>5, <2>1, <2>2 DEF Dates
<1> QED BY <1>2, <1>3, <1>4, <1>6, <1>8, <1>9

\* Every event shows in the table: in its own row, with at least its offset.
LEMMA EventShows ==
  ASSUME NEW log, Paired(log), Len(log) \in Nat, \A i \in 1..Len(log) : log[i].sign \in {1, -1},
         NEW p \in Nat, p <= Len(log), NEW o \in 1..p
  PROVE  \E id \in Births(log, p) :
           log[id].row = log[o].row /\ o <= Version(log, p, id) /\ Version(log, p, id) \in Nat
<1>1. o \in Nat /\ o \in 1..Len(log) /\ o <= p
  OBVIOUS
<1>2. CASE log[o].sign = 1
  <2>1. o \in Births(log, p)
    BY <1>2 DEF Births
  <2>2. Dates(log, p, o, Version(log, p, o))
    BY <2>1, VersionIs
  <2> QED BY <2>1, <2>2 DEF Dates
<1>3. CASE log[o].sign = -1
  <2>1. PICK i \in 1..Len(log) : Kills(log, o, i)
    BY <1>1, <1>3 DEF Paired
  <2>2. i < o /\ log[i].sign = 1 /\ log[i].row = log[o].row
    BY <1>1, <2>1 DEF Paired
  <2>3. i \in Births(log, p)
    BY <1>1, <2>1, <2>2 DEF Births
  <2>4. Dates(log, p, i, Version(log, p, i))
    BY <2>3, VersionIs
  <2>5. Version(log, p, i) = o
    BY <2>1, <2>4 DEF Dates
  <2> QED BY <1>1, <2>2, <2>3, <2>5
<1> QED BY <1>1, <1>2, <1>3

(***************************************************************************)
(* The table shows how far it is: Applied is p.                            *)
(***************************************************************************)
AppliedOf(t) == IF t = Empty THEN 0 ELSE Max({t[id].version : id \in DOMAIN t})

Signed(log) == \A i \in 1..Len(log) : log[i].sign \in {1, -1}

\* A log that the sink was given.
Proper(log) == Paired(log) /\ Len(log) \in Nat /\ Signed(log)

\* The state of a log and the entries in it.
LEMMA StateFields ==
  ASSUME NEW log, NEW p
  PROVE  /\ DOMAIN State(log, p) = Births(log, p)
         /\ \A id \in Births(log, p) : /\ State(log, p)[id].row = log[id].row
                                       /\ State(log, p)[id].version = Version(log, p, id)
                                       /\ State(log, p)[id] = [row |-> log[id].row, version |-> Version(log, p, id)]
BY DEF State

\* Without events it is empty.
LEMMA StateEmpty ==
  ASSUME NEW log
  PROVE  State(log, 0) = Empty
<1>1. Births(log, 0) = {}
  BY DEF Births
<1>2. State(log, 0) = [id \in {} |-> [row |-> log[id].row, version |-> Version(log, 0, id)]]
  BY <1>1, Zenon DEF State
<1>3. [id \in {} |-> [row |-> log[id].row, version |-> Version(log, 0, id)]] = [x \in {} |-> 0]
  OBVIOUS
<1> QED BY <1>2, <1>3, Zenon DEF Empty

\* The largest version is the last event.
LEMMA AppliedIs ==
  ASSUME NEW log, Proper(log), NEW p \in Nat, p <= Len(log), NEW t, t = State(log, p)
  PROVE  AppliedOf(t) = p /\ (t = Empty <=> p = 0)
<1>1. CASE p = 0
  BY <1>1, StateEmpty, Zenon DEF AppliedOf
<1>2. CASE p # 0
  <2>1. p \in 1..p
    BY <1>2
  <2>2. PICK id \in Births(log, p) : p <= Version(log, p, id) /\ Version(log, p, id) \in Nat
    BY <2>1, EventShows DEF Proper, Signed
  <2>3. \A i \in Births(log, p) : Version(log, p, i) \in Nat /\ Version(log, p, i) <= p
    <3>1. \A i \in Births(log, p) : Dates(log, p, i, Version(log, p, i))
      BY VersionIs DEF Proper
    <3> QED BY <3>1 DEF Dates
  <2>4. PICK V : V = {t[i].version : i \in DOMAIN t}
    OBVIOUS
  <2>5. V = {Version(log, p, i) : i \in Births(log, p)} /\ DOMAIN t = Births(log, p)
    <3>1. DOMAIN t = Births(log, p) /\ \A i \in Births(log, p) : t[i].version = Version(log, p, i)
      BY StateFields
    <3> QED BY <2>4, <3>1
  <2>6. p \in V /\ \A v \in V : v \in Nat /\ v <= p
    <3>1. Version(log, p, id) = p
      BY <2>2, <2>3
    <3> QED BY <2>2, <2>3, <2>5, <3>1
  <2>7. t # Empty
    BY <2>2, <2>5 DEF Empty
  <2>8. Max(V) = p
    <3>1. \A x \in V : (\A y \in V : x >= y) => x = p
      BY <2>6
    <3>2. \E x \in V : \A y \in V : x >= y
      BY <2>6
    <3>3. Max(V) \in V /\ \A y \in V : Max(V) >= y
      BY <3>2, Zenon DEF Max
    <3> QED BY <3>1, <3>3
  <2> QED BY <1>2, <2>4, <2>7, <2>8, Zenon DEF AppliedOf
<1> QED BY <1>1, <1>2

(***************************************************************************)
(* Writing what the events from p to e change into a table that has at     *)
(* least the first p events gives the table of the longer prefix: the      *)
(* version column makes repetition and late effects harmless.              *)
(***************************************************************************)
LEMMA MergeIs ==
  ASSUME NEW log, Proper(log), NEW p \in Nat, NEW q \in Nat, NEW e \in Nat,
         p <= q, p <= e, q <= Len(log), e <= Len(log)
  PROVE  /\ q <= e => Merge(State(log, q), Diff(log, p, e)) = State(log, e)
         /\ e <= q => Merge(State(log, q), Diff(log, p, e)) = State(log, q)
<1>1. Paired(log) /\ Len(log) \in Nat
  BY DEF Proper
<1>2. PICK old : old = State(log, q)
  OBVIOUS
<1>3. PICK new : new = Diff(log, p, e)
  OBVIOUS
<1>4. /\ DOMAIN old = Births(log, q)
      /\ \A id \in Births(log, q) : old[id] = [row |-> log[id].row, version |-> Version(log, q, id)]
  BY <1>2, StateFields
<1>5. /\ DOMAIN new = Changed(log, p, e)
      /\ \A id \in Changed(log, p, e) : new[id] = [row |-> log[id].row, version |-> Version(log, e, id)]
  BY <1>3 DEF Diff
<1>6. Changed(log, p, e) \in SUBSET Births(log, e)
  BY DEF Changed
<1>7. PICK m : m = Merge(old, new)
  OBVIOUS
<1>8. /\ m = [id \in DOMAIN m |-> m[id]] /\ DOMAIN m = Births(log, q) \cup Changed(log, p, e)
      /\ \A id \in DOMAIN m :
           m[id] = IF id \in DOMAIN new /\ (id \notin DOMAIN old \/ new[id].version >= old[id].version)
                   THEN new[id] ELSE old[id]
  BY <1>4, <1>5, <1>7 DEF Merge
<1>9. ASSUME q <= e PROVE m = State(log, e)
  <2>1. DOMAIN m = Births(log, e)
    <3>1. \A id \in Births(log, q) : id \in Births(log, e)
      BY <1>1, <1>9, VersionGrows
    <3>2. ASSUME NEW id \in Births(log, e) PROVE id \in Births(log, q) \cup Changed(log, p, e)
      <4>1. id \in Nat /\ 1 <= id /\ id <= e /\ log[id].sign = 1
        BY DEF Births
      <4>2. CASE id <= q
        BY <4>1, <4>2 DEF Births
      <4>3. CASE id > q
        BY <4>1, <4>3 DEF Changed
      <4> QED BY <4>1, <4>2, <4>3
    <3> QED BY <1>6, <1>8, <3>1, <3>2
  <2>2. ASSUME NEW id \in Births(log, e)
        PROVE  m[id] = [row |-> log[id].row, version |-> Version(log, e, id)]
    <3>1. CASE id \in Changed(log, p, e)
      <4>1. ASSUME id \in Births(log, q) PROVE new[id].version >= old[id].version
        <5>1. Version(log, q, id) \in Nat /\ Version(log, e, id) \in Nat /\ Version(log, q, id) <= Version(log, e, id)
          BY <1>1, <1>9, <4>1, VersionGrows
        <5>2. new[id].version = Version(log, e, id) /\ old[id].version = Version(log, q, id)
          BY <1>4, <1>5, <3>1, <4>1
        <5> QED BY <5>1, <5>2
      <4> QED BY <1>4, <1>5, <1>8, <2>1, <3>1, <4>1
    <3>2. CASE id \notin Changed(log, p, e)
      <4>1. id \in Nat /\ 1 <= id /\ id <= e /\ log[id].sign = 1
        BY DEF Births
      <4>2. id <= p /\ ~(Version(log, p, id) < Version(log, e, id))
        BY <3>2, <4>1 DEF Changed
      <4>3. id \in Births(log, p)
        BY <4>1, <4>2 DEF Births
      <4>4. /\ Version(log, p, id) \in Nat /\ Version(log, q, id) \in Nat /\ Version(log, e, id) \in Nat
            /\ Version(log, p, id) <= Version(log, q, id) /\ id \in Births(log, q)
        BY <1>1, <4>3, VersionGrows
      <4>5. Version(log, q, id) <= Version(log, e, id)
        BY <1>1, <1>9, <4>4, VersionGrows
      <4>6. Version(log, q, id) = Version(log, e, id)
        BY <4>2, <4>4, <4>5
      <4>7. m[id] = old[id]
        BY <1>5, <1>8, <2>1, <3>2
      <4> QED BY <1>4, <4>4, <4>6, <4>7
    <3> QED BY <3>1, <3>2
  <2>3. m = [id \in Births(log, e) |-> [row |-> log[id].row, version |-> Version(log, e, id)]]
    BY <1>8, <2>1, <2>2
  <2> QED BY <2>3, Zenon DEF State
<1>10. ASSUME e <= q PROVE m = State(log, q)
  <2>1. \A id \in Births(log, e) : id \in Births(log, q)
    BY <1>1, <1>10, VersionGrows
  <2>2. DOMAIN m = Births(log, q)
    BY <1>6, <1>8, <2>1
  <2>3. ASSUME NEW id \in Births(log, q)
        PROVE  m[id] = [row |-> log[id].row, version |-> Version(log, q, id)]
    <3>1. CASE id \in Changed(log, p, e) /\ new[id].version >= old[id].version
      <4>1. id \in Births(log, e)
        BY <1>6, <3>1
      <4>2. /\ Version(log, e, id) \in Nat /\ Version(log, q, id) \in Nat
            /\ Version(log, e, id) <= Version(log, q, id)
        BY <1>1, <1>10, <4>1, VersionGrows
      <4>3. new[id].version = Version(log, e, id) /\ old[id].version = Version(log, q, id)
        BY <1>4, <1>5, <3>1
      <4>4. Version(log, e, id) = Version(log, q, id)
        BY <3>1, <4>2, <4>3
      <4>5. m[id] = new[id]
        BY <1>5, <1>8, <2>2, <3>1
      <4> QED BY <1>5, <3>1, <4>4, <4>5
    <3>2. CASE ~(id \in Changed(log, p, e) /\ new[id].version >= old[id].version)
      <4>1. m[id] = old[id]
        BY <1>4, <1>5, <1>8, <2>2, <3>2
      <4> QED BY <1>4, <4>1
    <3> QED BY <3>1, <3>2
  <2>4. m = [id \in Births(log, q) |-> [row |-> log[id].row, version |-> Version(log, q, id)]]
    BY <1>8, <2>2, <2>3
  <2> QED BY <2>4, Zenon DEF State
<1> QED BY <1>2, <1>3, <1>7, <1>9, <1>10

\* Writing nothing new.
LEMMA MergeNothing ==
  ASSUME NEW log, NEW p
  PROVE  Merge(State(log, p), Empty) = State(log, p)
<1>1. DOMAIN Empty = {}
  BY DEF Empty
<1>2. PICK old : old = State(log, p)
  OBVIOUS
<1>3. old = [id \in DOMAIN old |-> old[id]]
  BY <1>2 DEF State
<1>4. Merge(old, Empty) = [id \in DOMAIN old |-> old[id]]
  BY <1>1 DEF Merge
<1> QED BY <1>2, <1>3, <1>4

(***************************************************************************)
(* All this depends only on the part of the log it is about.               *)
(***************************************************************************)
AgreeTo(a, b, n) == n <= Len(a) /\ n <= Len(b) /\ \A i \in 1..n : a[i] = b[i]

\* Which event takes which.
LEMMA KillsLocal ==
  ASSUME NEW a, NEW b, NEW n \in Nat, AgreeTo(a, b, n), NEW d \in 1..n, NEW id \in 1..n
  PROVE  Kills(a, d, id) <=> Kills(b, d, id)
<1>1. a[d] = b[d] /\ a[id] = b[id]
  BY DEF AgreeTo
<1>2. ASSUME NEW x \in 1..n, NEW r, NEW sign PROVE Evs(a, 1, x, r, sign) = Evs(b, 1, x, r, sign)
  <2>1. \A i \in 1..(x - 1) : a[i] = b[i]
    BY DEF AgreeTo
  <2> QED BY <2>1 DEF Evs
<1>3. \A r : Evs(a, 1, id, r, 1) = Evs(b, 1, id, r, 1) /\ Evs(a, 1, d, r, -1) = Evs(b, 1, d, r, -1)
  BY <1>2
<1> QED BY <1>1, <1>3, Zenon DEF Kills

\* The versions and the births.
LEMMA VersionLocal ==
  ASSUME NEW a, NEW b, NEW n \in Nat, AgreeTo(a, b, n), NEW p \in Nat, p <= n
  PROVE  /\ Births(a, p) = Births(b, p)
         /\ \A id \in Births(a, p) : Version(a, p, id) = Version(b, p, id) /\ a[id].row = b[id].row
<1>1. \A i \in 1..p : i \in 1..n /\ a[i] = b[i]
  BY DEF AgreeTo
<1>2. Births(a, p) = Births(b, p)
  BY <1>1 DEF Births
<1>3. ASSUME NEW id \in Births(a, p) PROVE Version(a, p, id) = Version(b, p, id) /\ a[id].row = b[id].row
  <2>1. id \in 1..p
    BY DEF Births
  <2>2. \A d \in 1..p : Kills(a, d, id) <=> Kills(b, d, id)
    BY <1>1, <2>1, KillsLocal
  <2>3. Takers(a, p, id) = Takers(b, p, id)
    BY <2>2, Zenon DEF Takers
  <2>4. Version(a, p, id) = Version(b, p, id)
    BY <2>3 DEF Version
  <2> QED BY <1>1, <2>1, <2>4
<1> QED BY <1>2, <1>3

\* The table.
LEMMA StateLocal ==
  ASSUME NEW a, NEW b, NEW n \in Nat, AgreeTo(a, b, n), NEW p \in Nat, p <= n
  PROVE  State(a, p) = State(b, p)
<1>1. /\ Births(a, p) = Births(b, p)
      /\ \A id \in Births(a, p) : Version(a, p, id) = Version(b, p, id) /\ a[id].row = b[id].row
  BY VersionLocal
<1> QED BY <1>1 DEF State

\* What changes in it.
LEMMA DiffLocal ==
  ASSUME NEW a, NEW b, NEW n \in Nat, AgreeTo(a, b, n), NEW p \in Nat, NEW e \in Nat, p <= e, e <= n
  PROVE  Diff(a, p, e) = Diff(b, p, e)
<1>1. /\ Births(a, e) = Births(b, e)
      /\ \A id \in Births(a, e) : Version(a, e, id) = Version(b, e, id) /\ a[id].row = b[id].row
  BY VersionLocal
<1>2. \A id \in Births(a, p) : Version(a, p, id) = Version(b, p, id)
  BY VersionLocal
<1>3. \A id \in Births(a, e) : ~(id > p) => id \in Births(a, p)
  BY DEF Births
<1>4. Changed(a, p, e) = Changed(b, p, e) /\ Changed(a, p, e) \in SUBSET Births(a, e)
  BY <1>1, <1>2, <1>3 DEF Changed
<1> QED BY <1>1, <1>4 DEF Diff

-----------------------------------------------------------------------------
(* One row of a plan, whose lookup was answered by the table of p events.  *)

\* What the lookup of a row says about the first p events.
Answers(log, p, b, r, x) ==
  /\ x.through \in Nat /\ x.through <= p
  /\ \A o \in 1..p : log[o].row = r => o <= x.through
  /\ x.ids = Smallest(Alive(log, p + 1, r), Take(b, First(b), r))

\* A row whose event is in a pair.
PairOf(log, d, id, r) ==
  /\ log[id] = [row |-> r, sign |-> 1] /\ log[d] = [row |-> r, sign |-> -1]
  /\ Cardinality(Evs(log, 1, id, r, 1)) = Cardinality(Evs(log, 1, d, r, -1))

\* A killing of a row's event.
LEMMA KillsPair ==
  ASSUME NEW log, NEW d, NEW id, NEW r, Kills(log, d, id), log[id].row = r \/ log[d].row = r
  PROVE  PairOf(log, d, id, r)
BY KillsRow DEF PairOf

\* An insertion is alive when no deletion has taken it.
LEMMA AliveIs ==
  ASSUME NEW log, NEW p \in Nat, NEW r \in Row, NEW id \in Evs(log, 1, p + 1, r, 1)
  PROVE  id \in Alive(log, p + 1, r) <=> \A d \in 1..p : ~Kills(log, d, id)
<1> DEFINE B == Evs(log, 1, p + 1, r, 1)
           D == Evs(log, 1, p + 1, r, -1)
<1>1. Numbers(B) /\ Numbers(D) /\ Cardinality(D) \in Nat
  BY EvsType
<1>2. id \in 1..p /\ log[id] = [row |-> r, sign |-> 1] /\ p + 1 \in Nat /\ 1..((p + 1) - 1) = 1..p
  BY DEF Evs
<1>3. Rank(B, id) = Cardinality(Evs(log, 1, id, r, 1)) /\ Rank(B, id) \in Nat
  BY <1>1, <1>2, EventRank, RankType
<1>4. id \in Alive(log, p + 1, r) <=> ~(Rank(B, id) < Cardinality(D))
  <2>1. PICK n \in Nat : n = Cardinality(D)
    BY <1>1
  <2>2. id \in Smallest(B, n) <=> Rank(B, id) < n
    BY <1>1, SmallestIs DEF Selects
  <2>3. Alive(log, p + 1, r) = B \ Smallest(B, n)
    BY <2>1, Zenon DEF Alive, B, D
  <2> QED BY <2>1, <2>2, <2>3, Zenon
<1>5. ASSUME NEW d \in 1..p, Kills(log, d, id) PROVE Rank(B, id) < Cardinality(D)
  <2>1. log[d] = [row |-> r, sign |-> -1] /\ Cardinality(Evs(log, 1, id, r, 1)) = Cardinality(Evs(log, 1, d, r, -1))
    <3>1. log[id].row = r
      BY <1>2
    <3>2. log[id].row = r \/ log[d].row = r
      BY <3>1
    <3>3. PairOf(log, d, id, r)
      BY <1>5, <3>2, KillsPair
    <3> QED BY <3>3, Zenon DEF PairOf
  <2>2. d \in D /\ Rank(D, d) = Cardinality(Evs(log, 1, d, r, -1))
    BY <1>2, <2>1, EventRank
  <2>3. Rank(D, d) < Cardinality(D)
    BY <1>1, <2>2, RankType
  <2> QED BY <1>3, <2>1, <2>2, <2>3
<1>6. ASSUME Rank(B, id) < Cardinality(D) PROVE \E d \in 1..p : Kills(log, d, id)
  <2>1. PICK d \in D : Rank(D, d) = Rank(B, id)
    BY <1>1, <1>3, <1>6, RankOnto
  <2>2. d \in 1..p /\ log[d] = [row |-> r, sign |-> -1]
    BY <1>2, <2>1 DEF Evs
  <2>3. Rank(D, d) = Cardinality(Evs(log, 1, d, r, -1))
    <3>1. d \in 1..((p + 1) - 1)
      BY <1>2, <2>2
    <3> QED BY <1>2, <2>2, <3>1, EventRank
  <2>4. Cardinality(Evs(log, 1, id, r, 1)) = Cardinality(Evs(log, 1, d, r, -1))
    BY <1>3, <2>1, <2>3, Zenon
  <2>5. Kills(log, d, id)
    BY <1>2, <2>2, <2>4, Zenon DEF Kills
  <2> QED BY <2>2, <2>5
<1> QED BY <1>4, <1>5, <1>6

(***************************************************************************)
(* Of B, the d smallest are gone.  Of what is left only k were looked up,  *)
(* and younger ones were born.  The element that has n others before it is *)
(* the same among those looked up and born as among all that are left.     *)
(***************************************************************************)
Before(B, born) == \A x \in B, y \in born : x < y
Found(supply, v, n) == v \in supply /\ Rank(supply, v) = n /\ Numbers(supply)

\* So the lookup is large enough.
LEMMA RowKills ==
  ASSUME NEW B, Numbers(B), NEW born, Numbers(born), Before(B, born),
         NEW d \in Nat, d <= Cardinality(B), NEW k \in Nat, NEW n \in Nat, n < k,
         NEW live, live = B \ Smallest(B, d),
         NEW supply, supply = Smallest(live, k) \cup born,
         NEW v \in B \cup born, Rank(B \cup born, v) = d + n
  PROVE  Found(supply, v, n)
<1>0. \A x \in B, y \in born : x < y
  BY DEF Before
<1> SUFFICES v \in supply /\ Rank(supply, v) = n /\ Numbers(supply)
  BY Zenon DEF Found
<1> DEFINE all == live \cup born
           ids == Smallest(live, k)
           dead == Smallest(B, d)
           births == B \cup born
<1>1. /\ dead \in SUBSET B /\ Numbers(dead) /\ Cardinality(dead) = d
      /\ \A x \in B : x \in dead <=> Rank(B, x) < d
  BY SmallestIs DEF Selects
<1>2. live \in SUBSET B /\ Numbers(live) /\ Cardinality(live) \in Nat
  BY NumbersParts
<1>3. /\ ids \in SUBSET live /\ Numbers(ids) /\ Cardinality(ids) \in Nat
      /\ Cardinality(live) <= k => ids = live
      /\ \A x \in live : x \in ids <=> Rank(live, x) < k
  <2>1. Selects(live, k, ids)
    BY <1>2, SmallestIs
  <2> HIDE DEF ids
  <2> QED BY <2>1 DEF Selects
<1>4. B \cap born = {} /\ live \cap born = {} /\ ids \cap born = {}
  <2>1. \A x \in B : x \in Nat /\ ~(x < x)
    BY DEF Numbers
  <2> QED BY <1>0, <1>2, <1>3, <2>1
<1>5. Numbers(births) /\ Numbers(all)
  BY <1>2, <1>4, NumbersUnion
<1>6. supply = ids \cup born /\ Numbers(supply)
  BY <1>3, <1>4, NumbersUnion
<1> HIDE DEF all, ids, dead, births
<1>7. v \in all
  <2>1. CASE v \in born
    BY <2>1 DEF all
  <2>2. CASE v \in B /\ v \notin born
    <3>1. Lower(births, v) = Lower(B, v)
      <4>1. \A y \in born : ~(y < v)
        BY <1>0, <2>2 DEF Numbers
      <4> QED BY <4>1 DEF Lower, births
    <3>2. Rank(B, v) = d + n
      BY <3>1, Zenon DEF Rank, births
    <3>3. ~(d + n < d)
      OBVIOUS
    <3>4. v \notin dead
      BY <1>1, <2>2, <3>2, <3>3, Zenon
    <3> QED BY <2>2, <3>4 DEF all, dead
  <2> QED BY <2>1, <2>2
<1>8. Rank(all, v) = n
  <2>1. \A y \in dead : y < v
    <3> SUFFICES ASSUME NEW y \in dead PROVE y < v
      OBVIOUS
    <3>1. y \in B /\ Rank(B, y) < d
      BY <1>1
    <3>2. CASE v \in born
      BY <1>0, <3>1, <3>2
    <3>3. CASE v \in live
      <4>1. v \in B /\ ~(Rank(B, v) < d)
        BY <1>1, <3>3 DEF dead
      <4>2. Rank(B, v) \in Nat /\ Rank(B, y) \in Nat
        BY RankType
      <4>3. Rank(B, y) < Rank(B, v)
        BY <3>1, <4>1, <4>2
      <4> QED BY <3>1, <4>1, <4>3, RankOrders
    <3> QED BY <1>7, <3>2, <3>3 DEF all
  <2>2. Lower(births, v) = dead \cup Lower(all, v) /\ dead \cap Lower(all, v) = {}
    <3>1. births = dead \cup all
      BY <1>1 DEF births, all, dead
    <3>2. dead \cap all = {}
      BY <1>1, <1>4 DEF all, dead
    <3> QED BY <2>1, <3>1, <3>2 DEF Lower
  <2>3. Numbers(Lower(all, v)) /\ Rank(all, v) \in Nat
    BY <1>5, RankType
  <2>4. Rank(births, v) = d + Rank(all, v)
    BY <1>1, <2>2, <2>3, NumbersUnion DEF Rank
  <2>5. Rank(births, v) = d + n
    BY DEF births
  <2>6. PICK c \in Nat : c = Rank(all, v)
    BY <2>3
  <2>7. d + c = d + n
    BY <2>4, <2>5, <2>6, Zenon
  <2>8. c = n
    BY <2>7
  <2> QED BY <2>6, <2>8
<1>9. CASE v \in live
  <2>1. \A y \in born : ~(y < v)
    BY <1>0, <1>2, <1>9 DEF Numbers
  <2>2. Lower(all, v) = Lower(live, v)
    BY <2>1 DEF Lower, all
  <2>3. Rank(live, v) = n
    BY <1>8, <2>2 DEF Rank
  <2>4. v \in ids
    BY <1>3, <1>9, <2>3
  <2>5. ASSUME NEW y \in live, y < v PROVE y \in ids
    <3>1. y \in Nat /\ v \in Nat
      BY <1>2, <1>9 DEF Numbers
    <3>2. Rank(live, y) < n /\ Rank(live, y) \in Nat
      BY <1>2, <1>9, <2>3, <2>5, <3>1, RankGrows, RankType
    <3> QED BY <1>3, <3>2
  <2>6. Lower(supply, v) = Lower(live, v)
    BY <1>3, <1>6, <2>1, <2>5 DEF Lower
  <2>7. Rank(supply, v) = n
    BY <2>3, <2>6 DEF Rank
  <2> QED BY <1>6, <2>4, <2>7
<1>10. CASE v \in born
  <2>1. live \in SUBSET Lower(all, v)
    <3>1. \A y \in live : y < v
      BY <1>0, <1>2, <1>10
    <3> QED BY <3>1 DEF Lower, all
  <2>2. Numbers(Lower(all, v))
    BY <1>5, RankType
  <2>3. Cardinality(live) <= n
    BY <1>8, <2>1, <2>2, NumbersParts DEF Rank
  <2>4. supply = all
    <3>1. PICK c \in Nat : c = Cardinality(live)
      BY <1>2
    <3>2. c <= k
      BY <2>3, <3>1
    <3>3. ids = live
      BY <1>3, <3>1, <3>2
    <3> QED BY <1>6, <3>3 DEF all
  <2> QED BY <1>6, <1>8, <1>10, <2>4
<1> QED BY <1>7, <1>9, <1>10 DEF all

\* What the plan knows of a row: it plans the events after p, and each deletion
\* takes the insertion that the log gives it.
RowPlan(log, b, m, r, p) ==
  /\ \A sign \in {1, -1} : Remaining(b, First(b), m, r, sign) = Evs(log, p + 1, End(b), r, sign)
  /\ \A o \in Evs(log, p + 1, End(b), r, -1) :
       /\ Earlier(b, First(b), m, o) < Cardinality(Supply(b, First(b), m, r))
       /\ Victim(b, First(b), m, o) \in 1..Len(log) /\ Kills(log, o, Victim(b, First(b), m, o))

\* The events of a row in a batch.
LEMMA BatchRow ==
  ASSUME NEW s, NEW b, Spans(s, b), NEW r, NEW sign
  PROVE  Offsets(b, r, sign) = Evs(s.log, First(b), End(b), r, sign)
BY DEF Spans, Offsets, Evs

\* The lookups it asks for.
LEMMA TakeIs ==
  ASSUME NEW s, NEW b, Spans(s, b), NEW r
  PROVE  /\ Take(b, First(b), r) = Cardinality(Evs(s.log, First(b), End(b), r, -1))
         /\ Take(b, First(b), r) \in Nat
         /\ r \notin Requested(b, First(b)) => Evs(s.log, First(b), End(b), r, -1) = {}
<1>1. First(b) \in Nat /\ End(b) \in Nat /\ \A o \in First(b)..(End(b) - 1) : At(b, o) = s.log[o]
  BY DEF Spans
<1>2. Numbers(Evs(s.log, First(b), End(b), r, -1)) /\ Cardinality(Evs(s.log, First(b), End(b), r, -1)) \in Nat
  BY <1>1, EvsType
<1>3. \A o \in Evs(s.log, First(b), End(b), r, -1) : o >= First(b)
  BY <1>1 DEF Evs
<1>4. {o \in Offsets(b, r, -1) : o >= First(b)} = Evs(s.log, First(b), End(b), r, -1)
  BY <1>3, BatchRow
<1>5. Take(b, First(b), r) = Cardinality(Evs(s.log, First(b), End(b), r, -1))
  BY <1>4, Zenon DEF Take
<1>6. ASSUME r \notin Requested(b, First(b)), NEW o \in Evs(s.log, First(b), End(b), r, -1) PROVE FALSE
  <2>1. o \in First(b)..(End(b) - 1) /\ At(b, o).row = r
    BY <1>1 DEF Evs
  <2>2. r \in Rows(b)
    BY <2>1 DEF Rows
  <2>3. ~(Take(b, First(b), r) > 0)
    BY <1>6, <2>2 DEF Requested
  <2>4. Cardinality(Evs(s.log, First(b), End(b), r, -1)) = 0
    BY <1>2, <1>5, <2>3
  <2>5. Evs(s.log, First(b), End(b), r, -1) = {}
    BY <1>2, <2>4, FS_EmptySet DEF Numbers
  <2> QED BY <1>6, <2>5
<1> QED BY <1>2, <1>5, <1>6

\* A row that was looked up.
LEMMA RowLookedUp ==
  ASSUME NEW s, Good(s), Proper(s.log), NEW b, Spans(s, b), NEW m, NEW r \in Row, r \in DOMAIN m,
         NEW p \in Nat, First(b) <= p + 1, p <= Len(s.log), Answers(s.log, p, b, r, m[r])
  PROVE  RowPlan(s.log, b, m, r, p)
<1>1. PICK log \in Seq(Event) : log = s.log
  BY StoreFields DEF Good
<1>2. PICK e \in Nat : e = End(b)
  BY DEF Spans
<1>3. PICK f \in Nat : f = p + 1
  OBVIOUS
<1>4. PICK a \in Nat : a = First(b)
  BY DEF Spans
<1>5. 1 <= a /\ a <= f /\ 1 <= f /\ p \in Nat /\ f <= Len(log) + 1 /\ WellFormed(log) /\ Proper(log) /\ Len(log) \in Nat
      /\ e <= Len(log) + 1
  <2>1. e <= s.tail /\ s.tail = Len(s.log) + 1 /\ WellFormed(s.log) /\ 1 <= a
    BY <1>2, <1>4 DEF Spans, Good
  <2> QED BY <1>1, <1>3, <1>4, <2>1
<1>6. PICK x : x = m[r]
  OBVIOUS
<1>7. /\ x.through \in Nat /\ x.through <= p /\ \A o \in 1..p : log[o].row = r => o <= x.through
      /\ x.ids = Smallest(Alive(log, f, r), Take(b, a, r))
  BY <1>1, <1>3, <1>4, <1>6, Zenon DEF Answers
<1>8. Through(m, r) = x.through /\ Ids(m, r) = x.ids
  BY <1>6 DEF Through, Ids
<1>9. ASSUME NEW sign PROVE Remaining(b, a, m, r, sign) = Evs(log, f, e, r, sign)
  <2>1. Offsets(b, r, sign) = Evs(log, a, e, r, sign)
    BY <1>1, <1>2, <1>4, BatchRow
  <2>2. Remaining(b, a, m, r, sign) = {o \in Evs(log, a, e, r, sign) : o >= a /\ o > x.through}
    BY <1>8, <2>1 DEF Remaining
  <2>3. ASSUME NEW o \in Evs(log, f, e, r, sign) PROVE o \in Evs(log, a, e, r, sign) /\ o >= a /\ o > x.through
    <3>1. o \in f..(e - 1) /\ log[o] = [row |-> r, sign |-> sign]
      BY DEF Evs
    <3>2. o \in a..(e - 1) /\ o >= a /\ o > x.through
      BY <1>3, <1>5, <1>7, <3>1
    <3> QED BY <3>1, <3>2 DEF Evs
  <2>4. ASSUME NEW o \in Evs(log, a, e, r, sign), o > x.through PROVE o \in Evs(log, f, e, r, sign)
    <3>1. o \in a..(e - 1) /\ log[o] = [row |-> r, sign |-> sign]
      BY DEF Evs
    <3>2. log[o].row = r
      BY <3>1
    <3>3. ~(o <= p)
      <4>1. o \in Nat /\ 1 <= o
        BY <1>5, <3>1
      <4> QED BY <1>7, <2>4, <3>2, <4>1
    <3>4. o \in f..(e - 1)
      BY <1>3, <3>1, <3>3
    <3> QED BY <3>1, <3>4 DEF Evs
  <2> QED BY <2>2, <2>3, <2>4
<1> DEFINE B == Evs(log, 1, f, r, 1)
           born == Evs(log, f, e, r, 1)
           D == Evs(log, 1, f, r, -1)
           del == Evs(log, f, e, r, -1)
<1>10. /\ Numbers(B) /\ Numbers(born) /\ Numbers(D) /\ Numbers(del)
       /\ \A y \in born : y \in Nat /\ f <= y
       /\ \A y \in B : y \in Nat /\ y < f
       /\ \A y \in D : y \in Nat /\ y < f
  BY EvsType
<1>11. PICK d \in Nat : d = Cardinality(D)
  BY EvsType
<1>12. d <= Cardinality(B)
  BY <1>5, <1>11, Balanced
<1>13. PICK k \in Nat : k = Take(b, a, r)
  BY <1>1, <1>4, TakeIs
<1>14. PICK live : live = B \ Smallest(B, d)
  OBVIOUS
<1>15. live = Alive(log, f, r)
  BY <1>11, <1>14, Zenon DEF Alive, B, D
<1>16. PICK supply : supply = Supply(b, a, m, r)
  OBVIOUS
<1>17. supply = Smallest(live, k) \cup born
  <2>1. Supply(b, a, m, r) = Ids(m, r) \cup Remaining(b, a, m, r, 1)
    BY Zenon DEF Supply
  <2>2. Remaining(b, a, m, r, 1) = born
    BY <1>9
  <2>3. Ids(m, r) = Smallest(live, k)
    BY <1>7, <1>8, <1>13, <1>15, Zenon
  <2> QED BY <1>16, <2>1, <2>2, <2>3, Zenon
<1>18. Before(B, born)
  BY <1>10 DEF Before
<1>19. \A o \in del : o \in Nat /\ f <= o /\ o < e
  BY EvsType
<1>20. Cardinality(del) <= k /\ Cardinality(del) \in Nat
  <2>1. k = Cardinality(Evs(log, a, e, r, -1))
    BY <1>1, <1>2, <1>4, <1>13, TakeIs
  <2>2. Numbers(Evs(log, a, e, r, -1))
    BY EvsType
  <2>3. del \in SUBSET Evs(log, a, e, r, -1)
    BY <1>5 DEF Evs
  <2> QED BY <2>1, <2>2, <2>3, NumbersParts
<1>21. ASSUME NEW o \in del
       PROVE  /\ Earlier(b, a, m, o) < Cardinality(supply)
              /\ Victim(b, a, m, o) \in 1..Len(log) /\ Kills(log, o, Victim(b, a, m, o))
  <2>1. o \in Nat /\ f <= o /\ o < e /\ log[o] = [row |-> r, sign |-> -1]
    BY <1>19 DEF Evs
  <2>2. o \in 1..Len(log) /\ log[o].sign = -1 /\ log[o].row = r
    BY <1>5, <2>1
  <2>3. PICK v \in 1..Len(log) : Kills(log, o, v)
    BY <1>5, <2>2 DEF Proper, Paired
  <2>4. v < o /\ log[v] = [row |-> r, sign |-> 1]
        /\ Cardinality(Evs(log, 1, v, r, 1)) = Cardinality(Evs(log, 1, o, r, -1))
    <3>1. v < o
      BY <1>5, <2>2, <2>3 DEF Proper, Paired
    <3>2. log[v].row = r \/ log[o].row = r
      BY <2>2
    <3>3. PairOf(log, o, v, r)
      BY <2>3, <3>2, KillsPair
    <3> QED BY <3>1, <3>3, Zenon DEF PairOf
  <2>5. PICK n \in Nat : n = Rank(del, o)
    BY <1>10, RankType
  <2>6. n < k
    <3>1. n < Cardinality(del)
      BY <1>10, <2>5, RankType
    <3> QED BY <1>20, <3>1
  <2>7. v \in 1..(e - 1) /\ o \in 1..(e - 1) /\ v \in Nat
    BY <1>5, <2>1, <2>3, <2>4
  <2>8. v \in B \cup born /\ Rank(B \cup born, v) = Cardinality(Evs(log, 1, v, r, 1))
    <3>1. SplitAt(log, 1, f, e, r, 1)
      <4>1. f <= e
        BY <2>1
      <4> QED BY <1>5, <4>1, EvsSplit
    <3>2. Evs(log, 1, e, r, 1) = B \cup born
      BY <3>1 DEF SplitAt
    <3>3. v \in Evs(log, 1, e, r, 1) /\ Rank(Evs(log, 1, e, r, 1), v) = Cardinality(Evs(log, 1, v, r, 1))
      BY <2>4, <2>7, EventRank
    <3> QED BY <3>2, <3>3, Zenon
  <2>9. Cardinality(Evs(log, 1, o, r, -1)) = d + n
    <3>1. SplitAt(log, 1, f, o, r, -1)
      BY <1>5, <2>1, EvsSplit
    <3>2. Cardinality(Evs(log, 1, o, r, -1)) = Cardinality(D) + Cardinality(Evs(log, f, o, r, -1))
      BY <3>1 DEF SplitAt
    <3>3. Lower(del, o) = Evs(log, f, o, r, -1)
      <4>1. o <= e
        BY <2>1
      <4> QED BY <2>1, <4>1, EvsLower
    <3>4. n = Cardinality(Evs(log, f, o, r, -1))
      BY <2>5, <3>3, Zenon DEF Rank
    <3> QED BY <1>11, <3>2, <3>4, Zenon
  <2>10. Rank(B \cup born, v) = d + n
    BY <2>4, <2>8, <2>9, Zenon
  <2>11. v \in supply /\ Rank(supply, v) = n /\ Numbers(supply)
    <3>1. Numbers(B) /\ Numbers(born) /\ v \in B \cup born
      BY <1>10, <2>8
    <3> HIDE DEF B, born
    <3>2. Found(supply, v, n)
      BY <1>12, <1>14, <1>17, <1>18, <2>6, <2>10, <3>1, RowKills
    <3> QED BY <3>2, Zenon DEF Found
  <2>12. Rank(supply, v) < Cardinality(supply)
    BY <2>11, RankType
  <2>13. /\ At(b, o).row = r
         /\ Earlier(b, a, m, o) = n
         /\ Victim(b, a, m, o) = TakenBy(supply, del, o)
    <3>1. \A q \in First(b)..(End(b) - 1) : At(b, q) = s.log[q]
      BY DEF Spans
    <3>2. o \in First(b)..(End(b) - 1)
      BY <1>2, <1>4, <1>5, <2>1
    <3>3. At(b, o) = log[o]
      BY <1>1, <3>1, <3>2
    <3>4. At(b, o).row = r
      BY <2>2, <3>3, Zenon
    <3>5. Remaining(b, a, m, r, -1) = del
      BY <1>9
    <3>6. Earlier(b, a, m, o) = Cardinality({y \in del : y < o})
      BY <3>4, <3>5, Zenon DEF Earlier
    <3>7. Earlier(b, a, m, o) = n
      BY <2>5, <3>6, Zenon DEF Rank, Lower
    <3>8. Victim(b, a, m, o) = TakenBy(supply, del, o)
      BY <1>16, <3>4, <3>6, Zenon DEF Victim, TakenBy
    <3> QED BY <3>4, <3>7, <3>8
  <2>14. TakenBy(supply, del, o) = v
    <3>1. TakenBy(supply, del, o) = CHOOSE id \in supply : Rank(supply, id) = n
      BY <2>5, Zenon DEF TakenBy, Rank, Lower
    <3>2. \A id \in supply : Rank(supply, id) = n => id = v
      BY <2>11, RankOrders
    <3>3. \E id \in supply : Rank(supply, id) = n
      BY <2>11
    <3> QED BY <3>1, <3>2, <3>3, Zenon
  <2> QED BY <2>3, <2>11, <2>12, <2>13, <2>14, Zenon
<1>22. \A sign \in {1, -1} : Remaining(b, First(b), m, r, sign) = Evs(log, p + 1, End(b), r, sign)
  BY <1>2, <1>3, <1>4, <1>9, Zenon
<1>23. \A o \in Evs(log, p + 1, End(b), r, -1) :
       /\ Earlier(b, First(b), m, o) < Cardinality(Supply(b, First(b), m, r))
       /\ Victim(b, First(b), m, o) \in 1..Len(log) /\ Kills(log, o, Victim(b, First(b), m, o))
  BY <1>2, <1>3, <1>4, <1>16, <1>21, Zenon
<1> QED BY <1>1, <1>22, <1>23, Zenon DEF RowPlan

\* A row that was not, because the batch does not delete it.
LEMMA RowNotLookedUp ==
  ASSUME NEW s, NEW b, Spans(s, b), NEW m, NEW r, r \notin DOMAIN m, r \notin Requested(b, First(b)),
         NEW p \in Nat, First(b) = p + 1
  PROVE  RowPlan(s.log, b, m, r, p)
<1>1. Through(m, r) = 0
  BY DEF Through
<1>2. First(b) \in Nat /\ 1 <= First(b) /\ End(b) \in Nat
  BY DEF Spans
<1>3. ASSUME NEW sign PROVE Remaining(b, First(b), m, r, sign) = Evs(s.log, First(b), End(b), r, sign)
  <2>1. \A o \in Evs(s.log, First(b), End(b), r, sign) : o >= First(b) /\ o > 0
    BY <1>2 DEF Evs
  <2> QED BY <1>1, <2>1, BatchRow DEF Remaining
<1>4. Evs(s.log, First(b), End(b), r, -1) = {}
  BY TakeIs
<1> QED BY <1>3, <1>4, Zenon DEF RowPlan

-----------------------------------------------------------------------------
(* The whole plan, whose rows may have been looked up at different times.  *)

\* The lookups of a batch were answered by tables between the batch's begin and A.
Answered(log, b, m, A) ==
  /\ DOMAIN m = Requested(b, First(b))
  /\ \A r \in DOMAIN m : \E p \in (First(b) - 1)..A : Answers(log, p, b, r, m[r])

Planning(s, b, m, A) ==
  /\ Good(s) /\ Proper(s.log) /\ Spans(s, b)
  /\ A \in Nat /\ A <= Len(s.log) /\ First(b) <= A + 1
  /\ Answered(s.log, b, m, A)

\* Every row is planned from some point on that the table has reached.
LEMMA RowPlans ==
  ASSUME NEW s, NEW b, NEW m, NEW A, Planning(s, b, m, A), NEW r \in Row
  PROVE  \E p \in (First(b) - 1)..A : RowPlan(s.log, b, m, r, p)
<1>1. /\ Good(s) /\ Proper(s.log) /\ Spans(s, b) /\ A \in Nat /\ A <= Len(s.log) /\ First(b) <= A + 1
      /\ DOMAIN m = Requested(b, First(b))
      /\ \A q \in DOMAIN m : \E p \in (First(b) - 1)..A : Answers(s.log, p, b, q, m[q])
  BY DEF Planning, Answered
<1>2. First(b) \in Nat /\ 1 <= First(b) /\ Len(s.log) \in Nat
  BY <1>1 DEF Spans, Proper
<1>3. CASE r \in DOMAIN m
  <2>1. PICK p \in (First(b) - 1)..A : Answers(s.log, p, b, r, m[r])
    BY <1>1, <1>3
  <2>2. p \in Nat /\ First(b) <= p + 1 /\ p <= Len(s.log)
    BY <1>1, <1>2
  <2>3. RowPlan(s.log, b, m, r, p)
    BY <1>1, <1>3, <2>1, <2>2, RowLookedUp
  <2> QED BY <2>3
<1>4. CASE r \notin DOMAIN m
  <2>1. PICK p \in Nat : p = First(b) - 1
    BY <1>2
  <2>2. First(b) = p + 1 /\ p \in (First(b) - 1)..A
    BY <1>1, <1>2, <2>1
  <2>3. r \notin Requested(b, First(b))
    BY <1>1, <1>4
  <2>4. RowPlan(s.log, b, m, r, p)
    BY <1>1, <1>4, <2>2, <2>3, RowNotLookedUp
  <2> QED BY <2>2, <2>4
<1> QED BY <1>3, <1>4

(***************************************************************************)
(* The plan inserts and deletes events of the batch, among them all that   *)
(* the table lacks.  What deletes an insertion of the plan is in the plan, *)
(* and each deletion takes the insertion that the log gives it.            *)
(***************************************************************************)
Plan(log, b, m, A) ==
  LET F == First(b)
      E == End(b) - 1
  IN /\ \A id \in Inserts(b, F, m) :
          id \in F..E /\ log[id].sign = 1 /\ At(b, id) = log[id]
     /\ \A o \in Deletes(b, F, m) :
          /\ o \in F..E /\ log[o].sign = -1 /\ At(b, o) = log[o]
          /\ Earlier(b, F, m, o) < Cardinality(Supply(b, F, m, At(b, o).row))
          /\ Victim(b, F, m, o) \in 1..Len(log) /\ Kills(log, o, Victim(b, F, m, o))
     /\ \A id \in F..E : log[id].sign = 1 /\ A < id => id \in Inserts(b, F, m)
     /\ \A o \in F..E : log[o].sign = -1 /\ A < o => o \in Deletes(b, F, m)
     /\ \A id \in Inserts(b, F, m), o \in F..E :
          log[o].sign = -1 /\ log[o].row = log[id].row /\ id < o => o \in Deletes(b, F, m)

\* It is one.
LEMMA PlanIs ==
  ASSUME NEW s, NEW b, NEW m, NEW A, Planning(s, b, m, A)
  PROVE  Plan(s.log, b, m, A)
<1>1. PICK log \in Seq(Event) : log = s.log
  BY StoreFields DEF Planning, Good
<1>2. PICK F \in Nat : F = First(b)
  BY DEF Planning, Spans
<1>3. PICK e \in Nat : e = End(b)
  BY DEF Planning, Spans
<1>4. /\ 1 <= F /\ \A o \in F..(e - 1) : At(b, o) = log[o] /\ log[o] \in Event
      /\ A \in Nat /\ F <= A + 1
  BY <1>1, <1>2, <1>3 DEF Planning, Spans
<1>5. \A r \in Row : \E p \in (F - 1)..A : RowPlan(log, b, m, r, p)
  BY <1>1, <1>2, RowPlans
<1>6. Rows(b) \in SUBSET Row /\ \A o \in F..(e - 1) : log[o].row \in Rows(b)
  BY <1>2, <1>3, <1>4 DEF Rows, Event
<1>7. \A o \in F..(e - 1) : log[o] = [row |-> log[o].row, sign |-> log[o].sign]
  BY <1>4 DEF Event
<1>8. ASSUME NEW r \in Row, NEW p \in (F - 1)..A, RowPlan(log, b, m, r, p)
      PROVE  /\ Remaining(b, F, m, r, 1) = Evs(log, p + 1, e, r, 1)
             /\ Remaining(b, F, m, r, -1) = Evs(log, p + 1, e, r, -1)
             /\ \A o \in Evs(log, p + 1, e, r, -1) :
                  /\ Earlier(b, F, m, o) < Cardinality(Supply(b, F, m, r))
                  /\ Victim(b, F, m, o) \in 1..Len(log) /\ Kills(log, o, Victim(b, F, m, o))
  BY <1>2, <1>3, <1>8 DEF RowPlan
<1>9. ASSUME NEW r, NEW p \in (F - 1)..A, NEW sign, NEW o \in Evs(log, p + 1, e, r, sign)
      PROVE  o \in F..(e - 1) /\ log[o].sign = sign /\ log[o].row = r /\ p < o
  <2>1. o \in (p + 1)..(e - 1) /\ log[o] = [row |-> r, sign |-> sign]
    BY DEF Evs
  <2>2. log[o].sign = sign /\ log[o].row = r
    BY <2>1
  <2>3. o \in F..(e - 1) /\ p < o
    BY <1>4, <2>1
  <2> QED BY <2>2, <2>3
<1>10. ASSUME NEW p \in (F - 1)..A, NEW o \in F..(e - 1), p < o
       PROVE  o \in Evs(log, p + 1, e, log[o].row, log[o].sign)
  <2>1. o \in (p + 1)..(e - 1)
    BY <1>4, <1>10
  <2> QED BY <1>7, <2>1, Zenon DEF Evs
<1>11. ASSUME NEW id \in Inserts(b, F, m)
       PROVE  id \in F..(e - 1) /\ log[id].sign = 1 /\ At(b, id) = log[id]
  <2>1. PICK r \in Row : id \in Remaining(b, F, m, r, 1)
    BY <1>6 DEF Inserts
  <2>2. PICK p \in (F - 1)..A : RowPlan(log, b, m, r, p)
    BY <1>5
  <2>3. id \in Evs(log, p + 1, e, r, 1)
    BY <1>8, <2>1, <2>2
  <2> QED BY <1>4, <1>9, <2>3
<1>12. ASSUME NEW o \in Deletes(b, F, m)
       PROVE  /\ o \in F..(e - 1) /\ log[o].sign = -1 /\ At(b, o) = log[o]
              /\ Earlier(b, F, m, o) < Cardinality(Supply(b, F, m, At(b, o).row))
              /\ Victim(b, F, m, o) \in 1..Len(log) /\ Kills(log, o, Victim(b, F, m, o))
  <2>1. PICK r \in Row : o \in Remaining(b, F, m, r, -1)
    BY <1>6 DEF Deletes
  <2>2. PICK p \in (F - 1)..A : RowPlan(log, b, m, r, p)
    BY <1>5
  <2>3. o \in Evs(log, p + 1, e, r, -1)
    BY <1>8, <2>1, <2>2
  <2>4. o \in F..(e - 1) /\ log[o].sign = -1 /\ log[o].row = r
    BY <1>9, <2>3
  <2>5. At(b, o) = log[o]
    BY <1>4, <2>4
  <2>6. At(b, o).row = r
    BY <2>4, <2>5, Zenon
  <2>7. /\ Earlier(b, F, m, o) < Cardinality(Supply(b, F, m, r))
        /\ Victim(b, F, m, o) \in 1..Len(log) /\ Kills(log, o, Victim(b, F, m, o))
    BY <1>8, <2>2, <2>3
  <2> QED BY <2>4, <2>5, <2>6, <2>7, Zenon
<1>13. ASSUME NEW o \in F..(e - 1), NEW p \in (F - 1)..A, RowPlan(log, b, m, log[o].row, p), p < o
       PROVE  /\ log[o].sign = 1 => o \in Inserts(b, F, m)
              /\ log[o].sign = -1 => o \in Deletes(b, F, m)
  <2>1. PICK r : r = log[o].row
    OBVIOUS
  <2>2. r \in Rows(b) /\ r \in Row /\ RowPlan(log, b, m, r, p)
    BY <1>6, <1>13, <2>1
  <2>3. o \in Evs(log, p + 1, e, r, log[o].sign)
    BY <1>10, <1>13, <2>1
  <2>4. ASSUME log[o].sign = 1 PROVE o \in Inserts(b, F, m)
    <3>1. o \in Remaining(b, F, m, r, 1)
      BY <1>8, <2>2, <2>3, <2>4
    <3> QED BY <2>2, <3>1 DEF Inserts
  <2>5. ASSUME log[o].sign = -1 PROVE o \in Deletes(b, F, m)
    <3>1. o \in Remaining(b, F, m, r, -1)
      BY <1>8, <2>2, <2>3, <2>5
    <3> QED BY <2>2, <3>1 DEF Deletes
  <2> QED BY <2>4, <2>5
<1>14. ASSUME NEW o \in F..(e - 1), A < o
       PROVE  /\ log[o].sign = 1 => o \in Inserts(b, F, m)
              /\ log[o].sign = -1 => o \in Deletes(b, F, m)
  <2>1. PICK p \in (F - 1)..A : RowPlan(log, b, m, log[o].row, p)
    BY <1>5, <1>6
  <2>2. p < o
    BY <1>4, <1>14
  <2> QED BY <1>13, <2>1, <2>2
<1>15. ASSUME NEW id \in Inserts(b, F, m), NEW o \in F..(e - 1), log[o].sign = -1, log[o].row = log[id].row, id < o
       PROVE  o \in Deletes(b, F, m)
  <2>1. PICK r \in Row : id \in Remaining(b, F, m, r, 1)
    BY <1>6 DEF Inserts
  <2>2. PICK p \in (F - 1)..A : RowPlan(log, b, m, r, p)
    BY <1>5
  <2>3. id \in Evs(log, p + 1, e, r, 1)
    BY <1>8, <2>1, <2>2
  <2>4. log[id].row = r /\ p < id /\ id \in F..(e - 1)
    BY <1>9, <2>3
  <2>5. p < o /\ RowPlan(log, b, m, log[o].row, p)
    <3>1. p < o
      BY <1>4, <1>15, <2>4
    <3>2. log[o].row = r
      BY <1>15, <2>4, Zenon
    <3> QED BY <2>2, <3>1, <3>2, Zenon
  <2> QED BY <1>13, <1>15, <2>5
<1>16. Plan(log, b, m, A)
  BY <1>2, <1>3, <1>11, <1>12, <1>14, <1>15, Zenon DEF Plan
<1> QED BY <1>1, <1>16

\* What a plan writes about each id is what the table of the batch's end shows.
Writes(log, A, e, t) ==
  /\ DOMAIN t \in SUBSET Births(log, e) /\ Changed(log, A, e) \in SUBSET DOMAIN t
  /\ \A id \in DOMAIN t : t[id] = [row |-> log[id].row, version |-> Version(log, e, id)]

\* terminal_mutations.
LEMMA MutationsAre ==
  ASSUME NEW s, NEW b, NEW m, NEW A, Planning(s, b, m, A)
  PROVE  Writes(s.log, A, End(b) - 1, TerminalMutations(b, m))
<1>1. PICK log \in Seq(Event) : log = s.log
  BY StoreFields DEF Planning, Good
<1>2. PICK F \in Nat : F = First(b)
  BY DEF Planning, Spans
<1>3. PICK e \in Nat : e = End(b) - 1
  BY DEF Planning, Spans
<1>4. /\ 1 <= F /\ F <= e /\ e <= Len(log) /\ A \in Nat /\ F <= A + 1 /\ A <= Len(log)
      /\ Proper(log) /\ Paired(log) /\ Len(log) \in Nat
  <2>1. /\ First(b) \in Nat /\ End(b) \in Nat /\ First(b) < End(b) /\ 1 <= First(b) /\ End(b) <= s.tail
        /\ s.tail = Len(s.log) + 1 /\ Proper(s.log) /\ A \in Nat /\ A <= Len(s.log) /\ First(b) <= A + 1
    BY DEF Planning, Spans, Good
  <2>2. Proper(log) /\ Paired(log) /\ Len(log) \in Nat
    BY <1>1, <2>1 DEF Proper
  <2> QED BY <1>1, <1>2, <1>3, <2>1, <2>2
<1> DEFINE Ins == Inserts(b, F, m)
           Del == Deletes(b, F, m)
           V(o) == Victim(b, F, m, o)
           K(id) == {o \in Del : V(o) = id}
<1>5. Plan(log, b, m, A)
  BY <1>1, PlanIs
<1>6. /\ \A id \in Ins : id \in F..e /\ log[id].sign = 1 /\ At(b, id) = log[id]
      /\ \A o \in Del : /\ o \in F..e /\ log[o].sign = -1 /\ At(b, o) = log[o]
                        /\ V(o) \in 1..Len(log) /\ Kills(log, o, V(o))
      /\ \A id \in F..e : (log[id].sign = 1 /\ A < id) => id \in Ins
      /\ \A o \in F..e : (log[o].sign = -1 /\ A < o) => o \in Del
      /\ \A id \in Ins, o \in F..e :
           (log[o].sign = -1 /\ log[o].row = log[id].row /\ id < o) => o \in Del
  BY <1>2, <1>3, <1>5, Zenon DEF Plan
<1>7. PICK t : t = TerminalMutations(b, m)
  OBVIOUS
<1>8. t = [id \in Ins \cup {V(o) : o \in Del} |->
             IF K(id) = {} THEN [row |-> At(b, id).row, version |-> id]
             ELSE [row |-> At(b, Choice(K(id))).row, version |-> Choice(K(id))]]
  BY <1>2, <1>7 DEF TerminalMutations, Choice
<1> HIDE DEF Ins, Del, V
<1>9. DOMAIN t = Ins \cup {V(o) : o \in Del}
  BY <1>8
<1>10. ASSUME NEW id \in DOMAIN t, K(id) = {} PROVE t[id] = [row |-> At(b, id).row, version |-> id]
  BY <1>8, <1>10
<1>11. ASSUME NEW id \in DOMAIN t, K(id) # {}
       PROVE  t[id] = [row |-> At(b, Choice(K(id))).row, version |-> Choice(K(id))]
  BY <1>8, <1>11
<1>12. ASSUME NEW o \in Del
       PROVE  /\ V(o) \in 1..Len(log) /\ V(o) < o /\ log[V(o)].sign = 1 /\ log[V(o)].row = log[o].row
              /\ o \in 1..Len(log) /\ o <= e /\ V(o) \in Births(log, e)
  <2>1. o \in F..e /\ V(o) \in 1..Len(log) /\ Kills(log, o, V(o))
    BY <1>6
  <2>2. o \in 1..Len(log) /\ o <= e /\ o \in Nat
    BY <1>4, <2>1
  <2>3. V(o) < o /\ log[V(o)].sign = 1 /\ log[V(o)].row = log[o].row
    BY <1>4, <2>1, <2>2 DEF Paired
  <2>4. PICK v \in 1..Len(log) : v = V(o)
    BY <2>1
  <2>5. v \in 1..e
    BY <1>4, <2>2, <2>3, <2>4
  <2> QED BY <2>1, <2>2, <2>3, <2>4, <2>5 DEF Births
<1>13. \A id \in Ins : id \in Births(log, e)
  <2>1. \A id \in F..e : id \in 1..e
    BY <1>4
  <2> QED BY <1>6, <2>1 DEF Births
<1>14. DOMAIN t \in SUBSET Births(log, e)
  BY <1>9, <1>12, <1>13
<1>15. ASSUME NEW id \in DOMAIN t
       PROVE  t[id] = [row |-> log[id].row, version |-> Version(log, e, id)]
  <2>1. id \in Births(log, e) /\ Dates(log, e, id, Version(log, e, id))
    BY <1>4, <1>14, VersionIs
  <2>2. id \in 1..e /\ id \in 1..Len(log) /\ id \in Nat
    BY <1>4, <2>1 DEF Births
  <2>3. CASE K(id) # {}
    <3>1. PICK o : o = Choice(K(id))
      OBVIOUS
    <3>2. o \in K(id)
      BY <2>3, <3>1, Zenon DEF Choice
    <3>3. o \in Del /\ V(o) = id
      BY <3>2
    <3>4. o \in 1..e /\ Kills(log, o, id) /\ At(b, o) = log[o]
      BY <1>4, <1>6, <1>12, <3>3
    <3>5. Version(log, e, id) = o
      BY <2>1, <3>4 DEF Dates
    <3>6. log[o].row = log[id].row
      BY <1>12, <3>3
    <3>7. t[id] = [row |-> At(b, o).row, version |-> o]
      BY <1>11, <2>3, <3>1, Zenon
    <3> QED BY <3>4, <3>5, <3>6, <3>7, Zenon
  <2>4. CASE K(id) = {}
    <3>1. id \in Ins
      BY <1>9, <2>4
    <3>2. id \in F..e /\ At(b, id) = log[id]
      BY <1>6, <3>1
    <3>3. ASSUME Kills(log, Version(log, e, id), id), Version(log, e, id) # id PROVE FALSE
      <4>1. PICK d : d = Version(log, e, id)
        OBVIOUS
      <4>2. d \in Nat /\ id <= d /\ d <= e
        BY <2>1, <4>1 DEF Dates
      <4>3. d \in F..e /\ d \in 1..Len(log) /\ id < d
        BY <1>4, <2>2, <3>2, <3>3, <4>1, <4>2
      <4>4. log[d].sign = -1 /\ log[d].row = log[id].row
        BY <1>4, <2>2, <3>3, <4>1, <4>3 DEF Paired
      <4>5. d \in Del
        BY <1>6, <3>1, <4>3, <4>4
      <4>6. Kills(log, d, V(d)) /\ V(d) \in 1..Len(log)
        BY <1>6, <4>5
      <4>7. Kills(log, d, id)
        BY <3>3, <4>1
      <4>8. V(d) = id
        BY <1>4, <2>2, <4>3, <4>6, <4>7 DEF Paired
      <4> QED BY <2>4, <4>5, <4>8
    <3>4. Version(log, e, id) = id
      BY <2>1, <3>3 DEF Dates
    <3>5. t[id] = [row |-> At(b, id).row, version |-> id]
      BY <1>10, <2>4
    <3> QED BY <3>2, <3>4, <3>5, Zenon
  <2> QED BY <2>3, <2>4
<1>16. ASSUME NEW id \in Changed(log, A, e) PROVE id \in DOMAIN t
  <2>1. id \in Births(log, e) /\ (id > A \/ Version(log, A, id) < Version(log, e, id))
    BY DEF Changed
  <2>2. id \in Nat /\ 1 <= id /\ id <= e /\ log[id].sign = 1 /\ id \in 1..Len(log)
    BY <1>4, <2>1 DEF Births
  <2>3. CASE id > A
    <3>1. id \in F..e /\ A < id
      BY <1>4, <2>2, <2>3
    <3>2. id \in Ins
      BY <1>6, <2>2, <3>1
    <3> QED BY <1>9, <3>2
  <2>4. CASE ~(id > A)
    <3>1. id \in Births(log, A)
      BY <1>4, <2>2, <2>4 DEF Births
    <3>2. Version(log, A, id) < Version(log, e, id)
      BY <2>1, <2>4
    <3>3. PICK o : o = Version(log, e, id)
      OBVIOUS
    <3>4. Dates(log, e, id, o) /\ Dates(log, A, id, Version(log, A, id))
      BY <1>4, <2>1, <3>1, <3>3, VersionIs
    <3>5. o \in Nat /\ id <= o /\ o <= e /\ Version(log, A, id) \in Nat /\ id <= Version(log, A, id)
      BY <3>4 DEF Dates
    <3>6. ~(e <= A)
      <4>1. ASSUME e <= A PROVE Version(log, e, id) <= Version(log, A, id)
        BY <1>4, <2>1, <4>1, VersionGrows
      <4> QED BY <3>2, <3>3, <3>5, <4>1
    <3>7. ~(o <= A)
      <4>1. o <= A => Version(log, A, id) = o
        BY <1>4, <3>1, <3>3, <3>6, VersionGrows
      <4> QED BY <3>2, <3>3, <3>5, <4>1
    <3>8. Kills(log, o, id)
      <4>1. o # id
        BY <2>2, <2>4, <3>7, <1>4
      <4> QED BY <3>4, <4>1 DEF Dates
    <3>9. o \in F..e /\ A < o /\ o \in 1..Len(log)
      BY <1>4, <2>2, <3>5, <3>7
    <3>10. log[o].sign = -1
      BY <1>4, <2>2, <3>8, <3>9 DEF Paired
    <3>11. o \in Del
      BY <1>6, <3>9, <3>10
    <3>12. V(o) = id
      <4>1. Kills(log, o, V(o)) /\ V(o) \in 1..Len(log)
        BY <1>6, <3>11
      <4> QED BY <1>4, <2>2, <3>8, <3>9, <4>1 DEF Paired
    <3> QED BY <1>9, <3>11, <3>12
  <2> QED BY <2>3, <2>4
<1>17. Writes(log, A, e, t)
  BY <1>14, <1>15, <1>16, Zenon DEF Writes
<1> QED BY <1>1, <1>3, <1>7, <1>17, Zenon

\* What of it the table does not have yet is the difference to the table's events.
LEMMA NeededIs ==
  ASSUME NEW log, Proper(log), NEW A \in Nat, A <= Len(log), NEW e \in Nat, 1 <= e, e <= Len(log),
         rows = State(log, A), NEW t, Writes(log, A, e, t)
  PROVE  /\ Needed(t) = Changed(log, A, e)
         /\ [id \in Needed(t) |-> t[id]] = Diff(log, A, e)
         /\ Needed(t) = {} <=> e <= A
<1>1. Paired(log) /\ Len(log) \in Nat
  BY DEF Proper
<1>2. /\ DOMAIN rows = Births(log, A)
      /\ \A id \in Births(log, A) : rows[id].version = Version(log, A, id)
  BY StateFields
<1>3. /\ DOMAIN t \in SUBSET Births(log, e) /\ Changed(log, A, e) \in SUBSET DOMAIN t
      /\ \A id \in DOMAIN t : t[id] = [row |-> log[id].row, version |-> Version(log, e, id)]
  BY DEF Writes
<1>4. \A id \in DOMAIN t : t[id].version = Version(log, e, id)
  BY <1>3
<1>5. ASSUME NEW id \in Births(log, e) PROVE id \in Births(log, A) <=> ~(id > A)
  BY DEF Births
<1>6. Needed(t) = {id \in DOMAIN t : id \notin Births(log, A) \/ Version(log, A, id) < Version(log, e, id)}
  BY <1>2, <1>4 DEF Needed
<1>7. Needed(t) = Changed(log, A, e)
  BY <1>3, <1>5, <1>6 DEF Changed
<1>8. [id \in Needed(t) |-> t[id]] = Diff(log, A, e)
  BY <1>3, <1>7 DEF Diff
<1>9. ASSUME e <= A PROVE Changed(log, A, e) = {}
  <2>1. ASSUME NEW id \in Changed(log, A, e) PROVE FALSE
    <3>1. id \in Births(log, e) /\ (id > A \/ Version(log, A, id) < Version(log, e, id))
      BY DEF Changed
    <3>2. ~(id > A)
      BY <1>9, <3>1 DEF Births
    <3>3. Version(log, e, id) \in Nat /\ Version(log, A, id) \in Nat /\ Version(log, e, id) <= Version(log, A, id)
      BY <1>1, <1>9, <3>1, VersionGrows
    <3> QED BY <3>1, <3>2, <3>3
  <2> QED BY <2>1
<1>10. ASSUME ~(e <= A) PROVE Changed(log, A, e) # {}
  <2>1. e \in 1..e
    OBVIOUS
  <2>2. PICK id \in Births(log, e) : e <= Version(log, e, id) /\ Version(log, e, id) \in Nat
    BY <1>1, <2>1, EventShows DEF Proper, Signed
  <2>3. CASE id > A
    BY <2>2, <2>3 DEF Changed
  <2>4. CASE ~(id > A)
    <3>1. id \in Births(log, A)
      BY <1>5, <2>4
    <3>2. Dates(log, A, id, Version(log, A, id))
      BY <1>1, <3>1, VersionIs
    <3>3. Version(log, A, id) < Version(log, e, id)
      BY <1>10, <2>2, <3>2 DEF Dates
    <3> QED BY <3>3 DEF Changed
  <2> QED BY <2>3, <2>4
<1> QED BY <1>7, <1>8, <1>9, <1>10

\* The checks of the plan and of read_ids pass.
LEMMA PlanPasses ==
  ASSUME NEW s, NEW b, NEW m, NEW A, Planning(s, b, m, A), rows = State(s.log, A), loaded = b
  PROVE  /\ Plannable(b, First(b), m, Retained(s))
         /\ Readable(TerminalMutations(b, m))
<1>1. PICK log \in Seq(Event) : log = s.log
  BY StoreFields DEF Planning, Good
<1>2. PICK F \in Nat : F = First(b)
  BY DEF Planning, Spans
<1>3. PICK e \in Nat : e = End(b) - 1
  BY DEF Planning, Spans
<1>4. /\ 1 <= F /\ F <= e /\ e <= Len(log) /\ A \in Nat /\ F <= A + 1 /\ A <= Len(log)
      /\ Proper(log) /\ Paired(log) /\ Len(log) \in Nat
      /\ b.tail = Len(log) + 1 /\ b.before.entry = s.head.entry /\ s.tail = Len(log) + 1 /\ Good(s)
      /\ End(b) = e + 1 /\ Spans(s, b)
  <2>1. /\ First(b) \in Nat /\ End(b) \in Nat /\ First(b) < End(b) /\ 1 <= First(b) /\ End(b) <= s.tail
        /\ s.tail = Len(s.log) + 1 /\ Proper(s.log) /\ A \in Nat /\ A <= Len(s.log) /\ First(b) <= A + 1
        /\ b.tail = s.tail /\ b.before.entry = s.head.entry /\ Good(s) /\ Spans(s, b)
    BY DEF Planning, Spans, Good
  <2>2. Proper(log) /\ Paired(log) /\ Len(log) \in Nat
    BY <1>1, <2>1 DEF Proper
  <2> QED BY <1>1, <1>2, <1>3, <2>1, <2>2
<1>5. Plan(log, b, m, A)
  BY <1>1, PlanIs
<1>6. \A o \in Deletes(b, F, m) :
         /\ o \in F..e /\ log[o].sign = -1 /\ At(b, o) = log[o]
         /\ Earlier(b, F, m, o) < Cardinality(Supply(b, F, m, At(b, o).row))
         /\ Victim(b, F, m, o) \in 1..Len(log) /\ Kills(log, o, Victim(b, F, m, o))
  BY <1>2, <1>3, <1>5, Zenon DEF Plan
<1>7. DOMAIN m = Requested(b, F) /\ DOMAIN m \in SUBSET Row
  BY <1>2, <1>4 DEF Planning, Answered, Requested, Rows, Spans, Event
<1>8. ASSUME NEW r \in DOMAIN m
      PROVE  /\ m[r].through \in Nat /\ m[r].through <= A
             /\ Cardinality(m[r].ids) <= Take(b, F, r)
             /\ \A id \in m[r].ids : id \in Nat /\ id # 0 /\ id <= m[r].through /\ log[id].row = r
  <2>1. PICK p \in (F - 1)..A : Answers(log, p, b, r, m[r])
    BY <1>1, <1>2 DEF Planning, Answered
  <2>2. PICK x : x = m[r]
    OBVIOUS
  <2>3. PICK k \in Nat : k = Take(b, F, r)
    BY <1>2, <1>4, TakeIs
  <2>4. p \in Nat /\ p <= A /\ p + 1 \in Nat
    BY <1>4
  <2>5. PICK live : live = Alive(log, p + 1, r)
    OBVIOUS
  <2>6. /\ x.through \in Nat /\ x.through <= p /\ \A o \in 1..p : log[o].row = r => o <= x.through
        /\ x.ids = Smallest(live, k)
    BY <1>2, <2>1, <2>2, <2>3, <2>5, Zenon DEF Answers
  <2>7. live \in SUBSET Evs(log, 1, p + 1, r, 1) /\ Numbers(Evs(log, 1, p + 1, r, 1))
    BY <2>4, <2>5, EvsType DEF Alive
  <2>8. Numbers(live)
    BY <2>7, NumbersParts
  <2>9. Smallest(live, k) \in SUBSET live /\ Cardinality(Smallest(live, k)) <= k
    BY <2>8, SmallestIs DEF Selects
  <2>10. ASSUME NEW id \in live PROVE id \in Nat /\ id # 0 /\ id <= x.through /\ log[id].row = r
    <3>1. id \in 1..((p + 1) - 1) /\ log[id] = [row |-> r, sign |-> 1]
      BY <2>7 DEF Evs
    <3>2. id \in 1..p /\ log[id].row = r
      BY <2>4, <3>1
    <3> QED BY <2>6, <3>2
  <2>11. Cardinality(x.ids) <= Take(b, F, r) /\ x.ids \in SUBSET live
    BY <2>3, <2>6, <2>9, Zenon
  <2>12. x.through <= A
    BY <1>4, <2>4, <2>6
  <2> QED BY <2>2, <2>6, <2>10, <2>11, <2>12
<1>9. ValidMatches(b, F, m)
  <2>1. ASSUME NEW r \in DOMAIN m
        PROVE  /\ m[r].through < b.tail /\ Cardinality(m[r].ids) <= Take(b, F, r)
               /\ \A id \in m[r].ids : id # 0 /\ id <= m[r].through
    <3>1. m[r].through < b.tail
      BY <1>4, <1>8
    <3> QED BY <1>8, <3>1
  <2>2. ASSUME NEW r \in DOMAIN m, NEW q \in DOMAIN m, r # q PROVE m[r].ids \cap m[q].ids = {}
    BY <1>8, <2>2
  <2> QED BY <2>1, <2>2 DEF ValidMatches
<1>10. ASSUME NEW o \in Deletes(b, F, m), NEW r, r = At(b, o).row, NEW id, id = Victim(b, F, m, o)
       PROVE  /\ Earlier(b, F, m, o) < Cardinality(Supply(b, F, m, r))
              /\ id < o
              /\ (id >= b.before.entry /\ id <= Through(m, r)) => Retained(s)[id] = [row |-> r, sign |-> 1]
  <2>1. /\ o \in F..e /\ At(b, o) = log[o] /\ Earlier(b, F, m, o) < Cardinality(Supply(b, F, m, r))
        /\ id \in 1..Len(log) /\ Kills(log, o, id)
    BY <1>6, <1>10, Zenon
  <2>2. o \in 1..Len(log)
    BY <1>4, <2>1
  <2>3. id < o
    BY <1>4, <2>1, <2>2 DEF Paired
  <2>4. log[o].row = r
    BY <1>10, <2>1, Zenon
  <2>5. log[id] = [row |-> r, sign |-> 1]
    <3>1. PairOf(log, o, id, r)
      BY <2>1, <2>4, KillsPair
    <3> QED BY <3>1, Zenon DEF PairOf
  <2>6. ASSUME id >= b.before.entry PROVE Retained(s)[id] = [row |-> r, sign |-> 1]
    <3>0. s.head.entry \in Nat
      BY <1>4, StoreFields DEF Good
    <3>1. id \in s.head.entry..(s.tail - 1)
      BY <1>4, <2>1, <2>6, <3>0
    <3>2. Retained(s)[id] = EventAt(s, id)
      BY <3>1, Zenon DEF Retained
    <3>3. EventAt(s, id) = s.log[id]
      BY <1>4, <3>1, EventIs
    <3> QED BY <1>1, <2>5, <3>2, <3>3, Zenon
  <2> QED BY <2>1, <2>3, <2>6
<1>11. F >= First(b) /\ F <= b.tail /\ End(b) <= b.tail
  BY <1>2, <1>4
<1>12. Plannable(b, F, m, Retained(s))
  BY <1>9, <1>10, <1>11, Zenon DEF Plannable
<1>13. PICK t : t = TerminalMutations(b, m)
  OBVIOUS
<1>14. Writes(log, A, e, t)
  BY <1>1, <1>3, <1>13, MutationsAre, Zenon
<1>15. ASSUME NEW id \in DOMAIN t \cap DOMAIN rows
       PROVE  rows[id].version \in id..(loaded.tail - 1) /\ rows[id].row = t[id].row
  <2>1. t[id].row = log[id].row
    BY <1>14 DEF Writes
  <2>a. PICK t0 : t0 = State(log, A)
    OBVIOUS
  <2>b. rows = t0
    BY <1>1, <2>a
  <2>c. DOMAIN t0 = Births(log, A) /\ \A i \in Births(log, A) : t0[i].row = log[i].row /\ t0[i].version = Version(log, A, i)
    BY <2>a, StateFields
  <2>d. id \in DOMAIN t0
    BY <2>b
  <2>2. id \in Births(log, A) /\ rows[id].row = log[id].row /\ rows[id].version = Version(log, A, id)
    BY <2>b, <2>c, <2>d
  <2>3. Dates(log, A, id, Version(log, A, id))
    BY <1>4, <2>2, VersionIs
  <2>4. id \in Nat
    BY <2>2 DEF Births
  <2>5. Version(log, A, id) \in id..(loaded.tail - 1)
    BY <1>4, <2>3, <2>4 DEF Dates
  <2> QED BY <2>1, <2>2, <2>5
<1>16. Readable(t)
  BY <1>15 DEF Readable, read_ids, same_row
<1> QED BY <1>2, <1>12, <1>13, <1>16, Zenon

-----------------------------------------------------------------------------
(* The lookups.                                                            *)

\* Numbers with a bound have a largest.
LEMMA LargestExists ==
  ASSUME NEW S \in SUBSET Nat, S # {}, NEW n \in Nat, \A x \in S : x <= n
  PROVE  Max(S) \in S /\ \A y \in S : Max(S) >= y
<1> DEFINE D == {k \in Nat : (\A x \in S : x <= k) => \E x \in S : \A y \in S : x >= y}
<1>1. 0 \in D
  <2>1. ASSUME \A x \in S : x <= 0 PROVE \E x \in S : \A y \in S : x >= y
    <3>1. PICK x : x \in S
      OBVIOUS
    <3>2. \A y \in S : x >= y
      BY <2>1, <3>1
    <3> QED BY <3>1, <3>2
  <2> QED BY <2>1
<1>2. ASSUME NEW k \in Nat, k \in D PROVE k + 1 \in D
  <2>1. ASSUME \A x \in S : x <= k + 1 PROVE \E x \in S : \A y \in S : x >= y
    <3>1. CASE k + 1 \in S
      BY <2>1, <3>1
    <3>2. CASE k + 1 \notin S
      <4>1. \A x \in S : x <= k
        BY <2>1, <3>2
      <4> QED BY <1>2, <4>1
    <3> QED BY <3>1, <3>2
  <2> QED BY <2>1
<1> HIDE DEF D
<1>3. n \in D
  BY <1>1, <1>2, SetInduction
<1>4. \E x \in S : \A y \in S : x >= y
  BY <1>3 DEF D
<1> QED BY <1>4, Zenon DEF Max

\* The live ids of a table, and the versions that it has of a row.
LiveOf(t, r) == {id \in DOMAIN t : t[id] = [row |-> r, version |-> id]}
VersionsOf(t, r) == {t[id].version : id \in {i \in DOMAIN t : t[i].row = r}}

\* Live are the insertions that no deletion has taken.
LEMMA LiveIs ==
  ASSUME NEW log \in Seq(Event), Proper(log), NEW A \in Nat, A <= Len(log), NEW r \in Row,
         NEW t, t = State(log, A)
  PROVE  LiveOf(t, r) = Alive(log, A + 1, r)
<1>1. /\ DOMAIN t = Births(log, A)
      /\ \A id \in Births(log, A) : t[id] = [row |-> log[id].row, version |-> Version(log, A, id)]
  BY StateFields
<1>2. Paired(log) /\ Len(log) \in Nat
  BY DEF Proper
<1>3. ASSUME NEW id
      PROVE  id \in Evs(log, 1, A + 1, r, 1) <=> id \in Births(log, A) /\ log[id].row = r
  <2>1. 1..((A + 1) - 1) = 1..A
    OBVIOUS
  <2>2. \A i \in 1..A : log[i] \in Event
    BY <1>2
  <2>3. \A i \in 1..A : log[i] = [row |-> r, sign |-> 1] <=> log[i].row = r /\ log[i].sign = 1
    BY <2>2 DEF Event
  <2> QED BY <2>1, <2>3, Zenon DEF Evs, Births
<1>4. ASSUME NEW id \in Births(log, A)
      PROVE  Version(log, A, id) = id <=> \A d \in 1..A : ~Kills(log, d, id)
  <2>1. PICK v : v = Version(log, A, id)
    OBVIOUS
  <2>2. Dates(log, A, id, v)
    BY <1>2, <2>1, VersionIs
  <2>3. id \in 1..A
    BY DEF Births
  <2>4. \A d \in 1..A : Kills(log, d, id) => id < d
    BY <1>2, <2>3 DEF Paired
  <2>5. \A d \in 1..A : Kills(log, d, id) => v = d /\ v # id
    BY <2>2, <2>3, <2>4 DEF Dates
  <2>6. v = id \/ (v \in 1..A /\ Kills(log, v, id))
    BY <2>2, <2>3 DEF Dates
  <2> QED BY <2>1, <2>5, <2>6, Zenon
<1>5. ASSUME NEW id \in Births(log, A), log[id].row = r
      PROVE  id \in LiveOf(t, r) <=> id \in Alive(log, A + 1, r)
  <2>1. t[id] = [row |-> r, version |-> Version(log, A, id)] /\ id \in DOMAIN t
    BY <1>1, <1>5
  <2>2. t[id] = [row |-> r, version |-> id] <=> Version(log, A, id) = id
    BY <2>1
  <2>3. id \in Evs(log, 1, A + 1, r, 1)
    BY <1>3, <1>5
  <2>4. id \in Alive(log, A + 1, r) <=> \A d \in 1..A : ~Kills(log, d, id)
    BY <2>3, AliveIs
  <2> QED BY <1>4, <2>1, <2>2, <2>4, Zenon DEF LiveOf
<1>6. ASSUME NEW id \in LiveOf(t, r) PROVE id \in Births(log, A) /\ log[id].row = r
  <2>1. id \in DOMAIN t /\ t[id].row = r
    BY DEF LiveOf
  <2> QED BY <1>1, <2>1
<1>7. ASSUME NEW id \in Alive(log, A + 1, r) PROVE id \in Births(log, A) /\ log[id].row = r
  BY <1>3 DEF Alive
<1> QED BY <1>5, <1>6, <1>7

\* The largest version of a row is its last event.
LEMMA VersionsAre ==
  ASSUME NEW log, Proper(log), NEW A \in Nat, A <= Len(log), NEW r,
         NEW t, t = State(log, A), NEW n, n = IF VersionsOf(t, r) = {} THEN 0 ELSE Max(VersionsOf(t, r))
  PROVE  n \in Nat /\ n <= A /\ \A o \in 1..A : log[o].row = r => o <= n
<1>1. PICK V : V = VersionsOf(t, r)
  OBVIOUS
<1>2. V = {Version(log, A, id) : id \in {i \in Births(log, A) : log[i].row = r}}
  <2>1. /\ DOMAIN t = Births(log, A)
        /\ \A id \in Births(log, A) : t[id].row = log[id].row /\ t[id].version = Version(log, A, id)
    BY StateFields
  <2> QED BY <1>1, <2>1 DEF VersionsOf
<1>3. \A v \in V : v \in Nat /\ v <= A
  <2>1. \A id \in Births(log, A) : Dates(log, A, id, Version(log, A, id))
    BY VersionIs DEF Proper
  <2> QED BY <1>2, <2>1 DEF Dates
<1>4. ASSUME NEW o \in 1..A, log[o].row = r PROVE \E v \in V : o <= v
  <2>1. PICK id \in Births(log, A) :
          log[id].row = log[o].row /\ o <= Version(log, A, id) /\ Version(log, A, id) \in Nat
    BY EventShows DEF Proper, Signed
  <2> QED BY <1>2, <1>4, <2>1
<1>5. CASE V = {}
  BY <1>1, <1>4, <1>5
<1>6. CASE V # {}
  <2>1. Max(V) \in V /\ \A y \in V : Max(V) >= y
    BY <1>3, <1>6, LargestExists
  <2>2. n = Max(V)
    BY <1>1, <1>6
  <2>3. n \in V /\ \A y \in V : n >= y
    BY <2>1, <2>2
  <2> QED BY <1>3, <1>4, <2>3
<1> QED BY <1>5, <1>6

\* A lookup is answered by the table as it is.
LEMMA LookupAnswers ==
  ASSUME NEW log \in Seq(Event), Proper(log), NEW A \in Nat, A <= Len(log), NEW r \in Row,
         rows = State(log, A), NEW b, loaded = b
  PROVE  Answers(log, A, b, r, Lookup(r))
<1>1. PICK t : t = State(log, A)
  OBVIOUS
<1>2. rows = t
  BY <1>1
<1>3. PICK n : n = IF VersionsOf(t, r) = {} THEN 0 ELSE Max(VersionsOf(t, r))
  OBVIOUS
<1>4. Lookup(r) = [through |-> n, ids |-> Smallest(LiveOf(t, r), Take(b, First(b), r))]
  BY <1>2, <1>3, Zenon DEF Lookup, LiveOf, VersionsOf, Live
<1>5. LiveOf(t, r) = Alive(log, A + 1, r)
  BY <1>1, LiveIs
<1>6. n \in Nat /\ n <= A /\ \A o \in 1..A : log[o].row = r => o <= n
  BY <1>1, <1>3, VersionsAre
<1>7. Lookup(r).through = n /\ Lookup(r).ids = Smallest(Alive(log, A + 1, r), Take(b, First(b), r))
  BY <1>4, <1>5
<1> QED BY <1>6, <1>7 DEF Answers

-----------------------------------------------------------------------------
(* The invariant of the sink.                                              *)

\* All the stores have the first n events of a log.
Shares(stores, log, n) == \A s \in stores : AgreeTo(s.log, log, n)

\* A store that a crash may leave, and the target: only what the table has is
\* settled, and the control state knows which objects exist.
Faces(s, A, t, v, l) ==
  /\ s.head.offset <= A + 1
  /\ s.control = "fresh" => ~t /\ ~v /\ l = {}
  /\ s.control = "ready" => t /\ v

(***************************************************************************)
(* A request that may still take effect writes what some events change,    *)
(* beginning where the table once was; those events are in every store     *)
(* that a crash may leave.                                                 *)
(***************************************************************************)
Comes(stores, log, A, t, x) ==
  \/ x = Effect("table", Empty)
  \/ x = Effect("view", Empty) /\ t
  \/ \E p \in Nat, e \in Nat :
       x = Effect("rows", Diff(log, p, e)) /\ p <= A /\ p <= e /\ Shares(stores, log, e)

\* The target has the first A events.
Shown(stores, log, A, t, v, r, l) ==
  /\ r = State(log, A) /\ A \in Nat /\ Shares(stores, log, A)
  /\ \A s \in stores : Faces(s, A, t, v, l)
  /\ t \in BOOLEAN /\ v \in BOOLEAN /\ (v => t)
  /\ \A x \in l : Comes(stores, log, A, t, x)

\* What the delivery in progress has learned and is about to write.
Learned(b, log, A, m) ==
  IF b.before = None THEN m = Empty
  ELSE /\ DOMAIN m \in SUBSET Requested(b, First(b))
       /\ \A r \in DOMAIN m : \E p \in (First(b) - 1)..A : Answers(log, p, b, r, m[r])
Writing(b, log, A, a) ==
  \E p \in Nat : p <= A /\ p <= End(b) - 1 /\ a = Diff(log, p, End(b) - 1)
Doing(at, b, log, A, t, v, m, a) ==
  /\ at = "write" => b.before # None /\ Writing(b, log, A, a)
  /\ at = "settle" => t /\ v /\ (b.before = None \/ End(b) - 1 <= A)
  /\ at \in {"createTable", "inspectView", "createView", "count"} => b.before = None
  /\ at \in {"inspectView", "createView"} => t
  /\ at = "count" => v
  /\ at = "deliver" => Learned(b, log, A, m)
  /\ at # "deliver" => m = Empty

TargetInv(A) ==
  /\ Shown(durable, store.log, A, table, view, rows, late)
  /\ Doing(pc, loaded, store.log, A, table, view, matches, actions)
SinkInv == OutboxInv /\ \E A \in Nat : TargetInv(A)

\* What logs have in common.
LEMMA Sharing ==
  ASSUME NEW a, NEW b, NEW c, NEW n, AgreeTo(a, c, n), AgreeTo(b, c, n)
  PROVE  AgreeTo(a, b, n) /\ AgreeTo(b, a, n)
BY DEF AgreeTo

\* A new store is one of the old ones or has a longer log.
Goes(s, stores, log) ==
  s \in stores \/ (Len(log) <= Len(s.log) /\ Len(s.log) \in Nat /\ \A i \in 1..Len(log) : s.log[i] = log[i])

\* Such a store has what all had.
LEMMA GoesShares ==
  ASSUME NEW stores, NEW log, Len(log) \in Nat, NEW n \in Nat, Shares(stores, log, n), stores # {},
         NEW s, Goes(s, stores, log)
  PROVE  AgreeTo(s.log, log, n)
<1>1. n <= Len(log)
  BY DEF Shares, AgreeTo
<1> QED BY <1>1 DEF Shares, AgreeTo, Goes

(***************************************************************************)
(* A step of the outbox: the target stays, the stores become others.       *)
(***************************************************************************)
LEMMA ShownTurns ==
  ASSUME NEW stores, NEW log, Len(log) \in Nat, NEW A, NEW t, NEW v, NEW r, NEW l,
         Shown(stores, log, A, t, v, r, l), stores # {},
         NEW into, NEW s0 \in into, \A s \in into : Goes(s, stores, log) /\ Faces(s, A, t, v, l)
  PROVE  Shown(into, s0.log, A, t, v, r, l)
<1>0. A \in Nat /\ r = State(log, A) /\ Shares(stores, log, A)
  BY DEF Shown
<1>1. ASSUME NEW n \in Nat, Shares(stores, log, n) PROVE Shares(into, s0.log, n) /\ AgreeTo(s0.log, log, n)
  <2>1. AgreeTo(s0.log, log, n)
    BY <1>1, GoesShares
  <2>2. \A s \in into : AgreeTo(s.log, log, n)
    BY <1>1, GoesShares
  <2>3. ASSUME NEW s \in into PROVE AgreeTo(s.log, s0.log, n)
    BY <2>1, <2>2, Sharing
  <2> QED BY <2>1, <2>3 DEF Shares
<1>2. Shares(into, s0.log, A) /\ AgreeTo(s0.log, log, A)
  BY <1>0, <1>1
<1>3. r = State(s0.log, A)
  <2>1. A <= A
    BY <1>0
  <2>2. State(s0.log, A) = State(log, A)
    BY <1>0, <1>2, <2>1, StateLocal
  <2> QED BY <1>0, <2>2
<1>4. ASSUME NEW x \in l PROVE Comes(into, s0.log, A, t, x)
  <2>1. Comes(stores, log, A, t, x)
    BY DEF Shown
  <2>2. ASSUME NEW p \in Nat, NEW e \in Nat, x = Effect("rows", Diff(log, p, e)), p <= A, p <= e, Shares(stores, log, e)
        PROVE  Comes(into, s0.log, A, t, x)
    <3>1. Shares(into, s0.log, e) /\ AgreeTo(s0.log, log, e)
      BY <1>1, <2>2
    <3>2. e <= e
      OBVIOUS
    <3>3. Diff(s0.log, p, e) = Diff(log, p, e)
      BY <2>2, <3>1, <3>2, DiffLocal
    <3> QED BY <2>2, <3>1, <3>3, Zenon DEF Comes
  <2> QED BY <2>1, <2>2, Zenon DEF Comes
<1> QED BY <1>0, <1>2, <1>3, <1>4 DEF Shown

(***************************************************************************)
(* A step of the target: the stores stay.                                  *)
(***************************************************************************)
LEMMA ShownGrows ==
  ASSUME NEW stores, NEW log, NEW A, NEW t, NEW v, NEW r, NEW l,
         Shown(stores, log, A, t, v, r, l), \A s \in stores : s.head.offset \in Nat,
         NEW B \in Nat, A <= B, Shares(stores, log, B),
         NEW u \in BOOLEAN, NEW w \in BOOLEAN, (t => u), (v => w), (w => u),
         NEW q, q = State(log, B),
         NEW k, \A x \in k : x \in l \/ Comes(stores, log, B, u, x),
         \A s \in stores : s.control = "fresh" => u = t /\ w = v /\ k = l
  PROVE  Shown(stores, log, B, u, w, q, k)
<1>0. A \in Nat
  BY DEF Shown
<1>1. ASSUME NEW s \in stores PROVE Faces(s, B, u, w, k)
  <2>1. Faces(s, A, t, v, l)
    BY DEF Shown
  <2>2. s.head.offset <= B + 1
    BY <1>0, <2>1 DEF Faces
  <2> QED BY <2>1, <2>2 DEF Faces
<1>2. ASSUME NEW x \in l PROVE Comes(stores, log, B, u, x)
  <2>1. Comes(stores, log, A, t, x)
    BY DEF Shown
  <2>2. ASSUME NEW p \in Nat, NEW e \in Nat, x = Effect("rows", Diff(log, p, e)), p <= A, p <= e, Shares(stores, log, e)
        PROVE  Comes(stores, log, B, u, x)
    <3>1. p <= B
      BY <1>0, <2>2
    <3> QED BY <2>2, <3>1, Zenon DEF Comes
  <2> QED BY <2>1, <2>2, Zenon DEF Comes
<1> QED BY <1>1, <1>2 DEF Shown

\* What is written brings the table to the longer prefix.
LEMMA ShownMerges ==
  ASSUME NEW stores, NEW log, Proper(log), NEW A, NEW t, NEW v, NEW r, NEW l,
         Shown(stores, log, A, t, v, r, l), stores # {}, NEW p \in Nat, NEW e \in Nat, p <= A, p <= e, Shares(stores, log, e)
  PROVE  \E B \in Nat : A <= B /\ e <= B /\ Shares(stores, log, B) /\ Merge(r, Diff(log, p, e)) = State(log, B)
<1>0. A \in Nat /\ r = State(log, A) /\ Shares(stores, log, A)
  BY DEF Shown
<1>1. A <= Len(log) /\ e <= Len(log) /\ Len(log) \in Nat
  BY <1>0 DEF Shares, AgreeTo, Proper
<1>2. /\ A <= e => Merge(r, Diff(log, p, e)) = State(log, e)
      /\ e <= A => Merge(r, Diff(log, p, e)) = State(log, A)
  BY <1>0, <1>1, MergeIs
<1>3. CASE A <= e
  BY <1>0, <1>2, <1>3
<1>4. CASE e <= A
  BY <1>0, <1>2, <1>4
<1>5. A <= e \/ e <= A
  BY <1>0
<1> QED BY <1>3, <1>4, <1>5

\* A good store's log.
LEMMA GoodLog ==
  ASSUME NEW s, Good(s)
  PROVE  /\ s.log \in Seq(Event) /\ WellFormed(s.log) /\ Proper(s.log) /\ Len(s.log) \in Nat
         /\ s.head.offset \in Nat /\ 1 <= s.head.offset /\ s.tail = Len(s.log) + 1
         /\ s.control # "ready" => s.log = <<>>
<1>1. s.log \in Seq(Event) /\ s.head.offset \in Nat /\ s.head.entry \in Nat
  BY StoreFields DEF Good
<1>2. WellFormed(s.log) /\ s.tail = Len(s.log) + 1 /\ HeadFits(s) /\ (s.control # "ready" => s.log = <<>>)
  BY DEF Good
<1>3. Paired(s.log)
  BY <1>1, <1>2, LogPaired
<1>4. Len(s.log) \in Nat /\ \A i \in 1..Len(s.log) : s.log[i] \in Event
  BY <1>1
<1>5. Signed(s.log)
  BY <1>4 DEF Signed, Event
<1>6. 1 <= s.head.offset
  BY <1>1, <1>2 DEF HeadFits
<1> QED BY <1>1, <1>2, <1>3, <1>4, <1>5, <1>6 DEF Proper

\* The stores of the outbox.
LEMMA StoresAre ==
  ASSUME OutboxInv
  PROVE  /\ Good(store) /\ store \in durable /\ durable # {}
         /\ \A s \in durable : s.head.offset \in Nat
         /\ store.log \in Seq(Event) /\ Proper(store.log) /\ Len(store.log) \in Nat
<1>1. Good(store) /\ store \in durable /\ \A s \in durable : Good(s)
  BY KeptStore DEF OutboxInv, Kept, KeptIn
<1>2. \A s \in durable : s.head.offset \in Nat
  BY <1>1, GoodLog
<1>3. store.log \in Seq(Event) /\ Proper(store.log) /\ Len(store.log) \in Nat
  BY <1>1, GoodLog
<1> QED BY <1>1, <1>2, <1>3

\* Where nothing is learned and nothing is about to be written.
Quiet == {"stack", "load", "intent", "sync", "finish", "fail", "closed", "down", "deliver"}

\* What the delivery knows then.
LEMMA QuietDoing ==
  ASSUME NEW at \in Quiet, NEW b, NEW log, NEW A, NEW t, NEW v, NEW a
  PROVE  Doing(at, b, log, A, t, v, Empty, a)
<1>1. DOMAIN Empty = {}
  BY DEF Empty
<1>2. Learned(b, log, A, Empty)
  BY <1>1 DEF Learned
<1> QED BY <1>2 DEF Doing, Quiet

\* A step that leaves the target alone and goes to stores that face it.
LEMMA TargetKept ==
  ASSUME OutboxInv, NEW A, NEW k, Shown(durable, store.log, A, table, view, rows, k),
         table' = table, view' = view, rows' = rows, late' = k, matches' = Empty, pc' \in Quiet,
         store' \in durable', \A s \in durable' : Goes(s, durable, store.log) /\ Faces(s, A, table, view, k)
  PROVE  TargetInv(A)'
<1>1. durable # {} /\ Len(store.log) \in Nat
  BY StoresAre
<1>2. PICK D : D = durable
  OBVIOUS
<1>3. PICK L : L = store.log
  OBVIOUS
<1>4. PICK E : E = durable'
  OBVIOUS
<1>5. PICK y : y = store'
  OBVIOUS
<1>6. /\ Shown(D, L, A, table, view, rows, k) /\ D # {} /\ Len(L) \in Nat /\ y \in E
      /\ \A s \in E : Goes(s, D, L) /\ Faces(s, A, table, view, k)
  BY <1>1, <1>2, <1>3, <1>4, <1>5
<1>7. Shown(E, y.log, A, table, view, rows, k)
  BY <1>6, ShownTurns
<1>8. Shown(durable', store'.log, A, table', view', rows', late')
  BY <1>4, <1>5, <1>7, Zenon
<1>9. Doing(pc', loaded', store'.log, A, table', view', matches', actions')
  BY QuietDoing, Zenon
<1> QED BY <1>8, <1>9, Zenon DEF TargetInv

\* The stores in use face the target.
LEMMA AllFace ==
  ASSUME OutboxInv, NEW A, NEW k, Shown(durable, store.log, A, table, view, rows, k)
  PROVE  \A s \in durable : Goes(s, durable, store.log) /\ Faces(s, A, table, view, k)
BY DEF Shown, Goes

\* The same when the stores stay or become fewer.
LEMMA TargetStays ==
  ASSUME OutboxInv, NEW A, NEW k, Shown(durable, store.log, A, table, view, rows, k),
         table' = table, view' = view, rows' = rows, late' = k, matches' = Empty, pc' \in Quiet,
         store' \in durable', durable' \in SUBSET durable
  PROVE  TargetInv(A)'
<1>1. \A s \in durable' : Goes(s, durable, store.log) /\ Faces(s, A, table, view, k)
  BY AllFace
<1> QED BY <1>1, TargetKept

\* And for a commit.
LEMMA TargetCommits ==
  ASSUME OutboxInv, NEW A, TargetInv(A), UNCHANGED targetVars, matches' = Empty,
         NEW u, NEW next \in Quiet, Commit(u, next), Goes(u, durable, store.log), Faces(u, A, table, view, late)
  PROVE  TargetInv(A)'
<1>1. durable' = durable \cup {u} /\ (store' = u \/ store' = store) /\ pc' \in Quiet
  BY DEF Commit, Quiet
<1>2. Shown(durable, store.log, A, table, view, rows, late)
  BY DEF TargetInv
<1>3. \A s \in durable' : Goes(s, durable, store.log) /\ Faces(s, A, table, view, late)
  BY <1>1, <1>2, AllFace
<1>4. store' \in durable'
  BY <1>1, StoresAre
<1>5. table' = table /\ view' = view /\ rows' = rows /\ late' = late
  BY DEF targetVars
<1> QED BY <1>1, <1>2, <1>3, <1>4, <1>5, TargetKept

\* try_enqueue.
LEMMA EnqueueFaces ==
  ASSUME OutboxInv, NEW A, TargetInv(A), TryEnqueue, UNCHANGED targetVars, matches' = Empty
  PROVE  TargetInv(A)'
<1>1. PICK page \in Pages : /\ store.tail + Len(page) <= MaxOffset /\ Fits(store, page)
                            /\ WellFormed(store.log \o page) /\ Commit(Enqueue(store, page), "stack")
  BY DEF TryEnqueue
<1>2. PICK s : s = store
  OBVIOUS
<1>3. PICK u : u = Enqueue(s, page)
  OBVIOUS
<1>4. Good(s) /\ Faces(s, A, table, view, late) /\ s.control = "ready"
  BY <1>2, StoresAre DEF TryEnqueue, TargetInv, Shown
<1>5. WellFormed(Cat(s.log, page)) /\ s.tail + Len(page) <= MaxOffset /\ Fits(s, page)
  BY <1>1, <1>2 DEF Cat
<1>6. /\ Good(u) /\ u.control = s.control /\ u.head = s.head
      /\ Len(s.log) <= Len(u.log) /\ \A i \in 1..Len(s.log) : u.log[i] = s.log[i]
  BY <1>3, <1>4, <1>5, EnqueueGood
<1>7. Goes(u, durable, s.log)
  BY <1>6, GoodLog DEF Goes
<1>8. Faces(u, A, table, view, late)
  BY <1>4, <1>6 DEF Faces
<1>9. Commit(u, "stack") /\ Goes(u, durable, store.log) /\ "stack" \in Quiet
  BY <1>1, <1>2, <1>3, <1>7, Zenon DEF Quiet
<1> QED BY <1>8, <1>9, TargetCommits

\* Exhausted offsets.
LEMMA ExhaustedFaces ==
  ASSUME OutboxInv, NEW A, TargetInv(A), Exhausted, UNCHANGED targetVars, matches' = Empty
  PROVE  TargetInv(A)'
<1>1. PICK s : s = store
  OBVIOUS
<1>2. PICK u : u = [s EXCEPT !.pinned = TRUE]
  OBVIOUS
<1>3. Good(s) /\ Faces(s, A, table, view, late)
  BY <1>1, StoresAre DEF TargetInv, Shown
<1>4. u.control = s.control /\ u.log = s.log /\ u.head = s.head
  BY <1>2, <1>3, PinGood
<1>5. Faces(u, A, table, view, late)
  BY <1>3, <1>4 DEF Faces
<1>6. Len(s.log) \in Nat
  BY <1>3, GoodLog
<1>7. Goes(u, durable, s.log)
  BY <1>4, <1>6 DEF Goes
<1>8. Commit(u, "fail") /\ Goes(u, durable, store.log) /\ "fail" \in Quiet
  BY <1>1, <1>2, <1>7, Zenon DEF Quiet, Exhausted
<1> QED BY <1>5, <1>8, TargetCommits

\* The intent to create the target.
LEMMA PersistInitializeFaces ==
  ASSUME OutboxInv, NEW A, TargetInv(A), NEW absent, PersistInitialize(absent),
         UNCHANGED targetVars, matches' = Empty
  PROVE  TargetInv(A)'
<1>1. CASE loaded.fresh /\ absent /\ Commit([store EXCEPT !.control = "initialize"], "sync")
  <2>1. PICK s : s = store
    OBVIOUS
  <2>2. PICK u : u = [s EXCEPT !.control = "initialize"]
    OBVIOUS
  <2>3. Good(s) /\ Faces(s, A, table, view, late) /\ s.control # "ready"
    BY <2>1, StoresAre DEF PersistInitialize, OutboxInv, InHand, TargetInv, Shown
  <2>4. u.control = "initialize" /\ u.log = s.log /\ u.head = s.head
    BY <2>2, <2>3, ControlGood
  <2>5. Faces(u, A, table, view, late)
    BY <2>3, <2>4 DEF Faces
  <2>6. Len(s.log) \in Nat
    BY <2>3, GoodLog
  <2>7. Goes(u, durable, s.log)
    BY <2>4, <2>6 DEF Goes
  <2>8. Commit(u, "sync") /\ Goes(u, durable, store.log) /\ "sync" \in Quiet
    BY <1>1, <2>1, <2>2, <2>7, Zenon DEF Quiet
  <2> QED BY <2>5, <2>8, TargetCommits
<1>2. CASE store' = store /\ durable' = durable /\ pc' \in Quiet
  <2>1. Shown(durable, store.log, A, table, view, rows, late)
    BY DEF TargetInv
  <2>2. table' = table /\ view' = view /\ rows' = rows /\ late' = late
    BY DEF targetVars
  <2>3. store' \in durable' /\ durable' \in SUBSET durable
    BY <1>2, StoresAre
  <2> QED BY <1>2, <2>1, <2>2, <2>3, TargetStays
<1>3. (loaded.fresh /\ absent /\ Commit([store EXCEPT !.control = "initialize"], "sync"))
      \/ (store' = store /\ durable' = durable /\ pc' \in Quiet)
  BY DEF PersistInitialize, FailStop, Quiet
<1> QED BY <1>1, <1>2, <1>3

\* A settlement.
LEMMA SettleFaces ==
  ASSUME OutboxInv, NEW A, TargetInv(A), SettleLoaded, UNCHANGED targetVars, matches' = Empty
  PROVE  TargetInv(A)'
<1>1. PICK u : u = IF IsInitialization THEN [store EXCEPT !.control = "ready"]
                                       ELSE Settle(store, loaded)
  OBVIOUS
<1>2. pc = "settle" /\ Commit(u, "finish")
  BY <1>1 DEF SettleLoaded
<1>3. /\ u.control = "ready" /\ u.log = store.log /\ u.tail = store.tail
      /\ \/ Initializes(store, loaded) /\ u.head = store.head
         \/ Batch(store, loaded)
            /\ \E n \in 1..PendingEvents(store) :
                 loaded = Loaded(store, n) /\ u.head.offset = store.head.offset + n
  BY <1>1, <1>2, SettledGood
<1>4. Faces(store, A, table, view, late) /\ Good(store) /\ A \in Nat
  BY StoresAre DEF TargetInv, Shown
<1>5. table /\ view /\ (loaded.before = None \/ End(loaded) - 1 <= A)
  BY <1>2 DEF TargetInv, Doing
<1>6. u.head.offset <= A + 1
  <2>1. CASE u.head = store.head
    BY <1>4, <2>1 DEF Faces
  <2>2. CASE Batch(store, loaded) /\ \E n \in 1..PendingEvents(store) :
                 loaded = Loaded(store, n) /\ u.head.offset = store.head.offset + n
    <3>1. PICK n \in 1..PendingEvents(store) :
                 loaded = Loaded(store, n) /\ u.head.offset = store.head.offset + n
      BY <2>2
    <3>2. End(loaded) = store.head.offset + n /\ End(loaded) \in Nat
      BY <1>4, <3>1, LoadedHolds, BatchSpans DEF Spans
    <3>3. loaded.before # None
      BY <1>4, <2>2, HandIs
    <3>4. End(loaded) <= A + 1
      BY <1>4, <1>5, <3>2, <3>3
    <3> QED BY <3>1, <3>2, <3>4, Zenon
  <2> QED BY <1>3, <2>1, <2>2
<1>7. Faces(u, A, table, view, late)
  BY <1>3, <1>5, <1>6 DEF Faces
<1>8. Goes(u, durable, store.log)
  <2>1. Len(store.log) \in Nat
    BY StoresAre
  <2> QED BY <1>3, <2>1 DEF Goes
<1>9. "finish" \in Quiet
  BY DEF Quiet
<1> QED BY <1>2, <1>7, <1>8, <1>9, TargetCommits

-----------------------------------------------------------------------------
(* The steps of the target.                                                *)

\* Which events a batch in hand stands for.
LEMMA BatchInHand ==
  ASSUME OutboxInv, pc \in Delivering, loaded.before # None
  PROVE  /\ store.control = "ready" /\ Spans(store, loaded) /\ durable = {store}
         /\ End(loaded) - 1 \in Nat /\ 1 <= End(loaded) - 1 /\ End(loaded) - 1 <= Len(store.log)
<1>1. Good(store) /\ durable = {store} /\ (Initializes(store, loaded) \/ Batch(store, loaded))
  BY StoresAre DEF OutboxInv, Barriers, InHand
<1>2. Batch(store, loaded)
  BY <1>1, HandIs
<1>3. PICK n \in 1..PendingEvents(store) : loaded = Loaded(store, n)
  BY <1>2 DEF Batch
<1>4. Spans(store, loaded)
  BY <1>1, <1>3, LoadedHolds, BatchSpans
<1>5. store.tail = Len(store.log) + 1 /\ Len(store.log) \in Nat
  BY <1>1, GoodLog
<1> QED BY <1>1, <1>2, <1>4, <1>5 DEF Spans, Batch

\* An initialization is for a sink without events.
LEMMA InitializationInHand ==
  ASSUME OutboxInv, pc \in Delivering, loaded.before = None
  PROVE  store.control = "initialize" /\ Len(store.log) = 0 /\ durable = {store}
<1>1. Good(store) /\ durable = {store} /\ (Initializes(store, loaded) \/ Batch(store, loaded))
  BY StoresAre DEF OutboxInv, Barriers, InHand
<1>2. Initializes(store, loaded)
  BY <1>1, HandIs
<1>3. store.control = "initialize"
  BY <1>2 DEF Initializes
<1>4. store.log = <<>>
  BY <1>1, <1>3, GoodLog
<1>5. Len(<<>>) = 0
  OBVIOUS
<1> QED BY <1>1, <1>3, <1>4, <1>5, Zenon

\* A delivery is never in hand when the sink is fresh.
LEMMA NotFresh ==
  ASSUME OutboxInv, pc \in Delivering
  PROVE  \A s \in durable : s.control # "fresh"
<1>1. CASE loaded.before = None
  BY <1>1, InitializationInHand
<1>2. CASE loaded.before # None
  BY <1>2, BatchInHand
<1> QED BY <1>1, <1>2

\* Its state is kept by a step that is known to keep the target.
LEMMA TargetMoves ==
  ASSUME NEW B, store' = store, durable' = durable,
         Shown(durable, store.log, B, table', view', rows', late'),
         Doing(pc', loaded', store.log, B, table', view', matches', actions')
  PROVE  TargetInv(B)'
BY Zenon DEF TargetInv

\* A request that may take effect later.
LEMMA TargetOwes ==
  ASSUME OutboxInv, NEW A, TargetInv(A), pc \in Delivering, NEW x, Comes(durable, store.log, A, table, x)
  PROVE  Shown(durable, store.log, A, table, view, rows, late \cup {x})
<1>1. PICK k : k = late \cup {x}
  OBVIOUS
<1>2. Shown(durable, store.log, A, table, view, rows, late)
  BY DEF TargetInv
<1>3. /\ A \in Nat /\ Shares(durable, store.log, A) /\ rows = State(store.log, A) /\ table \in BOOLEAN /\ view \in BOOLEAN
      /\ (view => table)
  BY <1>2 DEF Shown
<1>4. A <= A /\ (table => table) /\ (view => view)
  BY <1>3
<1>5. \A y \in k : y \in late \/ Comes(durable, store.log, A, table, y)
  BY <1>1
<1>6. \A s \in durable : s.control = "fresh" => table = table /\ view = view /\ k = late
  BY NotFresh
<1>7. \A s \in durable : s.head.offset \in Nat
  BY StoresAre
<1>8. Shown(durable, store.log, A, table, view, rows, k)
  <2>1. PICK D : D = durable
    OBVIOUS
  <2>2. PICK L : L = store.log
    OBVIOUS
  <2>3. PICK t : t = table
    OBVIOUS
  <2>4. PICK v : v = view
    OBVIOUS
  <2>5. PICK r : r = rows
    OBVIOUS
  <2>6. PICK l : l = late
    OBVIOUS
  <2>7. Shown(D, L, A, t, v, r, k)
    <3>1. Shown(D, L, A, t, v, r, l) /\ \A s \in D : s.head.offset \in Nat
      BY <1>2, <1>7, <2>1, <2>2, <2>3, <2>4, <2>5, <2>6
    <3>2. /\ A \in Nat /\ A <= A /\ Shares(D, L, A) /\ r = State(L, A)
          /\ t \in BOOLEAN /\ v \in BOOLEAN /\ (t => t) /\ (v => v) /\ (v => t)
      BY <1>3, <1>4, <2>1, <2>2, <2>3, <2>4, <2>5
    <3>3. \A y \in k : y \in l \/ Comes(D, L, A, t, y)
      BY <1>5, <2>1, <2>2, <2>3, <2>6
    <3>4. \A s \in D : s.control = "fresh" => t = t /\ v = v /\ k = l
      BY <1>6, <2>1, <2>6
    <3> QED BY <3>1, <3>2, <3>3, <3>4, ShownGrows
  <2> QED BY <2>1, <2>2, <2>3, <2>4, <2>5, <2>7, Zenon
<1> QED BY <1>1, <1>8, Zenon

\* The table's events, and what is about to be written.
LEMMA WritesEvents ==
  ASSUME OutboxInv, NEW A, TargetInv(A), pc = "write"
  PROVE  \E p \in Nat : /\ p <= A /\ p <= End(loaded) - 1 /\ actions = Diff(store.log, p, End(loaded) - 1)
                        /\ Shares(durable, store.log, End(loaded) - 1) /\ End(loaded) - 1 \in Nat
                        /\ loaded.before # None
<1>1. loaded.before # None /\ Writing(loaded, store.log, A, actions)
  BY DEF TargetInv, Doing
<1>2. durable = {store} /\ End(loaded) - 1 \in Nat /\ End(loaded) - 1 <= Len(store.log)
  BY <1>1, BatchInHand DEF Delivering
<1>3. Shares(durable, store.log, End(loaded) - 1)
  BY <1>2 DEF Shares, AgreeTo
<1>4. PICK p \in Nat : p <= A /\ p <= End(loaded) - 1 /\ actions = Diff(store.log, p, End(loaded) - 1)
  BY <1>1 DEF Writing
<1> QED BY <1>1, <1>2, <1>3, <1>4

\* A write may take effect later.
LEMMA WriteComes ==
  ASSUME OutboxInv, NEW A, TargetInv(A), pc = "write"
  PROVE  Comes(durable, store.log, A, table, Effect("rows", actions))
<1>1. PICK p \in Nat : /\ p <= A /\ p <= End(loaded) - 1 /\ actions = Diff(store.log, p, End(loaded) - 1)
                       /\ Shares(durable, store.log, End(loaded) - 1) /\ End(loaded) - 1 \in Nat
  BY WritesEvents
<1>2. PICK e \in Nat : e = End(loaded) - 1
  BY <1>1
<1> QED BY <1>1, <1>2, Zenon DEF Comes

\* What a crash leaves of a request.
LEMMA SentComes ==
  ASSUME OutboxInv, NEW A, TargetInv(A)
  PROVE  Shown(durable, store.log, A, table, view, rows, late \cup Sent)
<1>0. Shown(durable, store.log, A, table, view, rows, late)
  BY DEF TargetInv
<1>1. CASE pc = "createTable"
  <2>1. Comes(durable, store.log, A, table, Effect("table", Empty))
    BY DEF Comes
  <2>2. Sent = {Effect("table", Empty)} /\ pc \in Delivering
    BY <1>1 DEF Sent, Delivering
  <2> QED BY <2>1, <2>2, TargetOwes
<1>2. CASE pc = "createView"
  <2>1. table
    BY <1>2 DEF TargetInv, Doing
  <2>2. Comes(durable, store.log, A, table, Effect("view", Empty))
    BY <2>1 DEF Comes
  <2>3. Sent = {Effect("view", Empty)} /\ pc \in Delivering
    BY <1>2 DEF Sent, Delivering
  <2> QED BY <2>2, <2>3, TargetOwes
<1>3. CASE pc = "write"
  <2>1. Comes(durable, store.log, A, table, Effect("rows", actions))
    BY <1>3, WriteComes
  <2>2. Sent = {Effect("rows", actions)} /\ pc \in Delivering
    BY <1>3 DEF Sent, Delivering
  <2> QED BY <2>1, <2>2, TargetOwes
<1>4. CASE pc \notin {"createTable", "createView", "write"}
  <2>1. Sent = {}
    BY <1>4 DEF Sent
  <2>2. late \cup {} = late
    OBVIOUS
  <2> QED BY <1>0, <2>1, <2>2, Zenon
<1> QED BY <1>1, <1>2, <1>3, <1>4

\* The steps of a round that do not touch the target.
LEMMA DrainKeeps ==
  ASSUME OutboxInv, NEW A, TargetInv(A), Drain
  PROVE  OutboxInv' /\ TargetInv(A)' /\ Turns(store', store)
<1>0. /\ Shown(durable, store.log, A, table, view, rows, late) /\ store \in durable
      /\ table' = table /\ view' = view /\ rows' = rows /\ late' = late /\ UNCHANGED targetVars /\ matches' = matches
  BY StoresAre DEF TargetInv, Drain, targetVars, localVars
<1>1. CASE TryEnqueue
  <2>1. matches' = Empty
    BY <1>0, <1>1 DEF TryEnqueue, TargetInv, Doing
  <2> QED BY <1>0, <1>1, <2>1, TryEnqueueStep, EnqueueFaces
<1>2. CASE StackDone \/ Load \/ Open
  <2>1. OutboxInv' /\ Turns(store', store)
    BY <1>2, StackDoneStep, LoadStep, OpenStep
  <2>2. store' = store /\ durable' = durable /\ pc' \in Quiet /\ pc # "deliver"
    BY <1>2 DEF StackDone, Load, Open, Quiet
  <2>3. store' \in durable' /\ durable' \in SUBSET durable /\ matches' = Empty
    BY <1>0, <2>2 DEF TargetInv, Doing
  <2> QED BY <1>0, <2>1, <2>2, <2>3, TargetStays
<1>3. CASE Sync \/ Finish
  <2>1. OutboxInv' /\ Turns(store', store)
    BY <1>3, SyncStep, FinishStep
  <2>2. store' = store /\ durable' \in {durable, {store}} /\ pc' \in Quiet /\ pc # "deliver"
    BY <1>3 DEF Sync, Finish, FailStop, Quiet
  <2>3. store' \in durable' /\ durable' \in SUBSET durable /\ matches' = Empty
    BY <1>0, <2>2 DEF TargetInv, Doing
  <2> QED BY <1>0, <2>1, <2>2, <2>3, TargetStays
<1>4. CASE SettleLoaded
  <2>1. matches' = Empty
    BY <1>0, <1>4 DEF SettleLoaded, TargetInv, Doing
  <2> QED BY <1>0, <1>4, <2>1, SettleLoadedStep, SettleFaces
<1>5. CASE PersistInitialize(~table /\ ~view)
  <2>1. PICK absent : absent = (~table /\ ~view)
    OBVIOUS
  <2>2. PersistInitialize(absent)
    BY <1>5, <2>1, Zenon
  <2>3. matches' = Empty
    BY <1>0, <1>5 DEF PersistInitialize, TargetInv, Doing
  <2> QED BY <1>0, <2>2, <2>3, PersistInitializeStep, PersistInitializeFaces
<1>6. CASE Close
  <2>1. OutboxInv' /\ Turns(store', store)
    BY <1>6, StopStep DEF Close
  <2>2. PICK s \in durable : store' = s /\ durable' = {s}
    BY <1>6 DEF Close, Stop
  <2>3. pc' \in Quiet /\ pc # "deliver"
    BY <1>6 DEF Close, Stop, Quiet
  <2>4. store' \in durable' /\ durable' \in SUBSET durable /\ matches' = Empty
    BY <1>0, <2>2, <2>3 DEF TargetInv, Doing
  <2> QED BY <1>0, <2>1, <2>3, <2>4, TargetStays
<1>7. CASE Exhausted
  <2>1. matches' = Empty
    BY <1>0, <1>7 DEF Exhausted, TargetInv, Doing
  <2> QED BY <1>0, <1>7, <2>1, ExhaustedStep, ExhaustedFaces
<1> QED BY <1>1, <1>2, <1>3, <1>4, <1>5, <1>6, <1>7 DEF Drain, OutboxStep

\* A crash.
LEMMA CrashKeeps ==
  ASSUME OutboxInv, NEW A, TargetInv(A), CrashNow
  PROVE  OutboxInv' /\ TargetInv(A)' /\ Turns(store', store)
<1>1. OutboxInv' /\ Turns(store', store)
  BY StopStep DEF CrashNow, Crash
<1>2. PICK s \in durable : store' = s /\ durable' = {s}
  BY DEF CrashNow, Crash, Stop
<1>3. pc' \in Quiet /\ matches' = Empty /\ table' = table /\ view' = view /\ rows' = rows
  BY DEF CrashNow, Crash, Stop, Quiet
<1>4. late' = late \/ late' = late \cup Sent
  BY DEF CrashNow
<1>5. PICK k : k = late'
  OBVIOUS
<1>6. Shown(durable, store.log, A, table, view, rows, k)
  <2>1. Shown(durable, store.log, A, table, view, rows, late)
    BY DEF TargetInv
  <2> QED BY <1>4, <1>5, <2>1, SentComes
<1>7. store' \in durable' /\ durable' \in SUBSET durable
  BY <1>2
<1> QED BY <1>1, <1>3, <1>5, <1>6, <1>7, TargetStays

\* What is known stays true when the target has more.
LEMMA DoingGrows ==
  ASSUME NEW at, NEW b, NEW log, NEW A \in Nat, NEW B \in Nat, A <= B,
         NEW t, NEW v, NEW u, NEW w, (t => u), (v => w), NEW m, NEW a,
         Doing(at, b, log, A, t, v, m, a), b.before = None \/ End(b) - 1 \in Nat
  PROVE  Doing(at, b, log, B, u, w, m, a)
<1>1. ASSUME Writing(b, log, A, a) PROVE Writing(b, log, B, a)
  <2>1. PICK p \in Nat : p <= A /\ p <= End(b) - 1 /\ a = Diff(log, p, End(b) - 1)
    BY <1>1 DEF Writing
  <2>2. p <= B
    BY <2>1
  <2> QED BY <2>1, <2>2 DEF Writing
<1>2. ASSUME Learned(b, log, A, m) PROVE Learned(b, log, B, m)
  <2>1. CASE b.before = None
    BY <1>2, <2>1 DEF Learned
  <2>2. CASE b.before # None
    <3>1. /\ DOMAIN m \in SUBSET Requested(b, First(b))
          /\ \A r \in DOMAIN m : \E p \in (First(b) - 1)..A : Answers(log, p, b, r, m[r])
      BY <1>2, <2>2 DEF Learned
    <3>2. \A p \in (First(b) - 1)..A : p \in (First(b) - 1)..B
      OBVIOUS
    <3>3. \A r \in DOMAIN m : \E p \in (First(b) - 1)..B : Answers(log, p, b, r, m[r])
      BY <3>1, <3>2, Zenon
    <3> QED BY <2>2, <3>1, <3>3, Zenon DEF Learned
  <2> QED BY <2>1, <2>2
<1>3. (b.before = None \/ End(b) - 1 <= A) => (b.before = None \/ End(b) - 1 <= B)
  OBVIOUS
<1> QED BY <1>1, <1>2, <1>3 DEF Doing

\* The batch in hand, if there is one, has an end.
LEMMA HandEnds ==
  ASSUME OutboxInv, pc \in Delivering
  PROVE  loaded.before = None \/ End(loaded) - 1 \in Nat
BY BatchInHand

\* A step of a delivery that does nothing to the target but looks at it.
LEMMA LookKeeps ==
  ASSUME OutboxInv, NEW A, TargetInv(A), pc \in Delivering, pc' \in Delivering,
         UNCHANGED <<store, durable, loaded, needsReopen, targetVars>>,
         Doing(pc', loaded, store.log, A, table, view, matches', actions')
  PROVE  OutboxInv' /\ TargetInv(A)'
<1>1. store' = store /\ durable' = durable /\ loaded' = loaded /\ table' = table /\ view' = view /\ rows' = rows /\ late' = late
      /\ UNCHANGED <<store, durable, loaded, needsReopen>>
  BY DEF targetVars
<1>2. OutboxInv'
  BY <1>1, DeliveryStep
<1>3. Shown(durable, store.log, A, table', view', rows', late')
  BY <1>1, Zenon DEF TargetInv
<1>4. Doing(pc', loaded', store.log, A, table', view', matches', actions')
  BY <1>1, Zenon
<1> QED BY <1>1, <1>2, <1>3, <1>4, TargetMoves

\* A failure that leaves the target as it is.
LEMMA FailKeeps ==
  ASSUME OutboxInv, NEW A, TargetInv(A), FailStop, UNCHANGED <<store, durable, targetVars>>, matches' = Empty
  PROVE  OutboxInv' /\ TargetInv(A)'
<1>1. OutboxInv'
  BY FailStopStep
<1>2. Shown(durable, store.log, A, table, view, rows, late)
  BY DEF TargetInv
<1>3. table' = table /\ view' = view /\ rows' = rows /\ late' = late /\ pc' \in Quiet
  BY DEF targetVars, FailStop, Quiet
<1>4. store' \in durable' /\ durable' \in SUBSET durable
  BY StoresAre
<1> QED BY <1>1, <1>2, <1>3, <1>4, TargetStays

\* initialize: look at both objects.
LEMMA InspectKeeps ==
  ASSUME OutboxInv, NEW A, TargetInv(A), Inspect
  PROVE  OutboxInv' /\ TargetInv(A)'
<1>1. pc = "deliver" /\ loaded.before = None /\ matches' = matches /\ matches = Empty /\ actions' = actions
  BY DEF Inspect, IsInitialization, localVars, TargetInv, Doing, Learned
<1>2. CASE pc' = "createTable" /\ UNCHANGED needsReopen
  <2>1. Doing("createTable", loaded, store.log, A, table, view, Empty, actions')
    BY <1>1 DEF Doing
  <2> QED BY <1>1, <1>2, <2>1, LookKeeps DEF Inspect, Delivering
<1>3. CASE pc' = "inspectView" /\ table /\ UNCHANGED needsReopen
  <2>1. Doing("inspectView", loaded, store.log, A, table, view, Empty, actions')
    BY <1>1, <1>3 DEF Doing
  <2> QED BY <1>1, <1>3, <2>1, LookKeeps DEF Inspect, Delivering
<1>4. CASE FailStop
  BY <1>1, <1>4, FailKeeps DEF Inspect
<1> QED BY <1>2, <1>3, <1>4 DEF Inspect

\* initialize: the view, if it is there.
LEMMA InspectViewKeeps ==
  ASSUME OutboxInv, NEW A, TargetInv(A), InspectView
  PROVE  OutboxInv' /\ TargetInv(A)'
<1>1. /\ pc = "inspectView" /\ loaded.before = None /\ matches' = Empty /\ table
  BY DEF InspectView, localVars, TargetInv, Doing, verify_state
<1>2. CASE view /\ pc' = "count"
  <2>1. Doing("count", loaded, store.log, A, table, view, Empty, actions')
    BY <1>1, <1>2 DEF Doing
  <2> QED BY <1>1, <1>2, <2>1, LookKeeps DEF InspectView, Delivering
<1>3. CASE ~view /\ pc' = "createView"
  <2>1. Doing("createView", loaded, store.log, A, table, view, Empty, actions')
    BY <1>1, <1>3 DEF Doing
  <2> QED BY <1>1, <1>3, <2>1, LookKeeps DEF InspectView, Delivering
<1> QED BY <1>2, <1>3 DEF InspectView

\* The rows of the table are counted.
LEMMA CountRowsKeeps ==
  ASSUME OutboxInv, NEW A, TargetInv(A), CountRows
  PROVE  OutboxInv' /\ TargetInv(A)'
<1>1. pc = "count" /\ loaded.before = None /\ matches' = Empty /\ view /\ table
  BY DEF CountRows, localVars, TargetInv, Doing, Shown, verify_view
<1>2. CASE pc' = "settle" /\ UNCHANGED needsReopen
  <2>1. Doing("settle", loaded, store.log, A, table, view, Empty, actions')
    BY <1>1 DEF Doing
  <2> QED BY <1>1, <1>2, <2>1, LookKeeps DEF CountRows, Delivering
<1>3. CASE FailStop
  BY <1>1, <1>3, FailKeeps DEF CountRows
<1> QED BY <1>2, <1>3 DEF CountRows

\* A lookup.
LEMMA LookUpKeeps ==
  ASSUME OutboxInv, NEW A, TargetInv(A), LookUp
  PROVE  OutboxInv' /\ TargetInv(A)'
<1>1. pc = "deliver" /\ loaded.before # None /\ pc' = pc /\ Learned(loaded, store.log, A, matches)
  BY DEF LookUp, IsInitialization, TargetInv, Doing
<1>2. PICK row \in Requested(loaded, First(loaded)) \ DOMAIN matches :
        matches' = [r \in DOMAIN matches \cup {row} |-> IF r = row THEN Lookup(row) ELSE matches[r]]
  BY DEF LookUp
<1>3. PICK b : b = loaded
  OBVIOUS
<1>4. PICK log \in Seq(Event) : log = store.log
  BY StoresAre
<1>5. Proper(log) /\ Len(log) \in Nat /\ A \in Nat /\ A <= Len(log) /\ rows = State(log, A)
  BY <1>4, StoresAre DEF TargetInv, Shown, Shares, AgreeTo
<1>6. Spans(store, b) /\ b.before # None
  BY <1>1, <1>3, BatchInHand DEF Delivering
<1>7. row \in Row
  BY <1>2, <1>3, <1>6 DEF Requested, Rows, Spans, Event
<1>8. Answers(log, A, b, row, Lookup(row))
  BY <1>3, <1>5, <1>7, LookupAnswers
<1>9. A \in (First(b) - 1)..A
  <2>1. First(b) = store.head.offset /\ First(b) \in Nat
    BY <1>6 DEF Spans
  <2>2. store.head.offset <= A + 1
    BY StoresAre DEF TargetInv, Shown, Faces
  <2> QED BY <1>5, <2>1, <2>2
<1>10. /\ DOMAIN matches \in SUBSET Requested(b, First(b))
       /\ \A r \in DOMAIN matches : \E p \in (First(b) - 1)..A : Answers(log, p, b, r, matches[r])
  BY <1>1, <1>3, <1>4, <1>6, Zenon DEF Learned
<1>11. DOMAIN matches' = DOMAIN matches \cup {row} /\ matches'[row] = Lookup(row)
       /\ \A r \in DOMAIN matches : matches'[r] = matches[r]
  BY <1>2
<1>12. \A r \in DOMAIN matches' : \E p \in (First(b) - 1)..A : Answers(log, p, b, r, matches'[r])
  <2>1. ASSUME NEW r \in DOMAIN matches PROVE \E p \in (First(b) - 1)..A : Answers(log, p, b, r, matches'[r])
    BY <1>10, <1>11
  <2>2. \E p \in (First(b) - 1)..A : Answers(log, p, b, row, matches'[row])
    BY <1>8, <1>9, <1>11, Zenon
  <2> QED BY <1>11, <2>1, <2>2
<1>13. DOMAIN matches' \in SUBSET Requested(b, First(b))
  BY <1>2, <1>3, <1>10, <1>11
<1>14. Learned(loaded, store.log, A, matches')
  BY <1>3, <1>4, <1>6, <1>12, <1>13, Zenon DEF Learned
<1>15. Doing("deliver", loaded, store.log, A, table, view, matches', actions')
  BY <1>14 DEF Doing
<1>16. UNCHANGED <<store, durable, loaded, needsReopen, targetVars>>
  BY DEF LookUp
<1> QED BY <1>1, <1>15, <1>16, LookKeeps DEF Delivering

\* When all rows are looked up there is a plan.
LEMMA PlanReady ==
  ASSUME OutboxInv, NEW A, TargetInv(A), LookedUp
  PROVE  Planning(store, loaded, matches, A) /\ rows = State(store.log, A) /\ pc = "deliver" /\ loaded.before # None
<1>1. pc = "deliver" /\ loaded.before # None /\ Learned(loaded, store.log, A, matches)
      /\ DOMAIN matches = Requested(loaded, First(loaded))
  BY DEF LookedUp, IsInitialization, TargetInv, Doing
<1>2. Answered(store.log, loaded, matches, A)
  BY <1>1 DEF Learned, Answered
<1>3. Good(store) /\ Proper(store.log) /\ Len(store.log) \in Nat
  BY StoresAre
<1>4. Spans(store, loaded)
  BY <1>1, BatchInHand DEF Delivering
<1>5. A \in Nat /\ A <= Len(store.log) /\ rows = State(store.log, A) /\ store.head.offset <= A + 1
  BY StoresAre DEF TargetInv, Shown, Shares, AgreeTo, Faces
<1>6. First(loaded) <= A + 1
  BY <1>4, <1>5 DEF Spans
<1> QED BY <1>1, <1>2, <1>3, <1>4, <1>5, <1>6 DEF Planning

\* And it is accepted.
LEMMA PlanGood ==
  ASSUME OutboxInv, NEW A, TargetInv(A), LookedUp
  PROVE  PlanAccepted
<1>1. PICK s : s = store
  OBVIOUS
<1>2. PICK b : b = loaded
  OBVIOUS
<1>3. PICK m : m = matches
  OBVIOUS
<1>4. Planning(s, b, m, A) /\ rows = State(s.log, A)
  BY <1>1, <1>2, <1>3, PlanReady
<1>5. Plannable(b, First(b), m, Retained(s)) /\ Readable(TerminalMutations(b, m))
  BY <1>2, <1>4, PlanPasses
<1> QED BY <1>1, <1>2, <1>3, <1>5, Zenon DEF PlanAccepted

\* plan and read_ids.
LEMMA ReadIdsKeeps ==
  ASSUME OutboxInv, NEW A, TargetInv(A), ReadIds
  PROVE  OutboxInv' /\ TargetInv(A)'
<1>0. LookedUp /\ PlanAccepted
  BY PlanGood DEF ReadIds
<1>1. /\ Planning(store, loaded, matches, A) /\ rows = State(store.log, A) /\ pc = "deliver" /\ loaded.before # None
  BY <1>0, PlanReady
<1>2. PICK t : t = TerminalMutations(loaded, matches)
  OBVIOUS
<1>3. /\ actions' = [id \in Needed(t) |-> t[id]] /\ pc' = IF Needed(t) = {} THEN "settle" ELSE "write"
      /\ UNCHANGED <<store, durable, loaded, needsReopen, targetVars>> /\ matches' = Empty
  BY <1>0, <1>2, Zenon DEF ReadIds
<1>4. PICK s : s = store
  OBVIOUS
<1>5. PICK b : b = loaded
  OBVIOUS
<1>6. PICK m : m = matches
  OBVIOUS
<1>7. PICK log : log = s.log
  OBVIOUS
<1>8. PICK e \in Nat : e = End(b) - 1 /\ 1 <= e /\ e <= Len(log)
  BY <1>1, <1>4, <1>5, <1>7, BatchInHand DEF Delivering
<1>9. Planning(s, b, m, A)
  BY <1>1, <1>4, <1>5, <1>6
<1>10. Proper(log) /\ A \in Nat /\ A <= Len(log)
  BY <1>7, <1>9 DEF Planning
<1>11. Writes(log, A, e, t)
  <2>1. Writes(s.log, A, End(b) - 1, TerminalMutations(b, m))
    BY <1>9, MutationsAre
  <2> QED BY <1>2, <1>5, <1>6, <1>7, <1>8, <2>1, Zenon
<1>12. rows = State(log, A)
  BY <1>1, <1>4, <1>7
<1>13. [id \in Needed(t) |-> t[id]] = Diff(log, A, e) /\ (Needed(t) = {} <=> e <= A)
  BY <1>8, <1>10, <1>11, <1>12, NeededIs
<1>14. table /\ view
  <2>1. store.control = "ready" /\ store \in durable
    BY <1>1, BatchInHand, StoresAre DEF Delivering
  <2> QED BY <2>1 DEF TargetInv, Shown, Faces
<1>15. CASE Needed(t) = {}
  <2>1. pc' = "settle" /\ e <= A
    BY <1>3, <1>13, <1>15
  <2>2. Doing("settle", b, log, A, table, view, Empty, actions')
    BY <1>8, <1>14, <2>1 DEF Doing
  <2>3. Doing("settle", loaded, store.log, A, table, view, Empty, actions')
    BY <1>4, <1>5, <1>7, <2>2, Zenon
  <2> QED BY <1>1, <1>3, <2>1, <2>3, LookKeeps DEF Delivering
<1>16. CASE Needed(t) # {}
  <2>1. pc' = "write" /\ A <= e /\ A <= A
    BY <1>3, <1>8, <1>10, <1>13, <1>16
  <2>2. actions' = Diff(log, A, e)
    BY <1>3, <1>13, Zenon
  <2>3. Writing(b, log, A, actions')
    BY <1>8, <1>10, <2>1, <2>2, Zenon DEF Writing
  <2>4. b.before # None
    BY <1>1, <1>5
  <2>5. Doing("write", b, log, A, table, view, Empty, actions')
    BY <2>3, <2>4 DEF Doing
  <2>6. Doing("write", loaded, store.log, A, table, view, Empty, actions')
    BY <1>4, <1>5, <1>7, <2>5, Zenon
  <2> QED BY <1>1, <1>3, <2>1, <2>6, LookKeeps DEF Delivering
<1> QED BY <1>15, <1>16

\* A failure of a request that has done what it was to do, or will.
LEMMA FailMoves ==
  ASSUME OutboxInv, FailStop, UNCHANGED <<store, durable>>, matches' = Empty,
         NEW B, Shown(durable, store.log, B, table', view', rows', late')
  PROVE  OutboxInv' /\ TargetInv(B)'
<1>1. OutboxInv' /\ pc' \in Quiet
  BY FailStopStep DEF FailStop, Quiet
<1>2. Doing(pc', loaded', store.log, B, table', view', matches', actions')
  BY <1>1, QuietDoing, Zenon
<1> QED BY <1>1, <1>2, TargetMoves

\* An object was made.
LEMMA ObjectShown ==
  ASSUME OutboxInv, NEW A, TargetInv(A), \A s \in durable : s.control # "fresh",
         NEW u \in BOOLEAN, NEW w \in BOOLEAN, (table => u), (view => w), (w => u), NEW k \in SUBSET late
  PROVE  Shown(durable, store.log, A, u, w, rows, k)
<1>1. Shown(durable, store.log, A, table, view, rows, late) /\ \A s \in durable : s.head.offset \in Nat
  BY StoresAre DEF TargetInv
<1>2. PICK D : D = durable
  OBVIOUS
<1>3. PICK L : L = store.log
  OBVIOUS
<1>4. PICK t : t = table
  OBVIOUS
<1>5. PICK v : v = view
  OBVIOUS
<1>6. PICK r : r = rows
  OBVIOUS
<1>7. PICK l : l = late
  OBVIOUS
<1>8. Shown(D, L, A, t, v, r, l) /\ (\A s \in D : s.head.offset \in Nat) /\ (t => u) /\ (v => w)
  BY <1>1, <1>2, <1>3, <1>4, <1>5, <1>6, <1>7
<1>9. A \in Nat /\ A <= A /\ Shares(D, L, A) /\ r = State(L, A)
  BY <1>8 DEF Shown
<1>10. \A x \in k : x \in l \/ Comes(D, L, A, u, x)
  BY <1>7
<1>11. \A s \in D : s.control = "fresh" => u = t /\ w = v /\ k = l
  BY <1>2
<1>12. Shown(D, L, A, u, w, r, k)
  BY <1>8, <1>9, <1>10, <1>11, ShownGrows
<1> QED BY <1>2, <1>3, <1>6, <1>12, Zenon

\* The table is created.
LEMMA CreateTableKeeps ==
  ASSUME OutboxInv, NEW A, TargetInv(A), CreateTable
  PROVE  OutboxInv' /\ TargetInv(A)'
<1>1. /\ pc = "createTable" /\ loaded.before = None /\ matches = Empty /\ matches' = Empty
      /\ store' = store /\ durable' = durable /\ loaded' = loaded /\ view' = view /\ rows' = rows
      /\ UNCHANGED <<store, durable>>
  BY DEF CreateTable, localVars, TargetInv, Doing
<1>2. pc \in Delivering /\ table \in BOOLEAN /\ view \in BOOLEAN /\ (view => table)
  BY <1>1 DEF Delivering, TargetInv, Shown
<1>3. \A s \in durable : s.control # "fresh"
  BY <1>2, NotFresh
<1>4. Shown(durable, store.log, A, TRUE, view, rows, late)
  BY <1>2, <1>3, ObjectShown
<1>5. CASE table' = TRUE /\ pc' = "inspectView" /\ UNCHANGED <<late, needsReopen>>
  <2>1. OutboxInv'
    BY <1>1, <1>2, <1>5, DeliveryStep DEF Delivering
  <2>2. Doing("inspectView", loaded, store.log, A, TRUE, view, Empty, actions')
    BY <1>1 DEF Doing
  <2>3. Doing(pc', loaded', store.log, A, table', view', matches', actions')
    BY <1>1, <1>5, <2>2, Zenon
  <2>4. Shown(durable, store.log, A, table', view', rows', late')
    BY <1>1, <1>4, <1>5, Zenon
  <2> QED BY <1>1, <2>1, <2>3, <2>4, TargetMoves
<1>6. CASE FailStop /\ table' = TRUE /\ UNCHANGED late
  <2>1. Shown(durable, store.log, A, table', view', rows', late')
    BY <1>1, <1>4, <1>6, Zenon
  <2> QED BY <1>1, <1>6, <2>1, FailMoves
<1>7. CASE FailStop /\ UNCHANGED <<table, late>>
  <2>1. UNCHANGED <<store, durable, targetVars>>
    BY <1>1, <1>7 DEF targetVars
  <2> QED BY <1>1, <1>7, <2>1, FailKeeps
<1>8. CASE FailStop /\ UNCHANGED table /\ late' = late \cup {Effect("table", Empty)}
  <2>1. Comes(durable, store.log, A, table, Effect("table", Empty))
    BY DEF Comes
  <2>2. Shown(durable, store.log, A, table, view, rows, late \cup {Effect("table", Empty)})
    BY <1>2, <2>1, TargetOwes
  <2>3. Shown(durable, store.log, A, table', view', rows', late')
    BY <1>1, <1>8, <2>2, Zenon
  <2> QED BY <1>1, <1>8, <2>3, FailMoves
<1> QED BY <1>5, <1>6, <1>7, <1>8 DEF CreateTable, Request

\* The view is created.
LEMMA CreateViewKeeps ==
  ASSUME OutboxInv, NEW A, TargetInv(A), CreateView
  PROVE  OutboxInv' /\ TargetInv(A)'
<1>1. /\ pc = "createView" /\ loaded.before = None /\ matches = Empty /\ matches' = Empty /\ table
      /\ store' = store /\ durable' = durable /\ loaded' = loaded /\ table' = table /\ rows' = rows
      /\ UNCHANGED <<store, durable>>
  BY DEF CreateView, localVars, TargetInv, Doing
<1>2. pc \in Delivering /\ table \in BOOLEAN /\ view \in BOOLEAN
  BY <1>1 DEF Delivering, TargetInv, Shown
<1>3. \A s \in durable : s.control # "fresh"
  BY <1>2, NotFresh
<1>4. Shown(durable, store.log, A, table, TRUE, rows, late)
  BY <1>1, <1>2, <1>3, ObjectShown
<1>5. CASE view' = TRUE /\ pc' = "count" /\ UNCHANGED <<late, needsReopen>>
  <2>1. OutboxInv'
    BY <1>1, <1>2, <1>5, DeliveryStep DEF Delivering
  <2>2. Doing("count", loaded, store.log, A, table, TRUE, Empty, actions')
    BY <1>1 DEF Doing
  <2>3. Doing(pc', loaded', store.log, A, table', view', matches', actions')
    BY <1>1, <1>5, <2>2, Zenon
  <2>4. Shown(durable, store.log, A, table', view', rows', late')
    BY <1>1, <1>4, <1>5, Zenon
  <2> QED BY <1>1, <2>1, <2>3, <2>4, TargetMoves
<1>6. CASE FailStop /\ view' = TRUE /\ UNCHANGED late
  <2>1. Shown(durable, store.log, A, table', view', rows', late')
    BY <1>1, <1>4, <1>6, Zenon
  <2> QED BY <1>1, <1>6, <2>1, FailMoves
<1>7. CASE FailStop /\ UNCHANGED <<view, late>>
  <2>1. UNCHANGED <<store, durable, targetVars>>
    BY <1>1, <1>7 DEF targetVars
  <2> QED BY <1>1, <1>7, <2>1, FailKeeps
<1>8. CASE FailStop /\ UNCHANGED view /\ late' = late \cup {Effect("view", Empty)}
  <2>1. Comes(durable, store.log, A, table, Effect("view", Empty))
    BY <1>1 DEF Comes
  <2>2. Shown(durable, store.log, A, table, view, rows, late \cup {Effect("view", Empty)})
    BY <1>2, <2>1, TargetOwes
  <2>3. Shown(durable, store.log, A, table', view', rows', late')
    BY <1>1, <1>8, <2>2, Zenon
  <2> QED BY <1>1, <1>8, <2>3, FailMoves
<1> QED BY <1>5, <1>6, <1>7, <1>8 DEF CreateView, Request

\* What the target shows after rows were written.
LEMMA MergedShown ==
  ASSUME OutboxInv, NEW A, TargetInv(A), NEW p \in Nat, NEW e \in Nat, p <= A, p <= e,
         Shares(durable, store.log, e), NEW k \in SUBSET late, k = late \/ \A s \in durable : s.control # "fresh"
  PROVE  \E B \in Nat : /\ A <= B /\ e <= B
                        /\ Shown(durable, store.log, B, table, view, Merge(rows, Diff(store.log, p, e)), k)
<1>1. Shown(durable, store.log, A, table, view, rows, late) /\ (\A s \in durable : s.head.offset \in Nat)
      /\ Proper(store.log) /\ durable # {}
  BY StoresAre DEF TargetInv
<1>2. PICK D : D = durable
  OBVIOUS
<1>3. PICK L : L = store.log
  OBVIOUS
<1>4. PICK t : t = table
  OBVIOUS
<1>5. PICK v : v = view
  OBVIOUS
<1>6. PICK r : r = rows
  OBVIOUS
<1>7. PICK l : l = late
  OBVIOUS
<1>8. Shown(D, L, A, t, v, r, l) /\ (\A s \in D : s.head.offset \in Nat) /\ Proper(L) /\ Shares(D, L, e) /\ D # {}
  BY <1>1, <1>2, <1>3, <1>4, <1>5, <1>6, <1>7
<1>9. PICK B \in Nat : A <= B /\ e <= B /\ Shares(D, L, B) /\ Merge(r, Diff(L, p, e)) = State(L, B)
  BY <1>8, ShownMerges
<1>10. PICK q : q = Merge(r, Diff(L, p, e))
  OBVIOUS
<1>11. t \in BOOLEAN /\ v \in BOOLEAN /\ (t => t) /\ (v => v) /\ (v => t) /\ q = State(L, B)
  BY <1>8, <1>9, <1>10 DEF Shown
<1>12. \A x \in k : x \in l \/ Comes(D, L, B, t, x)
  BY <1>7
<1>13. \A s \in D : s.control = "fresh" => t = t /\ v = v /\ k = l
  BY <1>2, <1>7
<1>14. Shown(D, L, B, t, v, q, k)
  BY <1>8, <1>9, <1>11, <1>12, <1>13, ShownGrows
<1>15. Shown(durable, store.log, B, table, view, Merge(rows, Diff(store.log, p, e)), k)
  BY <1>2, <1>3, <1>4, <1>5, <1>6, <1>10, <1>14, Zenon
<1> QED BY <1>9, <1>15

\* Rows are written.
LEMMA WriteKeeps ==
  ASSUME OutboxInv, NEW A, TargetInv(A), Write
  PROVE  OutboxInv' /\ \E B \in Nat : A <= B /\ TargetInv(B)'
<1>1. /\ pc = "write" /\ matches = Empty /\ matches' = Empty /\ A \in Nat
      /\ store' = store /\ durable' = durable /\ loaded' = loaded /\ table' = table /\ view' = view
      /\ UNCHANGED <<store, durable>>
  BY DEF Write, TargetInv, Doing, Shown
<1>2. PICK p \in Nat : /\ p <= A /\ p <= End(loaded) - 1 /\ actions = Diff(store.log, p, End(loaded) - 1)
                       /\ Shares(durable, store.log, End(loaded) - 1) /\ End(loaded) - 1 \in Nat
                       /\ loaded.before # None
  BY <1>1, WritesEvents
<1>3. PICK e \in Nat : e = End(loaded) - 1
  BY <1>2
<1>4. pc \in Delivering
  BY <1>1 DEF Delivering
<1>5. late \in SUBSET late
  OBVIOUS
<1>6. PICK B \in Nat : A <= B /\ e <= B /\ Shown(durable, store.log, B, table, view, Merge(rows, Diff(store.log, p, e)), late)
  BY <1>2, <1>3, <1>5, MergedShown
<1>7. Shown(durable, store.log, B, table, view, Merge(rows, actions), late)
  BY <1>2, <1>3, <1>6, Zenon
<1>8. table /\ view
  <2>1. store.control = "ready" /\ store \in durable
    BY <1>2, <1>4, BatchInHand, StoresAre
  <2> QED BY <2>1 DEF TargetInv, Shown, Faces
<1>9. CASE rows' = Merge(rows, actions) /\ pc' = "settle" /\ UNCHANGED <<late, needsReopen>>
  <2>1. OutboxInv'
    BY <1>1, <1>4, <1>9, DeliveryStep DEF Delivering
  <2>2. Doing("settle", loaded, store.log, B, table, view, Empty, actions')
    BY <1>3, <1>6, <1>8 DEF Doing
  <2>3. Doing(pc', loaded', store.log, B, table', view', matches', actions')
    BY <1>1, <1>9, <2>2, Zenon
  <2>4. Shown(durable, store.log, B, table', view', rows', late')
    BY <1>1, <1>7, <1>9, Zenon
  <2>5. TargetInv(B)'
    BY <1>1, <2>3, <2>4, TargetMoves
  <2> QED BY <1>6, <2>1, <2>5
<1>10. CASE FailStop /\ rows' = Merge(rows, actions) /\ UNCHANGED late
  <2>1. Shown(durable, store.log, B, table', view', rows', late')
    BY <1>1, <1>7, <1>10, Zenon
  <2>2. OutboxInv' /\ TargetInv(B)'
    BY <1>1, <1>10, <2>1, FailMoves
  <2> QED BY <1>6, <2>2
<1>11. CASE FailStop /\ UNCHANGED <<rows, late>>
  <2>1. UNCHANGED <<store, durable, targetVars>> /\ A <= A
    BY <1>1, <1>11 DEF targetVars
  <2>2. OutboxInv' /\ TargetInv(A)'
    BY <1>1, <1>11, <2>1, FailKeeps
  <2> QED BY <1>1, <2>1, <2>2
<1>12. CASE FailStop /\ UNCHANGED rows /\ late' = late \cup {Effect("rows", actions)}
  <2>1. Shown(durable, store.log, A, table, view, rows, late \cup {Effect("rows", actions)})
    BY <1>1, <1>4, WriteComes, TargetOwes
  <2>2. Shown(durable, store.log, A, table', view', rows', late') /\ A <= A
    BY <1>1, <1>12, <2>1
  <2>3. OutboxInv' /\ TargetInv(A)'
    BY <1>1, <1>12, <2>2, FailMoves
  <2> QED BY <1>1, <2>2, <2>3
<1> QED BY <1>9, <1>10, <1>11, <1>12 DEF Write, Request

\* A request that failed takes effect after all.
LEMMA LateEffectKeeps ==
  ASSUME OutboxInv, NEW A, TargetInv(A), LateEffect
  PROVE  OutboxInv' /\ \E B \in Nat : A <= B /\ TargetInv(B)'
<1>1. PICK x \in late : /\ late' = late \ {x}
                        /\ table' = (table \/ x.kind = "table") /\ view' = (view \/ x.kind = "view")
                        /\ rows' = Merge(rows, x.rows)
  BY DEF LateEffect
<1>2. /\ store' = store /\ durable' = durable /\ pc' = pc /\ loaded' = loaded /\ needsReopen' = needsReopen
      /\ matches' = matches /\ actions' = actions /\ UNCHANGED <<store, durable, pc, loaded, needsReopen>>
  BY DEF LateEffect, localVars
<1>3. OutboxInv'
  BY <1>2, OutboxSame
<1>4. /\ Shown(durable, store.log, A, table, view, rows, late) /\ A \in Nat /\ table \in BOOLEAN /\ view \in BOOLEAN
      /\ (view => table) /\ Comes(durable, store.log, A, table, x) /\ rows = State(store.log, A) /\ A <= A
  BY <1>1 DEF TargetInv, Shown
<1>5. \A s \in durable : s.control # "fresh"
  BY <1>1, <1>4 DEF Shown, Faces
<1>6. PICK k : k = late \ {x}
  OBVIOUS
<1>7. k \in SUBSET late
  BY <1>6
\* What is known of the delivery does not change.
<1>8. ASSUME NEW B \in Nat, A <= B, Shown(durable, store.log, B, table', view', rows', late'),
             (table => table'), (view => view')
      PROVE  TargetInv(B)'
  <2>1. Doing(pc, loaded, store.log, A, table, view, matches, actions)
    BY DEF TargetInv
  <2>2. CASE pc \in Delivering
    <3>1. loaded.before = None \/ End(loaded) - 1 \in Nat
      BY <2>2, HandEnds
    <3>2. PICK u : u = table'
      OBVIOUS
    <3>3. PICK w : w = view'
      OBVIOUS
    <3>4. Doing(pc, loaded, store.log, B, u, w, matches, actions)
      <4>1. (table => u) /\ (view => w)
        BY <1>8, <3>2, <3>3
      <4>2. PICK at : at = pc
        OBVIOUS
      <4>3. PICK b : b = loaded
        OBVIOUS
      <4>4. PICK L : L = store.log
        OBVIOUS
      <4>5. PICK t : t = table
        OBVIOUS
      <4>6. PICK v : v = view
        OBVIOUS
      <4>7. PICK m : m = matches
        OBVIOUS
      <4>8. PICK a : a = actions
        OBVIOUS
      <4>9. Doing(at, b, L, A, t, v, m, a) /\ (b.before = None \/ End(b) - 1 \in Nat) /\ (t => u) /\ (v => w)
        BY <2>1, <3>1, <4>1, <4>2, <4>3, <4>4, <4>5, <4>6, <4>7, <4>8, Zenon
      <4>10. Doing(at, b, L, B, u, w, m, a)
        BY <1>4, <1>8, <4>9, DoingGrows
      <4> QED BY <4>2, <4>3, <4>4, <4>7, <4>8, <4>10, Zenon
    <3>5. Doing(pc', loaded', store.log, B, table', view', matches', actions')
      BY <1>2, <3>2, <3>3, <3>4, Zenon
    <3> QED BY <1>2, <1>8, <3>5, TargetMoves
  <2>3. CASE pc \notin Delivering
    <3>1. pc \in Quiet /\ matches = Empty
      BY <2>1, <2>3 DEF OutboxInv, Barriers, PCs, Delivering, Quiet, Doing
    <3>2. Doing(pc', loaded', store.log, B, table', view', matches', actions')
      BY <1>2, <3>1, QuietDoing, Zenon
    <3> QED BY <1>2, <1>8, <3>2, TargetMoves
  <2> QED BY <2>2, <2>3
<1>9. Merge(rows, Empty) = rows
  <2>1. PICK L : L = store.log
    OBVIOUS
  <2>2. Merge(State(L, A), Empty) = State(L, A)
    BY MergeNothing
  <2> QED BY <1>4, <2>1, <2>2, Zenon
<1>10. CASE x = Effect("table", Empty)
  <2>1. x.kind = "table" /\ x.rows = Empty
    BY <1>10 DEF Effect
  <2>2. table' = TRUE /\ view' = view /\ rows' = rows /\ late' = k
    BY <1>1, <1>4, <1>6, <1>9, <2>1
  <2>3. Shown(durable, store.log, A, TRUE, view, rows, k)
    BY <1>4, <1>5, <1>7, ObjectShown
  <2>4. Shown(durable, store.log, A, table', view', rows', late')
    BY <2>2, <2>3, Zenon
  <2>5. TargetInv(A)'
    BY <1>4, <1>8, <2>2, <2>4
  <2> QED BY <1>3, <1>4, <2>5
<1>11. CASE x = Effect("view", Empty) /\ table
  <2>1. x.kind = "view" /\ x.rows = Empty
    BY <1>11 DEF Effect
  <2>2. table' = TRUE /\ view' = TRUE /\ rows' = rows /\ late' = k
    BY <1>1, <1>4, <1>6, <1>9, <1>11, <2>1
  <2>3. Shown(durable, store.log, A, TRUE, TRUE, rows, k)
    BY <1>4, <1>5, <1>7, ObjectShown
  <2>4. Shown(durable, store.log, A, table', view', rows', late')
    BY <2>2, <2>3, Zenon
  <2>5. TargetInv(A)'
    BY <1>4, <1>8, <2>2, <2>4
  <2> QED BY <1>3, <1>4, <2>5
<1>12. ASSUME NEW p \in Nat, NEW e \in Nat,
              x = Effect("rows", Diff(store.log, p, e)), p <= A, p <= e, Shares(durable, store.log, e)
       PROVE  \E B \in Nat : A <= B /\ TargetInv(B)'
  <2>1. x.kind = "rows" /\ x.rows = Diff(store.log, p, e)
    BY <1>12 DEF Effect
  <2>2. table' = table /\ view' = view /\ rows' = Merge(rows, Diff(store.log, p, e)) /\ late' = k
    BY <1>1, <1>4, <1>6, <2>1
  <2>3. PICK B \in Nat : A <= B /\ Shown(durable, store.log, B, table, view, Merge(rows, Diff(store.log, p, e)), k)
    BY <1>5, <1>7, <1>12, MergedShown
  <2>4. Shown(durable, store.log, B, table', view', rows', late')
    BY <2>2, <2>3, Zenon
  <2>5. TargetInv(B)'
    BY <1>8, <2>2, <2>3, <2>4
  <2> QED BY <2>3, <2>5
<1>13. \/ x = Effect("table", Empty)
       \/ x = Effect("view", Empty) /\ table
       \/ \E p \in Nat, e \in Nat :
            x = Effect("rows", Diff(store.log, p, e)) /\ p <= A /\ p <= e /\ Shares(durable, store.log, e)
  BY <1>4, Zenon DEF Comes
<1> QED BY <1>3, <1>10, <1>11, <1>12, <1>13

-----------------------------------------------------------------------------
(* All steps.                                                              *)

\* A step keeps the target and turns the stores, or the other way round, and
\* then the target has more events.
Moves(A, B) ==
  \/ B = A /\ rows' = rows /\ Turns(store', store)
  \/ store' = store /\ durable' = durable /\ A <= B

\* Every step is of one kind.
LEMMA StepMoves ==
  ASSUME OutboxInv, NEW A \in Nat, TargetInv(A), [Next]_vars
  PROVE  OutboxInv' /\ \E B \in Nat : TargetInv(B)' /\ Moves(A, B)
<1>0. A <= A
  OBVIOUS
<1>1. CASE Drain
  <2>1. OutboxInv' /\ TargetInv(A)' /\ Turns(store', store)
    BY <1>1, DrainKeeps
  <2>2. rows' = rows
    BY <1>1 DEF Drain, targetVars
  <2> QED BY <2>1, <2>2 DEF Moves
<1>2. CASE CrashNow
  <2>1. OutboxInv' /\ TargetInv(A)' /\ Turns(store', store)
    BY <1>2, CrashKeeps
  <2>2. rows' = rows
    BY <1>2 DEF CrashNow
  <2> QED BY <2>1, <2>2 DEF Moves
<1>3. CASE Initialize
  <2>1. OutboxInv' /\ TargetInv(A)'
    BY <1>3, InspectKeeps, CreateTableKeeps, InspectViewKeeps, CreateViewKeeps, CountRowsKeeps DEF Initialize
  <2>2. store' = store /\ durable' = durable
    BY <1>3 DEF Initialize, Inspect, CreateTable, InspectView, CreateView, CountRows
  <2> QED BY <1>0, <2>1, <2>2 DEF Moves
<1>4. CASE LookUp \/ ReadIds
  <2>1. OutboxInv' /\ TargetInv(A)'
    BY <1>4, LookUpKeeps, ReadIdsKeeps
  <2>2. store' = store /\ durable' = durable
    BY <1>4 DEF LookUp, ReadIds
  <2> QED BY <1>0, <2>1, <2>2 DEF Moves
<1>5. CASE Write
  <2>1. OutboxInv' /\ \E B \in Nat : A <= B /\ TargetInv(B)'
    BY <1>5, WriteKeeps
  <2>2. store' = store /\ durable' = durable
    BY <1>5 DEF Write
  <2> QED BY <2>1, <2>2 DEF Moves
<1>6. CASE TargetFails
  <2>1. OutboxInv' /\ TargetInv(A)'
    BY <1>6, FailKeeps DEF TargetFails
  <2>2. store' = store /\ durable' = durable
    BY <1>6 DEF TargetFails
  <2> QED BY <1>0, <2>1, <2>2 DEF Moves
<1>7. CASE LateEffect
  <2>1. OutboxInv' /\ \E B \in Nat : A <= B /\ TargetInv(B)'
    BY <1>7, LateEffectKeeps
  <2>2. store' = store /\ durable' = durable
    BY <1>7 DEF LateEffect
  <2> QED BY <2>1, <2>2 DEF Moves
<1>8. CASE UNCHANGED vars
  <2>1. /\ store' = store /\ durable' = durable /\ pc' = pc /\ loaded' = loaded /\ needsReopen' = needsReopen
        /\ table' = table /\ view' = view /\ rows' = rows /\ late' = late /\ matches' = matches /\ actions' = actions
        /\ UNCHANGED <<store, durable, pc, loaded, needsReopen>>
    BY <1>8 DEF vars
  <2>2. OutboxInv'
    BY <2>1, OutboxSame
  <2>3. TargetInv(A)'
    BY <2>1, Zenon DEF TargetInv
  <2> QED BY <1>0, <2>1, <2>2, <2>3 DEF Moves
<1> QED BY <1>1, <1>2, <1>3, <1>4, <1>5, <1>6, <1>7, <1>8 DEF Next, Round, Deliver

\* A new sink has the invariant.
LEMMA SinkInitInv == Init => SinkInv
<1> SUFFICES ASSUME Init PROVE SinkInv
  OBVIOUS
<1>1. OutboxInv
  BY OutboxInitInv DEF Init
<1>2. /\ store = EmptyStore /\ durable = {EmptyStore} /\ pc = "stack"
      /\ table = FALSE /\ view = FALSE /\ rows = Empty /\ late = {} /\ matches = Empty
  BY DEF Init, OutboxInit
<1>3. EmptyStore.head.offset = 1 /\ EmptyStore.control = "fresh" /\ EmptyStore.log = <<>>
  BY DEF EmptyStore, Position
<1>4. PICK L : L = EmptyStore.log
  OBVIOUS
<1>5. AgreeTo(L, L, 0)
  BY <1>3, <1>4 DEF AgreeTo
<1>6. Shares({EmptyStore}, L, 0)
  BY <1>4, <1>5 DEF Shares
<1>7. State(L, 0) = Empty
  BY StateEmpty
<1>8. Faces(EmptyStore, 0, FALSE, FALSE, {})
  BY <1>3 DEF Faces
<1>9. Shown({EmptyStore}, L, 0, FALSE, FALSE, Empty, {})
  BY <1>6, <1>7, <1>8 DEF Shown
<1>10. Shown(durable, store.log, 0, table, view, rows, late)
  BY <1>2, <1>4, <1>9, Zenon
<1>11. pc \in Quiet
  BY <1>2 DEF Quiet
<1>12. Doing(pc, loaded, store.log, 0, table, view, matches, actions)
  BY <1>2, <1>11, QuietDoing, Zenon
<1>13. TargetInv(0) /\ 0 \in Nat
  BY <1>10, <1>12 DEF TargetInv
<1> QED BY <1>1, <1>13 DEF SinkInv

\* Every step keeps the invariant.
LEMMA SinkStep == SinkInv /\ [Next]_vars => SinkInv'
<1> SUFFICES ASSUME SinkInv, [Next]_vars PROVE SinkInv'
  OBVIOUS
<1>1. PICK A \in Nat : TargetInv(A)
  BY DEF SinkInv
<1>2. OutboxInv' /\ \E B \in Nat : TargetInv(B)'
  BY <1>1, StepMoves DEF SinkInv
<1> QED BY <1>2 DEF SinkInv

\* The invariant holds at all times.
LEMMA SinkAlways == Spec => []SinkInv
<1>1. Init => SinkInv
  BY SinkInitInv
<1>2. SinkInv /\ [Next]_vars => SinkInv'
  BY SinkStep
<1> QED BY <1>1, <1>2, PTL DEF Spec

-----------------------------------------------------------------------------
(* What the invariant says.                                                *)

\* Of the answers of the target.
LEMMA SinkAccepts == SinkInv => TargetNeverRefuses
<1> SUFFICES ASSUME SinkInv PROVE TargetNeverRefuses
  OBVIOUS
<1>0. PICK A \in Nat : TargetInv(A)
  BY DEF SinkInv
<1>00. OutboxInv /\ store \in durable
  BY StoresAre DEF SinkInv
<1>1. Shown(durable, store.log, A, table, view, rows, late)
  BY <1>0 DEF TargetInv
<1>2. Faces(store, A, table, view, late) /\ rows = State(store.log, A) /\ (view => table)
  BY <1>00, <1>1 DEF Shown
<1>3. ASSUME pc = "intent", loaded.fresh PROVE ~table /\ ~view
  <2>1. loaded = Initialization(store.control = "fresh")
    BY <1>00, <1>3 DEF OutboxInv, InHand
  <2>2. loaded.fresh = (store.control = "fresh")
    BY <2>1 DEF Initialization
  <2> QED BY <1>2, <1>3, <2>2 DEF Faces
<1>4. ASSUME pc = "count" PROVE rows = Empty
  <2>1. loaded.before = None /\ pc \in Delivering
    BY <1>0, <1>4 DEF TargetInv, Doing, Delivering
  <2>2. Len(store.log) = 0
    BY <1>00, <2>1, InitializationInHand
  <2>3. A <= Len(store.log)
    BY <1>00, <1>1 DEF Shown, Shares, AgreeTo
  <2>4. A = 0
    BY <2>2, <2>3
  <2> QED BY <1>2, <2>4, StateEmpty
<1>5. ASSUME pc = "deliver", ~IsInitialization PROVE Ready
  <2>1. store.control = "ready"
    BY <1>00, <1>5, BatchInHand DEF Delivering, IsInitialization
  <2> QED BY <1>2, <2>1 DEF Faces, Ready, verify_state, verify_view
<1>6. LookedUp => PlanAccepted
  BY <1>0, <1>00, PlanGood
<1> QED BY <1>2, <1>3, <1>4, <1>5, <1>6 DEF TargetNeverRefuses

\* How many events the table has, from its versions.
LEMMA ShownApplied ==
  ASSUME NEW stores, NEW log, NEW A, NEW t, NEW v, NEW r, NEW l, Shown(stores, log, A, t, v, r, l),
         Proper(log), NEW s \in stores, s.log = log
  PROVE  AppliedOf(r) = A /\ A \in Nat /\ A <= Len(log)
<1>1. r = State(log, A) /\ A \in Nat /\ AgreeTo(s.log, log, A)
  BY DEF Shown, Shares
<1>2. A <= Len(log)
  BY <1>1 DEF AgreeTo
<1> QED BY <1>1, <1>2, AppliedIs

\* Of the state table: it is that of the first events.
Followed ==
  /\ Good(store) /\ Applied \in Nat /\ Applied <= Len(store.log) /\ rows = State(store.log, Applied)
  /\ store.head.offset - 1 <= Applied
  /\ \A s \in durable : Good(s) /\ AgreeTo(s.log, store.log, Applied)

\* The invariant says so.
LEMMA SinkFollows == SinkInv => Followed
<1> SUFFICES ASSUME SinkInv PROVE Followed
  OBVIOUS
<1>1. PICK A \in Nat : TargetInv(A)
  BY DEF SinkInv
<1>2. OutboxInv /\ store \in durable /\ Proper(store.log) /\ Good(store) /\ store.head.offset \in Nat
  BY StoresAre DEF SinkInv
<1>3. Shown(durable, store.log, A, table, view, rows, late)
  BY <1>1 DEF TargetInv
<1>4. AppliedOf(rows) = A /\ A <= Len(store.log)
  <2>1. PICK s : s = store
    OBVIOUS
  <2>2. PICK L : L = s.log
    OBVIOUS
  <2>3. Shown(durable, L, A, table, view, rows, late) /\ Proper(L) /\ s \in durable /\ s.log = L
    BY <1>2, <1>3, <2>1, <2>2
  <2>4. AppliedOf(rows) = A /\ A <= Len(L)
    BY <2>3, ShownApplied
  <2> QED BY <2>1, <2>2, <2>4
<1>5. Applied = A
  BY <1>4, Zenon DEF Applied, AppliedOf
<1>6. store.head.offset <= A + 1 /\ rows = State(store.log, A)
  BY <1>2, <1>3 DEF Shown, Faces
<1>7. \A s \in durable : Good(s) /\ AgreeTo(s.log, store.log, A)
  BY <1>2, <1>3 DEF Shown, Shares, OutboxInv, Kept, KeptIn
<1> QED BY <1>2, <1>4, <1>5, <1>6, <1>7 DEF Followed

(***************************************************************************)
(* The reference pairs the n-th insertion and the n-th deletion of a row   *)
(* by their ranks.                                                         *)
(***************************************************************************)
RankedWith(events, r, id) ==
  {d \in EventsOf(events, r, -1) : Rank(EventsOf(events, r, -1), d) = Rank(EventsOf(events, r, 1), id)}
Ranked(events, id) ==
  [row |-> events[id].row,
   version |-> IF RankedWith(events, events[id].row, id) = {} THEN id
               ELSE Choice(RankedWith(events, events[id].row, id))]

\* In these words.
LEMMA ReferenceIs ==
  ASSUME NEW events
  PROVE  Reference(events) = [id \in UNION {EventsOf(events, r, 1) : r \in Row} |-> Ranked(events, id)]
BY Zenon DEF Reference, Ranked, RankedWith, EventsOf, Rank, Lower, Choice

\* The reference of the first p events is their state.
LEMMA ReferenceState ==
  ASSUME NEW log \in Seq(Event), Proper(log), NEW p \in Nat, p <= Len(log), NEW part, part = SubSeq(log, 1, p)
  PROVE  Reference(part) = State(log, p)
<1>1. PICK e \in Nat : e = p + 1
  OBVIOUS
<1>2. 1 <= e /\ e <= Len(log) + 1 /\ e - 1 = p /\ 1..(e - 1) = 1..p /\ Len(log) \in Nat /\ 1 \in Nat
  BY <1>1 DEF Proper
<1>3. ASSUME NEW r, NEW sign PROVE EventsOf(part, r, sign) = Evs(log, 1, e, r, sign)
  <2>1. DOMAIN part = 1..p /\ \A i \in 1..p : part[i] = log[i]
    OBVIOUS
  <2>2. DOMAIN part = 1..(e - 1) /\ \A i \in 1..(e - 1) : part[i] = log[i]
    BY <1>2, <2>1, Zenon
  <2> QED BY <2>2, Zenon DEF EventsOf, Evs
<1>4. \A i \in 1..p : part[i] = log[i]
  OBVIOUS
<1>5. UNION {EventsOf(part, r, 1) : r \in Row} = Births(log, p)
  <2>1. ASSUME NEW id \in 1..p, log[id].sign = 1 PROVE \E r \in Row : id \in EventsOf(part, r, 1)
    <3>1. log[id] \in Event
      BY <1>2
    <3>2. PICK r \in Row : log[id] = [row |-> r, sign |-> 1]
      BY <2>1, <3>1 DEF Event
    <3>3. id \in Evs(log, 1, e, r, 1)
      BY <1>2, <3>2 DEF Evs
    <3> QED BY <1>3, <3>3, Zenon
  <2>2. ASSUME NEW r \in Row, NEW id \in EventsOf(part, r, 1) PROVE id \in 1..p /\ log[id].sign = 1
    <3>1. id \in Evs(log, 1, e, r, 1)
      BY <1>3, Zenon
    <3> QED BY <1>2, <3>1 DEF Evs
  <2> QED BY <2>1, <2>2 DEF Births
<1>6. ASSUME NEW id \in Births(log, p)
      PROVE  Ranked(part, id) = [row |-> log[id].row, version |-> Version(log, p, id)]
  <2>1. id \in 1..p /\ log[id].sign = 1 /\ log[id] \in Event
    BY <1>2 DEF Births
  <2>2. PICK r \in Row : log[id] = [row |-> r, sign |-> 1]
    BY <2>1 DEF Event
  <2>3. log[id].row = r /\ part[id].row = r
    BY <1>4, <2>1, <2>2
  <2>4. id \in 1..(e - 1)
    BY <1>2, <2>1
  <2>5. Rank(Evs(log, 1, e, r, 1), id) = Cardinality(Evs(log, 1, id, r, 1))
    BY <2>2, <2>4, EventRank
  <2>6. \A d \in Evs(log, 1, e, r, -1) :
          /\ d \in 1..p /\ log[d] = [row |-> r, sign |-> -1]
          /\ Rank(Evs(log, 1, e, r, -1), d) = Cardinality(Evs(log, 1, d, r, -1))
    <3> SUFFICES ASSUME NEW d \in Evs(log, 1, e, r, -1)
                 PROVE  /\ d \in 1..p /\ log[d] = [row |-> r, sign |-> -1]
                        /\ Rank(Evs(log, 1, e, r, -1), d) = Cardinality(Evs(log, 1, d, r, -1))
      OBVIOUS
    <3>1. d \in 1..(e - 1) /\ log[d] = [row |-> r, sign |-> -1]
      BY DEF Evs
    <3>2. Rank(Evs(log, 1, e, r, -1), d) = Cardinality(Evs(log, 1, d, r, -1))
      BY <3>1, EventRank
    <3>3. d \in 1..p
      BY <1>2, <3>1
    <3> QED BY <3>1, <3>2, <3>3, Zenon
  <2>7. RankedWith(part, r, id)
          = {d \in Evs(log, 1, e, r, -1) : Rank(Evs(log, 1, e, r, -1), d) = Rank(Evs(log, 1, e, r, 1), id)}
    BY <1>3, Zenon DEF RankedWith
  <2>8. ASSUME NEW d \in 1..p PROVE d \in RankedWith(part, r, id) <=> Kills(log, d, id)
    <3>1. ASSUME d \in RankedWith(part, r, id) PROVE Kills(log, d, id)
      <4>1. d \in Evs(log, 1, e, r, -1) /\ Rank(Evs(log, 1, e, r, -1), d) = Rank(Evs(log, 1, e, r, 1), id)
        BY <2>7, <3>1
      <4>2. log[d] = [row |-> r, sign |-> -1] /\ Cardinality(Evs(log, 1, id, r, 1)) = Cardinality(Evs(log, 1, d, r, -1))
        BY <2>5, <2>6, <4>1, Zenon
      <4> QED BY <2>2, <4>2, Zenon DEF Kills
    <3>2. ASSUME Kills(log, d, id) PROVE d \in RankedWith(part, r, id)
      <4>1. PairOf(log, d, id, r)
        BY <2>3, <3>2, KillsPair
      <4>2. log[d] = [row |-> r, sign |-> -1] /\ Cardinality(Evs(log, 1, id, r, 1)) = Cardinality(Evs(log, 1, d, r, -1))
        BY <4>1 DEF PairOf
      <4>3. d \in Evs(log, 1, e, r, -1)
        BY <1>2, <4>2 DEF Evs
      <4>4. Rank(Evs(log, 1, e, r, -1), d) = Rank(Evs(log, 1, e, r, 1), id)
        BY <2>5, <2>6, <4>2, <4>3, Zenon
      <4> QED BY <2>7, <4>3, <4>4
    <3> QED BY <3>1, <3>2
  <2>9. RankedWith(part, r, id) = Takers(log, p, id)
    <3>1. \A d \in RankedWith(part, r, id) : d \in 1..p
      BY <2>6, <2>7
    <3> QED BY <2>8, <3>1 DEF Takers
  <2> QED BY <2>3, <2>9, Zenon DEF Ranked, Version
<1>7. Reference(part) = [id \in UNION {EventsOf(part, r, 1) : r \in Row} |-> Ranked(part, id)]
  BY ReferenceIs
<1>8. Reference(part) = [id \in Births(log, p) |-> Ranked(part, id)]
  BY <1>5, <1>7, Zenon
<1>9. [id \in Births(log, p) |-> Ranked(part, id)]
        = [id \in Births(log, p) |-> [row |-> log[id].row, version |-> Version(log, p, id)]]
  BY <1>6
<1> QED BY <1>8, <1>9, Zenon DEF State

\* The invariant says that the state follows the events.
LEMMA SinkState == SinkInv => StateFollowsEvents
<1> SUFFICES ASSUME SinkInv, NEW s \in durable PROVE rows = Reference(SubSeq(s.log, 1, Applied))
  BY DEF StateFollowsEvents
<1>1. PICK p \in Nat : p = Applied
  BY SinkFollows DEF Followed
<1>2. PICK L : L = store.log
  OBVIOUS
<1>3. Good(s) /\ AgreeTo(s.log, L, p) /\ rows = State(L, p) /\ p <= p
  BY <1>1, <1>2, SinkFollows DEF Followed
<1>4. s.log \in Seq(Event) /\ Proper(s.log) /\ p <= Len(s.log)
  BY <1>3, GoodLog DEF AgreeTo
<1>5. State(s.log, p) = State(L, p)
  BY <1>3, StateLocal
<1>6. Reference(SubSeq(s.log, 1, p)) = State(s.log, p)
  BY <1>4, ReferenceState
<1> QED BY <1>1, <1>3, <1>5, <1>6, Zenon

-----------------------------------------------------------------------------
(* The contract of a sink.                                                 *)

\* The contract counts as the sink does.
LEMMA ContractCardinality ==
  ASSUME NEW S
  PROVE  Contract!Cardinality(S) = Cardinality(S)
BY Zenon DEF Contract!Cardinality, Cardinality

Adequate == Relation = Contract!Sum(SubSeq(store.log, 1, Applied))

\* The relation of the view is the sum of the events the table has.
LEMMA RelationIs == SinkInv => Adequate
<1> SUFFICES ASSUME SinkInv PROVE Adequate
  OBVIOUS
<1>1. PICK log \in Seq(Event) : log = store.log
  BY SinkFollows, GoodLog DEF Followed
<1>2. PICK p \in Nat : p = Applied
  BY SinkFollows DEF Followed
<1>3. PICK t : t = rows
  OBVIOUS
<1>4. WellFormed(log) /\ Proper(log) /\ p <= Len(log) /\ t = State(log, p) /\ Len(log) \in Nat
  BY <1>1, <1>2, <1>3, SinkFollows, GoodLog DEF Followed
<1>5. PICK part : part = SubSeq(log, 1, p)
  OBVIOUS
<1>6. PICK f \in Nat : f = p + 1
  OBVIOUS
<1>7. 1 <= f /\ f <= Len(log) + 1 /\ part = SubSeq(log, 1, f - 1)
  <2>1. f - 1 = p
    BY <1>6
  <2>2. part = SubSeq(log, 1, f - 1)
    BY <1>5, <2>1, Zenon
  <2> QED BY <1>4, <1>6, <2>2
<1>8. ASSUME NEW r \in Row
      PROVE  Cardinality(Live(r)) = Contract!Count(part, r, 1) - Contract!Count(part, r, -1)
  <2>1. Contract!Count(part, r, 1) = Cardinality(Evs(log, 1, f, r, 1))
    <3>1. EventsOf(part, r, 1) = Evs(log, 1, f, r, 1)
      BY <1>7, AppliedEvents
    <3> QED BY <3>1, ContractCardinality, Zenon DEF EventsOf, Contract!Count
  <2>2. Contract!Count(part, r, -1) = Cardinality(Evs(log, 1, f, r, -1))
    <3>1. EventsOf(part, r, -1) = Evs(log, 1, f, r, -1)
      BY <1>7, AppliedEvents
    <3> QED BY <3>1, ContractCardinality, Zenon DEF EventsOf, Contract!Count
  <2>3. LiveOf(t, r) = Alive(log, f, r)
    BY <1>4, <1>6, LiveIs
  <2>4. Live(r) = Alive(log, f, r)
    BY <1>3, <2>3, Zenon DEF Live, LiveOf
  <2>5. Cardinality(Alive(log, f, r)) = Cardinality(Evs(log, 1, f, r, 1)) - Cardinality(Evs(log, 1, f, r, -1))
    BY <1>4, <1>7, AliveCount
  <2> QED BY <2>1, <2>2, <2>4, <2>5, Zenon
<1>9. Relation = Contract!Sum(part)
  BY <1>8, Zenon DEF Relation, Contract!Sum
<1> QED BY <1>1, <1>2, <1>5, <1>9, Zenon DEF Adequate

\* A step that leaves the table alone accepts, settles or loses events.
LEMMA OutboxRefines ==
  ASSUME SinkInv, SinkInv', Turns(store', store), rows' = rows
  PROVE  Contract!Next
<1>0. Followed'
  BY SinkFollows, PTL
<1>1. PICK x : x = store
  OBVIOUS
<1>2. PICK y : y = store'
  OBVIOUS
<1>3. PICK f \in Nat : f = Applied
  BY SinkFollows DEF Followed
<1>4. Relation' = Relation /\ Applied' = Applied
  BY DEF Relation, Live, Applied
<1>5. /\ x.log \in Seq(Event) /\ Len(x.log) \in Nat /\ f <= Len(x.log)
      /\ x.head.offset \in Nat /\ 1 <= x.head.offset /\ x.head.offset - 1 <= f
  BY <1>1, <1>3, SinkFollows, GoodLog DEF Followed
<1>6. /\ y.log \in Seq(Event) /\ Len(y.log) \in Nat /\ f <= Len(y.log)
      /\ y.head.offset \in Nat /\ 1 <= y.head.offset /\ y.head.offset - 1 <= f
  <2>1. Good(store') /\ Applied' <= Len(store'.log) /\ store'.head.offset - 1 <= Applied'
    BY <1>0 DEF Followed
  <2>2. Good(y) /\ f <= Len(y.log) /\ y.head.offset - 1 <= f
    BY <1>2, <1>3, <1>4, <2>1
  <2> QED BY <2>2, GoodLog
<1>7. CASE Behind(y, x)
  <2>1. Len(y.log) <= Len(x.log) /\ (\A i \in 1..Len(y.log) : y.log[i] = x.log[i])
        /\ y.head.offset <= x.head.offset
    BY <1>7 DEF Behind
  <2>2. y.log = SubSeq(x.log, 1, Len(y.log))
    <3>1. PrefixOf(x.log, Len(y.log)) = y.log
      BY <1>5, <1>6, <2>1, LogPrefix
    <3> QED BY <3>1, Zenon DEF PrefixOf
  <2>3. Len(y.log) \in f..Len(x.log) /\ y.head.offset - 1 \in 0..(x.head.offset - 1)
    BY <1>5, <1>6, <2>1
  <2>4. \E n \in Applied..Len(store.log) : store'.log = SubSeq(store.log, 1, n)
    BY <1>1, <1>2, <1>3, <2>2, <2>3, Zenon
  <2>5. store'.head.offset - 1 \in 0..(store.head.offset - 1)
    BY <1>1, <1>2, <2>3, Zenon
  <2>6. Contract!Lose
    BY <1>4, <2>4, <2>5, Zenon DEF Contract!Lose
  <2> QED BY <2>6 DEF Contract!Next
<1>8. CASE Grown(y, x)
  <2>1. Len(x.log) <= Len(y.log) /\ (\A i \in 1..Len(x.log) : y.log[i] = x.log[i])
        /\ y.head.offset = x.head.offset
    BY <1>8 DEF Grown
  <2>2. SubSeq(y.log, 1, Len(x.log)) = x.log
    <3>1. PrefixOf(y.log, Len(x.log)) = x.log
      BY <1>5, <1>6, <2>1, LogPrefix
    <3> QED BY <3>1, Zenon DEF PrefixOf
  <2>3. /\ store'.log \in Seq(Event) /\ Len(store.log) <= Len(store'.log)
        /\ SubSeq(store'.log, 1, Len(store.log)) = store.log
        /\ store'.head.offset - 1 = store.head.offset - 1
    BY <1>1, <1>2, <1>6, <2>1, <2>2, Zenon
  <2>4. Contract!Accept
    BY <1>4, <2>3, Zenon DEF Contract!Accept
  <2> QED BY <2>4 DEF Contract!Next
<1>9. CASE Drained(y, x)
  <2>1. y.log = x.log /\ x.head.offset <= y.head.offset
    BY <1>9 DEF Drained
  <2>2. y.head.offset - 1 \in (x.head.offset - 1)..f
    BY <1>5, <1>6, <2>1
  <2>3. store'.log = store.log /\ store'.head.offset - 1 \in (store.head.offset - 1)..Applied
    BY <1>1, <1>2, <1>3, <2>1, <2>2, Zenon
  <2>4. Contract!Settle
    BY <1>4, <2>3, Zenon DEF Contract!Settle
  <2> QED BY <2>4 DEF Contract!Next
<1> QED BY <1>1, <1>2, <1>7, <1>8, <1>9 DEF Turns

\* A step of the target applies events.
LEMMA TargetRefines ==
  ASSUME SinkInv, SinkInv', store' = store, Applied <= Applied'
  PROVE  Contract!Next
<1>0. Followed' /\ Adequate'
  BY SinkFollows, RelationIs, PTL
<1>1. PICK f \in Nat : f = Applied
  BY SinkFollows DEF Followed
<1>2. PICK g \in Nat : g = Applied'
  BY <1>0 DEF Followed
<1>3. Len(store.log) \in Nat /\ g <= Len(store.log) /\ f <= g
  <2>1. Applied' <= Len(store'.log) /\ Good(store)
    BY <1>0, SinkFollows DEF Followed
  <2>2. Len(store.log) \in Nat
    BY <2>1, GoodLog
  <2> QED BY <1>1, <1>2, <2>1, <2>2
<1>4. g \in f..Len(store.log)
  BY <1>3
<1>5. Relation' = Contract!Sum(SubSeq(store.log, 1, g))
  <2>1. Relation' = Contract!Sum(SubSeq(store'.log, 1, Applied'))
    BY <1>0 DEF Adequate
  <2> QED BY <1>2, <2>1, Zenon
<1>6. g \in Applied..Len(store.log) /\ Applied' = g
  BY <1>1, <1>2, <1>4, Zenon
<1>7. Contract!Apply
  BY <1>5, <1>6, Zenon DEF Contract!Apply
<1> QED BY <1>7 DEF Contract!Next

\* Every step is one of the contract.
LEMMA StepRefines ==
  ASSUME SinkInv, SinkInv', [Next]_vars
  PROVE  Contract!Next
<1>1. PICK A \in Nat : TargetInv(A)
  BY DEF SinkInv
<1>2. PICK B \in Nat : TargetInv(B)' /\ Moves(A, B)
  BY <1>1, StepMoves DEF SinkInv
<1>3. CASE rows' = rows /\ Turns(store', store)
  BY <1>3, OutboxRefines
<1>4. CASE store' = store /\ durable' = durable /\ A <= B
  <2>1. PICK s : s = store
    OBVIOUS
  <2>2. PICK L : L = s.log
    OBVIOUS
  <2>3. PICK D : D = durable
    OBVIOUS
  <2>4. Proper(L) /\ s \in D /\ s.log = L
    BY <2>1, <2>2, <2>3, StoresAre DEF SinkInv
  <2>5. Shown(D, L, A, table, view, rows, late)
    BY <1>1, <2>1, <2>2, <2>3 DEF TargetInv
  <2>6. Shown(D, L, B, table', view', rows', late')
    <3>1. Shown(durable', store'.log, B, table', view', rows', late')
      BY <1>2 DEF TargetInv
    <3> QED BY <1>4, <2>1, <2>2, <2>3, <3>1, Zenon
  <2>7. AppliedOf(rows) = A
    BY <2>4, <2>5, ShownApplied
  <2>8. AppliedOf(rows') = B
    <3>1. PICK t : t = table'
      OBVIOUS
    <3>2. PICK v : v = view'
      OBVIOUS
    <3>3. PICK r : r = rows'
      OBVIOUS
    <3>4. PICK l : l = late'
      OBVIOUS
    <3>5. Shown(D, L, B, t, v, r, l)
      BY <2>6, <3>1, <3>2, <3>3, <3>4, Zenon
    <3>6. AppliedOf(r) = B
      BY <2>4, <3>5, ShownApplied
    <3> QED BY <3>3, <3>6
  <2>9. Applied = A /\ Applied' = B
    BY <2>7, <2>8, Zenon DEF Applied, AppliedOf
  <2> QED BY <1>4, <2>9, TargetRefines
<1> QED BY <1>2, <1>3, <1>4 DEF Moves

-----------------------------------------------------------------------------
(* Theorems.                                                               *)

(***************************************************************************)
(* load() accepts every buffer that a crash may leave, also when the       *)
(* delivery is a sequence of requests (validate_buffer).                   *)
(***************************************************************************)
THEOREM VersionedBuffersAreValid == Spec => []BuffersAreValid
<1>1. SinkInv => BuffersAreValid
  BY OutboxBuffers DEF SinkInv
<1> QED BY <1>1, SinkAlways, PTL

(***************************************************************************)
(* initialize() and deliver_prefix() never stop the sink for good: view    *)
(* and table exist when they must, the table is empty until the sink is    *)
(* ready, and every plan is accepted, whatever took effect late and        *)
(* between two lookups.                                                    *)
(***************************************************************************)
THEOREM VersionedNeverRefuses == Spec => []TargetNeverRefuses
<1> QED BY SinkAccepts, SinkAlways, PTL

(***************************************************************************)
(* The state table is a function of the number of events it has: of how    *)
(* batches were cut, repeated, answered or reordered nothing remains       *)
(* (terminal_mutations, read_ids, the version column).                     *)
(***************************************************************************)
THEOREM VersionedStateFollowsEvents == Spec => []StateFollowsEvents
<1> QED BY SinkState, SinkAlways, PTL

(***************************************************************************)
(* The sink without target transactions implements the contract of a sink: *)
(* a reader of the view sees the sum of a prefix of the accepted events,   *)
(* which never shrinks, and only what the view shows is settled.           *)
(***************************************************************************)
THEOREM VersionedImplementsContract == Spec => ImplementsContract
<1>1. Init => Contract!Init
  <2> SUFFICES ASSUME Init PROVE Contract!Init
    OBVIOUS
  <2>1. SinkInv
    BY SinkInitInv
  <2>2. store.log = <<>> /\ store.head.offset = 1 /\ rows = Empty
    BY DEF Init, OutboxInit, EmptyStore, Position
  <2>3. Applied = 0
    BY <2>2, Zenon DEF Applied
  <2>4. SubSeq(<<>>, 1, 0) = <<>>
    OBVIOUS
  <2>5. Relation = Contract!Sum(SubSeq(store.log, 1, Applied))
    BY <2>1, RelationIs DEF Adequate
  <2>6. Relation = Contract!Sum(<<>>)
    BY <2>2, <2>3, <2>4, <2>5, Zenon
  <2>7. 1 - 1 = 0
    OBVIOUS
  <2> QED BY <2>2, <2>3, <2>6, <2>7, Zenon DEF Contract!Init
<1>2. SinkInv /\ SinkInv' /\ [Next]_vars => [Contract!Next]_(Contract!vars)
  BY StepRefines
<1> QED BY <1>1, <1>2, SinkAlways, PTL DEF Spec, ImplementsContract, Contract!Spec
==============================================================================
