------------------------- MODULE BufferedSinkProofs -------------------------
(***************************************************************************)
(* Theorems about BufferedSink for every value of its constants.           *)
(***************************************************************************)
EXTENDS BufferedSink, OutboxProofs

-----------------------------------------------------------------------------
(* A row of a delivery.                                                    *)

(***************************************************************************)
(* One row.  Of the births B the d oldest are dead; later births come, and *)
(* k deaths take the smallest of the k oldest live ids and the new births. *)
(* What lives then are the births without the d + k oldest.                *)
(***************************************************************************)
Delivers(B, born, d, k, live, supply) ==
  /\ (live \cup born) \ Smallest(supply, k) = (B \cup born) \ Smallest(B \cup born, d + k)
  /\ Numbers(supply) /\ Numbers(live)
  /\ d + k <= Cardinality(B \cup born) => k <= Cardinality(supply)

\* The deaths of a delivery.
LEMMA RowDelivers ==
  ASSUME NEW B, Numbers(B), NEW born, Numbers(born), \A x \in B, y \in born : x < y,
         NEW d \in Nat, d <= Cardinality(B), NEW k \in Nat,
         NEW live, live = B \ Smallest(B, d),
         NEW supply, supply = Smallest(live, k) \cup born
  PROVE  Delivers(B, born, d, k, live, supply)
<1> DEFINE all == live \cup born
           ids == Smallest(live, k)
           dead == Smallest(B, d)
           births == B \cup born
<1>1. /\ dead \in SUBSET B /\ Numbers(dead) /\ Cardinality(dead) = d
      /\ \A x \in B : x \in dead <=> Rank(B, x) < d
  BY SmallestIs DEF Selects
<1>2. live \in SUBSET B /\ Numbers(live) /\ Cardinality(live) \in Nat
  BY NumbersParts
<1>3. /\ ids \in SUBSET live /\ Numbers(ids) /\ Cardinality(ids) \in Nat
      /\ Cardinality(live) <= k => ids = live
      /\ k <= Cardinality(live) => Cardinality(ids) = k
      /\ \A x \in live : x \in ids <=> Rank(live, x) < k
  <2>1. Selects(live, k, ids)
    BY <1>2, SmallestIs
  <2> HIDE DEF ids
  <2> QED BY <2>1 DEF Selects
<1>4. B \cap born = {} /\ live \cap born = {} /\ ids \cap born = {}
  <2>1. \A x \in B : x \in Nat /\ ~(x < x)
    BY DEF Numbers
  <2> QED BY <1>2, <1>3, <2>1
<1>5. /\ Numbers(births) /\ Cardinality(births) = Cardinality(B) + Cardinality(born)
      /\ Cardinality(B) \in Nat /\ Cardinality(born) \in Nat
  BY <1>4, NumbersUnion, NumbersParts
<1>6. Numbers(all) /\ Cardinality(all) = Cardinality(live) + Cardinality(born)
  BY <1>2, <1>4, NumbersUnion
<1>7. supply = ids \cup born /\ Numbers(supply) /\ Cardinality(supply) = Cardinality(ids) + Cardinality(born)
  BY <1>3, <1>4, NumbersUnion
<1>8. Cardinality(live) = Cardinality(B) - d
  <2>1. dead \cap live = {} /\ dead \cup live = B
    BY <1>1
  <2>2. Cardinality(dead \cup live) = Cardinality(dead) + Cardinality(live)
    BY <1>1, <1>2, <2>1, NumbersUnion
  <2>3. Cardinality(B) = d + Cardinality(live)
    BY <1>1, <2>1, <2>2, Zenon
  <2> QED BY <1>2, <1>5, <2>3
<1>9. d + k <= Cardinality(births) => k <= Cardinality(supply)
  BY <1>2, <1>3, <1>5, <1>7, <1>8
<1> HIDE DEF all, ids, dead, births
\* Which of the live and the new ids die.
<1>10. ASSUME NEW x \in all PROVE x \in Smallest(supply, k) <=> Rank(all, x) < k
  <2>1. \A y \in supply : y \in Smallest(supply, k) <=> Rank(supply, y) < k
    BY <1>7, SmallestIs DEF Selects
  <2>2. Smallest(supply, k) \in SUBSET supply
    BY <1>7, SmallestIs DEF Selects
  <2>3. CASE x \in live
    <3>1. Lower(all, x) = Lower(live, x)
      <4>1. \A y \in born : ~(y < x)
        BY <1>2, <2>3 DEF Numbers
      <4> QED BY <4>1 DEF Lower, all
    <3>2. Rank(all, x) = Rank(live, x)
      BY <3>1 DEF Rank
    <3>3. x \in ids <=> Rank(all, x) < k
      BY <1>3, <2>3, <3>2
    <3>4. x \in supply <=> x \in ids
      BY <1>4, <1>7, <2>3
    <3>5. ASSUME x \in ids PROVE x \in Smallest(supply, k)
      <4>1. Lower(supply, x) \in SUBSET Lower(all, x)
        BY <1>3, <1>7 DEF Lower, all
      <4>2. Numbers(Lower(all, x)) /\ Rank(all, x) \in Nat
        BY <1>6, RankType
      <4>3. Rank(supply, x) <= Rank(all, x) /\ Rank(supply, x) \in Nat
        BY <4>1, <4>2, NumbersParts DEF Rank
      <4>4. Rank(all, x) < k /\ x \in supply
        BY <3>3, <3>4, <3>5
      <4>5. Rank(supply, x) < k
        BY <4>2, <4>3, <4>4
      <4> QED BY <2>1, <4>4, <4>5
    <3> QED BY <2>2, <3>3, <3>4, <3>5
  <2>4. CASE x \in born
    <3>1. Lower(all, x) = live \cup Lower(born, x) /\ Lower(supply, x) = ids \cup Lower(born, x)
      <4>1. \A y \in live : y < x
        BY <1>2, <2>4
      <4> QED BY <1>3, <1>7, <4>1 DEF Lower, all
    <3>2. Numbers(Lower(born, x)) /\ Rank(born, x) \in Nat
      BY RankType
    <3>3. live \cap Lower(born, x) = {} /\ ids \cap Lower(born, x) = {}
      BY <1>4 DEF Lower
    <3>4. /\ Rank(all, x) = Cardinality(live) + Rank(born, x)
          /\ Rank(supply, x) = Cardinality(ids) + Rank(born, x)
      BY <1>2, <1>3, <3>1, <3>2, <3>3, NumbersUnion DEF Rank
    <3>5. x \in supply
      BY <1>7, <2>4
    <3>6. x \in Smallest(supply, k) <=> Rank(supply, x) < k
      BY <2>1, <3>5
    <3>7. CASE Cardinality(live) <= k
      BY <1>3, <3>4, <3>6, <3>7
    <3>8. CASE ~(Cardinality(live) <= k)
      <4>1. Cardinality(ids) = k /\ Cardinality(live) > k
        BY <1>2, <1>3, <3>8
      <4> QED BY <1>2, <3>2, <3>4, <3>6, <4>1
    <3> QED BY <3>7, <3>8
  <2> QED BY <2>3, <2>4 DEF all
\* Ranks among all births.
<1>11. ASSUME NEW x \in all PROVE x \in Smallest(births, d + k) <=> Rank(all, x) < k
  <2>1. x \in births /\ d + k \in Nat
    BY <1>2 DEF all, births
  <2>2. x \in Smallest(births, d + k) <=> Rank(births, x) < d + k
    BY <1>5, <2>1, SmallestIs DEF Selects
  <2>3. \A y \in dead : y < x
    <3> SUFFICES ASSUME NEW y \in dead PROVE y < x
      OBVIOUS
    <3>1. y \in B /\ Rank(B, y) < d
      BY <1>1
    <3>2. CASE x \in born
      BY <3>1, <3>2
    <3>3. CASE x \in live
      <4>1. x \in B /\ ~(Rank(B, x) < d)
        BY <1>1, <3>3 DEF dead
      <4>2. Rank(B, x) \in Nat /\ Rank(B, y) \in Nat
        BY RankType
      <4>3. Rank(B, y) < Rank(B, x)
        BY <3>1, <4>1, <4>2
      <4> QED BY <3>1, <4>1, <4>3, RankOrders
    <3> QED BY <3>2, <3>3 DEF all
  <2>4. Lower(births, x) = dead \cup Lower(all, x) /\ dead \cap Lower(all, x) = {}
    <3>1. births = dead \cup all
      BY <1>1 DEF births, all, dead
    <3>2. dead \cap all = {}
      BY <1>1, <1>4 DEF all, dead
    <3> QED BY <2>3, <3>1, <3>2 DEF Lower
  <2>5. Numbers(Lower(all, x)) /\ Rank(all, x) \in Nat
    BY <1>6, RankType
  <2>6. Rank(births, x) = d + Rank(all, x)
    BY <1>1, <2>4, <2>5, NumbersUnion DEF Rank
  <2> QED BY <2>2, <2>5, <2>6
<1>12. ASSUME NEW x \in dead PROVE x \in Smallest(births, d + k)
  <2>1. x \in B /\ x \in births /\ Rank(B, x) < d /\ d + k \in Nat
    BY <1>1 DEF births
  <2>2. Lower(births, x) = Lower(B, x)
    <3>1. \A y \in born : ~(y < x)
      BY <2>1 DEF Numbers
    <3> QED BY <3>1 DEF Lower, births
  <2>3. Rank(births, x) < d + k
    <3>1. Rank(B, x) \in Nat
      BY RankType
    <3> QED BY <2>1, <2>2, <3>1 DEF Rank
  <2> QED BY <1>5, <2>1, <2>3, SmallestIs DEF Selects
<1>13. all \ Smallest(supply, k) = births \ Smallest(births, d + k)
  <2>1. births = dead \cup all
    BY <1>1 DEF births, all, dead
  <2> QED BY <1>10, <1>11, <1>12, <2>1
<1> QED BY <1>2, <1>7, <1>9, <1>13 DEF all, births, Delivers

\* So the deletions take the smallest ids, one each.
LEMMA TakenAre ==
  ASSUME NEW supply, Numbers(supply), NEW del, Numbers(del), Cardinality(del) <= Cardinality(supply)
  PROVE  {TakenBy(supply, del, o) : o \in del} = Smallest(supply, Cardinality(del))
<1>1. Cardinality(del) \in Nat
  BY NumbersParts
<1>2. /\ Smallest(supply, Cardinality(del)) \in SUBSET supply
      /\ \A x \in supply : x \in Smallest(supply, Cardinality(del)) <=> Rank(supply, x) < Cardinality(del)
  BY <1>1, SmallestIs DEF Selects
<1>3. ASSUME NEW o \in del PROVE TakenBy(supply, del, o) \in Smallest(supply, Cardinality(del))
  <2>1. TakenBy(supply, del, o) \in supply /\ Rank(supply, TakenBy(supply, del, o)) = Rank(del, o)
    BY TakenIs
  <2>2. Rank(del, o) < Cardinality(del)
    BY RankType
  <2> QED BY <1>2, <2>1, <2>2
<1>4. ASSUME NEW x \in Smallest(supply, Cardinality(del))
      PROVE  \E o \in del : x = TakenBy(supply, del, o)
  <2>1. x \in supply /\ Rank(supply, x) < Cardinality(del) /\ Rank(supply, x) \in Nat
    BY <1>2, RankType
  <2>2. PICK o \in del : Rank(del, o) = Rank(supply, x)
    BY <2>1, RankOnto
  <2>3. TakenBy(supply, del, o) \in supply /\ Rank(supply, TakenBy(supply, del, o)) = Rank(del, o)
    BY TakenIs
  <2>4. x = TakenBy(supply, del, o)
    BY <2>1, <2>2, <2>3, RankOrders
  <2> QED BY <2>4
<1> QED BY <1>3, <1>4

(***************************************************************************)
(* A deletion that the flow was allowed to send takes an older id: before  *)
(* it there were more births than deaths.                                  *)
(***************************************************************************)
LEMMA RowFinds ==
  ASSUME NEW B, Numbers(B), NEW born, Numbers(born), \A x \in B, y \in born : x < y,
         NEW d \in Nat, d <= Cardinality(B), NEW del, Numbers(del), NEW o \in del,
         \A x \in B : x < o,
         d + Rank(del, o) + 1 <= Cardinality(B) + Rank(born, o),
         NEW live, live = B \ Smallest(B, d),
         NEW supply, supply = Smallest(live, Cardinality(del)) \cup born,
         Cardinality(del) <= Cardinality(supply)
  PROVE  TakenBy(supply, del, o) < o
<1>0. PICK k \in Nat : k = Cardinality(del)
  BY NumbersParts
<1> DEFINE ids == Smallest(live, k)
           id == TakenBy(supply, del, o)
<1>1. Rank(del, o) \in Nat /\ Rank(del, o) < k /\ Rank(born, o) \in Nat
  BY <1>0, RankType
<1>2. /\ Smallest(B, d) \in SUBSET B /\ Numbers(Smallest(B, d)) /\ Cardinality(Smallest(B, d)) = d
  BY SmallestIs DEF Selects
<1>3. live \in SUBSET B /\ Numbers(live) /\ Cardinality(live) \in Nat /\ Cardinality(B) \in Nat
  BY NumbersParts
<1>4. Cardinality(B) = d + Cardinality(live)
  <2>1. Smallest(B, d) \cap live = {} /\ Smallest(B, d) \cup live = B
    BY <1>2
  <2>2. Cardinality(Smallest(B, d) \cup live) = Cardinality(Smallest(B, d)) + Cardinality(live)
    BY <1>2, <1>3, <2>1, NumbersUnion
  <2> QED BY <1>2, <2>1, <2>2, Zenon
<1>5. /\ ids \in SUBSET live /\ Numbers(ids) /\ Cardinality(ids) \in Nat
      /\ Cardinality(live) <= k => ids = live
      /\ k <= Cardinality(live) => Cardinality(ids) = k
  <2>1. Selects(live, k, ids)
    BY <1>3, SmallestIs
  <2> QED BY <2>1 DEF Selects
<1>6. Cardinality(ids) + Rank(born, o) >= Rank(del, o) + 1
  BY <1>1, <1>3, <1>4, <1>5
<1>7. ids \cap born = {} /\ \A x \in ids : x < o
  <2>1. \A x \in B : x \in Nat /\ ~(x < x)
    BY DEF Numbers
  <2> QED BY <1>3, <1>5, <2>1
<1> HIDE DEF ids
<1>8. Numbers(supply)
  BY <1>0, <1>5, <1>7, NumbersUnion DEF ids
<1>9. Rank(supply, o) = Cardinality(ids) + Rank(born, o)
  <2>1. supply = ids \cup born
    BY <1>0 DEF ids
  <2>2. Lower(supply, o) = ids \cup Lower(born, o) /\ ids \cap Lower(born, o) = {}
    BY <1>7, <2>1 DEF Lower
  <2>3. Numbers(Lower(born, o))
    BY RankType
  <2> QED BY <1>5, <2>2, <2>3, NumbersUnion DEF Rank
<1>10. id \in supply /\ Rank(supply, id) = Rank(del, o)
  BY <1>8, TakenIs
<1>11. id \in Nat /\ o \in Nat
  BY <1>8, <1>10 DEF Numbers
<1> HIDE DEF id
<1>12. ASSUME ~(id < o) PROVE FALSE
  <2>1. Lower(supply, o) \in SUBSET Lower(supply, id)
    <3>1. ASSUME NEW y \in supply, y < o PROVE y < id
      <4>1. y \in Nat
        BY <1>8 DEF Numbers
      <4> QED BY <1>11, <1>12, <3>1, <4>1
    <3> QED BY <3>1 DEF Lower
  <2>2. Numbers(Lower(supply, id))
    BY <1>8, RankType
  <2>3. Rank(supply, o) <= Rank(supply, id)
    BY <2>1, <2>2, NumbersParts DEF Rank
  <2> QED BY <1>1, <1>5, <1>6, <1>9, <1>10, <2>3
<1> QED BY <1>12 DEF id

-----------------------------------------------------------------------------
(* A target and the plan of a batch.                                       *)

\* The target's ids of a row.
Live(t, r) == {id \in DOMAIN t.live : t.live[id] = r}

LiveMaps == UNION {[ids -> Row] : ids \in SUBSET Nat}
TargetType == [exists : BOOLEAN, frontier : Nat, live : LiveMaps]

\* The fields of a target.
LEMMA TargetFields ==
  ASSUME NEW t \in TargetType
  PROVE  /\ t.exists \in BOOLEAN /\ t.frontier \in Nat
         /\ DOMAIN t.live \in SUBSET Nat /\ \A id \in DOMAIN t.live : t.live[id] \in Row
<1>1. t.exists \in BOOLEAN /\ t.frontier \in Nat /\ t.live \in LiveMaps
  BY DEF TargetType
<1>2. PICK ids \in SUBSET Nat : t.live \in [ids -> Row]
  BY <1>1 DEF LiveMaps
<1> QED BY <1>1, <1>2

\* The target holds of each row what is alive before the frontier.
Contents(log, t) == \A r \in Row : Live(t, r) = Alive(log, t.frontier, r)

\* What the plan knows of a row.
Planned(log, t, b, f, m, r) ==
  /\ \A sign \in {1, -1} : Remaining(b, f, m, r, sign) = Evs(log, f, End(b), r, sign)
  /\ Take(b, f, r) = Cardinality(Evs(log, f, End(b), r, -1))
  /\ Ids(m, r) = Smallest(Live(t, r), Cardinality(Evs(log, f, End(b), r, -1)))
  /\ Through(m, r) \in {0, f - 1}

\* Its deletions and insertions, and the ids that it looks up.
LEMMA PlanOfRow ==
  ASSUME NEW s, NEW b, Spans(s, b), NEW f \in Nat, First(b) <= f, f < End(b), NEW t,
         NEW m, m = Lookup(t, b, f), NEW r, Numbers(Live(t, r))
  PROVE  Planned(s.log, t, b, f, m, r)
<1>1. /\ First(b) \in Nat /\ 1 <= First(b) /\ End(b) \in Nat
      /\ \A o \in First(b)..(End(b) - 1) : At(b, o) = s.log[o]
  BY DEF Spans
<1>2. ASSUME NEW sign
      PROVE  {o \in Offsets(b, r, sign) : o >= f} = Evs(s.log, f, End(b), r, sign)
  <2>1. \A o : o \in First(b)..(End(b) - 1) /\ o >= f <=> o \in f..(End(b) - 1)
    BY <1>1
  <2> QED BY <1>1, <2>1 DEF Offsets, Evs
<1>3. Take(b, f, r) = Cardinality(Evs(s.log, f, End(b), r, -1))
  BY <1>2 DEF Take
<1>4. /\ DOMAIN m = Requested(b, f)
      /\ r \in DOMAIN m => m[r].through = f - 1 /\ m[r].ids = Smallest(Live(t, r), Take(b, f, r))
  BY DEF Lookup, Live
<1>5. Through(m, r) \in {0, f - 1}
  BY <1>4 DEF Through
<1>6. ASSUME NEW sign
      PROVE  Remaining(b, f, m, r, sign) = Evs(s.log, f, End(b), r, sign)
  <2>1. \A o \in Offsets(b, r, sign) : o >= f => o > Through(m, r)
    BY <1>1, <1>5 DEF Offsets
  <2>2. Remaining(b, f, m, r, sign) = {o \in Offsets(b, r, sign) : o >= f}
    BY <2>1 DEF Remaining
  <2> QED BY <1>2, <2>2
<1>7. Ids(m, r) = Smallest(Live(t, r), Take(b, f, r))
  <2>1. CASE r \in DOMAIN m
    BY <1>4, <2>1 DEF Ids
  <2>2. CASE r \notin DOMAIN m
    <3>1. Take(b, f, r) \in Nat
      BY <1>1, <1>3, EvsType
    <3>2. Take(b, f, r) = 0
      <4>1. CASE r \in Rows(b)
        BY <1>4, <2>2, <3>1, <4>1 DEF Requested
      <4>2. CASE r \notin Rows(b)
        <5>1. ASSUME NEW o \in Evs(s.log, f, End(b), r, -1) PROVE FALSE
          <6>1. o \in First(b)..(End(b) - 1) /\ s.log[o] = [row |-> r, sign |-> -1]
            BY <1>1 DEF Evs
          <6>2. At(b, o).row = r
            BY <1>1, <6>1
          <6> QED BY <4>2, <6>1, <6>2 DEF Rows
        <5>2. Evs(s.log, f, End(b), r, -1) = {}
          BY <5>1
        <5>3. Cardinality({}) = 0
          BY FS_EmptySet
        <5> QED BY <1>3, <5>2, <5>3, Zenon
      <4> QED BY <4>1, <4>2
    <3>3. Smallest(Live(t, r), 0) = {}
      <4>1. \A x : Rank(Live(t, r), x) \in Nat
        BY RankType
      <4>2. \A x : ~(Rank(Live(t, r), x) < 0)
        BY <4>1
      <4> QED BY <4>2 DEF Smallest, Rank, Lower
    <3> QED BY <2>2, <3>2, <3>3 DEF Ids
  <2> QED BY <2>1, <2>2
<1>8. Ids(m, r) = Smallest(Live(t, r), Cardinality(Evs(s.log, f, End(b), r, -1)))
  BY <1>3, <1>7, Zenon
<1> QED BY <1>3, <1>5, <1>6, <1>8 DEF Planned

(***************************************************************************)
(* One row of a delivery: the supply is large enough, the deletions take   *)
(* its smallest ids, each of them older than the deletion, and what lives  *)
(* afterwards is what the longer log says.                                 *)
(***************************************************************************)
RowDone(log, t, b, f, m, r) ==
  LET e      == End(b)
      supply == Supply(b, f, m, r)
      killed == {Victim(b, f, m, o) : o \in Evs(log, f, e, r, -1)}
  IN /\ Numbers(Live(t, r))
     /\ killed \in SUBSET supply /\ supply \in SUBSET (Live(t, r) \cup Evs(log, f, e, r, 1))
     /\ (Live(t, r) \cup Evs(log, f, e, r, 1)) \ killed = Alive(log, e, r)
     /\ \A o \in Evs(log, f, e, r, -1) :
          /\ Earlier(b, f, m, o) < Cardinality(supply)
          /\ Victim(b, f, m, o) \in supply /\ Victim(b, f, m, o) < o

\* A row of a delivery.
LEMMA RowOfDelivery ==
  ASSUME NEW s, Good(s), NEW b, Spans(s, b), NEW t, Contents(s.log, t), NEW f \in Nat, f = t.frontier,
         First(b) <= f, f < End(b), NEW m, m = Lookup(t, b, f), NEW r \in Row
  PROVE  Planned(s.log, t, b, f, m, r) /\ RowDone(s.log, t, b, f, m, r)
<1>1. /\ s.log \in Seq(Event) /\ WellFormed(s.log) /\ s.tail = Len(s.log) + 1 /\ Len(s.log) \in Nat
  <2>1. s.log \in Seq(Event)
    BY StoreFields DEF Good
  <2> QED BY <2>1 DEF Good
<1>2. First(b) \in Nat /\ 1 <= First(b) /\ End(b) \in Nat /\ End(b) <= s.tail
  BY DEF Spans
<1>3. PICK log \in Seq(Event) : log = s.log
  BY <1>1
<1>4. PICK e \in Nat : e = End(b)
  BY <1>2
<1>5. WellFormed(log) /\ 1 <= f /\ f <= e /\ e <= Len(log) + 1 /\ Len(log) \in Nat
  BY <1>1, <1>2, <1>3, <1>4
<1> DEFINE B == Evs(log, 1, f, r, 1)
           born == Evs(log, f, e, r, 1)
           del == Evs(log, f, e, r, -1)
           dead == Evs(log, 1, f, r, -1)
           live == Live(t, r)
<1>6. Numbers(B) /\ Numbers(born) /\ Numbers(del) /\ Cardinality(del) \in Nat /\ Cardinality(dead) \in Nat
  BY EvsType
<1>7. /\ Evs(log, 1, e, r, 1) = B \cup born /\ \A x \in B, y \in born : x < y
      /\ Cardinality(Evs(log, 1, e, r, -1)) = Cardinality(dead) + Cardinality(del)
  <2>1. SplitAt(log, 1, f, e, r, 1) /\ SplitAt(log, 1, f, e, r, -1)
    BY <1>5, EvsSplit
  <2> QED BY <2>1 DEF SplitAt
<1>8. /\ Cardinality(dead) <= Cardinality(B)
      /\ Cardinality(Evs(log, 1, e, r, -1)) <= Cardinality(Evs(log, 1, e, r, 1))
  <2>1. 1 <= e /\ f <= Len(log) + 1
    BY <1>5
  <2> QED BY <1>5, <2>1, Balanced
<1>9. live = B \ Smallest(B, Cardinality(dead))
  BY <1>3 DEF Contents, Alive
<1>10. Numbers(live)
  BY <1>6, <1>9, NumbersParts
<1>11. Planned(log, t, b, f, m, r)
  BY <1>3, <1>10, PlanOfRow
<1>12. Supply(b, f, m, r) = Smallest(live, Cardinality(del)) \cup born
       /\ Remaining(b, f, m, r, -1) = del
  BY <1>4, <1>11 DEF Planned, Supply
<1>13. PICK supply : supply = Smallest(live, Cardinality(del)) \cup born
  OBVIOUS
<1>14. PICK k \in Nat : k = Cardinality(del)
  BY <1>6
<1>15. PICK d \in Nat : d = Cardinality(dead)
  BY <1>6
<1> HIDE DEF B, born, del, dead, live
<1>16. /\ (live \cup born) \ Smallest(supply, k) = (B \cup born) \ Smallest(B \cup born, d + k)
       /\ Numbers(supply)
       /\ d + k <= Cardinality(B \cup born) => k <= Cardinality(supply)
  <2>1. d <= Cardinality(B) /\ live = B \ Smallest(B, d) /\ supply = Smallest(live, k) \cup born
    BY <1>8, <1>9, <1>13, <1>14, <1>15, Zenon
  <2>2. Delivers(B, born, d, k, live, supply)
    BY <1>6, <1>7, <2>1, RowDelivers
  <2> QED BY <2>2 DEF Delivers
<1>17. Cardinality(Evs(log, 1, e, r, -1)) = d + k /\ k <= Cardinality(supply)
  <2>1. Cardinality(Evs(log, 1, e, r, -1)) = d + k
    BY <1>7, <1>14, <1>15, Zenon
  <2>2. d + k <= Cardinality(B \cup born)
    BY <1>7, <1>8, <2>1, Zenon
  <2> QED BY <1>16, <2>1, <2>2
<1>18. ASSUME NEW o \in del
       PROVE  /\ Earlier(b, f, m, o) = Rank(del, o) /\ Victim(b, f, m, o) = TakenBy(supply, del, o)
  <2>1. Remaining(b, f, m, r, -1) = Evs(s.log, f, End(b), r, -1) /\ o \in Evs(s.log, f, End(b), r, -1)
        /\ del = Evs(s.log, f, End(b), r, -1)
    BY <1>3, <1>4, <1>12, Zenon DEF del
  <2>2. /\ Earlier(b, f, m, o) = Rank(Evs(s.log, f, End(b), r, -1), o)
        /\ Victim(b, f, m, o) = TakenBy(Supply(b, f, m, r), Evs(s.log, f, End(b), r, -1), o)
    BY <2>1, VictimIs
  <2> QED BY <1>12, <1>13, <2>1, <2>2, Zenon
<1>19. Cardinality(del) <= Cardinality(supply)
  BY <1>14, <1>17
<1>20. {Victim(b, f, m, o) : o \in del} = Smallest(supply, k)
  <2>1. {TakenBy(supply, del, o) : o \in del} = Smallest(supply, Cardinality(del))
    BY <1>6, <1>16, <1>19, TakenAre
  <2>2. {Victim(b, f, m, o) : o \in del} = {TakenBy(supply, del, o) : o \in del}
    BY <1>18
  <2> QED BY <1>14, <2>1, <2>2, Zenon
<1>21. Smallest(supply, k) \in SUBSET supply /\ Smallest(live, Cardinality(del)) \in SUBSET live
  BY DEF Smallest
<1>22. (live \cup born) \ {Victim(b, f, m, o) : o \in del} = Alive(log, e, r)
  BY <1>7, <1>16, <1>17, <1>20, Zenon DEF Alive
<1>23. ASSUME NEW o \in del
       PROVE  /\ Earlier(b, f, m, o) < Cardinality(supply)
              /\ Victim(b, f, m, o) \in supply /\ Victim(b, f, m, o) < o
  <2>1. Rank(del, o) \in Nat /\ Rank(del, o) < Cardinality(del) /\ Cardinality(supply) \in Nat
    BY <1>6, <1>16, RankType, NumbersParts
  <2>2. TakenBy(supply, del, o) \in supply
    BY <1>6, <1>16, <1>19, TakenIs
  <2>3. \A x \in B : x < o
    <3>1. (\A x \in B : x \in Nat /\ x < f) /\ o \in Nat /\ f <= o
      BY EvsType DEF B, del
    <3> QED BY <3>1
  <2>4. d + Rank(del, o) + 1 <= Cardinality(B) + Rank(born, o)
    <3>1. Cardinality(dead) + Rank(del, o) + 1 <= Cardinality(B) + Rank(born, o)
      BY <1>5, DeletionIsCovered DEF dead, del, B, born
    <3> QED BY <1>15, <3>1
  <2>5. TakenBy(supply, del, o) < o
    <3>1. d <= Cardinality(B) /\ live = B \ Smallest(B, d)
      BY <1>8, <1>9, <1>15, Zenon
    <3> QED BY <1>6, <1>7, <1>13, <1>19, <2>3, <2>4, <3>1, RowFinds
  <2> QED BY <1>14, <1>17, <1>18, <1>19, <2>1, <2>2, <2>5
<1>24. RowDone(log, t, b, f, m, r)
  <2>1. Supply(b, f, m, r) = supply /\ End(b) = e
    BY <1>4, <1>12, <1>13
  <2>2. {Victim(b, f, m, o) : o \in del} \in SUBSET supply /\ supply \in SUBSET (live \cup born)
    BY <1>13, <1>20, <1>21
  <2> QED BY <1>10, <1>22, <1>23, <2>1, <2>2, Zenon DEF RowDone, live, born, del
<1> QED BY <1>3, <1>11, <1>24, Zenon

\* Rows of different names have neither ids nor events in common.
LEMMA RowsApart ==
  ASSUME NEW log \in Seq(Event), NEW t, Contents(log, t), NEW f \in Nat, f = t.frontier, NEW e \in Nat,
         NEW r \in Row, NEW q \in Row, r # q
  PROVE  (Live(t, r) \cup Evs(log, f, e, r, 1)) \cap (Live(t, q) \cup Evs(log, f, e, q, 1)) = {}
<1>1. Live(t, r) \cap Live(t, q) = {}
  BY DEF Live
<1>2. Evs(log, f, e, r, 1) \cap Evs(log, f, e, q, 1) = {}
  <2>1. [row |-> r, sign |-> 1].row # [row |-> q, sign |-> 1].row
    OBVIOUS
  <2>2. [row |-> r, sign |-> 1] # [row |-> q, sign |-> 1]
    BY <2>1, Zenon
  <2> QED BY <2>2, Zenon DEF Evs
<1>3. ASSUME NEW p \in Row PROVE \A x \in Live(t, p) : x \in Nat /\ x < f
  <2>1. Live(t, p) \in SUBSET Evs(log, 1, f, p, 1)
    BY DEF Contents, Alive
  <2>2. \A x \in Evs(log, 1, f, p, 1) : x \in Nat /\ x < f
    BY EvsType
  <2> QED BY <2>1, <2>2
<1>4. ASSUME NEW p \in Row PROVE \A x \in Evs(log, f, e, p, 1) : x \in Nat /\ f <= x
  BY EvsType
<1>5. ASSUME NEW p \in Row, NEW c \in Row PROVE Live(t, p) \cap Evs(log, f, e, c, 1) = {}
  <2>1. \A x \in Nat : ~(x < f /\ f <= x)
    OBVIOUS
  <2> QED BY <1>3, <1>4, <2>1
<1> QED BY <1>1, <1>2, <1>5

\* The births and the deaths of a batch are those of its rows.
LEMMA BatchEvents ==
  ASSUME NEW s, NEW b, Spans(s, b), NEW t, NEW f \in Nat, First(b) <= f, f < End(b), NEW m,
         \A r \in Row : Planned(s.log, t, b, f, m, r)
  PROVE  /\ \A o : o \in Inserts(b, f, m) <=> \E r \in Row : o \in Evs(s.log, f, End(b), r, 1)
         /\ \A o : o \in Deletes(b, f, m) <=> \E r \in Row : o \in Evs(s.log, f, End(b), r, -1)
         /\ \A r \in Row : \A o \in Evs(s.log, f, End(b), r, 1) : At(b, o).row = r
         /\ \A r \in Row : \A o \in Evs(s.log, f, End(b), r, -1) : At(b, o).row = r
<1>1. /\ First(b) \in Nat /\ End(b) \in Nat
      /\ \A o \in First(b)..(End(b) - 1) : At(b, o) = s.log[o] /\ s.log[o] \in Event
  BY DEF Spans
<1>2. \A o \in f..(End(b) - 1) : o \in First(b)..(End(b) - 1)
  BY <1>1
<1>3. Rows(b) \in SUBSET Row
  BY <1>1 DEF Rows, Event
<1>4. ASSUME NEW r \in Row, NEW sign \in {1, -1}, NEW o \in Evs(s.log, f, End(b), r, sign)
      PROVE  At(b, o).row = r /\ r \in Rows(b)
  <2>1. o \in First(b)..(End(b) - 1) /\ s.log[o] = [row |-> r, sign |-> sign]
    BY <1>2 DEF Evs
  <2>2. At(b, o).row = r
    BY <1>1, <2>1
  <2> QED BY <2>1, <2>2 DEF Rows
<1>5. ASSUME NEW r \in Row, NEW sign \in {1, -1}
      PROVE  Remaining(b, f, m, r, sign) = Evs(s.log, f, End(b), r, sign)
  BY DEF Planned
<1>6. \A o : o \in Inserts(b, f, m) <=> \E r \in Row : o \in Evs(s.log, f, End(b), r, 1)
  <2>1. \A r \in Row : Remaining(b, f, m, r, 1) = Evs(s.log, f, End(b), r, 1)
    BY <1>5
  <2>2. \A r \in Row : \A o \in Evs(s.log, f, End(b), r, 1) : r \in Rows(b)
    BY <1>4
  <2>3. ASSUME NEW o \in Inserts(b, f, m) PROVE \E r \in Row : o \in Evs(s.log, f, End(b), r, 1)
    BY <1>3, <2>1, <2>3 DEF Inserts
  <2>4. ASSUME NEW r \in Row, NEW o \in Evs(s.log, f, End(b), r, 1) PROVE o \in Inserts(b, f, m)
    BY <2>1, <2>2, <2>4 DEF Inserts
  <2> QED BY <2>3, <2>4
<1>7. \A o : o \in Deletes(b, f, m) <=> \E r \in Row : o \in Evs(s.log, f, End(b), r, -1)
  <2>1. \A r \in Row : Remaining(b, f, m, r, -1) = Evs(s.log, f, End(b), r, -1)
    BY <1>5
  <2>2. \A r \in Row : \A o \in Evs(s.log, f, End(b), r, -1) : r \in Rows(b)
    BY <1>4
  <2>3. ASSUME NEW o \in Deletes(b, f, m) PROVE \E r \in Row : o \in Evs(s.log, f, End(b), r, -1)
    BY <1>3, <2>1, <2>3 DEF Deletes
  <2>4. ASSUME NEW r \in Row, NEW o \in Evs(s.log, f, End(b), r, -1) PROVE o \in Deletes(b, f, m)
    BY <2>1, <2>2, <2>4 DEF Deletes
  <2> QED BY <2>3, <2>4
<1> QED BY <1>4, <1>6, <1>7

(***************************************************************************)
(* A delivery brings the target to the end of its batch.                   *)
(***************************************************************************)
LEMMA ApplyIs ==
  ASSUME NEW s, Good(s), NEW b, Spans(s, b), NEW t \in TargetType, Contents(s.log, t),
         First(b) <= t.frontier, t.frontier < End(b), NEW u, u = Apply(t, b)
  PROVE  /\ u \in TargetType /\ u.exists = t.exists /\ u.frontier = End(b)
         /\ Contents(s.log, u)
<1>1. PICK log \in Seq(Event) : log = s.log
  BY StoreFields DEF Good
<1>2. PICK f \in Nat : f = t.frontier
  BY TargetFields
<1>3. PICK e \in Nat : e = End(b)
  BY DEF Spans
<1>4. PICK m : m = Lookup(t, b, f)
  OBVIOUS
<1> DEFINE killed == {Victim(b, f, m, o) : o \in Deletes(b, f, m)}
           born == Inserts(b, f, m)
           Of(r) == Live(t, r) \cup Evs(log, f, e, r, 1)
           Taken(r) == {Victim(b, f, m, o) : o \in Evs(log, f, e, r, -1)}
           dom == (DOMAIN t.live \cup born) \ killed
           new == [id \in dom |-> IF id \in born THEN At(b, id).row ELSE t.live[id]]
<1>5. /\ First(b) <= f /\ f < End(b) /\ Contents(log, t)
      /\ \A r \in Row : Planned(log, t, b, f, m, r) /\ RowDone(log, t, b, f, m, r)
  BY <1>1, <1>2, <1>4, RowOfDelivery
<1>6. \A r \in Row : Taken(r) \in SUBSET Of(r) /\ Of(r) \ Taken(r) = Alive(log, e, r)
  BY <1>3, <1>5 DEF RowDone
<1>7. /\ \A o : o \in born <=> \E r \in Row : o \in Evs(log, f, e, r, 1)
      /\ \A o : o \in Deletes(b, f, m) <=> \E r \in Row : o \in Evs(log, f, e, r, -1)
      /\ \A r \in Row : \A o \in Evs(log, f, e, r, 1) : At(b, o).row = r
  BY <1>1, <1>3, <1>5, BatchEvents
<1>8. /\ u.exists = t.exists /\ u.frontier = e /\ u.live = new
      /\ u = [exists |-> t.exists, frontier |-> e, live |-> new]
  <2>1. ~(End(b) <= f)
    BY <1>3, <1>5
  <2>2. u = [t EXCEPT !.frontier = End(b), !.live = new]
    BY <1>2, <1>4, <2>1, ZenonT(30) DEF Apply
  <2>3. t = [exists |-> t.exists, frontier |-> t.frontier, live |-> t.live]
    BY DEF TargetType
  <2> HIDE DEF new
  <2>4. u = [exists |-> t.exists, frontier |-> End(b), live |-> new]
    BY <2>2, <2>3
  <2> QED BY <1>3, <2>4
<1>9. DOMAIN t.live \in SUBSET Nat /\ \A id \in DOMAIN t.live : t.live[id] \in Row
  BY TargetFields
<1>10. \A r \in Row : \A o \in Evs(log, f, e, r, 1) : o \in Nat
  BY EvsType
<1> HIDE DEF killed, born
<1>11. new \in [dom -> Row] /\ dom \in SUBSET Nat
  <2>1. ASSUME NEW id \in dom PROVE id \in Nat /\ new[id] \in Row
    <3>1. CASE id \in born
      BY <1>7, <1>10, <3>1
    <3>2. CASE id \notin born
      BY <1>9, <3>2
    <3> QED BY <3>1, <3>2
  <2> QED BY <2>1
<1>12. new \in LiveMaps
  <2> HIDE DEF new, dom
  <2> QED BY <1>11 DEF LiveMaps
<1>13. u \in TargetType
  <2>1. t.exists \in BOOLEAN
    BY TargetFields
  <2> HIDE DEF new
  <2> QED BY <1>8, <1>12, <2>1 DEF TargetType
<1>14. ASSUME NEW x PROVE x \in killed <=> \E q \in Row : x \in Taken(q)
  BY <1>7, Zenon DEF killed
<1>15. ASSUME NEW r \in Row, NEW x \in Of(r) PROVE x \in killed <=> x \in Taken(r)
  <2>1. ASSUME NEW q \in Row, q # r PROVE x \notin Of(q)
    BY <1>5, <1>2, <2>1, RowsApart
  <2>2. ASSUME NEW q \in Row, x \in Taken(q) PROVE q = r
    BY <1>6, <2>1, <2>2
  <2> HIDE DEF Taken, Of
  <2> QED BY <1>14, <2>2
<1>16. ASSUME NEW r \in Row PROVE Live(u, r) = Alive(log, e, r)
  <2>1. ASSUME NEW x \in Of(r)
        PROVE  x \in DOMAIN t.live \cup born /\ (IF x \in born THEN At(b, x).row ELSE t.live[x]) = r
    <3>1. CASE x \in Evs(log, f, e, r, 1)
      BY <1>7, <3>1
    <3>2. CASE x \notin Evs(log, f, e, r, 1)
      <4>1. x \in Live(t, r) /\ x \in DOMAIN t.live /\ t.live[x] = r
        BY <3>2 DEF Live
      <4>2. ASSUME NEW q \in Row, x \in Evs(log, f, e, q, 1) PROVE FALSE
        <5>1. q # r
          BY <3>2, <4>2
        <5>2. Of(r) \cap Of(q) = {}
          BY <1>2, <1>5, <5>1, RowsApart
        <5> QED BY <4>2, <5>2
      <4>3. x \notin born
        BY <1>7, <4>2
      <4> QED BY <4>1, <4>3
    <3> QED BY <3>1, <3>2
  <2>2. ASSUME NEW x \in DOMAIN t.live \cup born, (IF x \in born THEN At(b, x).row ELSE t.live[x]) = r
        PROVE  x \in Of(r)
    <3>1. CASE x \in born
      BY <1>7, <2>2, <3>1
    <3>2. CASE x \notin born
      BY <2>2, <3>2 DEF Live
    <3> QED BY <3>1, <3>2
  <2>3. Live(u, r) = {x \in dom : (IF x \in born THEN At(b, x).row ELSE t.live[x]) = r}
    BY <1>8, Zenon DEF Live
  <2>4. Live(u, r) = Of(r) \ Taken(r)
    <3>1. Taken(r) \in SUBSET Of(r)
      BY <1>6
    <3> HIDE DEF Of, Taken
    <3> QED BY <1>15, <2>1, <2>2, <2>3
  <2> QED BY <1>6, <2>4
<1>17. Contents(log, u)
  <2> HIDE DEF new
  <2> QED BY <1>8, <1>16 DEF Contents
<1> QED BY <1>1, <1>3, <1>8, <1>13, <1>17, Zenon

(***************************************************************************)
(* And the plan of a delivery never refuses it.                            *)
(***************************************************************************)
LEMMA PlanAccepts ==
  ASSUME NEW s, Good(s), NEW b, Spans(s, b), NEW t \in TargetType, Contents(s.log, t),
         NEW f \in Nat, f = t.frontier, First(b) <= f, f < End(b)
  PROVE  Plannable(b, f, Lookup(t, b, f), Retained(s))
<1>1. PICK log \in Seq(Event) : log = s.log
  BY StoreFields DEF Good
<1>2. PICK e \in Nat : e = End(b)
  BY DEF Spans
<1>3. PICK m : m = Lookup(t, b, f)
  OBVIOUS
<1>4. /\ First(b) \in Nat /\ 1 <= First(b) /\ e <= b.tail /\ b.tail = s.tail /\ b.before.entry = s.head.entry
      /\ \A o \in First(b)..(End(b) - 1) : At(b, o) \in Event
  BY <1>2 DEF Spans
<1>5. s.tail \in Nat /\ s.head.entry \in Nat
  BY StoreFields DEF Good
<1>6. \A r \in Row : Planned(log, t, b, f, m, r) /\ RowDone(log, t, b, f, m, r)
  BY <1>1, <1>3, RowOfDelivery
<1>7. /\ \A o : o \in Deletes(b, f, m) <=> \E r \in Row : o \in Evs(log, f, e, r, -1)
      /\ \A r \in Row : \A o \in Evs(log, f, e, r, -1) : At(b, o).row = r
  BY <1>1, <1>2, <1>6, BatchEvents
<1>8. DOMAIN m \in SUBSET Row /\ DOMAIN m = Requested(b, f)
  BY <1>3, <1>4 DEF Lookup, Requested, Rows, Event
<1>9. ASSUME NEW r \in Row
      PROVE  /\ Live(t, r) \in SUBSET Evs(log, 1, f, r, 1)
             /\ \A id \in Live(t, r) : id \in Nat /\ 1 <= id /\ id <= f - 1 /\ log[id] = [row |-> r, sign |-> 1]
  <2>1. Live(t, r) \in SUBSET Evs(log, 1, f, r, 1)
    BY <1>1 DEF Contents, Alive
  <2> QED BY <2>1 DEF Evs
<1>10. ASSUME NEW r \in DOMAIN m
       PROVE  /\ m[r].through = f - 1 /\ m[r].ids = Ids(m, r) /\ Through(m, r) = f - 1
              /\ Ids(m, r) \in SUBSET Live(t, r) /\ Cardinality(Ids(m, r)) <= Take(b, f, r)
  <2>1. m[r].through = f - 1 /\ m[r].ids = Ids(m, r) /\ Through(m, r) = f - 1
    BY <1>3, <1>8 DEF Lookup, Ids, Through
  <2>2. r \in Row
    BY <1>8
  <2>3. /\ Ids(m, r) = Smallest(Live(t, r), Cardinality(Evs(log, f, End(b), r, -1)))
        /\ Take(b, f, r) = Cardinality(Evs(log, f, End(b), r, -1))
    BY <1>6, <2>2 DEF Planned
  <2>4. Numbers(Live(t, r))
    BY <1>6, <2>2 DEF RowDone
  <2>5. PICK k \in Nat : k = Cardinality(Evs(log, f, e, r, -1))
    BY EvsType
  <2>6. Selects(Live(t, r), k, Smallest(Live(t, r), k))
    BY <2>4, SmallestIs
  <2>7. Smallest(Live(t, r), k) \in SUBSET Live(t, r) /\ Cardinality(Smallest(Live(t, r), k)) <= k
    BY <2>6 DEF Selects
  <2>8. Ids(m, r) \in SUBSET Live(t, r) /\ Cardinality(Ids(m, r)) <= Take(b, f, r)
    BY <1>2, <2>3, <2>5, <2>7, Zenon
  <2> QED BY <2>1, <2>8
<1>11. ValidMatches(b, f, m)
  <2>1. ASSUME NEW r \in DOMAIN m
        PROVE  /\ m[r].through < b.tail /\ Cardinality(m[r].ids) <= Take(b, f, r)
               /\ \A id \in m[r].ids : id # 0 /\ id <= m[r].through
    <3>1. f - 1 < b.tail
      BY <1>2, <1>4, <1>5
    <3>2. \A id \in m[r].ids : id # 0 /\ id <= m[r].through
      <4>1. m[r].ids \in SUBSET Live(t, r) /\ m[r].through = f - 1 /\ r \in Row
        BY <1>8, <1>10
      <4>2. \A id \in Live(t, r) : id # 0 /\ id <= f - 1
        <5>1. \A id \in Live(t, r) : id \in Nat /\ 1 <= id /\ id <= f - 1
          BY <1>9, <4>1, Zenon
        <5> QED BY <5>1
      <4> QED BY <4>1, <4>2, Zenon
    <3> QED BY <1>10, <3>1, <3>2
  <2>2. ASSUME NEW r \in DOMAIN m, NEW q \in DOMAIN m, r # q PROVE m[r].ids \cap m[q].ids = {}
    <3>1. Live(t, r) \cap Live(t, q) = {}
      BY <2>2 DEF Live
    <3> QED BY <1>10, <3>1
  <2> QED BY <2>1, <2>2 DEF ValidMatches
<1>12. ASSUME NEW o \in Deletes(b, f, m), NEW r, r = At(b, o).row, NEW id, id = Victim(b, f, m, o)
       PROVE  /\ Earlier(b, f, m, o) < Cardinality(Supply(b, f, m, r))
              /\ id < o
              /\ id >= b.before.entry /\ id <= Through(m, r) => Retained(s)[id] = [row |-> r, sign |-> 1]
  <2>1. r \in Row /\ o \in Evs(log, f, e, r, -1)
    BY <1>7, <1>12
  <2>2. /\ Earlier(b, f, m, o) < Cardinality(Supply(b, f, m, r))
        /\ id \in Supply(b, f, m, r) /\ id < o
        /\ Supply(b, f, m, r) \in SUBSET (Live(t, r) \cup Evs(log, f, e, r, 1))
    BY <1>2, <1>6, <1>12, <2>1 DEF RowDone
  <2>3. ASSUME id >= b.before.entry, id <= Through(m, r) PROVE Retained(s)[id] = [row |-> r, sign |-> 1]
    <3>1. \A x \in Evs(log, f, e, r, 1) : x \in Nat /\ f <= x
      BY EvsType
    <3>2. Through(m, r) \in {0, f - 1}
      BY <1>6, <2>1 DEF Planned
    <3>3. id \in Live(t, r)
      BY <1>4, <2>2, <2>3, <3>1, <3>2
    <3>4. id \in Nat /\ id <= f - 1 /\ log[id] = [row |-> r, sign |-> 1]
      BY <1>9, <2>1, <3>3
    <3>5. id \in s.head.entry..(s.tail - 1)
      BY <1>2, <1>4, <1>5, <2>3, <3>4
    <3>6. Retained(s)[id] = EventAt(s, id)
      BY <3>5, Zenon DEF Retained
    <3>7. EventAt(s, id) = s.log[id]
      BY <3>5, EventIs
    <3> QED BY <1>1, <3>4, <3>6, <3>7, Zenon
  <2> QED BY <2>2, <2>3
<1>13. f >= First(b) /\ f <= b.tail /\ End(b) <= b.tail
  BY <1>2, <1>4, <1>5
<1>14. Plannable(b, f, m, Retained(s))
  <2>1. ASSUME NEW o \in Deletes(b, f, m)
        PROVE  /\ Earlier(b, f, m, o) < Cardinality(Supply(b, f, m, At(b, o).row))
               /\ Victim(b, f, m, o) < o
               /\ Victim(b, f, m, o) >= b.before.entry /\ Victim(b, f, m, o) <= Through(m, At(b, o).row)
                    => Retained(s)[Victim(b, f, m, o)] = [row |-> At(b, o).row, sign |-> 1]
    <3>1. PICK r, id : r = At(b, o).row /\ id = Victim(b, f, m, o)
      OBVIOUS
    <3>2. /\ Earlier(b, f, m, o) < Cardinality(Supply(b, f, m, r))
          /\ id < o
          /\ id >= b.before.entry /\ id <= Through(m, r) => Retained(s)[id] = [row |-> r, sign |-> 1]
      BY <1>12, <3>1
    <3> QED BY <3>1, <3>2, Zenon
  <2> QED BY <1>11, <1>13, <2>1, Zenon DEF Plannable
<1> QED BY <1>3, <1>14

-----------------------------------------------------------------------------
(* The invariant of the sink.                                              *)

\* A store s that a crash may leave, beside the store x in use, and the target:
\* the frontier is between the head and the tail of s, and what was applied is
\* in both logs.
Faces(s, x, t) ==
  /\ s.head.offset <= t.frontier /\ t.frontier <= s.tail
  /\ \A i \in 1..(t.frontier - 1) : s.log[i] = x.log[i]
  /\ s.control = "fresh" => t.exists = FALSE
  /\ s.control = "ready" => t.exists = TRUE

Known(t) == t \in TargetType /\ 1 <= t.frontier

(***************************************************************************)
(* The target's frontier and contents, seen from every store a crash may   *)
(* leave; and a settlement follows a delivery.                             *)
(***************************************************************************)
TargetInv ==
  /\ Known(target) /\ Contents(store.log, target)
  /\ \A s \in durable : Faces(s, store, target)
  /\ pc = "settle" => /\ target.exists = TRUE
                      /\ IsInitialization \/ End(loaded) <= target.frontier

SinkInv == OutboxInv /\ TargetInv

\* What is alive depends only on the log before the frontier.
LEMMA ContentsSame ==
  ASSUME NEW log, NEW other, NEW t, t.frontier \in Nat,
         \A i \in 1..(t.frontier - 1) : log[i] = other[i], Contents(log, t)
  PROVE  Contents(other, t)
<1>1. PICK f \in Nat : f = t.frontier
  OBVIOUS
<1>2. \A i \in 1..(f - 1) : log[i] = other[i]
  BY <1>1
<1>3. ASSUME NEW r, NEW sign PROVE Evs(log, 1, f, r, sign) = Evs(other, 1, f, r, sign)
  BY <1>2 DEF Evs
<1>4. ASSUME NEW r PROVE Alive(log, f, r) = Alive(other, f, r)
  BY <1>3, Zenon DEF Alive
<1> QED BY <1>1, <1>4, Zenon DEF Contents

\* A step that leaves the target alone and goes to stores that face it.
LEMMA TargetKept ==
  ASSUME TargetInv, target' = target, store' \in durable', pc' # "settle",
         \A s \in durable' : Faces(s, store, target)
  PROVE  TargetInv'
<1>1. PICK x : x = store
  OBVIOUS
<1>2. PICK y : y = store'
  OBVIOUS
<1>3. PICK t : t = target
  OBVIOUS
<1>4. Known(t) /\ Contents(x.log, t) /\ Faces(y, x, t)
  BY <1>1, <1>2, <1>3 DEF TargetInv
<1>5. t.frontier \in Nat
  BY <1>4, TargetFields DEF Known
<1>6. \A i \in 1..(t.frontier - 1) : x.log[i] = y.log[i]
  BY <1>4 DEF Faces
<1>7. Contents(y.log, t)
  BY <1>4, <1>5, <1>6, ContentsSame
<1>8. ASSUME NEW s, Faces(s, x, t) PROVE Faces(s, y, t)
  <2>1. \A i \in 1..(t.frontier - 1) : s.log[i] = y.log[i]
    BY <1>6, <1>8 DEF Faces
  <2> QED BY <1>8, <2>1 DEF Faces
<1>9. \A s \in durable' : Faces(s, y, t)
  BY <1>1, <1>3, <1>8
<1>10. target' = t /\ store' = y
  BY <1>2, <1>3
<1>11. Known(target') /\ Contents(store'.log, target') /\ \A s \in durable' : Faces(s, store', target')
  BY <1>4, <1>7, <1>9, <1>10, Zenon
<1> QED BY <1>11 DEF TargetInv

\* A commit is such a step.
LEMMA CommitFaces ==
  ASSUME TargetInv, Kept, target' = target, NEW u, NEW next, next # "settle", Commit(u, next),
         Faces(u, store, target)
  PROVE  TargetInv'
<1>1. durable' = durable \cup {u} /\ (store' = u \/ store' = store) /\ pc' # "settle"
  BY DEF Commit
<1>2. store \in durable
  BY DEF Kept, KeptIn
<1>3. \A s \in durable' : Faces(s, store, target)
  BY <1>1 DEF TargetInv
<1>4. store' \in durable'
  BY <1>1, <1>2
<1> QED BY <1>1, <1>3, <1>4, TargetKept

\* The store in use faces the target.
LEMMA StoreFaces ==
  ASSUME SinkInv
  PROVE  Good(store) /\ store \in durable /\ Faces(store, store, target) /\ target \in TargetType
         /\ target.frontier \in Nat /\ 1 <= target.frontier
<1>1. Good(store) /\ store \in durable
  BY KeptStore DEF SinkInv, OutboxInv
<1>2. Faces(store, store, target)
  BY <1>1 DEF SinkInv, TargetInv
<1>3. target \in TargetType /\ 1 <= target.frontier
  BY DEF SinkInv, TargetInv, Known
<1> QED BY <1>1, <1>2, <1>3, TargetFields

\* try_enqueue.
LEMMA EnqueueFaces ==
  ASSUME SinkInv, TryEnqueue, UNCHANGED target
  PROVE  TargetInv'
<1>1. PICK page \in Pages : /\ store.tail + Len(page) <= MaxOffset /\ Fits(store, page)
                            /\ WellFormed(store.log \o page) /\ Commit(Enqueue(store, page), "stack")
  BY DEF TryEnqueue
<1>2. PICK s : s = store
  OBVIOUS
<1>3. PICK u : u = Enqueue(s, page)
  OBVIOUS
<1>4. Good(s) /\ Faces(s, s, target) /\ s.control = "ready"
  BY <1>2, StoreFaces DEF TryEnqueue
<1>5. WellFormed(Cat(s.log, page)) /\ s.tail + Len(page) <= MaxOffset /\ Fits(s, page)
  BY <1>1, <1>2 DEF Cat
<1>6. /\ Good(u) /\ u.control = s.control /\ u.head = s.head
      /\ Len(s.log) <= Len(u.log) /\ \A i \in 1..Len(s.log) : u.log[i] = s.log[i]
  BY <1>3, <1>4, <1>5, EnqueueGood
<1>7. PICK f \in Nat : f = target.frontier
  BY StoreFaces
<1>8. /\ s.tail = Len(s.log) + 1 /\ u.tail = Len(u.log) + 1 /\ Len(s.log) \in Nat /\ Len(u.log) \in Nat
  BY <1>4, <1>6, BehindItself DEF Good
<1>9. f <= u.tail /\ \A i \in 1..(f - 1) : u.log[i] = s.log[i]
  <2>1. f <= s.tail
    BY <1>4, <1>7 DEF Faces
  <2> QED BY <1>6, <1>8, <2>1
<1>10. Faces(u, s, target)
  BY <1>4, <1>6, <1>7, <1>9, Zenon DEF Faces
<1>11. Commit(u, "stack") /\ Faces(u, store, target)
  BY <1>1, <1>2, <1>3, <1>10, Zenon
<1> QED BY <1>11, CommitFaces DEF SinkInv, OutboxInv

\* Exhausted offsets.
LEMMA ExhaustedFaces ==
  ASSUME SinkInv, Exhausted, UNCHANGED target
  PROVE  TargetInv'
<1>1. PICK s : s = store
  OBVIOUS
<1>2. PICK u : u = [s EXCEPT !.pinned = TRUE]
  OBVIOUS
<1>3. Good(s) /\ Faces(s, s, target)
  BY <1>1, StoreFaces
<1>4. u.control = s.control /\ u.log = s.log /\ u.head = s.head /\ u.tail = s.tail
  BY <1>2, <1>3, PinGood
<1>5. Faces(u, s, target)
  BY <1>3, <1>4 DEF Faces
<1>6. Commit(u, "fail") /\ Faces(u, store, target)
  BY <1>1, <1>2, <1>5, Zenon DEF Exhausted
<1> QED BY <1>6, CommitFaces DEF SinkInv, OutboxInv

\* The intent to create the target.
LEMMA PersistInitializeFaces ==
  ASSUME SinkInv, NEW absent, PersistInitialize(absent), UNCHANGED target
  PROVE  TargetInv'
<1>1. CASE loaded.fresh /\ absent /\ Commit([store EXCEPT !.control = "initialize"], "sync")
  <2>1. PICK s : s = store
    OBVIOUS
  <2>2. PICK u : u = [s EXCEPT !.control = "initialize"]
    OBVIOUS
  <2>3. Good(s) /\ Faces(s, s, target) /\ s.control # "ready"
    BY <2>1, StoreFaces DEF PersistInitialize, SinkInv, OutboxInv, InHand
  <2>4. u.control = "initialize" /\ u.log = s.log /\ u.head = s.head /\ u.tail = s.tail
    BY <2>2, <2>3, ControlGood
  <2>5. Faces(u, s, target)
    BY <2>3, <2>4 DEF Faces
  <2>6. Commit(u, "sync") /\ Faces(u, store, target)
    BY <1>1, <2>1, <2>2, <2>5, Zenon
  <2> QED BY <2>6, CommitFaces DEF SinkInv, OutboxInv
<1>2. CASE store' = store /\ durable' = durable /\ pc' # "settle"
  BY <1>2, TargetKept, StoreFaces DEF SinkInv, TargetInv
<1>3. (loaded.fresh /\ absent /\ Commit([store EXCEPT !.control = "initialize"], "sync"))
      \/ (store' = store /\ durable' = durable /\ pc' # "settle")
  BY DEF PersistInitialize, FailStop
<1> QED BY <1>1, <1>2, <1>3

\* A settlement.
LEMMA SettleFaces ==
  ASSUME SinkInv, SettleLoaded, UNCHANGED target
  PROVE  TargetInv'
<1>1. PICK u : u = IF IsInitialization THEN [store EXCEPT !.control = "ready"]
                                       ELSE Settle(store, loaded)
  OBVIOUS
<1>2. pc = "settle" /\ Commit(u, "finish") /\ OutboxInv
  BY <1>1 DEF SettleLoaded, SinkInv
<1>3. /\ u.control = "ready" /\ u.log = store.log /\ u.tail = store.tail
      /\ \/ Initializes(store, loaded) /\ u.head = store.head
         \/ Batch(store, loaded)
            /\ \E n \in 1..PendingEvents(store) :
                 loaded = Loaded(store, n) /\ u.head.offset = store.head.offset + n
  BY <1>1, <1>2, SettledGood
<1>4. Faces(store, store, target) /\ Good(store)
  BY StoreFaces
<1>5. target.exists = TRUE /\ (IsInitialization \/ End(loaded) <= target.frontier)
  BY <1>2 DEF SinkInv, TargetInv
<1>6. u.head.offset <= target.frontier
  <2>1. CASE u.head = store.head
    BY <1>4, <2>1 DEF Faces
  <2>2. CASE Batch(store, loaded) /\ \E n \in 1..PendingEvents(store) :
                 loaded = Loaded(store, n) /\ u.head.offset = store.head.offset + n
    <3>1. PICK n \in 1..PendingEvents(store) :
                 loaded = Loaded(store, n) /\ u.head.offset = store.head.offset + n
      BY <2>2
    <3>2. End(loaded) = store.head.offset + n
      BY <1>4, <3>1, LoadedHolds, BatchSpans
    <3>3. ~IsInitialization
      BY <1>4, <2>2, HandIs DEF IsInitialization
    <3> QED BY <1>5, <3>1, <3>2, <3>3, Zenon
  <2> QED BY <1>3, <2>1, <2>2
<1>7. Faces(u, store, target)
  BY <1>3, <1>4, <1>5, <1>6 DEF Faces
<1> QED BY <1>2, <1>7, CommitFaces DEF OutboxInv, SinkInv

\* The steps of a round that do not touch the target, and a crash.
LEMMA DrainFaces ==
  ASSUME SinkInv, Drain \/ (Crash /\ UNCHANGED target)
  PROVE  SinkInv' /\ Turns(store', store)
<1>0. OutboxInv /\ store \in durable /\ \A s \in durable : Faces(s, store, target)
  BY StoreFaces DEF SinkInv, TargetInv
<1>1. CASE Drain /\ TryEnqueue
  BY <1>0, <1>1, TryEnqueueStep, EnqueueFaces DEF Drain, SinkInv
<1>2. CASE Drain /\ (StackDone \/ Load \/ Open)
  <2>1. OutboxInv' /\ Turns(store', store)
    BY <1>0, <1>2, StackDoneStep, LoadStep, OpenStep
  <2>2. store' = store /\ durable' = durable /\ pc' # "settle" /\ target' = target
    BY <1>2 DEF Drain, StackDone, Load, Open
  <2>3. store' \in durable' /\ \A s \in durable' : Faces(s, store, target)
    BY <1>0, <2>2
  <2> QED BY <2>1, <2>2, <2>3, TargetKept DEF SinkInv
<1>3. CASE Drain /\ (Sync \/ Finish)
  <2>1. OutboxInv' /\ Turns(store', store)
    BY <1>0, <1>3, SyncStep, FinishStep
  <2>2. store' = store /\ durable' \in {durable, {store}} /\ pc' # "settle" /\ target' = target
    BY <1>3 DEF Drain, Sync, Finish, FailStop
  <2>3. store' \in durable' /\ \A s \in durable' : Faces(s, store, target)
    BY <1>0, <2>2
  <2> QED BY <2>1, <2>2, <2>3, TargetKept DEF SinkInv
<1>4. CASE Drain /\ SettleLoaded
  BY <1>0, <1>4, SettleLoadedStep, SettleFaces DEF Drain, SinkInv
<1>5. CASE Drain /\ PersistInitialize(~target.exists)
  <2>1. PICK absent : absent = ~target.exists
    OBVIOUS
  <2>2. PersistInitialize(absent) /\ UNCHANGED target
    BY <1>5, <2>1, Zenon DEF Drain
  <2> QED BY <1>0, <2>2, PersistInitializeStep, PersistInitializeFaces DEF SinkInv
<1>6. CASE Stop /\ UNCHANGED target
  <2>1. OutboxInv' /\ Turns(store', store)
    BY <1>0, <1>6, StopStep
  <2>2. PICK s \in durable : store' = s /\ durable' = {s}
    BY <1>6 DEF Stop
  <2>3. pc' # "settle" /\ target' = target
    BY <1>6 DEF Stop
  <2>4. store' \in durable' /\ \A x \in durable' : Faces(x, store, target)
    BY <1>0, <2>2
  <2> QED BY <2>1, <2>3, <2>4, TargetKept DEF SinkInv
<1>7. CASE Drain /\ Exhausted
  BY <1>0, <1>7, ExhaustedStep, ExhaustedFaces DEF Drain, SinkInv
<1> QED BY <1>1, <1>2, <1>3, <1>4, <1>5, <1>6, <1>7 DEF Drain, OutboxStep, Crash, Close

\* An empty part has no events.
LEMMA EvsNone ==
  ASSUME NEW log, NEW r, NEW sign
  PROVE  Evs(log, 1, 1, r, sign) = {}
BY DEF Evs

\* Before the first event the target holds nothing.
LEMMA NothingAlive ==
  ASSUME NEW log, NEW t \in TargetType, t.frontier = 1
  PROVE  Contents(log, t) <=> DOMAIN t.live = {}
<1>1. \A id \in DOMAIN t.live : t.live[id] \in Row
  BY TargetFields
<1>2. \A r : Alive(log, 1, r) = {}
  BY EvsNone DEF Alive
<1>3. DOMAIN t.live = {} <=> \A r \in Row : Live(t, r) = {}
  BY <1>1 DEF Live
<1> QED BY <1>2, <1>3 DEF Contents

\* What is delivered is accepted.
LEMMA DeliveryAccepted ==
  ASSUME SinkInv, pc = "deliver"
  PROVE  /\ Accepted
         /\ \/ IsInitialization /\ Initializes(store, loaded)
            \/ /\ ~IsInitialization /\ Batch(store, loaded) /\ Spans(store, loaded)
               /\ First(loaded) <= target.frontier /\ target.exists = TRUE
<1>1. Initializes(store, loaded) \/ Batch(store, loaded)
  BY DEF SinkInv, OutboxInv, InHand, Delivering
<1>2. /\ Good(store) /\ Faces(store, store, target) /\ target \in TargetType
      /\ target.frontier \in Nat /\ 1 <= target.frontier /\ Contents(store.log, target)
  BY StoreFaces DEF SinkInv, TargetInv
<1>3. CASE Initializes(store, loaded)
  <2>1. IsInitialization
    BY <1>2, <1>3, HandIs DEF IsInitialization
  <2>2. store.log = <<>> /\ store.tail = Len(store.log) + 1
    BY <1>2, <1>3 DEF Good, Initializes
  <2>3. store.tail = 1
    BY <2>2
  <2>4. target.frontier = 1
    BY <1>2, <2>3 DEF Faces
  <2>5. PICK t \in TargetType : t = target
    BY <1>2
  <2>6. DOMAIN t.live = {}
    BY <1>2, <2>4, <2>5, NothingAlive
  <2>7. Accepted
    BY <2>1, <2>4, <2>5, <2>6 DEF Accepted, Initializable
  <2> QED BY <1>3, <2>1, <2>7
<1>4. CASE Batch(store, loaded)
  <2>1. PICK n \in 1..PendingEvents(store) : loaded = Loaded(store, n)
    BY <1>4 DEF Batch
  <2>2. Spans(store, loaded)
    BY <1>2, <2>1, LoadedHolds, BatchSpans
  <2>3. ~IsInitialization
    BY <1>2, <1>4, HandIs DEF IsInitialization
  <2>4. target.exists = TRUE /\ First(loaded) <= target.frontier /\ target.frontier <= loaded.tail
    BY <1>2, <1>4, <2>2 DEF Faces, Batch, Spans
  <2>5. ASSUME End(loaded) > target.frontier
        PROVE  Plannable(loaded, target.frontier, Lookup(target, loaded, target.frontier), Retained(store))
    <3>1. PICK s : s = store
      OBVIOUS
    <3>2. PICK t \in TargetType : t = target
      BY <1>2
    <3>3. PICK b : b = loaded
      OBVIOUS
    <3>4. PICK f \in Nat : f = t.frontier
      BY <1>2, <3>2
    <3>5. Good(s) /\ Spans(s, b) /\ Contents(s.log, t) /\ First(b) <= f
      BY <1>2, <2>2, <2>4, <3>1, <3>2, <3>3, <3>4
    <3>6. f < End(b)
      <4>1. End(b) \in Nat /\ End(b) > f
        BY <2>2, <2>5, <3>2, <3>3, <3>4 DEF Spans
      <4> QED BY <4>1
    <3>7. Plannable(b, f, Lookup(t, b, f), Retained(s))
      BY <3>4, <3>5, <3>6, PlanAccepts
    <3> QED BY <3>1, <3>2, <3>3, <3>4, <3>7, Zenon
  <2>6. target.frontier >= First(loaded)
    BY <1>2, <2>2, <2>4 DEF Spans
  <2>7. Accepted
    BY <2>3, <2>4, <2>5, <2>6, Zenon DEF Accepted, Deliverable
  <2> QED BY <1>4, <2>2, <2>3, <2>4, <2>7
<1> QED BY <1>1, <1>3, <1>4

\* A delivery brings the target forward, never beyond the tail.
LEMMA DeliverFaces ==
  ASSUME SinkInv, Deliver
  PROVE  SinkInv' /\ target.frontier <= target'.frontier
<1>1. pc = "deliver" /\ durable = {store} /\ UNCHANGED <<store, durable, loaded>>
  BY DEF Deliver, SinkInv, OutboxInv, Barriers, Delivering
<1>2. OutboxInv'
  <2>1. CASE pc' = "settle" /\ UNCHANGED needsReopen
    BY <1>1, <2>1, DeliveryStep DEF SinkInv, Delivering
  <2>2. CASE FailStop
    BY <1>1, <2>2, FailStopStep DEF SinkInv
  <2> QED BY <2>1, <2>2 DEF Deliver
<1>3. /\ Good(store) /\ Faces(store, store, target) /\ target \in TargetType
      /\ target.frontier \in Nat /\ 1 <= target.frontier /\ Contents(store.log, target)
  BY StoreFaces DEF SinkInv, TargetInv
<1>4. ASSUME NEW u, u = target', Known(u), Contents(store.log, u), Faces(store, store, u), u.exists = TRUE,
             IsInitialization \/ End(loaded) <= u.frontier
      PROVE  TargetInv'
  <2>1. loaded' = loaded
    BY <1>1
  <2>2. IsInitialization' <=> IsInitialization
    BY <2>1 DEF IsInitialization
  <2>3. IsInitialization' \/ End(loaded') <= u.frontier
    BY <1>4, <2>1, <2>2, Zenon
  <2> QED BY <1>1, <1>4, <2>3, Zenon DEF TargetInv
<1>5. CASE IsInitialization /\ Initializes(store, loaded)
  <2>1. PICK t \in TargetType : t = target
    BY <1>3
  <2>2. PICK u : u = [t EXCEPT !.exists = TRUE]
    OBVIOUS
  <2>3. target' = u
    BY <1>5, <2>1, <2>2, Zenon DEF Deliver
  <2>4. u \in TargetType /\ u.exists = TRUE /\ u.frontier = t.frontier /\ u.live = t.live
    BY <2>2 DEF TargetType
  <2>5. Known(u)
    BY <1>3, <2>1, <2>4 DEF Known
  <2>6. Contents(store.log, u)
    <3>1. \A r \in Row : Live(u, r) = Live(t, r)
      BY <2>4 DEF Live
    <3> QED BY <1>3, <2>1, <2>4, <3>1 DEF Contents
  <2>7. Faces(store, store, u)
    <3>1. store.control = "initialize"
      BY <1>5 DEF Initializes
    <3> QED BY <1>3, <2>1, <2>4, <3>1 DEF Faces
  <2>8. TargetInv'
    BY <1>4, <1>5, <2>3, <2>4, <2>5, <2>6, <2>7
  <2>9. target.frontier <= target'.frontier
    BY <1>3, <2>1, <2>3, <2>4
  <2> QED BY <1>2, <2>8, <2>9 DEF SinkInv
<1>6. CASE /\ ~IsInitialization /\ Batch(store, loaded) /\ Spans(store, loaded)
           /\ First(loaded) <= target.frontier /\ target.exists = TRUE
  <2>1. PICK t \in TargetType : t = target
    BY <1>3
  <2>2. PICK b : b = loaded
    OBVIOUS
  <2>3. PICK s : s = store
    OBVIOUS
  <2>4. PICK u : u = Apply(t, b)
    OBVIOUS
  <2>5. target' = u
    BY <1>6, <2>1, <2>2, <2>4, Zenon DEF Deliver
  <2>6. PICK f \in Nat : f = t.frontier
    BY <1>3, <2>1
  <2>7. End(b) \in Nat /\ End(b) <= s.tail /\ s.head.offset = First(b) /\ First(b) < End(b) /\ First(b) \in Nat
    BY <1>6, <2>2, <2>3 DEF Spans
  <2>8. /\ Good(s) /\ Spans(s, b) /\ Contents(s.log, t) /\ First(b) <= t.frontier /\ Faces(s, s, t)
        /\ t.exists = TRUE /\ 1 <= f
    BY <1>3, <1>6, <2>1, <2>2, <2>3, <2>6
  <2>9. CASE End(b) <= f
    <3>1. u = t
      BY <2>4, <2>6, <2>9, Zenon DEF Apply
    <3>2. Known(u) /\ Contents(s.log, u) /\ Faces(s, s, u) /\ u.exists = TRUE /\ End(b) <= u.frontier
      BY <2>6, <2>8, <2>9, <3>1 DEF Known
    <3>3. TargetInv'
      BY <1>4, <2>2, <2>3, <2>5, <3>2
    <3>4. target.frontier <= target'.frontier
      BY <2>1, <2>5, <2>6, <3>1
    <3> QED BY <1>2, <3>3, <3>4 DEF SinkInv
  <2>10. CASE ~(End(b) <= f)
    <3>1. t.frontier < End(b)
      BY <2>6, <2>7, <2>10
    <3>2. u \in TargetType /\ u.exists = t.exists /\ u.frontier = End(b) /\ Contents(s.log, u)
      BY <2>4, <2>8, <3>1, ApplyIs
    <3>3. Known(u) /\ u.exists = TRUE /\ End(b) <= u.frontier
      BY <2>6, <2>7, <2>8, <3>1, <3>2 DEF Known
    <3>4. Faces(s, s, u)
      <4>1. s.head.offset <= End(b)
        BY <2>7
      <4>2. s.control = "ready"
        BY <1>6, <2>3 DEF Batch
      <4> QED BY <2>7, <3>2, <3>3, <4>1, <4>2 DEF Faces
    <3>5. TargetInv'
      BY <1>4, <2>2, <2>3, <2>5, <3>2, <3>3, <3>4
    <3>6. target.frontier <= target'.frontier
      BY <2>1, <2>5, <2>6, <2>7, <3>1, <3>2
    <3> QED BY <1>2, <3>5, <3>6 DEF SinkInv
  <2> QED BY <2>9, <2>10
<1> QED BY <1>1, <1>5, <1>6, DeliveryAccepted

\* A new sink has the invariant.
LEMMA SinkInitInv == Init => SinkInv
<1> SUFFICES ASSUME Init PROVE SinkInv
  OBVIOUS
<1>1. OutboxInv
  BY OutboxInitInv DEF Init
<1>2. store = EmptyStore /\ durable = {EmptyStore} /\ pc = "stack" /\ target = NoTarget
  BY DEF Init, OutboxInit
<1>3. NoTarget \in TargetType /\ NoTarget.frontier = 1 /\ NoTarget.exists = FALSE /\ DOMAIN NoTarget.live = {}
  <2>1. PICK none : none = [id \in {} |-> 0]
    OBVIOUS
  <2>2. none \in [{} -> Row] /\ DOMAIN none = {}
    BY <2>1
  <2>3. none \in LiveMaps
    BY <2>2 DEF LiveMaps
  <2>4. NoTarget = [exists |-> FALSE, frontier |-> 1, live |-> none]
    BY <2>1, Zenon DEF NoTarget
  <2> QED BY <2>2, <2>3, <2>4 DEF TargetType
<1>4. Contents(EmptyStore.log, NoTarget)
  BY <1>3, NothingAlive
<1>5. Faces(EmptyStore, EmptyStore, NoTarget)
  <2>1. EmptyStore.head.offset = 1 /\ EmptyStore.tail = 1 /\ EmptyStore.control = "fresh"
    BY DEF EmptyStore, Position
  <2> QED BY <1>3, <2>1 DEF Faces
<1>6. Known(NoTarget)
  BY <1>3 DEF Known
<1>7. TargetInv
  BY <1>2, <1>4, <1>5, <1>6 DEF TargetInv
<1> QED BY <1>1, <1>7 DEF SinkInv

\* Every step keeps the invariant.
LEMMA SinkStep == SinkInv /\ [Next]_vars => SinkInv'
<1> SUFFICES ASSUME SinkInv, [Next]_vars PROVE SinkInv'
  OBVIOUS
<1>1. CASE Drain \/ (Crash /\ UNCHANGED target)
  BY <1>1, DrainFaces
<1>2. CASE Deliver
  BY <1>2, DeliverFaces
<1>3. CASE DeliverFails
  <2>1. OutboxInv'
    BY <1>3, FailStopStep DEF DeliverFails, SinkInv
  <2>2. store' \in durable' /\ \A s \in durable' : Faces(s, store, target)
    BY <1>3, StoreFaces DEF DeliverFails, SinkInv, TargetInv
  <2>3. pc' # "settle" /\ target' = target
    BY <1>3 DEF DeliverFails, FailStop
  <2> QED BY <2>1, <2>2, <2>3, TargetKept DEF SinkInv
<1>4. CASE UNCHANGED vars
  <2>1. /\ store' = store /\ durable' = durable /\ pc' = pc /\ loaded' = loaded
        /\ needsReopen' = needsReopen /\ target' = target
    BY <1>4 DEF vars
  <2>2. OutboxInv'
    BY <2>1 DEF SinkInv, OutboxInv, Kept, Barriers, InHand
  <2>3. IsInitialization' <=> IsInitialization
    BY <2>1 DEF IsInitialization
  <2>4. TargetInv'
    BY <2>1, <2>3 DEF SinkInv, TargetInv
  <2> QED BY <2>2, <2>4 DEF SinkInv
<1> QED BY <1>1, <1>2, <1>3, <1>4 DEF Next, Round

FrontierIn ==
  /\ store.log \in Seq(Event) /\ WellFormed(store.log) /\ Len(store.log) \in Nat
  /\ target.frontier \in Nat /\ 1 <= target.frontier /\ target.frontier <= Len(store.log) + 1
  /\ store.head.offset \in Nat /\ 1 <= store.head.offset /\ store.head.offset <= target.frontier
  /\ Contents(store.log, target)

\* The frontier lies in the log.
LEMMA FrontierFits == SinkInv => FrontierIn
<1> SUFFICES ASSUME SinkInv PROVE FrontierIn
  OBVIOUS
<1>1. Good(store) /\ Faces(store, store, target) /\ target.frontier \in Nat /\ 1 <= target.frontier
  BY StoreFaces
<1>2. store.log \in Seq(Event) /\ store.head.offset \in Nat /\ store.head.entry \in Nat
  BY <1>1, StoreFields DEF Good
<1>3. WellFormed(store.log) /\ store.tail = Len(store.log) + 1 /\ HeadFits(store)
  BY <1>1 DEF Good
<1>4. 1 <= store.head.offset
  BY <1>2, <1>3 DEF HeadFits
<1>5. Contents(store.log, target)
  BY DEF SinkInv, TargetInv
<1>6. Len(store.log) \in Nat
  BY <1>2
<1> QED BY <1>1, <1>2, <1>3, <1>4, <1>5, <1>6 DEF Faces, FrontierIn

\* What the invariant says of deliveries and of the intent to create the target.
LEMMA SinkAccepts == SinkInv => TargetNeverRefuses
<1> SUFFICES ASSUME SinkInv PROVE TargetNeverRefuses
  OBVIOUS
<1>1. pc = "deliver" => Accepted
  BY DeliveryAccepted
<1>2. ASSUME pc = "intent", loaded.fresh PROVE ~target.exists
  <2>1. loaded = Initialization(store.control = "fresh")
    BY <1>2 DEF SinkInv, OutboxInv, InHand
  <2>2. loaded.fresh = (store.control = "fresh")
    BY <2>1 DEF Initialization
  <2>3. store.control = "fresh"
    BY <1>2, <2>2
  <2>4. Faces(store, store, target)
    BY StoreFaces
  <2> QED BY <2>3, <2>4 DEF Faces
<1> QED BY <1>1, <1>2 DEF TargetNeverRefuses

\* What it says of the target's contents.
LEMMA SinkContents == SinkInv => YoungestSurvive
<1> SUFFICES ASSUME SinkInv, NEW r \in Row,
                    NEW applied, applied = SubSeq(store.log, 1, target.frontier - 1),
                    NEW births, births = {i \in DOMAIN applied : applied[i] = [row |-> r, sign |-> 1]}
             PROVE  {id \in DOMAIN target.live : target.live[id] = r}
                      = births \ Smallest(births, Cardinality(births) - Weight(applied, r))
  BY Zenon DEF YoungestSurvive
<1>1. PICK log \in Seq(Event) : log = store.log
  BY FrontierFits DEF FrontierIn
<1>2. PICK f \in Nat : f = target.frontier
  BY FrontierFits DEF FrontierIn
<1>3. WellFormed(log) /\ 1 <= f /\ f <= Len(log) + 1 /\ Contents(log, target)
  BY <1>1, <1>2, FrontierFits DEF FrontierIn
<1>4. applied = SubSeq(log, 1, f - 1)
  BY <1>1, <1>2
<1>5. births = Evs(log, 1, f, r, 1)
      /\ {i \in DOMAIN applied : applied[i] = [row |-> r, sign |-> -1]} = Evs(log, 1, f, r, -1)
  <2>1. EventsOf(applied, r, 1) = Evs(log, 1, f, r, 1) /\ EventsOf(applied, r, -1) = Evs(log, 1, f, r, -1)
    BY <1>3, <1>4, AppliedEvents
  <2> QED BY <2>1, Zenon DEF EventsOf
<1>6. PICK n \in Nat : n = Cardinality(Evs(log, 1, f, r, 1))
  BY EvsType
<1>7. PICK d \in Nat : d = Cardinality(Evs(log, 1, f, r, -1))
  BY EvsType
<1>8. Weight(applied, r) = n - d
  BY <1>5, <1>6, <1>7, Zenon DEF Weight
<1>9. Cardinality(births) - Weight(applied, r) = d
  <2>1. Cardinality(births) = n
    BY <1>5, <1>6, Zenon
  <2>2. n - (n - d) = d
    OBVIOUS
  <2> QED BY <1>8, <2>1, <2>2, Zenon
<1>10. Live(target, r) = Alive(log, f, r)
  BY <1>2, <1>3 DEF Contents
<1>11. Alive(log, f, r) = births \ Smallest(births, d)
  BY <1>5, <1>7, Zenon DEF Alive
<1> QED BY <1>9, <1>10, <1>11, Zenon DEF Live

\* The contract counts as the sink does.
LEMMA ContractCardinality ==
  ASSUME NEW S
  PROVE  Contract!Cardinality(S) = Cardinality(S)
BY Zenon DEF Contract!Cardinality, Cardinality

Adequate == Relation = Contract!Sum(SubSeq(store.log, 1, target.frontier - 1))

\* The relation of the target is the sum of the events it has.
LEMMA RelationIs == SinkInv => Adequate
<1> SUFFICES ASSUME SinkInv PROVE Adequate
  OBVIOUS
<1>1. PICK log \in Seq(Event) : log = store.log
  BY FrontierFits DEF FrontierIn
<1>2. PICK f \in Nat : f = target.frontier
  BY FrontierFits DEF FrontierIn
<1>3. WellFormed(log) /\ 1 <= f /\ f <= Len(log) + 1 /\ Contents(log, target)
  BY <1>1, <1>2, FrontierFits DEF FrontierIn
<1>4. PICK part : part = SubSeq(log, 1, f - 1)
  OBVIOUS
<1>5. ASSUME NEW r \in Row
      PROVE  Cardinality({id \in DOMAIN target.live : target.live[id] = r})
               = Contract!Count(part, r, 1) - Contract!Count(part, r, -1)
  <2>1. Contract!Count(part, r, 1) = Cardinality(Evs(log, 1, f, r, 1))
    <3>1. EventsOf(part, r, 1) = Evs(log, 1, f, r, 1)
      BY <1>3, <1>4, AppliedEvents
    <3> QED BY <3>1, ContractCardinality, Zenon DEF EventsOf, Contract!Count
  <2>2. Contract!Count(part, r, -1) = Cardinality(Evs(log, 1, f, r, -1))
    <3>1. EventsOf(part, r, -1) = Evs(log, 1, f, r, -1)
      BY <1>3, <1>4, AppliedEvents
    <3> QED BY <3>1, ContractCardinality, Zenon DEF EventsOf, Contract!Count
  <2>3. Live(target, r) = Alive(log, f, r)
    BY <1>2, <1>3 DEF Contents
  <2>4. Cardinality(Alive(log, f, r)) = Cardinality(Evs(log, 1, f, r, 1)) - Cardinality(Evs(log, 1, f, r, -1))
    BY <1>3, AliveCount
  <2> QED BY <2>1, <2>2, <2>3, <2>4, Zenon DEF Live
<1>6. Relation = Contract!Sum(part)
  BY <1>5, Zenon DEF Relation, Contract!Sum
<1> QED BY <1>1, <1>2, <1>4, <1>6, Zenon DEF Adequate

\* A step that leaves the target alone accepts, settles or loses events.
LEMMA OutboxRefines ==
  ASSUME SinkInv, SinkInv', Turns(store', store), target' = target
  PROVE  Contract!Next
<1>1. PICK x : x = store
  OBVIOUS
<1>2. PICK y : y = store'
  OBVIOUS
<1>3. PICK f \in Nat : f = target.frontier
  BY FrontierFits DEF FrontierIn
<1>4. /\ x.log \in Seq(Event) /\ Len(x.log) \in Nat /\ f <= Len(x.log) + 1
      /\ x.head.offset \in Nat /\ 1 <= x.head.offset /\ x.head.offset <= f /\ 1 <= f
  BY <1>1, <1>3, FrontierFits DEF FrontierIn
<1>0. FrontierIn'
  BY FrontierFits, PTL
<1>5. /\ y.log \in Seq(Event) /\ Len(y.log) \in Nat /\ f <= Len(y.log) + 1
      /\ y.head.offset \in Nat /\ 1 <= y.head.offset /\ y.head.offset <= f
  <2>1. /\ store'.log \in Seq(Event) /\ Len(store'.log) \in Nat /\ target'.frontier <= Len(store'.log) + 1
        /\ store'.head.offset \in Nat /\ 1 <= store'.head.offset /\ store'.head.offset <= target'.frontier
    BY <1>0 DEF FrontierIn
  <2> QED BY <1>2, <1>3, <2>1
<1>6. Relation' = Relation /\ (target.frontier - 1)' = target.frontier - 1
  BY DEF Relation
<1>7. CASE Behind(y, x)
  <2>1. Len(y.log) <= Len(x.log) /\ (\A i \in 1..Len(y.log) : y.log[i] = x.log[i])
        /\ y.head.offset <= x.head.offset
    BY <1>7 DEF Behind
  <2>2. y.log = SubSeq(x.log, 1, Len(y.log))
    <3>1. PrefixOf(x.log, Len(y.log)) = y.log
      BY <1>4, <1>5, <2>1, LogPrefix
    <3> QED BY <3>1, Zenon DEF PrefixOf
  <2>3. Len(y.log) \in (f - 1)..Len(x.log) /\ y.head.offset - 1 \in 0..(x.head.offset - 1)
    BY <1>4, <1>5, <2>1
  <2>4. \E n \in (target.frontier - 1)..Len(store.log) : store'.log = SubSeq(store.log, 1, n)
    BY <1>1, <1>2, <1>3, <2>2, <2>3, Zenon
  <2>5. store'.head.offset - 1 \in 0..(store.head.offset - 1)
    BY <1>1, <1>2, <2>3, Zenon
  <2>6. Contract!Lose
    BY <1>6, <2>4, <2>5, Zenon DEF Contract!Lose
  <2> QED BY <2>6 DEF Contract!Next
<1>8. CASE Grown(y, x)
  <2>1. Len(x.log) <= Len(y.log) /\ (\A i \in 1..Len(x.log) : y.log[i] = x.log[i])
        /\ y.head.offset = x.head.offset
    BY <1>8 DEF Grown
  <2>2. SubSeq(y.log, 1, Len(x.log)) = x.log
    <3>1. PrefixOf(y.log, Len(x.log)) = x.log
      BY <1>4, <1>5, <2>1, LogPrefix
    <3> QED BY <3>1, Zenon DEF PrefixOf
  <2>3. /\ store'.log \in Seq(Event) /\ Len(store.log) <= Len(store'.log)
        /\ SubSeq(store'.log, 1, Len(store.log)) = store.log
        /\ store'.head.offset - 1 = store.head.offset - 1
    BY <1>1, <1>2, <1>5, <2>1, <2>2, Zenon
  <2>4. Contract!Accept
    BY <1>6, <2>3, Zenon DEF Contract!Accept
  <2> QED BY <2>4 DEF Contract!Next
<1>9. CASE Drained(y, x)
  <2>1. y.log = x.log /\ x.head.offset <= y.head.offset
    BY <1>9 DEF Drained
  <2>2. y.head.offset - 1 \in (x.head.offset - 1)..(f - 1)
    BY <1>3, <1>4, <1>5, <2>1
  <2>3. /\ store'.log = store.log
        /\ store'.head.offset - 1 \in (store.head.offset - 1)..(target.frontier - 1)
    BY <1>1, <1>2, <1>3, <2>1, <2>2, Zenon
  <2>4. Contract!Settle
    BY <1>6, <2>3, Zenon DEF Contract!Settle
  <2> QED BY <2>4 DEF Contract!Next
<1> QED BY <1>1, <1>2, <1>7, <1>8, <1>9 DEF Turns

\* A delivery applies events.
LEMMA DeliverRefines ==
  ASSUME SinkInv, SinkInv', Deliver
  PROVE  Contract!Next
<1>0. FrontierIn' /\ Adequate'
  BY FrontierFits, RelationIs, PTL
<1>1. store' = store
  BY DEF Deliver
<1>2. target.frontier <= target'.frontier
  BY DeliverFaces
<1>3. PICK f \in Nat : f = target.frontier
  BY FrontierFits DEF FrontierIn
<1>4. PICK g \in Nat : g = target'.frontier
  BY <1>0 DEF FrontierIn
<1>5. Len(store.log) \in Nat /\ g <= Len(store.log) + 1 /\ 1 <= f /\ f <= g
  <2>1. target'.frontier <= Len(store'.log) + 1
    BY <1>0 DEF FrontierIn
  <2> QED BY <1>1, <1>2, <1>3, <1>4, <2>1, FrontierFits DEF FrontierIn
<1>6. g - 1 \in (f - 1)..Len(store.log)
  BY <1>5
<1>7. Relation' = Contract!Sum(SubSeq(store.log, 1, g - 1))
  <2>1. Relation' = Contract!Sum(SubSeq(store'.log, 1, target'.frontier - 1))
    BY <1>0 DEF Adequate
  <2> QED BY <1>1, <1>4, <2>1, Zenon
<1>8. g - 1 \in (target.frontier - 1)..Len(store.log) /\ target'.frontier - 1 = g - 1
  BY <1>3, <1>4, <1>6, Zenon
<1>9. Contract!Apply
  BY <1>1, <1>7, <1>8, Zenon DEF Contract!Apply
<1> QED BY <1>9 DEF Contract!Next

-----------------------------------------------------------------------------
(* Theorems.                                                               *)

\* The invariant holds at all times.
LEMMA SinkAlways == Spec => []SinkInv
<1>1. Init => SinkInv
  BY SinkInitInv
<1>2. SinkInv /\ [Next]_vars => SinkInv'
  BY SinkStep
<1> QED BY <1>1, <1>2, PTL DEF Spec

(***************************************************************************)
(* load() accepts every buffer that a crash may leave (validate_buffer),   *)
(* and offsets count all events ever accepted: try_enqueue, settlement and *)
(* control writes of the buffered sink keep what a restart validates.      *)
(***************************************************************************)
THEOREM SinkBuffersAreValid == Spec => []BuffersAreValid
<1>1. SinkInv => BuffersAreValid
  BY OutboxBuffers DEF SinkInv
<1> QED BY <1>1, SinkAlways, PTL

(***************************************************************************)
(* deliver() never refuses what the outbox hands it: the frontier lies in  *)
(* the loaded batch, every deletion finds an older id, and an              *)
(* initialization finds no foreign target.                                 *)
(***************************************************************************)
THEOREM SinkNeverRefuses == Spec => []TargetNeverRefuses
<1> QED BY SinkAccepts, SinkAlways, PTL

(***************************************************************************)
(* Of each row the target holds the youngest insertions, however batches   *)
(* were cut, repeated or interrupted by a crash: the plan's choice of the  *)
(* oldest ids commutes with the batch boundaries.                          *)
(***************************************************************************)
THEOREM SinkKeepsYoungest == Spec => []YoungestSurvive
<1> QED BY SinkContents, SinkAlways, PTL

(***************************************************************************)
(* The buffered sink implements the contract of a sink: the target is the  *)
(* sum of a prefix of the accepted events, which never shrinks, and only   *)
(* what the target has is settled.                                         *)
(***************************************************************************)
THEOREM SinkImplementsContract == Spec => ImplementsContract
<1>1. Init => Contract!Init
  <2> SUFFICES ASSUME Init PROVE Contract!Init
    OBVIOUS
  <2>1. SinkInv
    BY SinkInitInv
  <2>2. store.log = <<>> /\ store.head.offset = 1 /\ target.frontier = 1
    BY DEF Init, OutboxInit, EmptyStore, Position, NoTarget
  <2>3. SubSeq(<<>>, 1, 1 - 1) = <<>>
    OBVIOUS
  <2>4. Relation = Contract!Sum(SubSeq(store.log, 1, target.frontier - 1))
    BY <2>1, RelationIs DEF Adequate
  <2>5. Relation = Contract!Sum(<<>>)
    BY <2>2, <2>3, <2>4, Zenon
  <2>6. 1 - 1 = 0
    OBVIOUS
  <2> QED BY <2>2, <2>5, <2>6, Zenon DEF Contract!Init
<1>2. SinkInv /\ SinkInv' /\ [Next]_vars => [Contract!Next]_(Contract!vars)
  <2> SUFFICES ASSUME SinkInv, SinkInv', [Next]_vars PROVE Contract!Next \/ UNCHANGED Contract!vars
    OBVIOUS
  <2>1. CASE Drain \/ (Crash /\ UNCHANGED target)
    <3>1. Turns(store', store) /\ target' = target
      BY <2>1, DrainFaces DEF Drain
    <3> QED BY <3>1, OutboxRefines
  <2>2. CASE Deliver
    BY <2>2, DeliverRefines
  <2>3. CASE DeliverFails
    <3>1. store' = store /\ target' = target
      BY <2>3 DEF DeliverFails
    <3> QED BY <3>1 DEF Contract!vars, Relation
  <2>4. CASE UNCHANGED vars
    <3>1. store' = store /\ target' = target
      BY <2>4 DEF vars
    <3> QED BY <3>1 DEF Contract!vars, Relation
  <2> QED BY <2>1, <2>2, <2>3, <2>4 DEF Next, Round
<1> QED BY <1>1, <1>2, SinkAlways, PTL DEF Spec, ImplementsContract, Contract!Spec
=============================================================================
