---------------------------- MODULE OutboxProofs ----------------------------
(***************************************************************************)
(* The outbox of Outbox.tla for every value of its constants: which stores *)
(* a round can make, that load() accepts them, and what it loads; and the  *)
(* sets of event offsets that a plan is about.                             *)
(***************************************************************************)
EXTENDS Outbox, RelationPlan, FiniteSetTheorems, Integers, Sequences, SequencesExt, SequenceTheorems,
        WellFoundedInduction, TLAPS

Below == {pair \in Nat \X Nat : pair[1] < pair[2]}

\* Induction over sets of numbers, in the form of least elements (WFMin): a
\* set that has 0 and with every number the next one has all numbers.
LEMMA SetInduction ==
  ASSUME NEW S, 0 \in S, \A n \in Nat : n \in S => n + 1 \in S
  PROVE  \A n \in Nat : n \in S
<1> SUFFICES ASSUME \E n \in Nat : n \notin S PROVE FALSE
  OBVIOUS
<1> DEFINE T == Nat \ S
<1>1. IsWellFoundedOn(Below, Nat)
  BY NatLessThanWellFounded DEF OpToRel, Below
<1>2. T \subseteq Nat /\ T # {}
  OBVIOUS
<1>3. PICK n \in T : \A m \in T : <<m, n>> \notin Below
  <2> HIDE DEF T
  <2> QED BY <1>1, <1>2, WFMin
<1>4. n - 1 \in Nat /\ <<n - 1, n>> \in Below
  BY <1>3 DEF Below
<1> QED BY <1>3, <1>4

\* Concatenation; the provers do not look inside it where it is not expanded.
Cat(s, t) == s \o t

(***************************************************************************)
(* A store as the rounds make it.  The entries are consecutive pieces of   *)
(* the log, from the one that holds the head to the tail.                  *)
(***************************************************************************)
PositionType == [entry : Nat, offset : Nat]
EntryMaps == UNION {[keys -> Seq(Event)] : keys \in SUBSET Nat}
StoreType ==
  [control : {"fresh", "initialize", "ready"}, head : PositionType, tail : Nat, bytes : Nat,
   entries : EntryMaps, log : Seq(Event), pinned : BOOLEAN]

\* The entry at k is the piece of the log that begins at k.
Piece(s, k) ==
  /\ s.entries[k] # <<>>
  /\ EntryEnd(s, k) \in DOMAIN s.entries \cup {s.tail} /\ EntryEnd(s, k) <= s.tail
  /\ \A i \in 1..Len(s.entries[k]) : s.entries[k][i] = s.log[k + i - 1]

\* Entry k holds the event at an offset.
Covers(s, k, offset) == k \in DOMAIN s.entries /\ k <= offset /\ offset < EntryEnd(s, k)

Pieces(s) ==
  /\ \A k \in DOMAIN s.entries : k \in s.head.entry..(s.tail - 1) /\ Piece(s, k)
  /\ \A j, k \in DOMAIN s.entries : j < k => EntryEnd(s, j) <= k
  /\ \A offset \in s.head.entry..(s.tail - 1) : \E k \in DOMAIN s.entries : Covers(s, k, offset)

HeadFits(s) ==
  /\ 1 <= s.head.entry /\ s.head.entry <= s.head.offset /\ s.head.offset <= s.tail
  /\ IF s.head.offset = s.tail THEN s.head.entry = s.tail
                               ELSE Covers(s, s.head.entry, s.head.offset)

Good(s) ==
  /\ s \in StoreType
  /\ Pieces(s) /\ HeadFits(s)
  /\ s.bytes = EntryBytes(s.entries, DOMAIN s.entries) /\ s.bytes <= MaxBytes
  /\ s.tail = Len(s.log) + 1 /\ s.tail <= MaxOffset /\ s.tail <= s.head.offset + MaxEvents
  /\ WellFormed(s.log)
  /\ s.control # "ready" => s.log = <<>>

-----------------------------------------------------------------------------
(* The bytes of a set of entries: a fold over the set, in whatever order   *)
(* elements are chosen.                                                    *)

Choice(S) == CHOOSE x \in S : TRUE

\* f adds up the bytes of every set of keys.
AddsAt(f, e, S) ==
  f[S] = IF S = {} THEN 0 ELSE ItemBytes(e[Choice(S)]) + f[S \ {Choice(S)}]
SumsUp(f, e, K) ==
  f = [S \in SUBSET K |-> IF S = {} THEN 0 ELSE ItemBytes(e[Choice(S)]) + f[S \ {Choice(S)}]]
Adds(f, e, K) == \A S \in SUBSET K : AddsAt(f, e, S)

Weighs(e, K) == IsFiniteSet(K) /\ \A k \in K : e[k] \in Seq(Event)

\* The weight of an entry.
LEMMA ItemType ==
  ASSUME NEW page \in Seq(Event)
  PROVE  ItemBytes(page) \in Nat /\ ItemBytes(page) >= 1
BY DEF ItemBytes

\* What is left when the chosen element is taken.
LEMMA ChoiceIs ==
  ASSUME NEW K, IsFiniteSet(K), NEW S \in SUBSET K, S # {}
  PROVE  /\ Choice(S) \in S /\ S \ {Choice(S)} \in SUBSET K
         /\ IsFiniteSet(S) /\ IsFiniteSet(S \ {Choice(S)})
         /\ Cardinality(S) \in Nat /\ Cardinality(S \ {Choice(S)}) \in Nat
         /\ Cardinality(S) = Cardinality(S \ {Choice(S)}) + 1
<1>1. Choice(S) \in S
  BY Zenon DEF Choice
<1>2. IsFiniteSet(S)
  BY FS_Subset
<1> HIDE DEF Choice
<1>3. PICK x : x = Choice(S)
  OBVIOUS
<1>4. IsFiniteSet(S \ {x}) /\ Cardinality(S \ {x}) = Cardinality(S) - 1
  BY <1>1, <1>2, <1>3, FS_RemoveElement
<1>5. Cardinality(S) \in Nat /\ Cardinality(S \ {x}) \in Nat
  BY <1>2, <1>4, FS_CardinalityType
<1> QED BY <1>1, <1>2, <1>3, <1>4, <1>5

\* There is a function that adds up.
LEMMA AddsExists ==
  ASSUME NEW e, NEW K, Weighs(e, K)
  PROVE  \E f : SumsUp(f, e, K)
<1> DEFINE Small(n) == {S \in SUBSET K : Cardinality(S) <= n}
           Made(n) == \E f \in [Small(n) -> Nat] : \A S \in Small(n) : AddsAt(f, e, S)
           D == {n \in Nat : Made(n)}
<1>1. IsFiniteSet(K) /\ Cardinality(K) \in Nat
  BY FS_CardinalityType DEF Weighs
<1>2. ASSUME NEW S \in SUBSET K PROVE Cardinality(S) \in Nat /\ Cardinality(S) <= Cardinality(K)
  BY <1>1, FS_Subset, FS_CardinalityType
<1>3. ASSUME NEW S \in SUBSET K, Cardinality(S) = 0 PROVE S = {}
  BY <1>1, <1>3, FS_Subset, FS_EmptySet
<1>4. Made(0)
  <2> DEFINE f == [S \in Small(0) |-> 0]
  <2>1. f \in [Small(0) -> Nat]
    OBVIOUS
  <2>2. ASSUME NEW S \in Small(0) PROVE AddsAt(f, e, S)
    <3>1. S = {}
      BY <1>2, <1>3
    <3> QED BY <3>1 DEF AddsAt
  <2> HIDE DEF f
  <2> QED BY <2>1, <2>2
<1>5. ASSUME NEW n \in Nat, Made(n) PROVE Made(n + 1)
  <2>1. PICK f \in [Small(n) -> Nat] : \A S \in Small(n) : AddsAt(f, e, S)
    BY <1>5
  <2> DEFINE Here(S) == ItemBytes(e[Choice(S)]) + f[S \ {Choice(S)}]
             g == [S \in Small(n + 1) |-> IF Cardinality(S) <= n THEN f[S] ELSE Here(S)]
  <2>2. ASSUME NEW S \in Small(n + 1), ~(Cardinality(S) <= n)
        PROVE  /\ S # {} /\ S \ {Choice(S)} \in Small(n) /\ Here(S) \in Nat
               /\ S \ {Choice(S)} \in Small(n + 1) /\ Cardinality(S \ {Choice(S)}) <= n
    <3>1. S # {}
      <4>1. Cardinality({}) = 0
        BY FS_EmptySet
      <4>2. 0 <= n
        OBVIOUS
      <4> QED BY <2>2, <4>1, <4>2, Zenon
    <3>2. /\ Choice(S) \in S /\ S \ {Choice(S)} \in SUBSET K
          /\ Cardinality(S) \in Nat /\ Cardinality(S \ {Choice(S)}) \in Nat
          /\ Cardinality(S) = Cardinality(S \ {Choice(S)}) + 1
      BY <1>1, <3>1, ChoiceIs
    <3>3. S \ {Choice(S)} \in Small(n)
      BY <2>2, <3>2
    <3>4. f[S \ {Choice(S)}] \in Nat
      BY <3>3
    <3>5. ItemBytes(e[Choice(S)]) \in Nat
      BY <3>2, ItemType DEF Weighs
    <3> QED BY <3>1, <3>2, <3>3, <3>4, <3>5
  <2>3. g \in [Small(n + 1) -> Nat]
    <3> SUFFICES ASSUME NEW S \in Small(n + 1)
                 PROVE  (IF Cardinality(S) <= n THEN f[S] ELSE Here(S)) \in Nat
      OBVIOUS
    <3>1. CASE Cardinality(S) <= n
      BY <2>1, <3>1
    <3>2. CASE ~(Cardinality(S) <= n)
      BY <2>2, <3>2
    <3> QED BY <3>1, <3>2
  <2>4. ASSUME NEW S \in Small(n + 1) PROVE AddsAt(g, e, S)
    <3>1. CASE Cardinality(S) <= n
      <4>1. AddsAt(f, e, S) /\ g[S] = f[S]
        BY <2>1, <3>1
      <4>2. S # {} => S \ {Choice(S)} \in Small(n + 1) /\ Cardinality(S \ {Choice(S)}) <= n
        <5> SUFFICES ASSUME S # {} PROVE S \ {Choice(S)} \in Small(n + 1) /\ Cardinality(S \ {Choice(S)}) <= n
          OBVIOUS
        <5>1. /\ S \ {Choice(S)} \in SUBSET K
              /\ Cardinality(S) \in Nat /\ Cardinality(S \ {Choice(S)}) \in Nat
              /\ Cardinality(S) = Cardinality(S \ {Choice(S)}) + 1
          BY <1>1, ChoiceIs
        <5> QED BY <3>1, <5>1
      <4>3. S # {} => g[S \ {Choice(S)}] = f[S \ {Choice(S)}]
        BY <4>2
      <4> HIDE DEF g
      <4> QED BY <4>1, <4>3 DEF AddsAt
    <3>2. CASE ~(Cardinality(S) <= n)
      <4>1. g[S] = Here(S) /\ S # {}
        BY <2>2, <3>2
      <4>2. g[S \ {Choice(S)}] = f[S \ {Choice(S)}]
        BY <2>2, <3>2
      <4> HIDE DEF g
      <4> QED BY <4>1, <4>2 DEF AddsAt
    <3> QED BY <3>1, <3>2
  <2> HIDE DEF g
  <2> QED BY <2>3, <2>4
<1>6. ASSUME NEW n \in D PROVE Made(n)
  OBVIOUS
<1> HIDE DEF Made
<1>7. 0 \in D /\ \A n \in Nat : n \in D => n + 1 \in D
  BY <1>4, <1>5
<1> HIDE DEF D
<1>8. Cardinality(K) \in D
  <2>1. \A n \in Nat : n \in D
    BY <1>7, SetInduction
  <2> QED BY <1>1, <2>1
<1>9. Small(Cardinality(K)) = SUBSET K
  BY <1>2
<1>10. PICK f \in [SUBSET K -> Nat] : \A S \in SUBSET K : AddsAt(f, e, S)
  BY <1>6, <1>8, <1>9 DEF Made
<1>11. SumsUp(f, e, K)
  BY <1>10 DEF AddsAt, SumsUp
<1> QED BY <1>11

\* The bytes of a set of entries are what such a function says.
LEMMA EntryBytesAdds ==
  ASSUME NEW e, NEW K, Weighs(e, K)
  PROVE  \E f : Adds(f, e, K) /\ EntryBytes(e, K) = f[K]
<1> DEFINE sum == CHOOSE f : SumsUp(f, e, K)
<1>1. \E f : SumsUp(f, e, K)
  BY AddsExists
<1>2. SumsUp(sum, e, K)
  BY <1>1, Zenon
<1>3. EntryBytes(e, K) = sum[K]
  BY Zenon DEF EntryBytes, MapThenSumSet, MapThenFoldSet, Choice, SumsUp
<1> HIDE DEF sum
<1>4. Adds(sum, e, K)
  BY <1>2 DEF Adds, AddsAt, SumsUp
<1> QED BY <1>3, <1>4

\* Sums are numbers.
LEMMA AddsType ==
  ASSUME NEW e, NEW K, Weighs(e, K), NEW f, Adds(f, e, K)
  PROVE  \A S \in SUBSET K : f[S] \in Nat
<1> DEFINE D == {n \in Nat : \A S \in SUBSET K : Cardinality(S) = n => f[S] \in Nat}
<1>1. IsFiniteSet(K)
  BY DEF Weighs
<1>2. 0 \in D
  <2> SUFFICES ASSUME NEW S \in SUBSET K, Cardinality(S) = 0 PROVE f[S] \in Nat
    OBVIOUS
  <2>1. S = {}
    BY <1>1, FS_Subset, FS_EmptySet
  <2>2. AddsAt(f, e, S)
    BY DEF Adds
  <2>3. f[S] = 0
    BY <2>1, <2>2, Zenon DEF AddsAt
  <2> QED BY <2>3
<1>3. ASSUME NEW n \in Nat, n \in D PROVE n + 1 \in D
  <2> SUFFICES ASSUME NEW S \in SUBSET K, Cardinality(S) = n + 1 PROVE f[S] \in Nat
    OBVIOUS
  <2>1. S # {}
    BY FS_EmptySet
  <2>2. PICK x : x = Choice(S)
    OBVIOUS
  <2>3. x \in S /\ S \ {x} \in SUBSET K /\ Cardinality(S \ {x}) \in Nat /\ Cardinality(S \ {x}) = n
    <3>1. /\ x \in S /\ S \ {x} \in SUBSET K /\ Cardinality(S \ {x}) \in Nat
          /\ Cardinality(S) = Cardinality(S \ {x}) + 1
      BY <1>1, <2>1, <2>2, ChoiceIs, Zenon
    <3> QED BY <3>1
  <2>4. f[S \ {x}] \in Nat
    BY <1>3, <2>3
  <2>5. f[S] = ItemBytes(e[x]) + f[S \ {x}]
    BY <2>1, <2>2 DEF Adds, AddsAt
  <2>6. ItemBytes(e[x]) \in Nat
    BY <2>3, ItemType DEF Weighs
  <2> QED BY <2>4, <2>5, <2>6
<1>4. ASSUME NEW S \in SUBSET K, Cardinality(S) \in D PROVE f[S] \in Nat
  BY <1>4
<1> HIDE DEF D
<1>5. \A n \in Nat : n \in D
  BY <1>2, <1>3, SetInduction
<1>6. ASSUME NEW S \in SUBSET K PROVE Cardinality(S) \in Nat
  BY <1>1, FS_Subset, FS_CardinalityType
<1> QED BY <1>4, <1>5, <1>6

\* A set's sum depends only on its own entries.
LEMMA AddsAgree ==
  ASSUME NEW e, NEW d, NEW K, NEW C \in SUBSET K, Weighs(e, C), Weighs(d, K),
         \A k \in C : e[k] = d[k], NEW f, Adds(f, e, C), NEW g, Adds(g, d, K)
  PROVE  \A S \in SUBSET C : f[S] = g[S]
<1> DEFINE D == {n \in Nat : \A S \in SUBSET C : Cardinality(S) = n => f[S] = g[S]}
<1>1. IsFiniteSet(C)
  BY DEF Weighs
<1>2. 0 \in D
  <2> SUFFICES ASSUME NEW S \in SUBSET C, Cardinality(S) = 0 PROVE f[S] = g[S]
    OBVIOUS
  <2>1. S = {}
    BY <1>1, FS_Subset, FS_EmptySet
  <2> QED BY <2>1 DEF Adds, AddsAt
<1>3. ASSUME NEW n \in Nat, n \in D PROVE n + 1 \in D
  <2> SUFFICES ASSUME NEW S \in SUBSET C, Cardinality(S) = n + 1 PROVE f[S] = g[S]
    OBVIOUS
  <2>1. S # {}
    BY FS_EmptySet
  <2>2. PICK x : x = Choice(S)
    OBVIOUS
  <2>3. x \in S /\ S \ {x} \in SUBSET C /\ Cardinality(S \ {x}) \in Nat /\ Cardinality(S \ {x}) = n
    <3>1. /\ x \in S /\ S \ {x} \in SUBSET C /\ Cardinality(S \ {x}) \in Nat
          /\ Cardinality(S) = Cardinality(S \ {x}) + 1
      BY <1>1, <2>1, <2>2, ChoiceIs, Zenon
    <3> QED BY <3>1
  <2>4. f[S \ {x}] = g[S \ {x}]
    BY <1>3, <2>3
  <2>5. f[S] = ItemBytes(e[x]) + f[S \ {x}] /\ g[S] = ItemBytes(d[x]) + g[S \ {x}]
    BY <2>1, <2>2 DEF Adds, AddsAt
  <2>6. e[x] = d[x]
    BY <2>3
  <2> QED BY <2>4, <2>5, <2>6
<1>4. ASSUME NEW S \in SUBSET C, Cardinality(S) \in D PROVE f[S] = g[S]
  BY <1>4
<1> HIDE DEF D
<1>5. \A n \in Nat : n \in D
  BY <1>2, <1>3, SetInduction
<1>6. ASSUME NEW S \in SUBSET C PROVE Cardinality(S) \in Nat
  BY <1>1, FS_Subset, FS_CardinalityType
<1> QED BY <1>4, <1>5, <1>6

\* Any element may be taken first.
LEMMA AddsAny ==
  ASSUME NEW e, NEW K, Weighs(e, K), NEW f, Adds(f, e, K)
  PROVE  \A S \in SUBSET K : \A x \in S : f[S] = ItemBytes(e[x]) + f[S \ {x}]
<1> DEFINE TakesAny(S) == \A x \in S : f[S] = ItemBytes(e[x]) + f[S \ {x}]
           D == {n \in Nat : \A S \in SUBSET K : Cardinality(S) = n => TakesAny(S)}
<1>1. IsFiniteSet(K)
  BY DEF Weighs
<1>2. 0 \in D
  <2> SUFFICES ASSUME NEW S \in SUBSET K, Cardinality(S) = 0 PROVE TakesAny(S)
    OBVIOUS
  <2>1. S = {}
    BY <1>1, FS_Subset, FS_EmptySet
  <2> QED BY <2>1
<1>3. ASSUME NEW n \in Nat, n \in D PROVE n + 1 \in D
  <2> SUFFICES ASSUME NEW S \in SUBSET K, Cardinality(S) = n + 1, NEW x \in S
               PROVE  f[S] = ItemBytes(e[x]) + f[S \ {x}]
    OBVIOUS
  <2>1. S # {} /\ IsFiniteSet(S)
    BY <1>1, FS_Subset
  <2>2. PICK c : c = Choice(S)
    OBVIOUS
  <2>3. c \in S /\ S \ {c} \in SUBSET K /\ Cardinality(S \ {c}) \in Nat /\ Cardinality(S \ {c}) = n
    BY <1>1, <2>1, <2>2, ChoiceIs
  <2>4. f[S] = ItemBytes(e[c]) + f[S \ {c}]
    BY <2>1, <2>2 DEF Adds, AddsAt
  <2>5. CASE x = c
    BY <2>4, <2>5
  <2>6. CASE x # c
    <3> DEFINE R == (S \ {c}) \ {x}
    <3>1. R = (S \ {x}) \ {c} /\ R \in SUBSET K /\ x \in S \ {c} /\ c \in S \ {x}
      BY <2>3, <2>6
    <3>2. Cardinality(S \ {x}) = n
      BY <2>1, FS_RemoveElement
    <3>3. TakesAny(S \ {c}) /\ TakesAny(S \ {x})
      BY <1>3, <2>3, <3>2
    <3>4. f[S \ {c}] = ItemBytes(e[x]) + f[R] /\ f[S \ {x}] = ItemBytes(e[c]) + f[R]
      BY <3>1, <3>3
    <3>5. ItemBytes(e[x]) \in Nat /\ ItemBytes(e[c]) \in Nat
      BY <2>3, ItemType DEF Weighs
    <3>6. f[R] \in Nat
      BY <3>1, AddsType
    <3> HIDE DEF R
    <3> QED BY <2>4, <3>4, <3>5, <3>6
  <2> QED BY <2>5, <2>6
<1>4. ASSUME NEW S \in SUBSET K, Cardinality(S) \in D PROVE TakesAny(S)
  BY <1>4
<1> HIDE DEF D
<1>5. \A n \in Nat : n \in D
  <2> HIDE DEF TakesAny
  <2> QED BY <1>2, <1>3, SetInduction
<1>6. ASSUME NEW S \in SUBSET K PROVE Cardinality(S) \in Nat
  BY <1>1, FS_Subset, FS_CardinalityType
<1> QED BY <1>4, <1>5, <1>6

\* A sum splits at any subset.
LEMMA AddsSplit ==
  ASSUME NEW e, NEW K, Weighs(e, K), NEW f, Adds(f, e, K)
  PROVE  \A C \in SUBSET K : f[K] = f[C] + f[K \ C]
<1> DEFINE Splits(C) == f[K] = f[C] + f[K \ C]
           D == {n \in Nat : \A C \in SUBSET K : Cardinality(C) = n => Splits(C)}
<1>1. IsFiniteSet(K)
  BY DEF Weighs
<1>0. ASSUME NEW C \in SUBSET K PROVE f[C] \in Nat
  BY AddsType
<1>2. 0 \in D
  <2> SUFFICES ASSUME NEW C \in SUBSET K, Cardinality(C) = 0 PROVE Splits(C)
    OBVIOUS
  <2>1. C = {} /\ K \ C = K
    BY <1>1, FS_Subset, FS_EmptySet
  <2>2. f[C] = 0
    BY <2>1 DEF Adds, AddsAt
  <2> QED BY <1>0, <2>1, <2>2
<1>3. ASSUME NEW n \in Nat, n \in D PROVE n + 1 \in D
  <2> SUFFICES ASSUME NEW C \in SUBSET K, Cardinality(C) = n + 1 PROVE Splits(C)
    OBVIOUS
  <2>1. C # {}
    BY FS_EmptySet
  <2>2. PICK x : x = Choice(C)
    OBVIOUS
  <2>3. x \in C /\ C \ {x} \in SUBSET K /\ Cardinality(C \ {x}) \in Nat /\ Cardinality(C \ {x}) = n
    <3>1. /\ x \in C /\ C \ {x} \in SUBSET K /\ Cardinality(C \ {x}) \in Nat
          /\ Cardinality(C) = Cardinality(C \ {x}) + 1
      BY <1>1, <2>1, <2>2, ChoiceIs, Zenon
    <3> QED BY <3>1
  <2> DEFINE B == C \ {x}
  <2>4. f[K] = f[B] + f[K \ B]
    BY <1>3, <2>3
  <2>5. f[C] = ItemBytes(e[x]) + f[B]
    BY <2>3, AddsAny
  <2>6. f[K \ B] = ItemBytes(e[x]) + f[K \ C]
    <3>1. K \ B \in SUBSET K /\ x \in K \ B /\ (K \ B) \ {x} = K \ C
      BY <2>3
    <3>2. f[K \ B] = ItemBytes(e[x]) + f[(K \ B) \ {x}]
      <4>1. PICK R \in SUBSET K : R = K \ B
        BY <3>1
      <4>2. x \in R
        BY <3>1, <4>1
      <4>3. f[R] = ItemBytes(e[x]) + f[R \ {x}]
        BY <4>2, AddsAny
      <4> QED BY <4>1, <4>3, Zenon
    <3> QED BY <3>1, <3>2
  <2>8. f[B] \in Nat /\ f[K \ C] \in Nat
    BY <1>0, <2>3
  <2>9. ItemBytes(e[x]) \in Nat
    BY <2>3, ItemType DEF Weighs
  <2> HIDE DEF B
  <2> QED BY <2>4, <2>5, <2>6, <2>8, <2>9
<1>4. ASSUME NEW C \in SUBSET K, Cardinality(C) \in D PROVE Splits(C)
  BY <1>4
<1> HIDE DEF D
<1>5. \A n \in Nat : n \in D
  <2> HIDE DEF Splits
  <2> QED BY <1>2, <1>3, SetInduction
<1>6. ASSUME NEW C \in SUBSET K PROVE Cardinality(C) \in Nat
  BY <1>1, FS_Subset, FS_CardinalityType
<1> QED BY <1>4, <1>5, <1>6

\* No entries have no bytes.
LEMMA BytesEmpty == ASSUME NEW e PROVE EntryBytes(e, {}) = 0
<1>1. Weighs(e, {})
  BY FS_EmptySet DEF Weighs
<1>2. PICK f : Adds(f, e, {}) /\ EntryBytes(e, {}) = f[{}]
  BY <1>1, EntryBytesAdds
<1> QED BY <1>2 DEF Adds, AddsAt

\* The bytes depend only on the entries that count.
LEMMA BytesSame ==
  ASSUME NEW e, NEW d, NEW K, Weighs(e, K), Weighs(d, K), \A k \in K : e[k] = d[k]
  PROVE  EntryBytes(e, K) = EntryBytes(d, K)
<1>1. PICK f : Adds(f, e, K) /\ EntryBytes(e, K) = f[K]
  BY EntryBytesAdds
<1>2. PICK g : Adds(g, d, K) /\ EntryBytes(d, K) = g[K]
  BY EntryBytesAdds
<1>3. f[K] = g[K]
  BY <1>1, <1>2, AddsAgree
<1> QED BY <1>1, <1>2, <1>3

\* The bytes of a subset and of the rest.
LEMMA BytesSplit ==
  ASSUME NEW e, NEW K, Weighs(e, K), NEW C \in SUBSET K
  PROVE  /\ EntryBytes(e, K) \in Nat /\ EntryBytes(e, C) \in Nat /\ EntryBytes(e, K \ C) \in Nat
         /\ EntryBytes(e, K) = EntryBytes(e, C) + EntryBytes(e, K \ C)
<1>1. PICK f : Adds(f, e, K) /\ EntryBytes(e, K) = f[K]
  BY EntryBytesAdds
<1>2. ASSUME NEW B \in SUBSET K PROVE EntryBytes(e, B) = f[B]
  <2>1. Weighs(e, B)
    BY FS_Subset DEF Weighs
  <2>2. PICK g : Adds(g, e, B) /\ EntryBytes(e, B) = g[B]
    BY <2>1, EntryBytesAdds
  <2>3. g[B] = f[B]
    BY <1>1, <2>1, <2>2, AddsAgree
  <2> QED BY <2>2, <2>3
<1>3. f[K] \in Nat /\ f[C] \in Nat /\ f[K \ C] \in Nat
  BY <1>1, AddsType
<1>4. f[K] = f[C] + f[K \ C]
  BY <1>1, AddsSplit
<1> QED BY <1>1, <1>2, <1>3, <1>4

\* The bytes of one entry and of the rest.
LEMMA BytesOne ==
  ASSUME NEW e, NEW K, Weighs(e, K), NEW x \in K
  PROVE  EntryBytes(e, K) = ItemBytes(e[x]) + EntryBytes(e, K \ {x}) /\ EntryBytes(e, K \ {x}) \in Nat
<1>1. EntryBytes(e, K) = EntryBytes(e, {x}) + EntryBytes(e, K \ {x}) /\ EntryBytes(e, K \ {x}) \in Nat
  <2>1. PICK C \in SUBSET K : C = {x}
    OBVIOUS
  <2>2. EntryBytes(e, K) = EntryBytes(e, C) + EntryBytes(e, K \ C) /\ EntryBytes(e, K \ C) \in Nat
    BY BytesSplit
  <2> QED BY <2>1, <2>2
<1>2. Weighs(e, {x})
  BY FS_Singleton DEF Weighs
<1>3. PICK f : Adds(f, e, {x}) /\ EntryBytes(e, {x}) = f[{x}]
  BY <1>2, EntryBytesAdds
<1>4. f[{x}] = ItemBytes(e[x]) + f[{x} \ {x}]
  BY <1>2, <1>3, AddsAny
<1>5. {x} \ {x} = {} /\ f[{}] = 0
  BY <1>3 DEF Adds, AddsAt
<1>6. ItemBytes(e[x]) \in Nat
  BY ItemType DEF Weighs
<1>7. EntryBytes(e, {x}) = ItemBytes(e[x]) + 0
  BY <1>3, <1>4, <1>5, Zenon
<1> QED BY <1>1, <1>6, <1>7

-----------------------------------------------------------------------------
(* What a good store holds.                                                *)

\* The types of a store's fields.
LEMMA StoreFields ==
  ASSUME NEW s \in StoreType
  PROVE  /\ s.control \in {"fresh", "initialize", "ready"}
         /\ s.head \in PositionType /\ s.head.entry \in Nat /\ s.head.offset \in Nat
         /\ s.tail \in Nat /\ s.bytes \in Nat /\ s.entries \in EntryMaps /\ s.log \in Seq(Event)
<1>1. /\ s.control \in {"fresh", "initialize", "ready"} /\ s.head \in PositionType
      /\ s.tail \in Nat /\ s.bytes \in Nat /\ s.entries \in EntryMaps /\ s.log \in Seq(Event)
  BY DEF StoreType
<1> QED BY <1>1 DEF PositionType

\* The types of its entries.
LEMMA EntryFields ==
  ASSUME NEW e \in EntryMaps
  PROVE  DOMAIN e \subseteq Nat /\ \A k \in DOMAIN e : e[k] \in Seq(Event) /\ Len(e[k]) \in Nat
<1>1. PICK keys \in SUBSET Nat : e \in [keys -> Seq(Event)]
  BY DEF EntryMaps
<1>2. DOMAIN e = keys
  BY <1>1
<1>3. ASSUME NEW k \in keys PROVE e[k] \in Seq(Event) /\ Len(e[k]) \in Nat
  BY <1>1
<1> QED BY <1>2, <1>3

\* And they are finitely many.
LEMMA GoodWeighs ==
  ASSUME NEW s, Good(s)
  PROVE  Weighs(s.entries, DOMAIN s.entries)
<1>1. s \in StoreType /\ Pieces(s)
  BY DEF Good
<1>2. s.tail \in Nat /\ s.head.entry \in Nat /\ s.entries \in EntryMaps
  BY <1>1, StoreFields
<1>3. DOMAIN s.entries \subseteq Nat /\ \A k \in DOMAIN s.entries : s.entries[k] \in Seq(Event)
  BY <1>2, EntryFields
<1>4. \A k \in DOMAIN s.entries : k <= s.tail
  BY <1>1, <1>2 DEF Pieces
<1>5. IsFiniteSet(DOMAIN s.entries)
  BY <1>2, <1>3, <1>4, FS_BoundedSetOfNaturals
<1> QED BY <1>3, <1>5 DEF Weighs

\* The entry that holds an offset is the one EntryOf finds, and the event there is the log's.
LEMMA EntryIs ==
  ASSUME NEW s, Good(s), NEW offset \in Nat, NEW k, Covers(s, k, offset)
  PROVE  EntryOf(s, offset) = k /\ EventAt(s, offset) = s.log[offset]
<1>1. s \in StoreType /\ Pieces(s)
  BY DEF Good
<1>2. s.entries \in EntryMaps
  BY <1>1, StoreFields
<1>3. DOMAIN s.entries \subseteq Nat /\ \A j \in DOMAIN s.entries : Len(s.entries[j]) \in Nat
  BY <1>2, EntryFields
<1>4. k \in DOMAIN s.entries /\ k \in Nat /\ k <= offset /\ offset < k + Len(s.entries[k])
  BY <1>3 DEF Covers, EntryEnd
<1> DEFINE below == {j \in DOMAIN s.entries : j <= offset}
<1>5. ASSUME NEW j \in below PROVE j <= k
  <2>1. j \in Nat /\ j <= offset /\ j \in DOMAIN s.entries
    BY <1>3
  <2>2. k < j => k + Len(s.entries[k]) <= j
    BY <1>1, <1>4, <2>1 DEF Pieces, EntryEnd
  <2> QED BY <1>3, <1>4, <2>1, <2>2
<1>6. k \in below /\ \A j \in below : k >= j
  BY <1>3, <1>4, <1>5
<1>7. Max(below) = k
  <2>1. \E x \in below : \A j \in below : x >= j
    BY <1>6
  <2>2. Max(below) \in below /\ \A j \in below : Max(below) >= j
    <3> HIDE DEF below
    <3> QED BY <2>1, Zenon DEF Max
  <2>3. Max(below) \in Nat /\ Max(below) >= k
    BY <1>3, <1>6, <2>2
  <2>4. Max(below) <= k
    BY <1>5, <2>2
  <2> HIDE DEF below
  <2> QED BY <1>4, <2>3, <2>4
<1>8. EntryOf(s, offset) = k
  BY <1>7 DEF EntryOf
<1>9. PICK i \in 1..Len(s.entries[k]) : i = offset - k + 1
  BY <1>3, <1>4
<1>10. s.entries[k][i] = s.log[k + i - 1]
  BY <1>1, <1>4 DEF Pieces, Piece
<1>11. k + i - 1 = offset
  BY <1>4, <1>9
<1> QED BY <1>8, <1>9, <1>10, <1>11 DEF EventAt

\* So an offset the outbox still holds is its event in the log.
LEMMA EventIs ==
  ASSUME NEW s, Good(s), NEW offset \in s.head.entry..(s.tail - 1)
  PROVE  EventAt(s, offset) = s.log[offset] /\ offset \in Nat
<1>1. s \in StoreType /\ Pieces(s)
  BY DEF Good
<1>2. s.tail \in Nat /\ s.head.entry \in Nat
  BY <1>1, StoreFields
<1>3. offset \in Nat
  BY <1>2
<1>4. PICK k \in DOMAIN s.entries : Covers(s, k, offset)
  BY <1>1 DEF Pieces
<1> QED BY <1>3, <1>4, EntryIs

\* load() accepts a good store.
LEMMA GoodValid ==
  ASSUME NEW s, Good(s)
  PROVE  ValidBuffer(s)
<1>1. s \in StoreType /\ Pieces(s) /\ HeadFits(s)
  BY DEF Good
<1>2. /\ s.head.entry \in Nat /\ s.head.offset \in Nat /\ s.tail \in Nat /\ s.bytes \in Nat
      /\ s.entries \in EntryMaps
  BY <1>1, StoreFields
<1>3. DOMAIN s.entries \subseteq Nat /\ \A j \in DOMAIN s.entries : Len(s.entries[j]) \in Nat
  BY <1>2, EntryFields
<1>4. Weighs(s.entries, DOMAIN s.entries)
  BY GoodWeighs
<1>5. 1 <= s.head.entry /\ s.head.entry <= s.head.offset /\ s.head.offset <= s.tail
  BY <1>1 DEF HeadFits
<1>6. CASE s.head.offset = s.tail
  <2>1. s.head.entry = s.tail
    BY <1>1, <1>6 DEF HeadFits
  <2>2. DOMAIN s.entries = {}
    BY <1>1, <1>2, <2>1 DEF Pieces
  <2>3. s.bytes = 0
    BY <2>2, BytesEmpty DEF Good
  <2> QED BY <1>2, <1>5, <1>6, <2>1, <2>2, <2>3, SinkAssumption
      DEF Good, ValidBuffer, ValidState, IsEmpty, PendingEvents
<1>7. CASE s.head.offset # s.tail
  <2>1. s.control = "ready"
    BY <1>2, <1>5, <1>7 DEF Good
  <2>2. Covers(s, s.head.entry, s.head.offset)
    BY <1>1, <1>7 DEF HeadFits
  <2>3. s.bytes >= 1
    <3>1. PICK k \in DOMAIN s.entries : k = s.head.entry
      BY <2>2 DEF Covers
    <3>2. /\ EntryBytes(s.entries, DOMAIN s.entries)
               = ItemBytes(s.entries[k]) + EntryBytes(s.entries, DOMAIN s.entries \ {k})
          /\ EntryBytes(s.entries, DOMAIN s.entries \ {k}) \in Nat
      BY <1>4, BytesOne
    <3>3. ItemBytes(s.entries[k]) \in Nat /\ ItemBytes(s.entries[k]) >= 1
      BY <1>4, ItemType DEF Weighs
    <3> QED BY <3>2, <3>3 DEF Good
  <2>4. ValidState(s)
    BY <1>2, <1>5, <1>7, <2>3 DEF ValidState, IsEmpty
  <2>5. PendingEvents(s) <= MaxEvents /\ s.bytes <= MaxBytes
    BY <1>2, SinkAssumption DEF Good, PendingEvents
  <2>6. s.head.entry \in DOMAIN s.entries /\ s.head.offset < EntryEnd(s, s.head.entry)
    BY <2>2 DEF Covers
  <2>7. \A k \in DOMAIN s.entries :
          k \in s.head.entry..(s.tail - 1) /\ EntryEnd(s, k) \in DOMAIN s.entries \cup {s.tail}
    BY <1>1 DEF Pieces, Piece
  <2>8. s.bytes = EntryBytes(s.entries, DOMAIN s.entries)
    BY DEF Good
  <2> QED BY <1>7, <2>1, <2>4, <2>5, <2>6, <2>7, <2>8 DEF ValidBuffer, IsEmpty
<1> QED BY <1>6, <1>7

-----------------------------------------------------------------------------
(* The operations keep a store good.                                       *)

\* A new store is good.
LEMMA EmptyGood == Good(EmptyStore)
<1> DEFINE s == EmptyStore
<1>1. /\ s.control = "fresh" /\ s.head.entry = 1 /\ s.head.offset = 1 /\ s.tail = 1 /\ s.bytes = 0
      /\ DOMAIN s.entries = {} /\ s.log = <<>>
  BY DEF EmptyStore, Position
<1>2. s.entries \in EntryMaps
  <2>1. {} \in SUBSET Nat /\ [k \in {} |-> <<>>] \in [{} -> Seq(Event)]
    OBVIOUS
  <2>2. [k \in {} |-> <<>>] \in EntryMaps
    BY <2>1, Zenon DEF EntryMaps
  <2> QED BY <2>2 DEF EmptyStore
<1>3. s.head \in PositionType
  BY DEF EmptyStore, Position, PositionType
<1>4. s \in StoreType
  BY <1>2, <1>3 DEF EmptyStore, StoreType
<1>5. EntryBytes(s.entries, DOMAIN s.entries) = 0
  BY <1>1, BytesEmpty
<1>6. WellFormed(s.log)
  BY <1>1 DEF WellFormed
<1>7. Pieces(s) /\ HeadFits(s)
  BY <1>1 DEF Pieces, HeadFits
<1> HIDE DEF s
<1> QED BY <1>1, <1>4, <1>5, <1>6, <1>7, SinkAssumption DEF Good, s

\* The control state of an empty log may change.
LEMMA ControlGood ==
  ASSUME NEW s, Good(s), s.control # "ready", NEW c \in {"fresh", "initialize", "ready"},
         NEW t, t = [s EXCEPT !.control = c]
  PROVE  /\ Good(t) /\ t.control = c /\ t.log = s.log /\ t.log = <<>> /\ t.head = s.head
         /\ t.tail = s.tail /\ t.tail = 1 /\ t.head.offset = 1
<1>1. s \in StoreType /\ s.log = <<>> /\ s.tail = 1 /\ s.head.offset = 1
  <2>1. s \in StoreType /\ s.log = <<>> /\ s.tail = Len(s.log) + 1 /\ HeadFits(s)
    BY DEF Good
  <2> QED BY <2>1, StoreFields DEF HeadFits
<1>2. /\ t \in StoreType /\ t.control = c /\ t.head = s.head /\ t.tail = s.tail
      /\ t.bytes = s.bytes /\ t.entries = s.entries /\ t.log = s.log
  BY <1>1 DEF StoreType
<1>3. Pieces(t) /\ HeadFits(t)
  BY <1>2 DEF Good, Pieces, Piece, HeadFits, Covers, EntryEnd
<1> QED BY <1>1, <1>2, <1>3 DEF Good

\* A page that stays on the stack is no part of the outbox.
LEMMA PinGood ==
  ASSUME NEW s, Good(s), NEW t, t = [s EXCEPT !.pinned = TRUE]
  PROVE  /\ Good(t) /\ t.control = s.control /\ t.log = s.log /\ t.head = s.head
         /\ t.tail = s.tail
<1>1. s \in StoreType
  BY DEF Good
<1>2. /\ t \in StoreType /\ t.control = s.control /\ t.head = s.head /\ t.tail = s.tail
      /\ t.bytes = s.bytes /\ t.entries = s.entries /\ t.log = s.log
  BY <1>1 DEF StoreType
<1>3. Pieces(s) /\ HeadFits(s)
  BY DEF Good
<1>4. Pieces(t)
  <2>1. \A k : EntryEnd(t, k) = EntryEnd(s, k)
    BY <1>2, Zenon DEF EntryEnd
  <2>2. \A k : Piece(s, k) => Piece(t, k)
    BY <1>2, <2>1, Zenon DEF Piece
  <2>3. \A k, o : Covers(s, k, o) => Covers(t, k, o)
    BY <1>2, <2>1, Zenon DEF Covers
  <2> QED BY <1>2, <1>3, <2>1, <2>2, <2>3, Zenon DEF Pieces
<1>5. HeadFits(t)
  BY <1>2, <1>3, Zenon DEF HeadFits, Covers, EntryEnd
<1> QED BY <1>2, <1>4, <1>5, Zenon DEF Good

\* What an enqueued page changes.
Enqueued(s, page, t) ==
  /\ t \in StoreType /\ t.control = s.control /\ t.head = s.head
  /\ t.tail = s.tail + Len(page) /\ t.bytes = s.bytes + ItemBytes(page)
  /\ DOMAIN t.entries = DOMAIN s.entries \cup {s.tail}
  /\ t.entries[s.tail] = page
  /\ \A k \in DOMAIN s.entries : k # s.tail => t.entries[k] = s.entries[k]
  /\ t.log = Cat(s.log, page)

\* Enqueue does.
LEMMA EnqueueFields ==
  ASSUME NEW s \in StoreType, NEW page \in Seq(Event), NEW t, t = Enqueue(s, page)
  PROVE  Enqueued(s, page, t)
<1>1. /\ s.tail \in Nat /\ s.bytes \in Nat /\ s.entries \in EntryMaps /\ s.log \in Seq(Event)
  BY StoreFields
<1>2. DOMAIN s.entries \subseteq Nat /\ \A k \in DOMAIN s.entries : s.entries[k] \in Seq(Event)
  BY <1>1, EntryFields
<1> DEFINE keys == DOMAIN s.entries \cup {s.tail}
           e == [k \in keys |-> IF k = s.tail THEN page ELSE s.entries[k]]
<1>3. /\ t.control = s.control /\ t.head = s.head
      /\ t.tail = s.tail + Len(page) /\ t.bytes = s.bytes + ItemBytes(page)
      /\ t.entries = e /\ t.log = s.log \o page
  BY DEF Enqueue, StoreType
<1>4. e \in EntryMaps
  <2>1. keys \in SUBSET Nat /\ e \in [keys -> Seq(Event)]
    BY <1>1, <1>2
  <2> HIDE DEF e, keys
  <2> QED BY <2>1 DEF EntryMaps
<1>5. s.log \o page \in Seq(Event)
  BY <1>1
<1>6. s.tail + Len(page) \in Nat /\ s.bytes + ItemBytes(page) \in Nat
  BY <1>1, ItemType
<1>7. t = [s EXCEPT !.tail = s.tail + Len(page), !.bytes = s.bytes + ItemBytes(page),
                    !.entries = e, !.log = s.log \o page]
  BY <1>3 DEF Enqueue, StoreType
<1>8. t \in StoreType
  <2> HIDE DEF e
  <2>1. PICK l \in Seq(Event) : l = s.log \o page
    BY <1>5
  <2>2. t = [s EXCEPT !.tail = s.tail + Len(page), !.bytes = s.bytes + ItemBytes(page),
                      !.entries = e, !.log = l]
    BY <1>7, <2>1
  <2> QED BY <1>4, <1>6, <2>2 DEF StoreType
<1>9. t.log = Cat(s.log, page)
  BY <1>3, Zenon DEF Cat
<1> QED BY <1>3, <1>8, <1>9 DEF Enqueued

\* A log is longer than its beginning and than what it ends with.
Joined(a, b, c) ==
  /\ c \in Seq(Event) /\ Len(a) \in Nat /\ Len(b) \in Nat /\ Len(c) = Len(a) + Len(b)
  /\ \A i \in 1..Len(a) : c[i] = a[i]
  /\ \A i \in 1..Len(b) : c[Len(a) + i] = b[i]

\* The events of a page in the log.
LEMMA Concatenation ==
  ASSUME NEW a \in Seq(Event), NEW b \in Seq(Event), NEW c, c = Cat(a, b)
  PROVE  Joined(a, b, c)
BY DEF Cat, Joined

\* try_enqueue keeps a store good.
LEMMA EnqueueGood ==
  ASSUME NEW s, Good(s), s.control = "ready", NEW page \in Pages, s.tail + Len(page) <= MaxOffset,
         Fits(s, page), WellFormed(Cat(s.log, page)), NEW t, t = Enqueue(s, page)
  PROVE  /\ Good(t) /\ t.control = s.control /\ t.head = s.head
         /\ Len(s.log) <= Len(t.log) /\ \A i \in 1..Len(s.log) : t.log[i] = s.log[i]
<1>1. page \in Seq(Event) /\ page # <<>> /\ MaxEvents \in Nat /\ MaxBytes \in Nat
  BY SinkAssumption
<1>2. s \in StoreType /\ Pieces(s) /\ HeadFits(s) /\ s.tail = Len(s.log) + 1
  BY DEF Good
<1>3. /\ s.head.entry \in Nat /\ s.head.offset \in Nat /\ s.tail \in Nat /\ s.bytes \in Nat
      /\ s.entries \in EntryMaps /\ s.log \in Seq(Event)
  BY <1>2, StoreFields
<1>4. DOMAIN s.entries \subseteq Nat
      /\ \A j \in DOMAIN s.entries : Len(s.entries[j]) \in Nat /\ s.entries[j] \in Seq(Event)
  BY <1>3, EntryFields
<1>5. PICK m \in Nat : m = Len(page) /\ m > 0
  BY <1>1
<1>6. /\ t \in StoreType /\ t.control = s.control /\ t.head = s.head
      /\ t.tail = s.tail + m /\ t.bytes = s.bytes + ItemBytes(page)
      /\ DOMAIN t.entries = DOMAIN s.entries \cup {s.tail}
      /\ t.entries[s.tail] = page
      /\ \A k \in DOMAIN s.entries : k # s.tail => t.entries[k] = s.entries[k]
      /\ t.log = Cat(s.log, page)
  <2>1. Enqueued(s, page, t)
    BY <1>1, <1>2, EnqueueFields
  <2> QED BY <1>5, <2>1 DEF Enqueued
<1>7. /\ t.log \in Seq(Event) /\ Len(s.log) \in Nat /\ Len(t.log) = Len(s.log) + m
      /\ \A i \in 1..Len(s.log) : t.log[i] = s.log[i]
      /\ \A i \in 1..m : t.log[Len(s.log) + i] = page[i]
  <2>1. Joined(s.log, page, t.log)
    BY <1>1, <1>3, <1>6, Concatenation
  <2> QED BY <1>5, <2>1 DEF Joined
<1>8. \A k \in DOMAIN s.entries : k \in Nat /\ k < s.tail /\ k >= s.head.entry /\ Piece(s, k)
  BY <1>2, <1>3, <1>4 DEF Pieces
<1>9. \A k \in DOMAIN s.entries :
        t.entries[k] = s.entries[k] /\ EntryEnd(t, k) = EntryEnd(s, k) /\ EntryEnd(s, k) \in Nat
        /\ EntryEnd(s, k) <= s.tail
  <2> SUFFICES ASSUME NEW k \in DOMAIN s.entries
               PROVE  /\ t.entries[k] = s.entries[k] /\ EntryEnd(t, k) = EntryEnd(s, k)
                      /\ EntryEnd(s, k) \in Nat /\ EntryEnd(s, k) <= s.tail
    OBVIOUS
  <2>1. k \in Nat /\ k # s.tail /\ EntryEnd(s, k) <= s.tail
    BY <1>3, <1>8 DEF Piece
  <2>2. t.entries[k] = s.entries[k]
    BY <1>6, <2>1
  <2> QED BY <1>4, <2>1, <2>2 DEF EntryEnd
<1>10. EntryEnd(t, s.tail) = t.tail
  BY <1>5, <1>6 DEF EntryEnd
<1>11. ASSUME NEW k \in DOMAIN t.entries PROVE k \in t.head.entry..(t.tail - 1) /\ Piece(t, k)
  <2>1. CASE k = s.tail
    <3>1. k \in t.head.entry..(t.tail - 1)
      BY <1>2, <1>3, <1>5, <1>6, <2>1 DEF HeadFits
    <3>2. \A i \in 1..Len(t.entries[k]) : t.entries[k][i] = t.log[k + i - 1]
      <4> SUFFICES ASSUME NEW i \in 1..m PROVE page[i] = t.log[k + i - 1]
        BY <1>5, <1>6, <2>1
      <4>1. k + i - 1 = Len(s.log) + i
        BY <1>2, <1>3, <1>7, <2>1
      <4> QED BY <1>7, <4>1
    <3>3. EntryEnd(t, k) <= t.tail
      BY <1>3, <1>6, <1>10, <2>1
    <3> QED BY <1>1, <1>6, <1>10, <2>1, <3>1, <3>2, <3>3 DEF Piece
  <2>2. CASE k \in DOMAIN s.entries
    <3>1. k \in t.head.entry..(t.tail - 1)
      BY <1>3, <1>6, <1>8, <2>2
    <3>2. t.entries[k] # <<>> /\ EntryEnd(t, k) \in DOMAIN t.entries \cup {t.tail}
      BY <1>6, <1>8, <1>9, <2>2 DEF Piece
    <3>3. EntryEnd(t, k) <= t.tail
      BY <1>3, <1>6, <1>9, <2>2
    <3>4. ASSUME NEW i \in 1..Len(t.entries[k]) PROVE t.entries[k][i] = t.log[k + i - 1]
      <4>1. i \in 1..Len(s.entries[k]) /\ t.entries[k] = s.entries[k]
        BY <1>9, <2>2
      <4>2. s.entries[k][i] = s.log[k + i - 1]
        BY <1>8, <2>2, <4>1 DEF Piece
      <4>3. k + i - 1 \in 1..Len(s.log)
        <5>1. k + Len(s.entries[k]) <= s.tail /\ 1 <= k /\ Len(s.entries[k]) \in Nat
          BY <1>2, <1>3, <1>4, <1>8, <1>9, <2>2 DEF EntryEnd, HeadFits
        <5>2. k \in Nat /\ s.tail = Len(s.log) + 1 /\ Len(s.log) \in Nat
          BY <1>2, <1>7, <1>8, <2>2
        <5>3. PICK l \in Nat, n \in Nat : l = Len(s.entries[k]) /\ n = Len(s.log)
          BY <5>1, <5>2, Zenon
        <5>4. i \in 1..l /\ 1 <= k /\ k \in Nat /\ k + l <= n + 1
          BY <4>1, <5>1, <5>2, <5>3, Zenon
        <5>5. k + i - 1 \in 1..n
          BY <5>4
        <5> QED BY <5>3, <5>5, Zenon
      <4> QED BY <1>7, <4>1, <4>2, <4>3
    <3> QED BY <3>1, <3>2, <3>3, <3>4 DEF Piece
  <2> QED BY <1>6, <2>1, <2>2
<1>12. ASSUME NEW j \in DOMAIN t.entries, NEW k \in DOMAIN t.entries, j < k PROVE EntryEnd(t, j) <= k
  <2>1. j # s.tail
    BY <1>3, <1>6, <1>8, <1>12
  <2>2. j \in DOMAIN s.entries
    BY <1>6, <2>1
  <2>3. CASE k = s.tail
    BY <1>9, <2>2, <2>3
  <2>4. CASE k \in DOMAIN s.entries
    BY <1>2, <1>9, <1>12, <2>2, <2>4 DEF Pieces
  <2> QED BY <1>6, <2>3, <2>4
<1>13. ASSUME NEW o \in t.head.entry..(t.tail - 1) PROVE \E k \in DOMAIN t.entries : Covers(t, k, o)
  <2>0. o \in Nat
    BY <1>3, <1>6
  <2>1. CASE o < s.tail
    <3>0. o \in s.head.entry..(s.tail - 1)
      BY <1>3, <1>6, <2>0, <2>1
    <3>1. PICK k \in DOMAIN s.entries : Covers(s, k, o)
      BY <1>2, <3>0 DEF Pieces
    <3>2. Covers(t, k, o)
      BY <1>6, <1>9, <3>1 DEF Covers
    <3> QED BY <1>6, <3>2
  <2>2. CASE ~(o < s.tail)
    <3>1. Covers(t, s.tail, o)
      BY <1>3, <1>6, <1>10, <2>0, <2>2 DEF Covers
    <3> QED BY <1>6, <3>1
  <2> QED BY <2>1, <2>2
<1>14. Pieces(t)
  BY <1>11, <1>12, <1>13 DEF Pieces
<1>15. HeadFits(t)
  <2>1. CASE s.head.offset = s.tail
    <3>1. s.head.entry = s.tail
      BY <1>2, <2>1 DEF HeadFits
    <3>2. Covers(t, t.head.entry, t.head.offset)
      BY <1>3, <1>5, <1>6, <1>10, <2>1, <3>1 DEF Covers
    <3> QED BY <1>2, <1>3, <1>5, <1>6, <2>1, <3>1, <3>2 DEF HeadFits
  <2>2. CASE s.head.offset # s.tail
    <3>1. Covers(s, s.head.entry, s.head.offset)
      BY <1>2, <2>2 DEF HeadFits
    <3>2. Covers(t, t.head.entry, t.head.offset)
      BY <1>6, <1>9, <3>1 DEF Covers
    <3> QED BY <1>2, <1>3, <1>5, <1>6, <3>2 DEF HeadFits
  <2> QED BY <2>1, <2>2
<1>16. t.bytes = EntryBytes(t.entries, DOMAIN t.entries)
  <2>1. Weighs(s.entries, DOMAIN s.entries)
    BY GoodWeighs
  <2>2. s.tail \notin DOMAIN s.entries
    BY <1>3, <1>8
  <2>3. Weighs(t.entries, DOMAIN t.entries) /\ Weighs(t.entries, DOMAIN s.entries)
    BY <1>1, <1>6, <1>9, <2>1, FS_AddElement DEF Weighs
  <2>4. EntryBytes(t.entries, DOMAIN s.entries) = EntryBytes(s.entries, DOMAIN s.entries)
    BY <1>9, <2>1, <2>3, BytesSame
  <2>5. PICK x \in DOMAIN t.entries : x = s.tail
    BY <1>6
  <2>6. EntryBytes(t.entries, DOMAIN t.entries)
          = ItemBytes(t.entries[x]) + EntryBytes(t.entries, DOMAIN t.entries \ {x})
    BY <2>3, BytesOne
  <2>7. DOMAIN t.entries \ {x} = DOMAIN s.entries /\ t.entries[x] = page
    BY <1>6, <2>2, <2>5
  <2>8. ItemBytes(page) \in Nat
    BY <1>1, ItemType
  <2>9. s.bytes = EntryBytes(s.entries, DOMAIN s.entries)
    BY DEF Good
  <2>10. EntryBytes(t.entries, DOMAIN t.entries) = ItemBytes(page) + s.bytes
    BY <2>4, <2>6, <2>7, <2>9, Zenon
  <2> QED BY <1>3, <1>6, <2>8, <2>10
<1>17. t.bytes <= MaxBytes /\ t.tail <= t.head.offset + MaxEvents
  BY <1>1, <1>3, <1>5, <1>6 DEF Fits, PendingEvents
<1>18. t.tail = Len(t.log) + 1 /\ t.tail <= MaxOffset
  BY <1>2, <1>3, <1>5, <1>6, <1>7
<1>19. WellFormed(t.log)
  BY <1>6
<1> QED BY <1>6, <1>7, <1>14, <1>15, <1>16, <1>17, <1>18, <1>19 DEF Good

\* What load() hands over.
Holds(s, n, b) ==
  /\ b.before = s.head /\ b.tail = s.tail
  /\ b.events \in Seq(Event) /\ Len(b.events) = n
  /\ \A i \in 1..n : b.events[i] = s.log[s.head.offset + i - 1]
  /\ b.after.offset = s.head.offset + n
  /\ b.after.entry = IF s.head.offset + n = s.tail THEN s.tail ELSE EntryOf(s, s.head.offset + n)
  /\ b.consumed = {k \in DOMAIN s.entries : EntryEnd(s, k) <= s.head.offset + n}

\* A loaded batch is the next part of the log.
LEMMA LoadedHolds ==
  ASSUME NEW s, Good(s), NEW n \in 1..PendingEvents(s), NEW b, b = Loaded(s, n)
  PROVE  Holds(s, n, b)
<1>1. s \in StoreType /\ HeadFits(s) /\ s.tail = Len(s.log) + 1
  BY DEF Good
<1>2. s.head.entry \in Nat /\ s.head.offset \in Nat /\ s.tail \in Nat /\ s.log \in Seq(Event)
  BY <1>1, StoreFields
<1>3. n \in Nat /\ s.head.offset + n <= s.tail
  BY <1>2 DEF PendingEvents
<1>4. ASSUME NEW i \in 1..n
      PROVE  EventAt(s, s.head.offset + i - 1) = s.log[s.head.offset + i - 1]
             /\ s.log[s.head.offset + i - 1] \in Event
  <2>1. PICK o \in s.head.entry..(s.tail - 1) : o = s.head.offset + i - 1
    <3>1. s.head.entry <= s.head.offset
      BY <1>1 DEF HeadFits
    <3>2. s.head.offset + i - 1 \in s.head.entry..(s.tail - 1)
      BY <1>2, <1>3, <3>1
    <3> QED BY <3>2, Zenon
  <2>2. EventAt(s, o) = s.log[o]
    BY EventIs
  <2>3. o \in 1..Len(s.log)
    <3>1. 1 <= s.head.entry /\ Len(s.log) \in Nat /\ s.tail - 1 = Len(s.log)
      BY <1>1, <1>2 DEF HeadFits
    <3> QED BY <1>2, <3>1
  <2>4. s.log[o] \in Event
    BY <1>2, <2>3
  <2> QED BY <2>1, <2>2, <2>4
<1>5. /\ b.before = s.head /\ b.tail = s.tail
      /\ b.events = [i \in 1..n |-> EventAt(s, s.head.offset + i - 1)]
      /\ b.after = [entry |-> IF s.head.offset + n = s.tail THEN s.head.offset + n
                              ELSE EntryOf(s, s.head.offset + n),
                    offset |-> s.head.offset + n]
      /\ b.consumed = {k \in DOMAIN s.entries : EntryEnd(s, k) <= s.head.offset + n}
  BY DEF Loaded, Position, Consumed
<1>6. b.events \in Seq(Event) /\ Len(b.events) = n
  <2>1. b.events \in [1..n -> Event]
    BY <1>4, <1>5
  <2> QED BY <1>3, <2>1
<1>7. \A i \in 1..n : b.events[i] = s.log[s.head.offset + i - 1]
  BY <1>4, <1>5
<1> QED BY <1>5, <1>6, <1>7 DEF Holds

\* The fields of a store after a settlement.
LEMMA SettleFields ==
  ASSUME NEW s \in StoreType, NEW b, b.consumed \subseteq DOMAIN s.entries,
         b.after \in PositionType, s.bytes - EntryBytes(s.entries, b.consumed) \in Nat,
         NEW t, t = Settle(s, b)
  PROVE  /\ t \in StoreType /\ t.control = s.control /\ t.head = b.after /\ t.tail = s.tail
         /\ t.bytes = s.bytes - EntryBytes(s.entries, b.consumed)
         /\ DOMAIN t.entries = DOMAIN s.entries \ b.consumed
         /\ \A k \in DOMAIN s.entries \ b.consumed : t.entries[k] = s.entries[k]
         /\ t.log = s.log
<1>1. DOMAIN s.entries \subseteq Nat /\ \A k \in DOMAIN s.entries : s.entries[k] \in Seq(Event)
  BY StoreFields, EntryFields
<1> DEFINE keys == DOMAIN s.entries \ b.consumed
           e == [k \in keys |-> s.entries[k]]
<1>2. e \in EntryMaps
  <2>1. keys \in SUBSET Nat /\ e \in [keys -> Seq(Event)]
    BY <1>1
  <2> HIDE DEF e, keys
  <2> QED BY <2>1 DEF EntryMaps
<1>3. t = [s EXCEPT !.head = b.after, !.bytes = s.bytes - EntryBytes(s.entries, b.consumed),
                    !.entries = e]
  BY DEF Settle, StoreType
<1>4. t \in StoreType /\ t.control = s.control /\ t.head = b.after /\ t.tail = s.tail
      /\ t.bytes = s.bytes - EntryBytes(s.entries, b.consumed) /\ t.entries = e /\ t.log = s.log
  <2> HIDE DEF e
  <2> QED BY <1>2, <1>3 DEF StoreType
<1> QED BY <1>4

\* A settlement moves the head behind the batch and keeps the rest of a store.
Settled(s, n, t) ==
  /\ Good(t) /\ t.control = s.control /\ t.log = s.log /\ t.tail = s.tail
  /\ t.head.offset = s.head.offset + n

\* Settle does, and keeps a store good.
LEMMA SettleGood ==
  ASSUME NEW s, Good(s), NEW n \in 1..PendingEvents(s), NEW b, b = Loaded(s, n),
         NEW t, t = Settle(s, b)
  PROVE  Settled(s, n, t)
<1>1. s \in StoreType /\ Pieces(s) /\ HeadFits(s)
  BY DEF Good
<1>2. /\ s.head.entry \in Nat /\ s.head.offset \in Nat /\ s.tail \in Nat /\ s.bytes \in Nat
      /\ s.entries \in EntryMaps
  BY <1>1, StoreFields
<1>3. DOMAIN s.entries \subseteq Nat /\ \A j \in DOMAIN s.entries : Len(s.entries[j]) \in Nat
  BY <1>2, EntryFields
<1>4. PICK end \in Nat : end = s.head.offset + n /\ end <= s.tail /\ s.head.offset < end
  BY <1>2 DEF PendingEvents
<1>5. Holds(s, n, b)
  BY LoadedHolds
<1>6. /\ b.after.offset = end /\ b.after.entry = IF end = s.tail THEN s.tail ELSE EntryOf(s, end)
      /\ b.consumed = {k \in DOMAIN s.entries : EntryEnd(s, k) <= end}
  BY <1>4, <1>5 DEF Holds
<1>7. ASSUME NEW k \in DOMAIN s.entries
      PROVE  /\ k \in Nat /\ k \in s.head.entry..(s.tail - 1) /\ Piece(s, k)
             /\ EntryEnd(s, k) \in Nat /\ k < EntryEnd(s, k) /\ EntryEnd(s, k) <= s.tail
  <2>1. k \in Nat /\ k \in s.head.entry..(s.tail - 1) /\ Piece(s, k) /\ Len(s.entries[k]) \in Nat
    BY <1>1, <1>3 DEF Pieces
  <2>2. Len(s.entries[k]) # 0
    <3>1. s.entries[k] \in Seq(Event) /\ s.entries[k] # <<>>
      BY <1>2, <2>1, EntryFields DEF Piece
    <3> QED BY <3>1
  <2> QED BY <2>1, <2>2 DEF Piece, EntryEnd
<1>8. Weighs(s.entries, DOMAIN s.entries)
  BY GoodWeighs
<1>9. PICK C \in SUBSET (DOMAIN s.entries) : C = b.consumed
  BY <1>6
<1>10. /\ EntryBytes(s.entries, C) \in Nat /\ EntryBytes(s.entries, DOMAIN s.entries \ C) \in Nat
       /\ s.bytes = EntryBytes(s.entries, C) + EntryBytes(s.entries, DOMAIN s.entries \ C)
  <2>1. EntryBytes(s.entries, C) \in Nat /\ EntryBytes(s.entries, DOMAIN s.entries \ C) \in Nat
        /\ EntryBytes(s.entries, DOMAIN s.entries)
             = EntryBytes(s.entries, C) + EntryBytes(s.entries, DOMAIN s.entries \ C)
    BY <1>8, BytesSplit
  <2>2. s.bytes = EntryBytes(s.entries, DOMAIN s.entries)
    BY DEF Good
  <2> QED BY <2>1, <2>2
<1>11. PICK first \in Nat :
         /\ b.after.entry = first /\ first <= end
         /\ s.head.entry <= first
         /\ IF end = s.tail THEN first = s.tail
            ELSE first \in DOMAIN s.entries /\ end < EntryEnd(s, first)
  <2>1. CASE end = s.tail
    BY <1>1, <1>2, <1>4, <1>6, <2>1 DEF HeadFits
  <2>2. CASE end # s.tail
    <3>1. end \in s.head.entry..(s.tail - 1)
      BY <1>1, <1>2, <1>4, <2>2 DEF HeadFits
    <3>2. PICK k \in DOMAIN s.entries : Covers(s, k, end)
      BY <1>1, <3>1 DEF Pieces
    <3>3. EntryOf(s, end) = k
      BY <3>2, EntryIs
    <3>4. k \in Nat /\ s.head.entry <= k
      BY <1>2, <1>7
    <3> QED BY <1>6, <2>2, <3>2, <3>3, <3>4 DEF Covers
  <2> QED BY <2>1, <2>2
<1>12. b.after \in PositionType /\ b.after = [entry |-> first, offset |-> end]
  <2>1. b.after = [entry |-> b.after.entry, offset |-> b.after.offset]
    BY DEF Loaded, Position
  <2> QED BY <1>6, <1>11, <2>1 DEF PositionType
<1>13. s.bytes - EntryBytes(s.entries, C) = EntryBytes(s.entries, DOMAIN s.entries \ C)
  BY <1>10
<1>14. /\ t \in StoreType /\ t.control = s.control /\ t.head = b.after /\ t.tail = s.tail
       /\ t.bytes = s.bytes - EntryBytes(s.entries, C)
       /\ DOMAIN t.entries = DOMAIN s.entries \ C
       /\ \A k \in DOMAIN s.entries \ C : t.entries[k] = s.entries[k]
       /\ t.log = s.log
  BY <1>1, <1>9, <1>10, <1>12, <1>13, SettleFields
<1>15. t.head.entry = first /\ t.head.offset = end
  BY <1>12, <1>14
<1>16. ASSUME NEW k \in DOMAIN t.entries
       PROVE  /\ k \in DOMAIN s.entries /\ t.entries[k] = s.entries[k]
              /\ EntryEnd(t, k) = EntryEnd(s, k) /\ EntryEnd(s, k) > end
  <2>1. k \in DOMAIN s.entries /\ ~(EntryEnd(s, k) <= end) /\ t.entries[k] = s.entries[k]
    BY <1>6, <1>9, <1>14
  <2> QED BY <1>7, <2>1 DEF EntryEnd
<1>17. ASSUME NEW k \in DOMAIN s.entries, EntryEnd(s, k) > end PROVE k \in DOMAIN t.entries
  BY <1>6, <1>7, <1>9, <1>14, <1>17
<1>18. ASSUME NEW k \in DOMAIN t.entries PROVE k \in first..(s.tail - 1) /\ Piece(t, k)
  <2>1. end < s.tail
    BY <1>2, <1>7, <1>16
  <2>2. first \in DOMAIN s.entries
    BY <1>11, <2>1
  <2>3. k < first => EntryEnd(s, k) <= first
    BY <1>1, <1>16, <2>2 DEF Pieces
  <2>4. k \in first..(s.tail - 1)
    BY <1>2, <1>7, <1>11, <1>16, <2>3
  <2>5. EntryEnd(t, k) \in DOMAIN t.entries \cup {t.tail}
    <3>1. EntryEnd(s, k) \in DOMAIN s.entries \cup {s.tail}
      BY <1>7, <1>16 DEF Piece
    <3>2. CASE EntryEnd(s, k) \in DOMAIN s.entries
      <4>1. EntryEnd(s, EntryEnd(s, k)) > end
        BY <1>7, <1>16, <3>2
      <4> QED BY <1>16, <1>17, <3>2, <4>1
    <3> QED BY <1>14, <1>16, <3>1, <3>2
  <2>6. EntryEnd(t, k) <= t.tail /\ t.entries[k] # <<>>
    BY <1>7, <1>14, <1>16 DEF Piece
  <2>7. \A i \in 1..Len(t.entries[k]) : t.entries[k][i] = t.log[k + i - 1]
    BY <1>7, <1>14, <1>16 DEF Piece
  <2> QED BY <2>4, <2>5, <2>6, <2>7 DEF Piece
<1>19. ASSUME NEW j \in DOMAIN t.entries, NEW k \in DOMAIN t.entries, j < k PROVE EntryEnd(t, j) <= k
  BY <1>1, <1>16, <1>19 DEF Pieces
<1>20. ASSUME NEW o \in first..(s.tail - 1) PROVE \E k \in DOMAIN t.entries : Covers(t, k, o)
  <2>1. o \in Nat /\ end < s.tail /\ o \in s.head.entry..(s.tail - 1) /\ first <= o /\ o < s.tail
    BY <1>2, <1>4, <1>11
  <2>2. first \in DOMAIN s.entries /\ end < EntryEnd(s, first)
    BY <1>11, <2>1
  <2>3. PICK k \in DOMAIN s.entries : Covers(s, k, o)
    BY <1>1, <2>1 DEF Pieces
  <2>4. k <= o /\ o < EntryEnd(s, k)
    BY <2>3 DEF Covers
  <2>5. k < first => EntryEnd(s, k) <= first
    BY <1>1, <2>2 DEF Pieces
  <2>6. first < k => EntryEnd(s, first) <= k
    BY <1>1, <2>2 DEF Pieces
  <2>7. EntryEnd(s, k) > end
    BY <1>7, <1>11, <2>1, <2>2, <2>4, <2>5, <2>6
  <2>8. k \in DOMAIN t.entries
    BY <1>17, <2>7
  <2> QED BY <1>16, <2>4, <2>8 DEF Covers
<1>21. Pieces(t)
  BY <1>14, <1>15, <1>18, <1>19, <1>20 DEF Pieces
<1>22. HeadFits(t)
  <2>1. 1 <= first
    BY <1>1, <1>2, <1>11 DEF HeadFits
  <2>2. CASE end = s.tail
    BY <1>11, <1>14, <1>15, <2>1, <2>2 DEF HeadFits
  <2>3. CASE end # s.tail
    <3>1. first \in DOMAIN s.entries /\ end < EntryEnd(s, first)
      BY <1>11, <2>3
    <3>2. first \in DOMAIN t.entries /\ EntryEnd(t, first) = EntryEnd(s, first)
      BY <1>7, <1>16, <1>17, <3>1
    <3>3. Covers(t, first, end)
      BY <1>11, <3>1, <3>2 DEF Covers
    <3> QED BY <1>4, <1>11, <1>14, <1>15, <2>1, <2>3, <3>3 DEF HeadFits
  <2> QED BY <2>2, <2>3
<1>23. t.bytes = EntryBytes(t.entries, DOMAIN t.entries) /\ t.bytes <= MaxBytes
  <2>1. Weighs(s.entries, DOMAIN s.entries \ C)
    BY <1>8, FS_Subset DEF Weighs
  <2>2. Weighs(t.entries, DOMAIN s.entries \ C)
    BY <1>14, <2>1 DEF Weighs
  <2>3. EntryBytes(t.entries, DOMAIN s.entries \ C) = EntryBytes(s.entries, DOMAIN s.entries \ C)
    BY <1>14, <2>1, <2>2, BytesSame
  <2>4. t.bytes <= MaxBytes
    BY <1>2, <1>10, <1>14, SinkAssumption DEF Good
  <2> QED BY <1>13, <1>14, <2>3, <2>4
<1>24. t.tail <= t.head.offset + MaxEvents
  <2>1. MaxEvents \in Nat /\ s.tail <= s.head.offset + MaxEvents
    BY SinkAssumption DEF Good
  <2> QED BY <1>2, <1>4, <1>14, <1>15, <2>1
<1> QED BY <1>4, <1>14, <1>15, <1>21, <1>22, <1>23, <1>24 DEF Good, Settled

-----------------------------------------------------------------------------
(* The invariant of a round, as far as it does not concern the target.     *)

\* s has lost events or settlements that t has.
Behind(s, t) ==
  /\ Len(s.log) <= Len(t.log) /\ \A i \in 1..Len(s.log) : s.log[i] = t.log[i]
  /\ s.head.offset <= t.head.offset
\* s has events that t has not.
Grown(s, t) ==
  /\ Len(t.log) <= Len(s.log) /\ \A i \in 1..Len(t.log) : s.log[i] = t.log[i]
  /\ s.head.offset = t.head.offset
\* s has settlements that t has not.
Drained(s, t) == s.log = t.log /\ t.head.offset <= s.head.offset

\* Where a delivery is, with the steps that a target may add.
Delivering == {"deliver", "settle", "createTable", "inspectView", "createView", "count", "write"}
PCs == {"stack", "load", "intent", "sync", "finish", "fail", "closed", "down"} \cup Delivering

(***************************************************************************)
(* Every store a crash may leave is good, and behind the one in use unless *)
(* a failed commit put it ahead; then the flow is to be reopened.          *)
(***************************************************************************)
Beside(s, t, reopen) == Behind(s, t) \/ (reopen /\ (Grown(s, t) \/ Drained(s, t)))
KeptIn(stores, t, reopen) ==
  t \in stores /\ \A s \in stores : Good(s) /\ Beside(s, t, reopen)
Kept == KeptIn(durable, store, needsReopen)

\* Delivery and settlement follow a barrier.
Barriers ==
  /\ pc \in PCs /\ needsReopen \in BOOLEAN
  /\ needsReopen => pc \in {"finish", "closed"}
  /\ pc \in Delivering \cup {"down"} => durable = {store}

Initializes(s, b) == s.control = "initialize" /\ \E fresh \in BOOLEAN : b = Initialization(fresh)
Batch(s, b) == s.control = "ready" /\ \E n \in 1..PendingEvents(s) : b = Loaded(s, n)

\* What is in hand is still what the store calls for.
InHand ==
  /\ pc = "intent" => store.control # "ready" /\ loaded = Initialization(store.control = "fresh")
  /\ pc \in Delivering \cup {"sync"} => Initializes(store, loaded) \/ Batch(store, loaded)

OutboxInv == Kept /\ Barriers /\ InHand

\* A store is behind itself.
LEMMA BehindItself ==
  ASSUME NEW s, Good(s)
  PROVE  Behind(s, s) /\ Len(s.log) \in Nat /\ s.head.offset \in Nat
<1>1. s.log \in Seq(Event) /\ s.head.offset \in Nat
  BY StoreFields DEF Good
<1> QED BY <1>1 DEF Behind

\* Being behind is transitive.
LEMMA BehindTransitive ==
  ASSUME NEW s, Good(s), NEW t, Good(t), NEW u, Good(u), Behind(s, t), Behind(t, u) \/ Grown(u, t) \/ Drained(u, t)
  PROVE  Behind(s, u)
<1>1. /\ Len(s.log) \in Nat /\ s.head.offset \in Nat /\ Len(t.log) \in Nat /\ t.head.offset \in Nat
      /\ Len(u.log) \in Nat /\ u.head.offset \in Nat
  BY BehindItself
<1>2. /\ Len(s.log) <= Len(t.log) /\ s.head.offset <= t.head.offset
      /\ \A i \in 1..Len(s.log) : s.log[i] = t.log[i]
  BY DEF Behind
<1>3. /\ \/ Len(t.log) <= Len(u.log)
         \/ t.log = u.log
      /\ t.head.offset <= u.head.offset
      /\ \A i \in 1..Len(t.log) : t.log[i] = u.log[i]
  BY <1>1 DEF Behind, Grown, Drained
<1>4. Len(s.log) <= Len(u.log)
  BY <1>1, <1>2, <1>3
<1>5. ASSUME NEW i \in 1..Len(s.log) PROVE s.log[i] = u.log[i]
  BY <1>1, <1>2, <1>3
<1>6. s.head.offset <= u.head.offset
  BY <1>1, <1>2, <1>3
<1> QED BY <1>4, <1>5, <1>6 DEF Behind

\* A commit to a good store, ahead of the one in use, keeps the stores.
LEMMA CommitKeeps ==
  ASSUME Kept, ~needsReopen, needsReopen \in BOOLEAN, NEW t, Good(t), NEW next, Commit(t, next),
         Grown(t, store) \/ Drained(t, store)
  PROVE  /\ Kept'
         /\ \/ store' = t /\ pc' = next /\ needsReopen' = FALSE
            \/ store' = store /\ pc' = "finish" /\ needsReopen' = TRUE
<1>1. durable' = durable \cup {t}
  BY DEF Commit
<1>2. Good(store) /\ \A s \in durable : Good(s) /\ Behind(s, store)
  BY DEF Kept, KeptIn, Beside
<1>3. CASE store' = t /\ pc' = next /\ needsReopen' = FALSE
  <2>1. ASSUME NEW s \in durable' PROVE Good(s) /\ Behind(s, t)
    <3>1. CASE s = t
      BY <3>1, BehindItself
    <3>2. CASE s \in durable
      BY <1>2, <3>2, BehindTransitive
    <3> QED BY <1>1, <3>1, <3>2
  <2>2. KeptIn(durable', t, FALSE)
    <3>1. t \in durable'
      BY <1>1
    <3> QED BY <2>1, <3>1, Zenon DEF KeptIn, Beside
  <2> QED BY <1>3, <2>2 DEF Kept
<1>4. CASE store' = store /\ pc' = "finish" /\ needsReopen' = TRUE
  <2>1. ASSUME NEW s \in durable'
        PROVE  Good(s) /\ (Behind(s, store) \/ Grown(s, store) \/ Drained(s, store))
    BY <1>1, <1>2, <1>4
  <2>2. store \in durable'
    BY <1>1 DEF Kept, KeptIn
  <2>3. KeptIn(durable', store, TRUE)
    BY <2>1, <2>2, Zenon DEF KeptIn, Beside
  <2> QED BY <1>4, <2>3 DEF Kept
<1> QED BY <1>3, <1>4 DEF Commit

\* A step of the outbox leads to a store of which it is one of these.
Turns(t, s) == Behind(t, s) \/ Grown(t, s) \/ Drained(t, s)

\* The store in use is good, and stays so when nothing changes.
LEMMA KeptStore ==
  ASSUME Kept
  PROVE  Good(store) /\ Turns(store, store) /\ store \in durable
<1>1. Good(store) /\ store \in durable
  BY DEF Kept, KeptIn
<1> QED BY <1>1, BehindItself DEF Turns

\* A failure does not change the stores.
LEMMA KeptFails ==
  ASSUME Kept, needsReopen \in BOOLEAN, store' = store, durable' = durable,
         needsReopen' \in {needsReopen, TRUE}
  PROVE  Kept'
<1>1. \A s \in durable : Good(s) /\ Beside(s, store, needsReopen')
  BY DEF Kept, KeptIn, Beside
<1> QED BY <1>1 DEF Kept, KeptIn

\* A barrier leaves only the store in use.
LEMMA KeptSyncs ==
  ASSUME Kept, store' = store, durable' = {store}
  PROVE  Kept'
<1>1. Good(store)
  BY KeptStore
<1>2. Behind(store, store)
  BY <1>1, BehindItself
<1> QED BY <1>1, <1>2 DEF Kept, KeptIn, Beside

\* What is in hand is one or the other.
LEMMA HandIs ==
  ASSUME NEW s, Good(s), NEW b
  PROVE  /\ Initializes(s, b) => b.before = None
         /\ Batch(s, b) => b.before # None
<1>1. Initializes(s, b) => b.before = None
  BY DEF Initializes, Initialization
<1>2. Batch(s, b) => b.before = s.head
  BY DEF Batch, Loaded
<1>3. s.head \in PositionType
  BY StoreFields DEF Good
<1>4. s.head # None
  BY <1>3, SinkAssumption DEF PositionType
<1> QED BY <1>1, <1>2, <1>4

\* try_enqueue keeps the invariant.
LEMMA TryEnqueueStep ==
  ASSUME OutboxInv, TryEnqueue
  PROVE  OutboxInv' /\ Turns(store', store)
<1>1. PICK page \in Pages :
        /\ store.tail + Len(page) <= MaxOffset /\ Fits(store, page)
        /\ WellFormed(Cat(store.log, page)) /\ Commit(Enqueue(store, page), "stack")
  <2>1. PICK page \in Pages :
        /\ store.tail + Len(page) <= MaxOffset /\ Fits(store, page)
        /\ WellFormed(store.log \o page) /\ Commit(Enqueue(store, page), "stack")
    BY DEF TryEnqueue
  <2> QED BY <2>1, Zenon DEF Cat
<1>2. PICK t : t = Enqueue(store, page)
  OBVIOUS
<1>3. pc = "stack" /\ store.control = "ready" /\ loaded' = loaded
  BY DEF TryEnqueue
<1>4. Kept /\ Barriers /\ ~needsReopen /\ needsReopen \in BOOLEAN
  BY <1>3 DEF OutboxInv, Barriers
<1>5. Good(store) /\ Turns(store, store)
  BY <1>4, KeptStore
<1>6. PICK s : s = store
  OBVIOUS
<1>7. /\ Good(t) /\ t.head = s.head /\ Len(s.log) <= Len(t.log)
      /\ \A i \in 1..Len(s.log) : t.log[i] = s.log[i]
  BY <1>1, <1>2, <1>3, <1>5, <1>6, EnqueueGood
<1>8. Grown(t, store)
  BY <1>6, <1>7 DEF Grown
<1>9. Commit(t, "stack")
  BY <1>1, <1>2
<1>10. /\ Kept'
       /\ \/ store' = t /\ pc' = "stack" /\ needsReopen' = FALSE
          \/ store' = store /\ pc' = "finish" /\ needsReopen' = TRUE
  BY <1>4, <1>7, <1>8, <1>9, CommitKeeps
<1>11. Barriers' /\ InHand'
  BY <1>10 DEF Barriers, InHand, PCs, Delivering
<1> QED BY <1>5, <1>8, <1>10, <1>11 DEF OutboxInv, Turns

\* Exhausted offsets keep it: the outbox is what it was.
LEMMA ExhaustedStep ==
  ASSUME OutboxInv, Exhausted
  PROVE  OutboxInv' /\ Turns(store', store)
<1>1. PICK t : t = [store EXCEPT !.pinned = TRUE]
  OBVIOUS
<1>2. pc = "stack" /\ Commit(t, "fail")
  BY <1>1, Zenon DEF Exhausted
<1>3. Kept /\ Barriers /\ ~needsReopen /\ needsReopen \in BOOLEAN
  BY <1>2 DEF OutboxInv, Barriers
<1>4. Good(store) /\ Turns(store, store)
  BY <1>3, KeptStore
<1>5. PICK s : s = store
  OBVIOUS
<1>6. Good(t) /\ t.log = s.log /\ t.head = s.head
  BY <1>1, <1>4, <1>5, PinGood
<1>7. Drained(t, store)
  BY <1>4, <1>5, <1>6, BehindItself DEF Drained
<1>8. /\ Kept'
      /\ \/ store' = t /\ pc' = "fail" /\ needsReopen' = FALSE
         \/ store' = store /\ pc' = "finish" /\ needsReopen' = TRUE
  BY <1>2, <1>3, <1>6, <1>7, CommitKeeps
<1>9. Barriers' /\ InHand'
  BY <1>8 DEF Barriers, InHand, PCs, Delivering
<1> QED BY <1>4, <1>7, <1>8, <1>9 DEF OutboxInv, Turns

\* The end of the stack keeps it.
LEMMA StackDoneStep ==
  ASSUME OutboxInv, StackDone
  PROVE  OutboxInv' /\ Turns(store', store)
<1>1. pc = "stack" /\ pc' = "load" /\ UNCHANGED <<store, durable, loaded, needsReopen>>
  BY DEF StackDone
<1>2. Kept /\ Barriers
  BY DEF OutboxInv
<1>3. Kept' /\ Turns(store', store)
  BY <1>1, <1>2, KeptFails, KeptStore DEF Barriers
<1>4. Barriers' /\ InHand'
  BY <1>1, <1>2 DEF Barriers, InHand, PCs, Delivering
<1> QED BY <1>3, <1>4 DEF OutboxInv

\* load() keeps it.
LEMMA LoadStep ==
  ASSUME OutboxInv, Load
  PROVE  OutboxInv' /\ Turns(store', store)
<1>1. pc = "load" /\ UNCHANGED <<store, durable, needsReopen>>
  BY DEF Load
<1>2. Kept /\ Barriers
  BY DEF OutboxInv
<1>3. Kept' /\ Turns(store', store)
  BY <1>1, <1>2, KeptFails, KeptStore DEF Barriers
<1>4. CASE store.control # "ready" /\ loaded' = Initialization(store.control = "fresh") /\ pc' = "intent"
  BY <1>1, <1>2, <1>3, <1>4 DEF OutboxInv, Barriers, InHand, PCs, Delivering
<1>5. CASE store.control = "ready" /\ pc' = "sync"
           /\ \E n \in 1..PendingEvents(store) : loaded' = Loaded(store, n)
  <2>1. Batch(store', loaded')
    BY <1>1, <1>5 DEF Batch
  <2> QED BY <1>1, <1>2, <1>3, <1>5, <2>1 DEF OutboxInv, Barriers, InHand, PCs, Delivering
<1>6. CASE pc' = "finish"
  BY <1>1, <1>2, <1>3, <1>6 DEF OutboxInv, Barriers, InHand, PCs, Delivering
<1> QED BY <1>4, <1>5, <1>6 DEF Load

\* A failure at the target or at a barrier keeps it.
LEMMA FailStopStep ==
  ASSUME OutboxInv, FailStop, UNCHANGED <<store, durable>>
  PROVE  OutboxInv' /\ Turns(store', store)
<1>1. Kept /\ Barriers /\ needsReopen \in BOOLEAN
  BY DEF OutboxInv, Barriers
<1>2. pc' = "finish" /\ needsReopen' = TRUE
  BY DEF FailStop
<1>3. Kept' /\ Turns(store', store)
  BY <1>1, <1>2, KeptFails, KeptStore
<1> QED BY <1>2, <1>3 DEF OutboxInv, Barriers, InHand, PCs, Delivering

\* The intent to create the target keeps it.
LEMMA PersistInitializeStep ==
  ASSUME OutboxInv, NEW absent, PersistInitialize(absent)
  PROVE  OutboxInv' /\ Turns(store', store)
<1>1. pc = "intent" /\ loaded' = loaded
  BY DEF PersistInitialize
<1>2. Kept /\ Barriers /\ ~needsReopen /\ needsReopen \in BOOLEAN
  BY <1>1 DEF OutboxInv, Barriers
<1>3. Good(store) /\ Turns(store, store)
  BY <1>2, KeptStore
<1>4. store.control # "ready" /\ loaded = Initialization(store.control = "fresh")
  BY <1>1 DEF OutboxInv, InHand
<1>5. CASE Commit([store EXCEPT !.control = "initialize"], "sync")
  <2>1. PICK t : t = [store EXCEPT !.control = "initialize"]
    OBVIOUS
  <2>2. Good(t) /\ t.control = "initialize" /\ t.log = store.log /\ t.head = store.head
    BY <1>3, <1>4, <2>1, ControlGood
  <2>3. store.head.offset \in Nat
    BY <1>3, BehindItself
  <2>4. Drained(t, store)
    BY <2>2, <2>3 DEF Drained
  <2>5. Commit(t, "sync")
    BY <1>5, <2>1
  <2>6. /\ Kept'
        /\ \/ store' = t /\ pc' = "sync" /\ needsReopen' = FALSE
           \/ store' = store /\ pc' = "finish" /\ needsReopen' = TRUE
    BY <1>2, <2>2, <2>4, <2>5, CommitKeeps
  <2>7. Initializes(t, loaded')
    BY <1>1, <1>4, <2>2 DEF Initializes
  <2>8. Barriers' /\ InHand'
    BY <2>6, <2>7 DEF Barriers, InHand, PCs, Delivering
  <2> QED BY <1>3, <2>4, <2>6, <2>8 DEF OutboxInv, Turns
<1>6. CASE FailStop /\ UNCHANGED <<store, durable>>
  BY <1>6, FailStopStep
<1>7. CASE ~loaded.fresh /\ pc' = "sync" /\ UNCHANGED <<store, durable, needsReopen>>
  <2>1. store.control = "initialize"
    BY <1>3, <1>4, <1>7, StoreFields DEF Good, Initialization
  <2>2. Initializes(store, loaded)
    BY <1>4, <2>1 DEF Initializes
  <2>3. Kept'
    BY <1>2, <1>7, KeptFails
  <2> QED BY <1>1, <1>2, <1>3, <1>7, <2>2, <2>3 DEF OutboxInv, Barriers, InHand, PCs, Delivering
<1> QED BY <1>5, <1>6, <1>7 DEF PersistInitialize

\* The barrier before a delivery keeps it.
LEMMA SyncStep ==
  ASSUME OutboxInv, Sync
  PROVE  OutboxInv' /\ Turns(store', store)
<1>1. pc = "sync" /\ UNCHANGED <<store, loaded>>
  BY DEF Sync
<1>2. Kept /\ Barriers /\ ~needsReopen /\ needsReopen \in BOOLEAN
  BY <1>1 DEF OutboxInv, Barriers
<1>3. CASE durable' = {store} /\ pc' = "deliver" /\ needsReopen' = needsReopen
  <2>1. Kept' /\ Turns(store', store)
    BY <1>1, <1>2, <1>3, KeptSyncs, KeptStore
  <2> QED BY <1>1, <1>2, <1>3, <2>1 DEF OutboxInv, Barriers, InHand, PCs, Delivering
<1>4. CASE FailStop /\ UNCHANGED durable
  BY <1>1, <1>4, FailStopStep
<1> QED BY <1>3, <1>4 DEF Sync

\* A step of a delivery, whatever it does to the target, keeps it.
LEMMA DeliveryStep ==
  ASSUME OutboxInv, pc \in Delivering, pc' \in Delivering,
         UNCHANGED <<store, durable, loaded, needsReopen>>
  PROVE  OutboxInv' /\ Turns(store', store)
<1>1. Kept /\ Barriers
  BY DEF OutboxInv
<1>2. Kept' /\ Turns(store', store)
  BY <1>1, KeptFails, KeptStore DEF Barriers
<1> QED BY <1>1, <1>2 DEF OutboxInv, Barriers, InHand, PCs, Delivering

\* The store after a settlement.
LEMMA SettledGood ==
  ASSUME OutboxInv, pc = "settle",
         NEW t, t = IF IsInitialization THEN [store EXCEPT !.control = "ready"]
                                        ELSE Settle(store, loaded)
  PROVE  /\ Good(t) /\ t.control = "ready" /\ t.log = store.log /\ t.tail = store.tail
         /\ \/ Initializes(store, loaded) /\ t.head = store.head
            \/ Batch(store, loaded)
               /\ \E n \in 1..PendingEvents(store) :
                    loaded = Loaded(store, n) /\ t.head.offset = store.head.offset + n
<1>1. Good(store)
  BY KeptStore DEF OutboxInv
<1>2. CASE Initializes(store, loaded)
  <2>1. t = [store EXCEPT !.control = "ready"] /\ store.control # "ready"
    BY <1>1, <1>2, HandIs DEF IsInitialization, Initializes
  <2>2. Good(t) /\ t.control = "ready" /\ t.log = store.log /\ t.tail = store.tail /\ t.head = store.head
    BY <1>1, <2>1, ControlGood
  <2> QED BY <1>2, <2>2
<1>3. CASE Batch(store, loaded)
  <2>1. PICK n \in 1..PendingEvents(store) : loaded = Loaded(store, n)
    BY <1>3 DEF Batch
  <2>2. t = Settle(store, Loaded(store, n))
    BY <1>1, <1>3, <2>1, HandIs DEF IsInitialization
  <2>3. PICK b : b = Loaded(store, n)
    OBVIOUS
  <2>4. PICK s : s = store
    OBVIOUS
  <2>5. Good(t) /\ t.control = s.control /\ t.log = s.log /\ t.tail = s.tail
        /\ t.head.offset = s.head.offset + n
    <3>1. Good(s) /\ n \in 1..PendingEvents(s) /\ b = Loaded(s, n) /\ t = Settle(s, b)
      BY <1>1, <2>2, <2>3, <2>4, Zenon
    <3>2. Settled(s, n, t)
      BY <3>1, SettleGood
    <3> QED BY <3>2 DEF Settled
  <2> QED BY <1>3, <2>1, <2>4, <2>5 DEF Batch
<1> QED BY <1>2, <1>3 DEF OutboxInv, InHand, Delivering

\* A settlement keeps it.
LEMMA SettleLoadedStep ==
  ASSUME OutboxInv, SettleLoaded
  PROVE  OutboxInv' /\ Turns(store', store)
<1>1. PICK t : t = IF IsInitialization THEN [store EXCEPT !.control = "ready"]
                                       ELSE Settle(store, loaded)
  OBVIOUS
<1>2. pc = "settle" /\ Commit(t, "finish")
  BY <1>1 DEF SettleLoaded
<1>3. Kept /\ Barriers /\ ~needsReopen /\ needsReopen \in BOOLEAN
  BY <1>2 DEF OutboxInv, Barriers
<1>4. Good(store) /\ Turns(store, store)
  BY <1>3, KeptStore
<1>5. store.head.offset \in Nat /\ store.tail \in Nat
  BY <1>4, StoreFields DEF Good
<1>6. Good(t) /\ t.log = store.log /\ store.head.offset <= t.head.offset
  <2>1. /\ Good(t) /\ t.log = store.log
        /\ \/ t.head = store.head
           \/ \E n \in 1..PendingEvents(store) : t.head.offset = store.head.offset + n
    BY <1>1, <1>2, SettledGood
  <2> QED BY <1>5, <2>1
<1>7. Drained(t, store)
  BY <1>6 DEF Drained
<1>8. /\ Kept'
      /\ \/ store' = t /\ pc' = "finish" /\ needsReopen' = FALSE
         \/ store' = store /\ pc' = "finish" /\ needsReopen' = TRUE
  BY <1>2, <1>3, <1>6, <1>7, CommitKeeps
<1>9. Barriers' /\ InHand'
  BY <1>8 DEF Barriers, InHand, PCs, Delivering
<1> QED BY <1>4, <1>7, <1>8, <1>9 DEF OutboxInv, Turns

\* The end of a round keeps it.
LEMMA FinishStep ==
  ASSUME OutboxInv, Finish
  PROVE  OutboxInv' /\ Turns(store', store)
<1>1. pc \in {"finish", "fail"} /\ store' = store
  BY DEF Finish
<1>2. Kept /\ Barriers /\ needsReopen \in BOOLEAN
  BY DEF OutboxInv, Barriers
<1>3. CASE ~needsReopen /\ durable' = {store} /\ pc' \in {"stack", "closed"} /\ needsReopen' = needsReopen
  <2>1. Kept' /\ Turns(store', store)
    BY <1>1, <1>2, <1>3, KeptSyncs, KeptStore
  <2> QED BY <1>1, <1>2, <1>3, <2>1 DEF OutboxInv, Barriers, InHand, PCs, Delivering
<1>4. CASE pc' = "closed" /\ needsReopen' \in {needsReopen, TRUE} /\ durable' = durable
  <2>1. Kept' /\ Turns(store', store)
    BY <1>1, <1>2, <1>4, KeptFails, KeptStore
  <2> QED BY <1>1, <1>2, <1>4, <2>1 DEF OutboxInv, Barriers, InHand, PCs, Delivering
<1> QED BY <1>3, <1>4 DEF Finish

\* A crash or a close leaves one of the stores.
LEMMA StopStep ==
  ASSUME OutboxInv, Stop
  PROVE  OutboxInv' /\ Turns(store', store) /\ store' \in durable
<1>1. PICK s \in durable : store' = s /\ durable' = {s}
  BY DEF Stop
<1>2. pc' = "down" /\ needsReopen' = FALSE
  BY DEF Stop
<1>3. Good(s) /\ Turns(s, store)
  BY DEF OutboxInv, Kept, KeptIn, Beside, Turns
<1>4. Behind(s, s)
  BY <1>3, BehindItself
<1>5. KeptIn({s}, s, FALSE)
  BY <1>3, <1>4, Zenon DEF KeptIn, Beside
<1>6. Kept'
  BY <1>1, <1>2, <1>5 DEF Kept
<1>7. Barriers' /\ InHand'
  BY <1>1, <1>2 DEF Barriers, InHand, PCs, Delivering
<1> QED BY <1>1, <1>3, <1>6, <1>7 DEF OutboxInv

\* Opening the store keeps it.
LEMMA OpenStep ==
  ASSUME OutboxInv, Open
  PROVE  OutboxInv' /\ Turns(store', store)
<1>1. pc = "down" /\ pc' = "stack" /\ UNCHANGED <<store, durable, loaded, needsReopen>>
  BY DEF Open
<1>2. Kept /\ Barriers
  BY DEF OutboxInv
<1>3. Kept' /\ Turns(store', store)
  BY <1>1, <1>2, KeptFails, KeptStore DEF Barriers
<1> QED BY <1>1, <1>2, <1>3 DEF OutboxInv, Barriers, InHand, PCs, Delivering

\* A step of the target alone keeps it.
LEMMA OutboxSame ==
  ASSUME OutboxInv, UNCHANGED <<store, durable, pc, loaded, needsReopen>>
  PROVE  OutboxInv' /\ Turns(store', store)
<1>1. Turns(store', store)
  BY KeptStore DEF OutboxInv
<1> QED BY <1>1 DEF OutboxInv, Kept, Barriers, InHand

\* A new store has the invariant.
LEMMA OutboxInitInv == OutboxInit => OutboxInv
<1> SUFFICES ASSUME OutboxInit PROVE OutboxInv
  OBVIOUS
<1>1. Good(EmptyStore) /\ Behind(EmptyStore, EmptyStore)
  BY EmptyGood, BehindItself
<1>2. Kept
  BY <1>1 DEF OutboxInit, Kept, KeptIn, Beside
<1> QED BY <1>2 DEF OutboxInit, OutboxInv, Barriers, InHand, PCs, Delivering

\* What the invariant says of the buffers.
LEMMA OutboxBuffers == OutboxInv => BuffersAreValid
<1> SUFFICES ASSUME OutboxInv, NEW s \in durable
             PROVE  ValidBuffer(s) /\ s.tail = Len(s.log) + 1 /\ s.tail <= MaxOffset
  BY DEF BuffersAreValid
<1>1. Good(s)
  BY DEF OutboxInv, Kept, KeptIn
<1> QED BY <1>1, GoodValid DEF Good

-----------------------------------------------------------------------------
(* Ranks: how many elements of a set of numbers are smaller.               *)

Lower(S, x) == {y \in S : y < x}
Rank(S, x) == Cardinality(Lower(S, x))

\* A finite set of numbers.
Numbers(S) == S \in SUBSET Nat /\ IsFiniteSet(S)

\* A finite set of numbers has a bound.
LEMMA NumbersBounded ==
  ASSUME NEW S \in SUBSET Nat, IsFiniteSet(S)
  PROVE  \E m \in Nat : S \in SUBSET (0..(m - 1))
<1> DEFINE Bounded(T) == \E m \in Nat : T \in SUBSET (0..(m - 1))
           D == {n \in Nat : \A T \in SUBSET Nat : IsFiniteSet(T) /\ Cardinality(T) = n => Bounded(T)}
<1>1. 0 \in D
  <2> SUFFICES ASSUME NEW T \in SUBSET Nat, IsFiniteSet(T), Cardinality(T) = 0 PROVE Bounded(T)
    OBVIOUS
  <2>1. T = {}
    BY FS_EmptySet
  <2>2. T \in SUBSET (0..(0 - 1)) /\ 0 \in Nat
    BY <2>1
  <2> QED BY <2>2
<1>2. ASSUME NEW n \in Nat, n \in D PROVE n + 1 \in D
  <2> SUFFICES ASSUME NEW T \in SUBSET Nat, IsFiniteSet(T), Cardinality(T) = n + 1 PROVE Bounded(T)
    OBVIOUS
  <2>1. T # {}
    <3>1. Cardinality({}) = 0
      BY FS_EmptySet
    <3> QED BY <3>1
  <2>2. PICK x \in T : TRUE
    BY <2>1
  <2>3. IsFiniteSet(T \ {x}) /\ Cardinality(T \ {x}) = n /\ T \ {x} \in SUBSET Nat
    BY <2>2, FS_RemoveElement
  <2>4. PICK m \in Nat : T \ {x} \in SUBSET (0..(m - 1))
    BY <1>2, <2>3
  <2>5. PICK k \in Nat : k = IF x < m THEN m ELSE x + 1
    BY <2>2
  <2>6. T \in SUBSET (0..(k - 1))
    BY <2>4, <2>5
  <2> QED BY <2>6
<1>3. ASSUME NEW T \in SUBSET Nat, IsFiniteSet(T), Cardinality(T) \in D PROVE Bounded(T)
  BY <1>3
<1> HIDE DEF D
<1>4. \A n \in Nat : n \in D
  <2> HIDE DEF Bounded
  <2> QED BY <1>1, <1>2, SetInduction
<1>5. Cardinality(S) \in Nat
  BY FS_CardinalityType
<1> QED BY <1>3, <1>4, <1>5

\* Subsets, unions and differences of finite sets of numbers.
LEMMA NumbersParts ==
  ASSUME NEW S, Numbers(S), NEW T \in SUBSET S
  PROVE  /\ Numbers(T) /\ Cardinality(T) \in Nat /\ Cardinality(S) \in Nat
         /\ Cardinality(T) <= Cardinality(S)
         /\ Cardinality(S) = Cardinality(T) => S = T
<1>1. IsFiniteSet(S) /\ T \in SUBSET Nat
  BY DEF Numbers
<1>2. IsFiniteSet(T) /\ Cardinality(T) <= Cardinality(S) /\ (Cardinality(S) = Cardinality(T) => S = T)
  BY <1>1, FS_Subset
<1>3. Cardinality(T) \in Nat /\ Cardinality(S) \in Nat
  BY <1>1, <1>2, FS_CardinalityType
<1> QED BY <1>1, <1>2, <1>3 DEF Numbers

\* The size of a union of two sets without common elements.
LEMMA NumbersUnion ==
  ASSUME NEW S, Numbers(S), NEW T, Numbers(T), S \cap T = {}
  PROVE  Numbers(S \cup T) /\ Cardinality(S \cup T) = Cardinality(S) + Cardinality(T)
<1>1. IsFiniteSet(S) /\ IsFiniteSet(T) /\ S \cup T \in SUBSET Nat
  BY DEF Numbers
<1>2. IsFiniteSet(S \cup T)
      /\ Cardinality(S \cup T) = Cardinality(S) + Cardinality(T) - Cardinality(S \cap T)
  BY <1>1, FS_Union
<1>3. Cardinality(S \cap T) = 0
  BY FS_EmptySet
<1>4. Cardinality(S) \in Nat /\ Cardinality(T) \in Nat
  BY <1>1, FS_CardinalityType
<1> QED BY <1>1, <1>2, <1>3, <1>4 DEF Numbers

\* Ranks are numbers, below the size for an element.
LEMMA RankType ==
  ASSUME NEW S, Numbers(S), NEW x
  PROVE  /\ Rank(S, x) \in Nat /\ Cardinality(S) \in Nat /\ Rank(S, x) <= Cardinality(S)
         /\ Numbers(Lower(S, x))
         /\ x \in S => Rank(S, x) < Cardinality(S)
<1>1. Lower(S, x) \in SUBSET S
  BY DEF Lower
<1>2. /\ Rank(S, x) \in Nat /\ Cardinality(S) \in Nat /\ Rank(S, x) <= Cardinality(S)
      /\ Numbers(Lower(S, x)) /\ (Cardinality(S) = Rank(S, x) => S = Lower(S, x))
  BY <1>1, NumbersParts DEF Rank
<1>3. x \in S => S # Lower(S, x)
  BY DEF Lower, Numbers
<1> QED BY <1>2, <1>3

\* They grow with the elements.
LEMMA RankGrows ==
  ASSUME NEW S, Numbers(S), NEW x \in S, NEW z \in Nat, x < z
  PROVE  Rank(S, x) < Rank(S, z)
<1>1. Numbers(Lower(S, z)) /\ Rank(S, z) \in Nat /\ Rank(S, x) \in Nat
  BY RankType
<1>2. x \in Nat
  BY DEF Numbers
<1>3. Lower(S, x) \in SUBSET Lower(S, z)
  <2>1. ASSUME NEW y \in S, y < x PROVE y < z
    <3>1. y \in Nat
      BY DEF Numbers
    <3> QED BY <1>2, <2>1, <3>1
  <2> QED BY <2>1 DEF Lower
<1>4. Lower(S, x) # Lower(S, z)
  BY <1>2 DEF Lower
<1>5. Rank(S, x) <= Rank(S, z) /\ Rank(S, x) # Rank(S, z)
  BY <1>1, <1>3, <1>4, NumbersParts DEF Rank
<1> QED BY <1>1, <1>5

\* So different elements have different ranks, and a smaller rank means a smaller element.
LEMMA RankOrders ==
  ASSUME NEW S, Numbers(S), NEW x \in S, NEW z \in S
  PROVE  /\ Rank(S, x) < Rank(S, z) <=> x < z
         /\ Rank(S, x) = Rank(S, z) => x = z
<1>1. x \in Nat /\ z \in Nat /\ Rank(S, x) \in Nat /\ Rank(S, z) \in Nat
  BY RankType DEF Numbers
<1>2. x < z => Rank(S, x) < Rank(S, z)
  BY <1>1, RankGrows
<1>3. z < x => Rank(S, z) < Rank(S, x)
  BY <1>1, RankGrows
<1> QED BY <1>1, <1>2, <1>3

\* Every number below the size is the rank of an element.
LEMMA RankOnto ==
  ASSUME NEW S, Numbers(S), NEW n \in Nat, n < Cardinality(S)
  PROVE  \E x \in S : Rank(S, x) = n
<1> DEFINE Onto(T) == \A k \in Nat : k < Cardinality(T) => \E x \in T : Rank(T, x) = k
           D == {m \in Nat : \A T \in SUBSET (0..(m - 1)) : Onto(T)}
<1>0. ASSUME NEW m \in Nat, NEW T \in SUBSET (0..(m - 1)) PROVE Numbers(T)
  <2>1. IsFiniteSet(0..(m - 1))
    BY FS_Interval
  <2>2. Numbers(0..(m - 1))
    BY <2>1 DEF Numbers
  <2> QED BY <2>2, NumbersParts
<1>1. 0 \in D
  <2> SUFFICES ASSUME NEW T \in SUBSET (0..(0 - 1)) PROVE Onto(T)
    OBVIOUS
  <2>1. T = {} /\ Cardinality(T) = 0
    <3>1. T = {}
      OBVIOUS
    <3> QED BY <3>1, FS_EmptySet
  <2> QED BY <2>1
<1>2. ASSUME NEW m \in Nat, m \in D PROVE m + 1 \in D
  <2> SUFFICES ASSUME NEW T \in SUBSET (0..(m + 1 - 1)), NEW k \in Nat, k < Cardinality(T)
               PROVE  \E x \in T : Rank(T, x) = k
    OBVIOUS
  <2>1. Numbers(T)
    <3>1. m + 1 \in Nat
      OBVIOUS
    <3> QED BY <1>0, <3>1
  <2>0. ASSUME NEW y \in T PROVE y \in Nat /\ y <= m /\ (y # m => y \in 0..(m - 1) /\ y < m)
    <3>1. y \in 0..(m + 1 - 1)
      OBVIOUS
    <3> QED BY <3>1
  <2>2. PICK U \in SUBSET (0..(m - 1)) : U = T \ {m}
    BY <2>0
  <2>3. Onto(U) /\ Numbers(U)
    BY <1>0, <1>2
  <2>4. CASE m \notin T
    <3>1. U = T
      BY <2>2, <2>4
    <3> QED BY <2>3, <3>1
  <2>5. CASE m \in T
    <3>1. Cardinality(U) \in Nat /\ Cardinality(T) = Cardinality(U) + 1
      <4>1. IsFiniteSet(T) /\ IsFiniteSet(U)
        BY <2>1, <2>3 DEF Numbers
      <4>2. Cardinality(U) = Cardinality(T) - 1
        BY <2>2, <2>5, <4>1, FS_RemoveElement
      <4> QED BY <4>1, <4>2, FS_CardinalityType
    <3>2. CASE k < Cardinality(U)
      <4>1. PICK x \in U : Rank(U, x) = k
        BY <2>3, <3>2
      <4>2. Lower(T, x) = Lower(U, x) /\ x \in T
        BY <2>2, <4>1 DEF Lower
      <4> QED BY <4>1, <4>2 DEF Rank
    <3>3. CASE k = Cardinality(U)
      <4>1. Lower(T, m) = U
        <5>1. ASSUME NEW y \in T PROVE y < m <=> y # m
          BY <2>0
        <5> QED BY <2>2, <5>1 DEF Lower
      <4> QED BY <2>5, <3>3, <4>1 DEF Rank
    <3> QED BY <3>1, <3>2, <3>3
  <2> QED BY <2>4, <2>5
<1>3. ASSUME NEW m \in D, NEW T \in SUBSET (0..(m - 1)) PROVE Onto(T)
  OBVIOUS
<1> HIDE DEF D
<1>4. \A m \in Nat : m \in D
  <2> HIDE DEF Onto
  <2> QED BY <1>1, <1>2, SetInduction
<1>5. PICK m \in Nat : S \in SUBSET (0..(m - 1))
  <2>1. IsFiniteSet(S) /\ S \in SUBSET Nat
    BY DEF Numbers
  <2> QED BY <2>1, NumbersBounded
<1>6. Onto(S)
  BY <1>3, <1>4, <1>5
<1> QED BY <1>6

\* The n smallest elements are those of rank below n.
Selects(S, n, T) ==
  /\ T \in SUBSET S /\ Numbers(T) /\ Cardinality(T) \in Nat /\ Cardinality(T) <= n
  /\ Cardinality(S) <= n => T = S
  /\ n <= Cardinality(S) => Cardinality(T) = n
  /\ \A x \in S : x \in T <=> Rank(S, x) < n

\* So there are n of them, or all.
LEMMA SmallestIs ==
  ASSUME NEW S, Numbers(S), NEW n \in Nat
  PROVE  Selects(S, n, Smallest(S, n))
<1>1. Smallest(S, n) \in SUBSET S /\ \A x \in S : x \in Smallest(S, n) <=> Rank(S, x) < n
  BY DEF Smallest, Rank, Lower
<1>2. /\ Numbers(Smallest(S, n)) /\ Cardinality(Smallest(S, n)) \in Nat /\ Cardinality(S) \in Nat
      /\ Cardinality(Smallest(S, n)) <= Cardinality(S)
  BY <1>1, NumbersParts
<1>3. ASSUME Cardinality(S) <= n PROVE Smallest(S, n) = S
  <2>1. \A x \in S : Rank(S, x) < n
    BY <1>2, <1>3, RankType
  <2> QED BY <1>1, <2>1
<1>4. ASSUME n < Cardinality(S) PROVE Cardinality(Smallest(S, n)) = n
  <2>1. PICK x \in S : Rank(S, x) = n
    BY <1>4, RankOnto
  <2>2. \A y \in S : Rank(S, y) < Rank(S, x) <=> y < x
    BY RankOrders
  <2>3. Smallest(S, n) = Lower(S, x)
    BY <1>1, <2>1, <2>2 DEF Lower
  <2> QED BY <2>1, <2>3 DEF Rank
<1>5. n = Cardinality(S) => Cardinality(Smallest(S, n)) = n
  BY <1>2, <1>3
<1>6. Cardinality(Smallest(S, n)) <= n
  BY <1>2, <1>4, <1>5
<1> QED BY <1>1, <1>2, <1>3, <1>4, <1>5, <1>6 DEF Selects

-----------------------------------------------------------------------------
(* The events of a row in a part of the log.                               *)

Evs(log, a, e, r, sign) == {o \in a..(e - 1) : log[o] = [row |-> r, sign |-> sign]}

\* They are finitely many numbers in that part.
LEMMA EvsType ==
  ASSUME NEW log, NEW a \in Nat, NEW e \in Nat, NEW r, NEW sign
  PROVE  /\ Numbers(Evs(log, a, e, r, sign)) /\ Cardinality(Evs(log, a, e, r, sign)) \in Nat
         /\ \A o \in Evs(log, a, e, r, sign) : o \in Nat /\ a <= o /\ o < e
<1>1. IsFiniteSet(a..(e - 1))
  BY FS_Interval
<1>2. Numbers(a..(e - 1))
  BY <1>1 DEF Numbers
<1>3. Evs(log, a, e, r, sign) \in SUBSET (a..(e - 1))
  BY DEF Evs
<1>4. Numbers(Evs(log, a, e, r, sign)) /\ Cardinality(Evs(log, a, e, r, sign)) \in Nat
  BY <1>2, <1>3, NumbersParts
<1>5. \A o \in Evs(log, a, e, r, sign) : o \in Nat /\ a <= o /\ o < e
  BY <1>3
<1> QED BY <1>4, <1>5

\* A part and the part behind it.
SplitAt(log, a, f, e, r, sign) ==
  /\ Evs(log, a, e, r, sign) = Evs(log, a, f, r, sign) \cup Evs(log, f, e, r, sign)
  /\ \A x \in Evs(log, a, f, r, sign), y \in Evs(log, f, e, r, sign) : x < y
  /\ Cardinality(Evs(log, a, e, r, sign))
       = Cardinality(Evs(log, a, f, r, sign)) + Cardinality(Evs(log, f, e, r, sign))

\* Every part splits at every offset.
LEMMA EvsSplit ==
  ASSUME NEW log, NEW a \in Nat, NEW f \in Nat, NEW e \in Nat, a <= f, f <= e, NEW r, NEW sign
  PROVE  SplitAt(log, a, f, e, r, sign)
<1> DEFINE L == Evs(log, a, f, r, sign)
           H == Evs(log, f, e, r, sign)
<1>1. Numbers(L) /\ Numbers(H) /\ (\A x \in L : x \in Nat /\ x < f) /\ (\A y \in H : y \in Nat /\ f <= y)
  BY EvsType
<1>2. Evs(log, a, e, r, sign) = L \cup H
  BY DEF Evs
<1> HIDE DEF L, H
<1>3. L \cap H = {} /\ \A x \in L, y \in H : x < y
  BY <1>1
<1>4. Cardinality(L \cup H) = Cardinality(L) + Cardinality(H)
  BY <1>1, <1>3, NumbersUnion
<1>5. Cardinality(Evs(log, a, e, r, sign)) = Cardinality(L) + Cardinality(H)
  BY <1>2, <1>4, Zenon
<1> QED BY <1>2, <1>3, <1>5 DEF L, H, SplitAt

\* The part before an offset.
LEMMA EvsLower ==
  ASSUME NEW log, NEW a \in Nat, NEW f \in Nat, NEW e \in Nat, f <= e, NEW r, NEW sign
  PROVE  Lower(Evs(log, a, e, r, sign), f) = Evs(log, a, f, r, sign)
<1>1. ASSUME NEW o \in Nat PROVE o \in a..(e - 1) /\ o < f <=> o \in a..(f - 1)
  OBVIOUS
<1>2. ASSUME NEW o \in Lower(Evs(log, a, e, r, sign), f) PROVE o \in Evs(log, a, f, r, sign)
  BY DEF Lower, Evs
<1>3. ASSUME NEW o \in Evs(log, a, f, r, sign) PROVE o \in Lower(Evs(log, a, e, r, sign), f)
  BY DEF Lower, Evs
<1> QED BY <1>2, <1>3

\* The weight of a row in the beginning of a log counts these events.
LEMMA WeightIs ==
  ASSUME NEW log \in Seq(Event), NEW n \in Nat, n <= Len(log), NEW r
  PROVE  Weight(SubSeq(log, 1, n), r)
           = Cardinality(Evs(log, 1, n + 1, r, 1)) - Cardinality(Evs(log, 1, n + 1, r, -1))
<1>1. PICK part : part = SubSeq(log, 1, n)
  OBVIOUS
<1>2. DOMAIN part = 1..n /\ \A i \in 1..n : part[i] = log[i]
  BY <1>1
<1>3. n + 1 - 1 = n
  OBVIOUS
<1>4. ASSUME NEW sign
      PROVE  {i \in DOMAIN part : part[i] = [row |-> r, sign |-> sign]} = Evs(log, 1, n + 1, r, sign)
  BY <1>2, <1>3 DEF Evs
<1>5. Weight(part, r) = Cardinality(Evs(log, 1, n + 1, r, 1)) - Cardinality(Evs(log, 1, n + 1, r, -1))
  BY <1>4 DEF Weight
<1> QED BY <1>1, <1>5, Zenon

\* In what the flow sends, deletions never outnumber insertions.
LEMMA Balanced ==
  ASSUME NEW log \in Seq(Event), WellFormed(log), NEW e \in Nat, 1 <= e, e <= Len(log) + 1, NEW r \in Row
  PROVE  Cardinality(Evs(log, 1, e, r, -1)) <= Cardinality(Evs(log, 1, e, r, 1))
<1>1. Len(log) \in Nat /\ DOMAIN log = 1..Len(log)
  OBVIOUS
<1>2. CASE e = 1
  <2>1. Evs(log, 1, e, r, -1) = {} /\ Evs(log, 1, e, r, 1) = {}
    BY <1>2 DEF Evs
  <2>2. Cardinality({}) = 0
    BY FS_EmptySet
  <2>3. Cardinality(Evs(log, 1, e, r, -1)) = 0 /\ Cardinality(Evs(log, 1, e, r, 1)) = 0
    BY <2>1, <2>2, Zenon
  <2> QED BY <2>3
<1>3. CASE e # 1
  <2>1. PICK n \in 1..Len(log) : e = n + 1
    BY <1>1, <1>3
  <2>2. Weight(SubSeq(log, 1, n), r) >= 0
    BY <1>1 DEF WellFormed
  <2>3. Weight(SubSeq(log, 1, n), r)
          = Cardinality(Evs(log, 1, e, r, 1)) - Cardinality(Evs(log, 1, e, r, -1))
    BY <2>1, WeightIs
  <2>4. PICK b \in Nat : b = Cardinality(Evs(log, 1, e, r, 1))
    BY EvsType
  <2>5. PICK d \in Nat : d = Cardinality(Evs(log, 1, e, r, -1))
    BY EvsType
  <2>6. b - d >= 0
    BY <2>2, <2>3, <2>4, <2>5, Zenon
  <2> QED BY <2>4, <2>5, <2>6
<1> QED BY <1>2, <1>3

\* Before a deletion of a row there were more births of it than deaths.
LEMMA DeletionIsCovered ==
  ASSUME NEW log \in Seq(Event), WellFormed(log), NEW f \in Nat, NEW e \in Nat, 1 <= f, e <= Len(log) + 1,
         NEW r \in Row, NEW o \in Evs(log, f, e, r, -1)
  PROVE  Cardinality(Evs(log, 1, f, r, -1)) + Rank(Evs(log, f, e, r, -1), o) + 1
           <= Cardinality(Evs(log, 1, f, r, 1)) + Rank(Evs(log, f, e, r, 1), o)
<1>1. o \in Nat /\ f <= o /\ o < e /\ log[o] = [row |-> r, sign |-> -1]
  BY DEF Evs
<1>2. \A sign : Lower(Evs(log, f, e, r, sign), o) = Evs(log, f, o, r, sign)
  BY <1>1, EvsLower
<1>3. \A sign : Rank(Evs(log, f, e, r, sign), o) = Cardinality(Evs(log, f, o, r, sign))
  BY <1>2, Zenon DEF Rank
<1>4. \A sign : Cardinality(Evs(log, 1, o, r, sign))
                  = Cardinality(Evs(log, 1, f, r, sign)) + Cardinality(Evs(log, f, o, r, sign))
  <2>1. \A sign : SplitAt(log, 1, f, o, r, sign)
    BY <1>1, EvsSplit
  <2> QED BY <2>1 DEF SplitAt
<1>5. \A sign : Cardinality(Evs(log, 1, o + 1, r, sign))
                  = Cardinality(Evs(log, 1, o, r, sign)) + Cardinality(Evs(log, o, o + 1, r, sign))
  <2>1. o + 1 \in Nat /\ 1 <= o /\ o <= o + 1
    BY <1>1
  <2>2. \A sign : SplitAt(log, 1, o, o + 1, r, sign)
    BY <1>1, <2>1, EvsSplit
  <2> QED BY <2>2 DEF SplitAt
<1>6. Cardinality(Evs(log, o, o + 1, r, -1)) = 1
  <2>1. o..(o + 1 - 1) = {o}
    BY <1>1
  <2>2. Evs(log, o, o + 1, r, -1) = {o}
    BY <1>1, <2>1 DEF Evs
  <2>3. Cardinality({o}) = 1
    BY FS_Singleton
  <2> QED BY <2>2, <2>3, Zenon
<1>7. Cardinality(Evs(log, o, o + 1, r, 1)) = 0
  <2>1. o..(o + 1 - 1) = {o}
    BY <1>1
  <2>2. [row |-> r, sign |-> -1] # [row |-> r, sign |-> 1]
    <3>1. [row |-> r, sign |-> -1].sign # [row |-> r, sign |-> 1].sign
      OBVIOUS
    <3> QED BY <3>1, Zenon
  <2>3. Evs(log, o, o + 1, r, 1) = {}
    BY <1>1, <2>1, <2>2 DEF Evs
  <2>4. Cardinality({}) = 0
    BY FS_EmptySet
  <2> QED BY <2>3, <2>4, Zenon
<1>8. Cardinality(Evs(log, 1, o + 1, r, -1)) <= Cardinality(Evs(log, 1, o + 1, r, 1))
  <2>1. o + 1 \in Nat /\ 1 <= o + 1 /\ o + 1 <= Len(log) + 1
    <3>1. Len(log) \in Nat
      OBVIOUS
    <3> QED BY <1>1, <3>1
  <2> QED BY <2>1, Balanced
<1>9. \A sign : /\ Cardinality(Evs(log, 1, f, r, sign)) \in Nat
                /\ Cardinality(Evs(log, f, o, r, sign)) \in Nat
  BY <1>1, EvsType
<1> QED BY <1>3, <1>4, <1>5, <1>6, <1>7, <1>8, <1>9

\* Of the births of a row before an offset, those that are alive there: all but
\* as many of the oldest as there were deaths.
Alive(log, e, r) ==
  Evs(log, 1, e, r, 1) \ Smallest(Evs(log, 1, e, r, 1), Cardinality(Evs(log, 1, e, r, -1)))

EventsOf(part, r, sign) == {i \in DOMAIN part : part[i] = [row |-> r, sign |-> sign]}

\* The events of a row in the beginning of a log.
LEMMA AppliedEvents ==
  ASSUME NEW log \in Seq(Event), NEW f \in Nat, 1 <= f, f <= Len(log) + 1, NEW r, NEW sign,
         NEW part, part = SubSeq(log, 1, f - 1)
  PROVE  EventsOf(part, r, sign) = Evs(log, 1, f, r, sign)
<1>1. DOMAIN part = 1..(f - 1) /\ \A i \in 1..(f - 1) : part[i] = log[i]
  OBVIOUS
<1> QED BY <1>1 DEF Evs, EventsOf

\* How often the target holds a row.
LEMMA AliveCount ==
  ASSUME NEW log \in Seq(Event), WellFormed(log), NEW f \in Nat, 1 <= f, f <= Len(log) + 1, NEW r \in Row
  PROVE  /\ Cardinality(Alive(log, f, r))
              = Cardinality(Evs(log, 1, f, r, 1)) - Cardinality(Evs(log, 1, f, r, -1))
         /\ Cardinality(Evs(log, 1, f, r, 1)) \in Nat /\ Cardinality(Evs(log, 1, f, r, -1)) \in Nat
<1> DEFINE B == Evs(log, 1, f, r, 1)
<1>1. PICK d \in Nat : d = Cardinality(Evs(log, 1, f, r, -1))
  BY EvsType
<1>2. Numbers(B) /\ Cardinality(B) \in Nat
  BY EvsType
<1>3. d <= Cardinality(B)
  BY <1>1, Balanced
<1> HIDE DEF B
<1>4. Selects(B, d, Smallest(B, d))
  BY <1>2, SmallestIs
<1>5. Smallest(B, d) \in SUBSET B /\ Numbers(Smallest(B, d)) /\ Cardinality(Smallest(B, d)) = d
  BY <1>3, <1>4 DEF Selects
<1>6. Numbers(B \ Smallest(B, d)) /\ Cardinality(B \ Smallest(B, d)) \in Nat
  BY <1>2, NumbersParts
<1>7. Cardinality(Smallest(B, d) \cup (B \ Smallest(B, d))) = d + Cardinality(B \ Smallest(B, d))
  BY <1>5, <1>6, NumbersUnion
<1>8. Smallest(B, d) \cup (B \ Smallest(B, d)) = B
  BY <1>5
<1>9. Cardinality(B) = d + Cardinality(B \ Smallest(B, d))
  BY <1>7, <1>8, Zenon
<1>10. Cardinality(B \ Smallest(B, d)) = Cardinality(B) - d
  BY <1>2, <1>6, <1>9
<1>11. Alive(log, f, r) = B \ Smallest(B, d)
  BY <1>1, Zenon DEF Alive, B
<1>12. Cardinality(Alive(log, f, r)) = Cardinality(B) - d
  BY <1>10, <1>11, Zenon
<1> QED BY <1>1, <1>2, <1>12 DEF B

PrefixOf(c, n) == SubSeq(c, 1, n)

\* A sequence that agrees with a longer one is its beginning.
LEMMA LogPrefix ==
  ASSUME NEW a \in Seq(Event), NEW c \in Seq(Event), Len(a) <= Len(c), \A i \in 1..Len(a) : a[i] = c[i]
  PROVE  PrefixOf(c, Len(a)) = a
<1>1. PICK n \in Nat : n = Len(a)
  OBVIOUS
<1>2. PICK p : p = SubSeq(c, 1, n)
  OBVIOUS
<1>3. p \in Seq(Event) /\ Len(p) = n /\ \A i \in 1..n : p[i] = c[i]
  BY <1>1, <1>2
<1>4. Len(p) = Len(a) /\ \A i \in 1..Len(p) : p[i] = a[i]
  BY <1>1, <1>3
<1>5. p = a
  BY <1>3, <1>4, SeqEqual
<1> QED BY <1>1, <1>2, <1>5, Zenon DEF PrefixOf

-----------------------------------------------------------------------------
(* A loaded batch, as the plan sees it.                                    *)

\* A batch is the part of the log from the head to its end.
Spans(s, b) ==
  /\ First(b) = s.head.offset /\ First(b) \in Nat /\ 1 <= First(b) /\ First(b) < End(b)
  /\ End(b) \in Nat /\ End(b) <= s.tail /\ b.tail = s.tail /\ b.before.entry = s.head.entry
  /\ \A o \in First(b)..(End(b) - 1) : At(b, o) = s.log[o] /\ s.log[o] \in Event

\* load() loads one.
LEMMA BatchSpans ==
  ASSUME NEW s, Good(s), NEW n \in 1..PendingEvents(s), NEW b, Holds(s, n, b)
  PROVE  Spans(s, b) /\ End(b) = s.head.offset + n
<1>1. s \in StoreType /\ HeadFits(s) /\ s.tail = Len(s.log) + 1
  BY DEF Good
<1>2. s.head.offset \in Nat /\ s.head.entry \in Nat /\ s.tail \in Nat /\ s.log \in Seq(Event)
  BY <1>1, StoreFields
<1>3. 1 <= s.head.offset
  BY <1>1, <1>2 DEF HeadFits
<1>4. n \in Nat /\ 1 <= n /\ s.head.offset + n <= s.tail
  BY <1>2 DEF PendingEvents
<1>5. /\ b.before = s.head /\ b.tail = s.tail /\ b.events \in Seq(Event) /\ Len(b.events) = n
      /\ \A i \in 1..n : b.events[i] = s.log[s.head.offset + i - 1]
  BY DEF Holds
<1>6. First(b) = s.head.offset /\ End(b) = s.head.offset + n
  BY <1>5 DEF First, End
<1>7. ASSUME NEW o \in First(b)..(End(b) - 1) PROVE At(b, o) = s.log[o] /\ s.log[o] \in Event
  <2>1. PICK h \in Nat : h = s.head.offset
    BY <1>2
  <2>2. o \in Nat /\ h <= o /\ o < h + n /\ o \in 1..Len(s.log)
    BY <1>1, <1>2, <1>3, <1>4, <1>6, <2>1
  <2>3. PICK i \in 1..n : i = o - h + 1
    BY <1>4, <2>2
  <2>4. h + i - 1 = o
    BY <2>2, <2>3
  <2>5. b.events[i] = s.log[o]
    <3>1. b.events[i] = s.log[h + i - 1]
      BY <1>5, <2>1
    <3> QED BY <2>4, <3>1, Zenon
  <2>6. At(b, o) = b.events[i]
    BY <1>6, <2>1, <2>3, Zenon DEF At
  <2> QED BY <1>2, <2>2, <2>5, <2>6
<1>8. /\ First(b) = s.head.offset /\ First(b) \in Nat /\ 1 <= First(b) /\ First(b) < End(b)
      /\ End(b) \in Nat /\ End(b) <= s.tail
  BY <1>2, <1>3, <1>4, <1>6
<1> QED BY <1>5, <1>6, <1>7, <1>8 DEF Spans

\* The id of a set that the deletion at o takes, if del are the deletions.
TakenBy(supply, del, o) ==
  CHOOSE id \in supply : Cardinality({j \in supply : j < id}) = Cardinality({x \in del : x < o})

\* It is the one with the rank of the deletion.
LEMMA TakenIs ==
  ASSUME NEW supply, Numbers(supply), NEW del, Numbers(del),
         Cardinality(del) <= Cardinality(supply), NEW o \in del
  PROVE  TakenBy(supply, del, o) \in supply /\ Rank(supply, TakenBy(supply, del, o)) = Rank(del, o)
<1>1. Rank(del, o) \in Nat /\ Rank(del, o) < Cardinality(del) /\ Cardinality(del) \in Nat
      /\ Cardinality(supply) \in Nat
  BY RankType
<1>2. \E id \in supply : Rank(supply, id) = Rank(del, o)
  BY <1>1, RankOnto
<1>3. TakenBy(supply, del, o) = CHOOSE id \in supply : Rank(supply, id) = Rank(del, o)
  BY Zenon DEF TakenBy, Rank, Lower
<1> QED BY <1>2, <1>3, Zenon

\* The victims of a row.
LEMMA VictimIs ==
  ASSUME NEW s, NEW b, Spans(s, b), NEW f \in Nat, First(b) <= f, f < End(b), NEW m, NEW r,
         Remaining(b, f, m, r, -1) = Evs(s.log, f, End(b), r, -1),
         NEW o \in Evs(s.log, f, End(b), r, -1)
  PROVE  /\ At(b, o).row = r /\ At(b, o) = [row |-> r, sign |-> -1]
         /\ Earlier(b, f, m, o) = Rank(Evs(s.log, f, End(b), r, -1), o)
         /\ Victim(b, f, m, o) = TakenBy(Supply(b, f, m, r), Evs(s.log, f, End(b), r, -1), o)
<1>1. /\ First(b) \in Nat /\ End(b) \in Nat
      /\ \A i \in First(b)..(End(b) - 1) : At(b, i) = s.log[i]
  BY DEF Spans
<1>2. o \in First(b)..(End(b) - 1) /\ s.log[o] = [row |-> r, sign |-> -1]
  BY <1>1 DEF Evs
<1>3. At(b, o).row = r /\ At(b, o) = [row |-> r, sign |-> -1]
  BY <1>1, <1>2
<1>4. Earlier(b, f, m, o) = Cardinality({d \in Evs(s.log, f, End(b), r, -1) : d < o})
  BY <1>3, Zenon DEF Earlier
<1>5. Victim(b, f, m, o) = TakenBy(Supply(b, f, m, r), Evs(s.log, f, End(b), r, -1), o)
  BY <1>3, <1>4, Zenon DEF Victim, TakenBy
<1> QED BY <1>3, <1>4, <1>5 DEF Rank, Lower

=============================================================================
