--------------------------- MODULE CdcSourceProofs ---------------------------
(***************************************************************************)
(* What CdcSource promises, for any number of rows, changes and records    *)
(* and any capacity.  Three accounts have to agree in every store a crash  *)
(* may leave: the rows handed over, the queue's bytes, and the replication *)
(* slot, which no transaction covers.  The invariant says when only one    *)
(* store can be left (Barriers), which phase the step of the runtime       *)
(* stands for (Phases), what a delivery in hand was polled for (InHand,    *)
(* Connected), and that what a bootstrap stored is the beginning of what   *)
(* its connector sends in its life (Content).                              *)
(*                                                                         *)
(* The operators here take as parameters what of the state they are about  *)
(* (the connector's mode and start, the rows of the table), so that a step *)
(* that leaves those alone leaves the operators' values alone.             *)
(***************************************************************************)
EXTENDS CdcSource, Integers, Sequences, SequencesExt, SequenceTheorems, WellFoundedInduction, TLAPS

-----------------------------------------------------------------------------
(* Recursively defined operators, for every input.  Induction is used in   *)
(* the form of least elements of sets of numbers (WFMin), which the        *)
(* provers can apply: a property of n is the membership of n in a set.     *)

Below == {pair \in Nat \X Nat : pair[1] < pair[2]}

\* A set that has 0 and with every number the next one has all numbers.
LEMMA SetInduction ==
  ASSUME NEW S, 0 \in S, \A n \in Nat : n \in S => n + 1 \in S
  PROVE  \A n \in Nat : n \in S
<1> SUFFICES ASSUME \E n \in Nat : n \notin S PROVE FALSE
  OBVIOUS
<1> DEFINE T == Nat \ S
<1>1. IsWellFoundedOn(Below, Nat)
  BY NatLessThanWellFounded DEF OpToRel, Below
<1>2. T \subseteq Nat /\ T # {}
  OBVIOUS
<1>3. PICK n \in T : \A m \in T : <<m, n>> \notin Below
  <2> HIDE DEF T
  <2> QED BY <1>1, <1>2, WFMin
<1>4. n - 1 \in Nat /\ <<n - 1, n>> \in Below
  BY <1>3 DEF Below
<1> QED BY <1>3, <1>4

-----------------------------------------------------------------------------
(* FlattenSeq.                                                             *)

\* f[i] is the first i sequences, concatenated.
Flattens(f, seqs) ==
  \A i \in 1..Len(seqs) : f[i] = IF i = 1 THEN seqs[i] ELSE f[i - 1] \o seqs[i]

\* There is such a function.
LEMMA FlattenExists ==
  ASSUME NEW S, NEW seqs \in Seq(Seq(S))
  PROVE  \E f \in [1..Len(seqs) -> Seq(S)] : Flattens(f, seqs)
<1> DEFINE Upto(f, k) == \A i \in 1..k : f[i] = IF i = 1 THEN seqs[i] ELSE f[i - 1] \o seqs[i]
           Made(k) == \E f \in [1..k -> Seq(S)] : Upto(f, k)
           D == {k \in Nat : k <= Len(seqs) => Made(k)}
<1>1. Made(0)
  <2>1. [i \in 1..0 |-> <<>>] \in [1..0 -> Seq(S)] /\ Upto([i \in 1..0 |-> <<>>], 0)
    OBVIOUS
  <2> QED BY <2>1
<1>2. ASSUME NEW k \in Nat, k + 1 <= Len(seqs), Made(k) PROVE Made(k + 1)
  <2>1. PICK f \in [1..k -> Seq(S)] : Upto(f, k)
    BY <1>2
  <2>2. seqs[k + 1] \in Seq(S)
    BY <1>2
  <2> DEFINE last == IF k = 0 THEN seqs[k + 1] ELSE f[k] \o seqs[k + 1]
             g == [i \in 1..(k + 1) |-> IF i <= k THEN f[i] ELSE last]
  <2>3. last \in Seq(S)
    BY <2>2
  <2>4. g \in [1..(k + 1) -> Seq(S)]
    BY <2>3
  <2>5. Upto(g, k + 1)
    <3> SUFFICES ASSUME NEW i \in 1..(k + 1)
                 PROVE  g[i] = IF i = 1 THEN seqs[i] ELSE g[i - 1] \o seqs[i]
      OBVIOUS
    <3>1. CASE i <= k
      <4>1. i \in 1..k /\ (i # 1 => i - 1 \in 1..k)
        BY <3>1
      <4>2. f[i] = IF i = 1 THEN seqs[i] ELSE f[i - 1] \o seqs[i]
        BY <2>1, <4>1
      <4>3. g[i] = f[i] /\ (i # 1 => g[i - 1] = f[i - 1])
        BY <4>1
      <4> QED BY <4>2, <4>3
    <3>2. CASE i = k + 1
      BY <3>2
    <3> QED BY <3>1, <3>2
  <2> HIDE DEF g
  <2> QED BY <2>4, <2>5
<1> HIDE DEF Made
<1>3. 0 \in D /\ \A k \in Nat : k \in D => k + 1 \in D
  BY <1>1, <1>2
<1>4. ASSUME NEW k \in D PROVE k <= Len(seqs) => Made(k)
  OBVIOUS
<1> HIDE DEF D
<1>5. Len(seqs) \in D
  <2>1. \A k \in Nat : k \in D
    BY <1>3, SetInduction
  <2> QED BY <2>1
<1>6. Made(Len(seqs))
  BY <1>4, <1>5
<1> QED BY <1>6 DEF Made, Flattens

\* And only one.
LEMMA FlattenUnique ==
  ASSUME NEW seqs, Len(seqs) \in Nat, NEW f, Flattens(f, seqs), NEW g, Flattens(g, seqs)
  PROVE  \A i \in 1..Len(seqs) : f[i] = g[i]
<1> DEFINE D == {k \in Nat : k \in 1..Len(seqs) => f[k] = g[k]}
<1>1. 0 \in D
  OBVIOUS
<1>2. ASSUME NEW k \in Nat, k \in D PROVE k + 1 \in D
  BY <1>2 DEF Flattens
<1> HIDE DEF D
<1>3. \A k \in Nat : k \in D
  BY <1>1, <1>2, SetInduction
<1> QED BY <1>3 DEF D

\* So it is what FlattenSeq chooses.
LEMMA FlattenIs ==
  ASSUME NEW S, NEW seqs \in Seq(Seq(S)), Len(seqs) # 0,
         NEW f \in [1..Len(seqs) -> Seq(S)], Flattens(f, seqs)
  PROVE  FlattenSeq(seqs) = f[Len(seqs)]
<1> DEFINE Fixed(g) == g = [i \in 1..Len(seqs) |-> IF i = 1 THEN seqs[i] ELSE g[i - 1] \o seqs[i]]
           flatten == CHOOSE g : Fixed(g)
<1>1. Fixed(f)
  BY DEF Flattens
<1>2. Fixed(flatten)
  BY <1>1, Zenon
<1>3. Flattens(flatten, seqs)
  <2> HIDE DEF flatten
  <2> QED BY <1>2 DEF Flattens
<1>4. FlattenSeq(seqs) = flatten[Len(seqs)]
  BY Zenon DEF FlattenSeq
<1> HIDE DEF flatten
<1>5. Len(seqs) \in Nat /\ Len(seqs) \in 1..Len(seqs)
  OBVIOUS
<1>6. \A i \in 1..Len(seqs) : flatten[i] = f[i]
  BY <1>3, <1>5, FlattenUnique
<1> QED BY <1>4, <1>5, <1>6

\* The empty sequence of sequences flattens to the empty sequence.
LEMMA FlattenEmpty == FlattenSeq(<<>>) = <<>>
BY DEF FlattenSeq

\* A flattened sequence has the elements of its parts.
LEMMA FlattenType ==
  ASSUME NEW S, NEW c \in Seq(Seq(S))
  PROVE  FlattenSeq(c) \in Seq(S)
<1>1. CASE Len(c) = 0
  <2>1. c = <<>>
    BY <1>1
  <2>2. FlattenSeq(c) = <<>>
    BY <2>1, FlattenEmpty
  <2> QED BY <2>2
<1>2. CASE Len(c) # 0
  <2>1. PICK f \in [1..Len(c) -> Seq(S)] : Flattens(f, c)
    BY FlattenExists
  <2>2. Len(c) \in 1..Len(c)
    BY <1>2
  <2>3. FlattenSeq(c) = f[Len(c)]
    BY <1>2, <2>1, FlattenIs
  <2> QED BY <2>2, <2>3
<1> QED BY <1>1, <1>2

\* Concatenation; the provers do not look inside it where it is not expanded.
Cat(s, t) == s \o t

FlattensTo(S, seqs, f) ==
  seqs \in Seq(Seq(S)) /\ Len(seqs) # 0 /\ f \in [1..Len(seqs) -> Seq(S)] /\ Flattens(f, seqs)

\* Concatenated, the functions of two sequences of sequences are the function of the
\* concatenation.
LEMMA FlattenJoin ==
  ASSUME NEW S, NEW a, NEW b, NEW f, NEW g, FlattensTo(S, a, f), FlattensTo(S, b, g)
  PROVE  FlattenSeq(Cat(a, b)) = Cat(f[Len(a)], g[Len(b)])
<1>0. /\ a \in Seq(Seq(S)) /\ Len(a) # 0 /\ f \in [1..Len(a) -> Seq(S)] /\ Flattens(f, a)
      /\ b \in Seq(Seq(S)) /\ Len(b) # 0 /\ g \in [1..Len(b) -> Seq(S)] /\ Flattens(g, b)
  BY DEF FlattensTo
<1>m. PICK m : m = Len(a)
  OBVIOUS
<1>n. PICK n : n = Len(b)
  OBVIOUS
<1>1. m \in Nat /\ m > 0 /\ n \in Nat /\ n > 0
  <2>1. Len(a) \in Nat /\ Len(a) > 0
    BY <1>0
  <2>2. Len(b) \in Nat /\ Len(b) > 0
    BY <1>0
  <2> QED BY <1>m, <1>n, <2>1, <2>2
<1>2. /\ \A i \in 1..m : f[i] \in Seq(S)
      /\ \A i \in 1..m : f[i] = IF i = 1 THEN a[i] ELSE f[i - 1] \o a[i]
  BY <1>0, <1>m DEF Flattens
<1>3. /\ \A i \in 1..n : g[i] \in Seq(S)
      /\ \A i \in 1..n : g[i] = IF i = 1 THEN b[i] ELSE g[i - 1] \o b[i]
  BY <1>0, <1>n DEF Flattens
<1>4. \A i \in 1..n : b[i] \in Seq(S)
  BY <1>0, <1>n
<1>5. a \o b \in Seq(Seq(S)) /\ Len(a \o b) = m + n
  BY <1>0, <1>m, <1>n
<1>6. /\ \A i \in 1..m : (a \o b)[i] = a[i]
      /\ \A i \in (m + 1)..(m + n) : (a \o b)[i] = b[i - m]
  BY <1>0, <1>m, <1>n, <1>1
<1> DEFINE h == [i \in 1..(m + n) |-> IF i <= m THEN f[i] ELSE f[m] \o g[i - m]]
<1>7. \A i \in 1..m : h[i] = f[i]
  BY <1>1
<1>8. ASSUME NEW i \in (m + 1)..(m + n) PROVE h[i] = f[m] \o g[i - m]
  <2>1. i \in 1..(m + n) /\ ~(i <= m)
    BY <1>1
  <2> QED BY <2>1
<1>9. f[m] \in Seq(S)
  BY <1>1, <1>2
<1>10. h \in [1..(m + n) -> Seq(S)]
  <2>1. \A i \in 1..n : f[m] \o g[i] \in Seq(S)
    BY <1>3, <1>9
  <2>2. \A i \in 1..(m + n) : ~(i <= m) => i - m \in 1..n
    BY <1>1
  <2>3. \A i \in 1..(m + n) : i <= m => i \in 1..m
    BY <1>1
  <2> QED BY <1>2, <2>1, <2>2, <2>3
<1> HIDE DEF h
<1>11. ASSUME NEW i \in 1..(m + n)
       PROVE  h[i] = IF i = 1 THEN (a \o b)[i] ELSE h[i - 1] \o (a \o b)[i]
  <2>1. CASE i <= m
    <3>1. i \in 1..m /\ (i # 1 => i - 1 \in 1..m)
      BY <1>1, <2>1
    <3>2. h[i] = f[i] /\ (i # 1 => h[i - 1] = f[i - 1]) /\ (a \o b)[i] = a[i]
      BY <1>6, <1>7, <3>1
    <3>3. f[i] = IF i = 1 THEN a[i] ELSE f[i - 1] \o a[i]
      BY <1>2, <3>1
    <3> QED BY <3>2, <3>3
  <2>2. CASE i = m + 1
    <3>1. i \in (m + 1)..(m + n) /\ i - m = 1 /\ i - 1 = m /\ m \in 1..m /\ i # 1 /\ 1 \in 1..n
      BY <1>1, <2>2
    <3>2. g[1] = b[1]
      BY <1>3, <3>1
    <3>3. h[i] = f[m] \o g[1]
      BY <1>8, <3>1
    <3>4. h[i - 1] = f[m] /\ (a \o b)[i] = b[1]
      BY <1>6, <1>7, <3>1
    <3> QED BY <3>1, <3>2, <3>3, <3>4
  <2>3. CASE i > m + 1
    <3>1. PICK j : j = i - m
      OBVIOUS
    <3>2. j \in 1..n /\ j - 1 \in 1..n /\ i - 1 \in (m + 1)..(m + n) /\ i \in (m + 1)..(m + n)
          /\ (i - 1) - m = j - 1 /\ i # 1 /\ j # 1
      BY <1>1, <2>3, <3>1
    <3>3. g[j] = g[j - 1] \o b[j]
      BY <1>3, <3>2
    <3>4. g[j - 1] \in Seq(S) /\ b[j] \in Seq(S)
      BY <1>3, <1>4, <3>2
    <3>5. (f[m] \o g[j - 1]) \o b[j] = f[m] \o (g[j - 1] \o b[j])
      <4>1. \A x, y, z \in Seq(S) : (x \o y) \o z = x \o (y \o z)
        BY ConcatAssociative
      <4> QED BY <1>9, <3>4, <4>1
    <3>6. h[i] = f[m] \o g[j]
      BY <1>8, <3>1, <3>2
    <3>7. h[i - 1] = f[m] \o g[j - 1]
      BY <1>8, <3>2
    <3>8. (a \o b)[i] = b[j]
      BY <1>6, <3>1, <3>2
    <3> QED BY <3>2, <3>3, <3>5, <3>6, <3>7, <3>8
  <2>4. i <= m \/ i = m + 1 \/ i > m + 1
    BY <1>1
  <2> QED BY <2>1, <2>2, <2>3, <2>4, Zenon
<1>12. Flattens(h, a \o b)
  BY <1>5, <1>11 DEF Flattens
<1>13. h[m + n] = f[m] \o g[n]
  <2>1. m + n \in (m + 1)..(m + n) /\ (m + n) - m = n
    BY <1>1
  <2> QED BY <1>8, <2>1
<1>14. FlattenSeq(a \o b) = h[m + n]
  <2>1. Len(a \o b) # 0 /\ h \in [1..Len(a \o b) -> Seq(S)]
    BY <1>1, <1>5, <1>10
  <2>2. FlattenSeq(a \o b) = h[Len(a \o b)]
    BY <1>5, <1>12, <2>1, FlattenIs
  <2> QED BY <1>5, <2>2
<1> QED BY <1>13, <1>14, <1>m, <1>n DEF Cat

\* The rows of a queue are those of its first entries and then those of the rest.
LEMMA FlattenCat ==
  ASSUME NEW S, NEW a \in Seq(Seq(S)), NEW b \in Seq(Seq(S))
  PROVE  FlattenSeq(Cat(a, b)) = Cat(FlattenSeq(a), FlattenSeq(b))
<1>0. FlattenSeq(a) \in Seq(S) /\ FlattenSeq(b) \in Seq(S)
  BY FlattenType
<1>1. CASE Len(a) = 0
  <2>1. a = <<>> /\ Cat(a, b) = b
    BY <1>1 DEF Cat
  <2>2. Cat(<<>>, FlattenSeq(b)) = FlattenSeq(b)
    BY <1>0 DEF Cat
  <2> QED BY <2>1, <2>2, FlattenEmpty
<1>2. CASE Len(b) = 0
  <2>1. b = <<>> /\ Cat(a, b) = a
    BY <1>2 DEF Cat
  <2>2. Cat(FlattenSeq(a), <<>>) = FlattenSeq(a)
    BY <1>0 DEF Cat
  <2> QED BY <2>1, <2>2, FlattenEmpty
<1>3. CASE Len(a) # 0 /\ Len(b) # 0
  <2>1. PICK f : FlattensTo(S, a, f)
    BY <1>3, FlattenExists DEF FlattensTo
  <2>2. PICK g : FlattensTo(S, b, g)
    BY <1>3, FlattenExists DEF FlattensTo
  <2>4. FlattenSeq(Cat(a, b)) = Cat(f[Len(a)], g[Len(b)])
    BY <2>1, <2>2, FlattenJoin
  <2>5. FlattenSeq(a) = f[Len(a)]
    BY <2>1, FlattenIs DEF FlattensTo
  <2>6. FlattenSeq(b) = g[Len(b)]
    BY <2>2, FlattenIs DEF FlattensTo
  <2> QED BY <2>4, <2>5, <2>6
<1> QED BY <1>1, <1>2, <1>3

\* One entry.
LEMMA FlattenOne ==
  ASSUME NEW S, NEW x \in Seq(S)
  PROVE  FlattenSeq(<<x>>) = x
<1>1. <<x>> \in Seq(Seq(S)) /\ Len(<<x>>) = 1 /\ <<x>>[1] = x
  OBVIOUS
<1> DEFINE f == [i \in 1..1 |-> x]
<1>2. f \in [1..1 -> Seq(S)] /\ f[1] = x
  OBVIOUS
<1>3. Flattens(f, <<x>>)
  BY <1>1, <1>2 DEF Flattens
<1> HIDE DEF f
<1>4. Len(<<x>>) # 0 /\ f \in [1..Len(<<x>>) -> Seq(S)]
  BY <1>1, <1>2
<1>5. FlattenSeq(<<x>>) = f[Len(<<x>>)]
  BY <1>1, <1>3, <1>4, FlattenIs
<1> QED BY <1>1, <1>2, <1>5

-----------------------------------------------------------------------------
(* The runtime.                                                            *)

PCs == {"down", "poll", "record", "sync", "ack", "stack", "finish", "closed"}
NextSteps == {"restore", "begin", "prepareReset", "reset", "capture", "stream"}
Connectors == [mode : {"off", "snapshot", "stream"}, at : Nat, sent : Nat]

Kinds == {"row", "last", "event", "beat", "done"}
Records == [kind : Kinds, at : Nat, n : Nat]
StoreType == [phase : Phase, checkpoint : Nat \cup {None}, input : Seq(Seq(Records)),
              bytes : Nat, taken : Seq(Records)]
ProgressType == [saw : BOOLEAN, complete : BOOLEAN]
DeliveryType == [kind : {"cdc"}, rows : Seq(Records), sealed : BOOLEAN, streaming : BOOLEAN,
                 progress : ProgressType, checkpoint : Nat, sent : Nat, ok : BOOLEAN]

-----------------------------------------------------------------------------
(* What a connector sends.                                                 *)

Event(n) == Rec("event", n, n)

\* The i-th row of a snapshot at change p, of a table of r rows.
Row(r, p, i) == Rec(IF i = r THEN "last" ELSE "row", p, i)

\* The i-th row or change of a connector that started at change p.
LifeAt(mode, p, r, i) ==
  IF mode = "stream" THEN Event(p + i) ELSE IF i <= r THEN Row(r, p, i) ELSE Event(p + (i - r))

\* k of them after the first n.
Part(mode, p, r, n, k) == [i \in 1..k |-> LifeAt(mode, p, r, n + i)]

\* The last change among the first n of them.
After(mode, p, r, n) == IF mode = "stream" THEN p + n ELSE IF n > r THEN p + (n - r) ELSE p

\* The snapshot's progress after n of them.
ProgressAt(r, n) == [saw |-> n > 0, complete |-> n > 0 /\ n >= r]

\* A snapshot at change p and the changes up to e.
Whole(r, p, e) == [i \in 1..(r + (e - p)) |-> IF i <= r THEN Row(r, p, i) ELSE Event(p + (i - r))]

-----------------------------------------------------------------------------
(* The inductive invariant.                                                *)

TypeOK ==
  /\ source \in Sources
  /\ store \in durable
  /\ pc \in PCs /\ nextStep \in NextSteps
  /\ resume \in Nat \cup {None} /\ slot \in Nat \cup {None}
  /\ progress \in ProgressType
  /\ connector \in Connectors /\ changes \in Nat
  /\ needsReopen \in BOOLEAN

\* The rows that a store has handed over or still has are a snapshot and all changes up
\* to the checkpoint.
Holds(r, s) ==
  IF Visible(s)
  THEN \E p \in 0..s.checkpoint : Cat(s.taken, FlattenSeq(s.input)) = Whole(r, p, s.checkpoint)
  ELSE s.taken = <<>>

\* restore() takes it; src is the source.
Taken(src, s) ==
  /\ s.bytes = Len(FlattenSeq(s.input))
  /\ s.bytes <= IF s.phase = "streaming" THEN StreamBytes ELSE src.spool
  /\ s.phase = "fresh" => s.checkpoint = None /\ s.input = <<>>
  /\ s.phase = "capturing" => s.input = <<>> \/ s.checkpoint # None
  /\ Visible(s) => s.checkpoint # None
  /\ ~src.postgres /\ s.phase = "resetting" => s.input = <<>> \/ s.checkpoint # None

\* The slot at change sl agrees with it.
Agrees(src, sl, s) ==
  src.postgres =>
    /\ s.phase \in {"fresh", "resetting"} => sl = None
    /\ Visible(s) => sl # None /\ sl <= s.checkpoint

Good(src, sl, s) == s \in StoreType /\ Holds(src.rows, s) /\ Taken(src, s) /\ Agrees(src, sl, s)

\* What every store that a crash may leave satisfies.
Stores == \A s \in durable : Good(source, slot, s)

\* Where a failure ends the flow, and where no commit is pending.
Barriers ==
  /\ needsReopen => pc \in {"finish", "closed"}
  /\ pc = "closed" => needsReopen
  /\ pc \in {"down", "poll", "record"} => durable = {store}
  /\ pc = "ack" /\ delivery.kind = "cdc" => durable = {store}

Working == ~needsReopen /\ pc # "down"

Fresh == nextStep = "restore" /\ delivery = None /\ Absent(connector)

\* The phase that the step of the runtime stands for.
Stands(step, phase) ==
  /\ step # "restore"
  /\ step = "begin" => phase = "fresh"
  /\ step \in {"prepareReset", "capture"} => phase = "capturing"
  /\ step = "reset" => phase = "resetting"
  /\ step = "stream" => phase \in {"sealed", "streaming"}

\* Where the store is what it was when the step was chosen.
Settled == Working /\ pc \in {"poll", "record", "stack", "finish"}

\* The store after delivery d is recorded.
Recorded(d, s) ==
  /\ d.kind = "begin" => s.phase = "capturing" /\ s.input = <<>>
  /\ d.kind = "reset" => s.phase \in {"fresh", "resetting"}
  /\ d.kind = "cdc" =>
       /\ s.checkpoint = d.checkpoint
       /\ s.phase = IF d.streaming THEN "streaming"
                    ELSE IF d.sealed THEN "sealed" ELSE "capturing"

Phases ==
  /\ pc = "down" => Fresh
  /\ Settled => Stands(nextStep, store.phase)
  /\ pc = "sync" => delivery.kind = "cdc"
  /\ pc \in {"sync", "ack"} => Recorded(delivery, store)

SlotBefore(src, sl, change) == src.postgres => sl \in Nat /\ sl <= change

Held == pc \in {"record", "sync", "ack"} \/ delivery # None

\* A delivery d of a connector c.
Delivers(d, c, r, step) ==
  /\ d.rows = Part(c.mode, c.at, r, c.sent, d.sent)
  /\ d.checkpoint = After(c.mode, c.at, r, c.sent + d.sent)
  /\ d.streaming <=> step = "stream"
  /\ d.sealed => step = "capture" /\ c.sent + d.sent >= r
  /\ step = "capture" /\ ~d.sealed =>
       d.progress = ProgressAt(r, c.sent + d.sent) /\ (r = 0 => d.sent = 0)

\* What is in hand was polled for this step; the slot is gone before a reset is
\* recorded, and is not ahead of a delivery.
HandBegin == delivery = Maintenance("begin") /\ nextStep = "begin"
HandReset ==
  /\ delivery = Maintenance("reset") /\ nextStep \in {"prepareReset", "reset"}
  /\ source.postgres => slot = None
HandCdc ==
  /\ delivery \in DeliveryType /\ Delivers(delivery, connector, source.rows, nextStep)
  /\ ~Absent(connector)
  /\ SlotBefore(source, slot, delivery.checkpoint)
InHand == Working /\ Held => HandBegin \/ HandReset \/ HandCdc

\* A connector runs for the step of the runtime.
Connected ==
  /\ Absent(connector) => connector = Stopped
  /\ Working /\ ~Absent(connector) =>
       /\ nextStep = IF connector.mode = "stream" THEN "stream" ELSE "capture"
       /\ SlotBefore(source, slot, After(connector.mode, connector.at, source.rows, connector.sent))
       /\ nextStep = "stream" =>
            resume = After(connector.mode, connector.at, source.rows, connector.sent)

\* A bootstrap has all that its connector sent, and nothing else; a sealed source
\* goes on from its checkpoint.
Content ==
  /\ Working /\ nextStep = "capture" =>
       /\ progress = ProgressAt(source.rows, connector.sent)
       /\ source.rows = 0 => connector.sent = 0
  /\ Settled /\ nextStep = "capture" =>
       FlattenSeq(store.input) = Part(connector.mode, connector.at, source.rows, 0, connector.sent)
  /\ Settled /\ nextStep = "stream" => resume = store.checkpoint
  /\ pc \in {"sync", "ack"} /\ nextStep = "capture" =>
       FlattenSeq(store.input) =
         Part(connector.mode, connector.at, source.rows, 0, connector.sent + delivery.sent)

IInv == TypeOK /\ Stores /\ Barriers /\ Phases /\ InHand /\ Connected /\ Content

-----------------------------------------------------------------------------
(* Sequences of rows and changes.                                          *)

\* A row or change is a record.
LEMMA LifeType ==
  ASSUME NEW mode, NEW p \in Nat, NEW r \in Nat, NEW i \in Nat
  PROVE  LifeAt(mode, p, r, i) \in Records
<1>1. Event(p + i) \in Records /\ Row(r, p, i) \in Records
  BY DEF Event, Row, Rec, Records, Kinds
<1>2. i > r => Event(p + (i - r)) \in Records
  BY DEF Event, Rec, Records, Kinds
<1> QED BY <1>1, <1>2 DEF LifeAt

\* A part of a connector's life is a sequence of records.
LEMMA PartType ==
  ASSUME NEW mode, NEW p \in Nat, NEW r \in Nat, NEW n \in Nat, NEW k \in Nat
  PROVE  /\ Part(mode, p, r, n, k) \in Seq(Records)
         /\ Len(Part(mode, p, r, n, k)) = k
         /\ \A i \in 1..k : Part(mode, p, r, n, k)[i] = LifeAt(mode, p, r, n + i)
<1>1. \A i \in 1..k : LifeAt(mode, p, r, n + i) \in Records
  BY LifeType
<1> QED BY <1>1 DEF Part

\* No rows.
LEMMA PartNone ==
  ASSUME NEW mode, NEW p, NEW r, NEW n
  PROVE  Part(mode, p, r, n, 0) = <<>>
BY DEF Part

\* Two functions on an interval from 1 are the same sequence if they agree.
LEMMA SameElements ==
  ASSUME NEW S, NEW a \in Seq(S), NEW b \in Seq(S), Len(a) = Len(b), \A i \in 1..Len(a) : a[i] = b[i]
  PROVE  a = b
OBVIOUS

\* What a concatenation is.
LEMMA CatIs ==
  ASSUME NEW S, NEW a \in Seq(S), NEW b \in Seq(S)
  PROVE  /\ Cat(a, b) \in Seq(S) /\ Len(Cat(a, b)) = Len(a) + Len(b)
         /\ \A i \in 1..Len(a) : Cat(a, b)[i] = a[i]
         /\ \A i \in (Len(a) + 1)..(Len(a) + Len(b)) : Cat(a, b)[i] = b[i - Len(a)]
BY DEF Cat

\* a and then b is c.
Joins(a, b, c) == Cat(a, b) = c

\* Consecutive parts make one part.
LEMMA PartCat ==
  ASSUME NEW mode, NEW p \in Nat, NEW r \in Nat, NEW n \in Nat, NEW k \in Nat, NEW m \in Nat,
         NEW nk, nk = n + k, NEW km, km = k + m
  PROVE  Joins(Part(mode, p, r, n, k), Part(mode, p, r, nk, m), Part(mode, p, r, n, km))
<1>1. PICK a : a = Part(mode, p, r, n, k)
  OBVIOUS
<1>2. PICK b : b = Part(mode, p, r, n + k, m)
  OBVIOUS
<1>3. PICK c : c = Part(mode, p, r, n, k + m)
  OBVIOUS
<1>4. a \in Seq(Records) /\ Len(a) = k /\ \A i \in 1..k : a[i] = LifeAt(mode, p, r, n + i)
  BY <1>1, PartType
<1>5. b \in Seq(Records) /\ Len(b) = m /\ \A i \in 1..m : b[i] = LifeAt(mode, p, r, (n + k) + i)
  BY <1>2, PartType
<1>6. c \in Seq(Records) /\ Len(c) = k + m /\ \A i \in 1..(k + m) : c[i] = LifeAt(mode, p, r, n + i)
  BY <1>3, PartType
<1>7. /\ Cat(a, b) \in Seq(Records) /\ Len(Cat(a, b)) = k + m
      /\ \A i \in 1..k : Cat(a, b)[i] = a[i]
      /\ \A i \in (k + 1)..(k + m) : Cat(a, b)[i] = b[i - k]
  <2>1. a \in Seq(Records) /\ b \in Seq(Records) /\ k = Len(a) /\ m = Len(b)
    BY <1>4, <1>5
  <2>2. /\ Cat(a, b) \in Seq(Records) /\ Len(Cat(a, b)) = Len(a) + Len(b)
        /\ \A i \in 1..Len(a) : Cat(a, b)[i] = a[i]
        /\ \A i \in (Len(a) + 1)..(Len(a) + Len(b)) : Cat(a, b)[i] = b[i - Len(a)]
    BY <2>1, CatIs, Zenon
  <2> QED BY <2>1, <2>2, Zenon
<1>8. ASSUME NEW i \in 1..(k + m) PROVE Cat(a, b)[i] = c[i]
  <2>1. CASE i <= k
    BY <1>4, <1>6, <1>7, <2>1
  <2>2. CASE i > k
    <3>1. i - k \in 1..m /\ i \in (k + 1)..(k + m) /\ (n + k) + (i - k) = n + i
      BY <2>2
    <3>2. Cat(a, b)[i] = LifeAt(mode, p, r, (n + k) + (i - k))
      BY <1>5, <1>7, <3>1, Zenon
    <3> QED BY <1>6, <3>1, <3>2, Zenon
  <2> QED BY <2>1, <2>2
<1>9. Cat(a, b) = c
  BY <1>6, <1>7, <1>8, SameElements
<1> QED BY <1>1, <1>2, <1>3, <1>9 DEF Joins

\* The snapshot and the changes up to e, as a sequence.
LEMMA WholeType ==
  ASSUME NEW r \in Nat, NEW p \in Nat, NEW e \in Nat, p <= e
  PROVE  /\ Whole(r, p, e) \in Seq(Records) /\ Len(Whole(r, p, e)) = r + (e - p)
         /\ \A i \in 1..(r + (e - p)) :
              Whole(r, p, e)[i] = IF i <= r THEN Row(r, p, i) ELSE Event(p + (i - r))
<1>1. \A i \in 1..(r + (e - p)) : (IF i <= r THEN Row(r, p, i) ELSE Event(p + (i - r))) \in Records
  BY DEF Event, Row, Rec, Records, Kinds
<1> QED BY <1>1 DEF Whole

\* All that a snapshot's connector sent, once the snapshot is complete.
LEMMA WholeIs ==
  ASSUME NEW mode, mode # "stream", NEW p \in Nat, NEW r \in Nat, NEW n \in Nat, n >= r
  PROVE  /\ After(mode, p, r, n) \in Nat /\ p <= After(mode, p, r, n)
         /\ Part(mode, p, r, 0, n) = Whole(r, p, After(mode, p, r, n))
<1>1. After(mode, p, r, n) = p + (n - r)
  BY DEF After
<1>2. PICK e : e = p + (n - r)
  OBVIOUS
<1>3. e \in Nat /\ p <= e /\ r + (e - p) = n
  BY <1>2
<1>4. ASSUME NEW i \in 1..n
      PROVE  LifeAt(mode, p, r, 0 + i) = IF i <= r THEN Row(r, p, i) ELSE Event(p + (i - r))
  BY DEF LifeAt
<1>5. Part(mode, p, r, 0, n) = Whole(r, p, e)
  BY <1>3, <1>4 DEF Part, Whole
<1> QED BY <1>1, <1>2, <1>3, <1>5

\* The next changes go on from it.
LEMMA WholeCat ==
  ASSUME NEW r \in Nat, NEW p \in Nat, NEW e \in Nat, p <= e, NEW at \in Nat, NEW n \in Nat,
         e = at + n, NEW k \in Nat
  PROVE  Cat(Whole(r, p, e), Part("stream", at, r, n, k)) = Whole(r, p, e + k)
<1>1. PICK a : a = Whole(r, p, e)
  OBVIOUS
<1>2. PICK b : b = Part("stream", at, r, n, k)
  OBVIOUS
<1>3. PICK c : c = Whole(r, p, e + k)
  OBVIOUS
<1>4. PICK l \in Nat : l = r + (e - p)
  OBVIOUS
<1>5. /\ a \in Seq(Records) /\ Len(a) = l
      /\ \A i \in 1..l : a[i] = IF i <= r THEN Row(r, p, i) ELSE Event(p + (i - r))
  <2>1. /\ Whole(r, p, e) \in Seq(Records) /\ Len(Whole(r, p, e)) = r + (e - p)
        /\ \A i \in 1..(r + (e - p)) :
             Whole(r, p, e)[i] = IF i <= r THEN Row(r, p, i) ELSE Event(p + (i - r))
    BY WholeType
  <2> QED BY <1>1, <1>4, <2>1
<1>6. b \in Seq(Records) /\ Len(b) = k /\ \A i \in 1..k : b[i] = Event(e + i)
  <2>1. \A i \in 1..k : LifeAt("stream", at, r, n + i) = Event(e + i)
    BY DEF LifeAt
  <2>2. /\ b \in Seq(Records) /\ Len(b) = k
        /\ \A i \in 1..k : b[i] = LifeAt("stream", at, r, n + i)
    BY <1>2, PartType
  <2> QED BY <2>1, <2>2
<1>7. /\ c \in Seq(Records) /\ Len(c) = l + k
      /\ \A i \in 1..(l + k) : c[i] = IF i <= r THEN Row(r, p, i) ELSE Event(p + (i - r))
  <2>1. e + k \in Nat /\ p <= e + k /\ r + ((e + k) - p) = l + k
    BY <1>4
  <2>2. PICK f \in Nat : f = e + k
    BY <2>1
  <2>3. /\ Whole(r, p, f) \in Seq(Records) /\ Len(Whole(r, p, f)) = r + (f - p)
        /\ \A i \in 1..(r + (f - p)) :
             Whole(r, p, f)[i] = IF i <= r THEN Row(r, p, i) ELSE Event(p + (i - r))
    BY <2>1, <2>2, WholeType
  <2>4. r + (f - p) = l + k /\ c = Whole(r, p, f)
    BY <1>3, <2>1, <2>2
  <2> QED BY <2>3, <2>4
<1>8. /\ Cat(a, b) \in Seq(Records) /\ Len(Cat(a, b)) = l + k
      /\ \A i \in 1..l : Cat(a, b)[i] = a[i]
      /\ \A i \in (l + 1)..(l + k) : Cat(a, b)[i] = b[i - l]
  <2>1. a \in Seq(Records) /\ b \in Seq(Records) /\ l = Len(a) /\ k = Len(b)
    BY <1>5, <1>6
  <2>2. /\ Cat(a, b) \in Seq(Records) /\ Len(Cat(a, b)) = Len(a) + Len(b)
        /\ \A i \in 1..Len(a) : Cat(a, b)[i] = a[i]
        /\ \A i \in (Len(a) + 1)..(Len(a) + Len(b)) : Cat(a, b)[i] = b[i - Len(a)]
    BY <2>1, CatIs, Zenon
  <2> QED BY <2>1, <2>2, Zenon
<1>9. ASSUME NEW i \in 1..(l + k) PROVE Cat(a, b)[i] = c[i]
  <2>1. CASE i <= l
    <3>1. i \in 1..l
      BY <1>4, <2>1
    <3> QED BY <1>5, <1>7, <1>8, <3>1, Zenon
  <2>2. CASE i > l
    <3>1. i - l \in 1..k /\ i \in (l + 1)..(l + k) /\ ~(i <= r) /\ e + (i - l) = p + (i - r)
      BY <1>4, <2>2
    <3>2. Cat(a, b)[i] = Event(e + (i - l))
      BY <1>6, <1>8, <3>1, Zenon
    <3>3. c[i] = Event(p + (i - r))
      BY <1>7, <3>1, Zenon
    <3> QED BY <3>1, <3>2, <3>3, Zenon
  <2> QED BY <2>1, <2>2
<1>10. Cat(a, b) = c
  BY <1>7, <1>8, <1>9, SameElements
<1> QED BY <1>1, <1>2, <1>3, <1>10

-----------------------------------------------------------------------------
(* The model's sequences.                                                  *)

\* The fields of a source.
LEMMA SourceType ==
  ASSUME source \in Sources
  PROVE  source.postgres \in BOOLEAN /\ source.rows \in Nat /\ source.spool \in Nat
BY CdcAssumption

\* The changes of the database after a and up to b.
LEMMA EventsIs ==
  ASSUME NEW a \in Nat, NEW b \in Nat
  PROVE  /\ Events(a, b) \in Seq(Records)
         /\ Len(Events(a, b)) = IF b > a THEN b - a ELSE 0
         /\ \A i \in 1..Len(Events(a, b)) : Events(a, b)[i] = Event(a + i)
<1>1. CASE b > a
  <2>1. PICK n \in Nat : n = b - a
    BY <1>1
  <2>2. \A i \in 1..n : Event(a + i) \in Records
    BY DEF Event, Rec, Records, Kinds
  <2>3. Events(a, b) = [i \in 1..n |-> Event(a + i)]
    BY <2>1 DEF Events, Event
  <2>4. [i \in 1..n |-> Event(a + i)] \in Seq(Records)
    BY <2>2
  <2> QED BY <1>1, <2>1, <2>3, <2>4
<1>2. CASE ~(b > a)
  <2>1. 1..(b - a) = 1..0
    BY <1>2
  <2>2. Events(a, b) = <<>>
    BY <2>1 DEF Events
  <2> QED BY <1>2, <2>2
<1> QED BY <1>1, <1>2

\* The rows of the table.
LEMMA SnapshotIs ==
  ASSUME source \in Sources, NEW p \in Nat
  PROVE  /\ Snapshot(p) \in Seq(Records) /\ Len(Snapshot(p)) = source.rows
         /\ \A i \in 1..source.rows : Snapshot(p)[i] = Row(source.rows, p, i)
<1>1. PICK r \in Nat : r = source.rows
  BY SourceType
<1>2. \A i \in 1..r : Row(r, p, i) \in Records
  BY DEF Row, Rec, Records, Kinds
<1>3. Snapshot(p) = [i \in 1..r |-> Row(r, p, i)]
  BY <1>1 DEF Snapshot, Row, SnapshotRows
<1>4. [i \in 1..r |-> Row(r, p, i)] \in Seq(Records)
  BY <1>2
<1> QED BY <1>1, <1>3, <1>4

\* What CapturedOnce compares the rows with.
LEMMA WholeModel ==
  ASSUME source \in Sources, NEW p \in Nat, NEW e \in Nat, p <= e
  PROVE  Cat(Snapshot(p), Events(p, e)) = Whole(source.rows, p, e)
<1>1. PICK a : a = Snapshot(p)
  OBVIOUS
<1>2. PICK b : b = Events(p, e)
  OBVIOUS
<1>3. PICK r \in Nat : r = source.rows
  BY SourceType
<1>4. PICK c : c = Whole(r, p, e)
  OBVIOUS
<1>5. a \in Seq(Records) /\ Len(a) = r /\ \A i \in 1..r : a[i] = Row(r, p, i)
  BY <1>1, <1>3, SnapshotIs
<1>6. PICK m \in Nat : m = e - p
  OBVIOUS
<1>7. b \in Seq(Records) /\ Len(b) = m /\ \A i \in 1..m : b[i] = Event(p + i)
  <2>1. /\ b \in Seq(Records) /\ Len(b) = (IF e > p THEN e - p ELSE 0)
        /\ \A i \in 1..Len(b) : b[i] = Event(p + i)
    BY <1>2, EventsIs
  <2>2. m = IF e > p THEN e - p ELSE 0
    BY <1>6
  <2> QED BY <2>1, <2>2
<1>8. /\ c \in Seq(Records) /\ Len(c) = r + m
      /\ \A i \in 1..(r + m) : c[i] = IF i <= r THEN Row(r, p, i) ELSE Event(p + (i - r))
  <2>1. /\ Whole(r, p, e) \in Seq(Records) /\ Len(Whole(r, p, e)) = r + (e - p)
        /\ \A i \in 1..(r + (e - p)) :
             Whole(r, p, e)[i] = IF i <= r THEN Row(r, p, i) ELSE Event(p + (i - r))
    BY WholeType
  <2> QED BY <1>4, <1>6, <2>1
<1>9. /\ Cat(a, b) \in Seq(Records) /\ Len(Cat(a, b)) = r + m
      /\ \A i \in 1..r : Cat(a, b)[i] = a[i]
      /\ \A i \in (r + 1)..(r + m) : Cat(a, b)[i] = b[i - r]
  <2>1. a \in Seq(Records) /\ b \in Seq(Records) /\ r = Len(a) /\ m = Len(b)
    BY <1>5, <1>7
  <2>2. /\ Cat(a, b) \in Seq(Records) /\ Len(Cat(a, b)) = Len(a) + Len(b)
        /\ \A i \in 1..Len(a) : Cat(a, b)[i] = a[i]
        /\ \A i \in (Len(a) + 1)..(Len(a) + Len(b)) : Cat(a, b)[i] = b[i - Len(a)]
    BY <2>1, CatIs, Zenon
  <2> QED BY <2>1, <2>2, Zenon
<1>10. ASSUME NEW i \in 1..(r + m) PROVE Cat(a, b)[i] = c[i]
  <2>1. CASE i <= r
    <3>1. i \in 1..r
      BY <2>1
    <3>2. c[i] = Row(r, p, i)
      BY <1>8, <2>1, Zenon
    <3> QED BY <1>5, <1>9, <3>1, <3>2, Zenon
  <2>2. CASE i > r
    <3>1. i - r \in 1..m /\ i \in (r + 1)..(r + m) /\ ~(i <= r)
      BY <2>2
    <3>2. Cat(a, b)[i] = Event(p + (i - r))
      BY <1>7, <1>9, <3>1, Zenon
    <3>3. c[i] = Event(p + (i - r))
      BY <1>8, <3>1, Zenon
    <3> QED BY <3>2, <3>3, Zenon
  <2> QED BY <2>1, <2>2
<1>11. Cat(a, b) = c
  BY <1>8, <1>9, <1>10, SameElements
<1> QED BY <1>1, <1>2, <1>3, <1>4, <1>11, Zenon

\* What a connector sends, item by item; MySQL's snapshot ends with its rows.
LEMMA LifeIs ==
  ASSUME TypeOK
  PROVE  /\ Life \in Seq(Records)
         /\ \A i \in 1..Len(Life) : Life[i] = LifeAt(connector.mode, connector.at, source.rows, i)
         /\ connector.mode # "stream" /\ ~source.postgres => Len(Life) <= source.rows
<1>1. PICK p \in Nat : p = connector.at
  BY DEF TypeOK, Connectors
<1>2. source \in Sources /\ changes \in Nat
  BY DEF TypeOK
<1>3. PICK r \in Nat : r = source.rows
  BY <1>2, SourceType
<1>4. CASE connector.mode = "stream"
  <2>1. Life = Events(p, changes)
    BY <1>1, <1>4 DEF Life
  <2>2. \A i \in Nat : LifeAt(connector.mode, p, r, i) = Event(p + i)
    BY <1>4 DEF LifeAt
  <2>3. PICK b : b = Events(p, changes)
    OBVIOUS
  <2>4. b \in Seq(Records) /\ \A i \in 1..Len(b) : b[i] = Event(p + i)
    BY <1>2, <2>3, EventsIs
  <2> QED BY <1>1, <1>3, <1>4, <2>1, <2>2, <2>3, <2>4
<1>5. CASE connector.mode # "stream"
  <2>1. PICK e \in Nat : e = IF source.postgres THEN changes ELSE p
    BY <1>2
  <2>2. PICK a : a = Snapshot(p)
    OBVIOUS
  <2>3. PICK b : b = Events(p, e)
    OBVIOUS
  <2>4. Life = Cat(a, b)
    BY <1>1, <1>5, <2>1, <2>2, <2>3 DEF Life, Cat, CAPTURE_ACCEPTS_STREAMING, Postgres
  <2>5. a \in Seq(Records) /\ Len(a) = r /\ \A i \in 1..r : a[i] = Row(r, p, i)
    BY <1>2, <1>3, <2>2, SnapshotIs
  <2>0. /\ b \in Seq(Records) /\ Len(b) = (IF e > p THEN e - p ELSE 0)
        /\ \A i \in 1..Len(b) : b[i] = Event(p + i)
    BY <2>3, EventsIs
  <2>6. PICK m \in Nat : m = IF e > p THEN e - p ELSE 0
    <3>1. (IF e > p THEN e - p ELSE 0) \in Nat
      OBVIOUS
    <3> QED BY <3>1, Zenon
  <2>7. /\ b \in Seq(Records) /\ Len(b) = m /\ \A i \in 1..m : b[i] = Event(p + i)
        /\ ~source.postgres => m = 0
    BY <2>0, <2>1, <2>6
  <2>8. /\ Cat(a, b) \in Seq(Records) /\ Len(Cat(a, b)) = r + m
        /\ \A i \in 1..r : Cat(a, b)[i] = a[i]
        /\ \A i \in (r + 1)..(r + m) : Cat(a, b)[i] = b[i - r]
    <3>1. a \in Seq(Records) /\ b \in Seq(Records) /\ r = Len(a) /\ m = Len(b)
      BY <2>5, <2>7
    <3>2. /\ Cat(a, b) \in Seq(Records) /\ Len(Cat(a, b)) = Len(a) + Len(b)
          /\ \A i \in 1..Len(a) : Cat(a, b)[i] = a[i]
          /\ \A i \in (Len(a) + 1)..(Len(a) + Len(b)) : Cat(a, b)[i] = b[i - Len(a)]
      BY <3>1, CatIs, Zenon
    <3> QED BY <3>1, <3>2, Zenon
  <2>9. ASSUME NEW i \in 1..(r + m) PROVE Cat(a, b)[i] = LifeAt(connector.mode, p, r, i)
    <3>1. CASE i <= r
      <4>1. i \in 1..r
        BY <3>1
      <4>2. Cat(a, b)[i] = Row(r, p, i)
        BY <2>5, <2>8, <4>1, Zenon
      <4> QED BY <1>5, <3>1, <4>2, Zenon DEF LifeAt
    <3>2. CASE i > r
      <4>1. i - r \in 1..m /\ i \in (r + 1)..(r + m) /\ ~(i <= r)
        BY <3>2
      <4>2. Cat(a, b)[i] = Event(p + (i - r))
        BY <2>7, <2>8, <4>1, Zenon
      <4> QED BY <1>5, <4>1, <4>2, Zenon DEF LifeAt
    <3> QED BY <3>1, <3>2
  <2> QED BY <1>1, <1>3, <2>4, <2>7, <2>8, <2>9
<1> QED BY <1>4, <1>5

\* The next k items.
LEMMA NextIs ==
  ASSUME TypeOK, NEW n \in Nat, NEW k \in Nat, n + k <= Len(Life)
  PROVE  SubSeq(Life, n + 1, n + k) = Part(connector.mode, connector.at, source.rows, n, k)
<1>1. PICK l : l = Life
  OBVIOUS
<1>2. /\ l \in Seq(Records)
      /\ \A i \in 1..Len(l) : l[i] = LifeAt(connector.mode, connector.at, source.rows, i)
  BY <1>1, LifeIs
<1>3. n + k <= Len(l)
  BY <1>1
<1>4. SubSeq(l, n + 1, n + k) = [i \in 1..k |-> l[n + i]]
  BY <1>2, <1>3
<1>5. \A i \in 1..k : l[n + i] = LifeAt(connector.mode, connector.at, source.rows, n + i)
  BY <1>2, <1>3
<1>6. SubSeq(l, n + 1, n + k) = Part(connector.mode, connector.at, source.rows, n, k)
  BY <1>4, <1>5 DEF Part
<1> QED BY <1>1, <1>6

\* The checkpoint of a delivery.
LEMMA ChangeAfterIs ==
  ASSUME TypeOK, NEW n \in Nat
  PROVE  ChangeAfter(n) = After(connector.mode, connector.at, source.rows, n)
<1>1. PICK p \in Nat : p = connector.at
  BY DEF TypeOK, Connectors
<1>2. PICK r \in Nat : r = source.rows
  BY SourceType DEF TypeOK
<1>3. PICK mode : mode = connector.mode
  OBVIOUS
<1>4. ChangeAfter(n) = p + (IF n > (IF mode = "stream" THEN 0 ELSE r)
                            THEN n - (IF mode = "stream" THEN 0 ELSE r) ELSE 0)
  BY <1>1, <1>2, <1>3 DEF ChangeAfter, SnapshotRows
<1>5. ChangeAfter(n) = After(mode, p, r, n)
  BY <1>4 DEF After
<1> QED BY <1>1, <1>2, <1>3, <1>5

-----------------------------------------------------------------------------
(* Conversion.                                                             *)

\* What a prefix of a delivery gave.
Gave(rows, sealed, saw, complete) ==
  [rows |-> rows, sealed |-> sealed, saw |-> saw, complete |-> complete, ok |-> TRUE]

\* Append; the provers do not look inside it where it is not expanded.
Extended(s, e) == Append(s, e)

\* After c, the record gives d.
Gives(c, rec, capturing, d) == ConvertRecord(c, rec, capturing) = d

\* All records give d.
ConvertsTo(records, capturing, pr, d) == Convert(records, capturing, pr) = d

\* f is what each prefix of the records gave.
Converts(f, records, capturing, start) ==
  /\ f = [i \in 0..Len(records) |-> f[i]]
  /\ f[0] = start
  /\ \A i \in 1..Len(records) : Gives(f[i - 1], records[i], capturing, f[i])

\* A function that follows the records is the one Convert computes.
LEMMA ConvertIs ==
  ASSUME NEW records, Len(records) \in Nat, NEW capturing, NEW pr, NEW f,
         Converts(f, records, capturing, Gave(<<>>, FALSE, pr.saw, pr.complete))
  PROVE  Convert(records, capturing, pr) = f[Len(records)]
<1> DEFINE start == [rows |-> <<>>, sealed |-> FALSE, saw |-> pr.saw,
                     complete |-> pr.complete, ok |-> TRUE]
           Fixed(g) == g = [i \in 0..Len(records) |->
                              IF i = 0 THEN start ELSE ConvertRecord(g[i - 1], records[i], capturing)]
           after == CHOOSE g : Fixed(g)
<1>1. Fixed(f)
  <2>1. f = [i \in 0..Len(records) |-> f[i]]
    BY DEF Converts
  <2>2. ASSUME NEW i \in 0..Len(records)
        PROVE  f[i] = IF i = 0 THEN start ELSE ConvertRecord(f[i - 1], records[i], capturing)
    <3>1. CASE i = 0
      BY <3>1 DEF Converts, Gave
    <3>2. CASE i # 0
      <4>1. i \in 1..Len(records)
        BY <3>2
      <4>2. f[i] = ConvertRecord(f[i - 1], records[i], capturing)
        BY <4>1 DEF Converts, Gives
      <4> QED BY <3>2, <4>2
    <3> QED BY <3>1, <3>2
  <2> HIDE DEF start
  <2> QED BY <2>1, <2>2
<1>2. Fixed(after)
  BY <1>1, Zenon
<1>3. Convert(records, capturing, pr) = after[Len(records)]
  BY Zenon DEF Convert
<1> HIDE DEF after
<1> DEFINE D == {n \in Nat : n <= Len(records) => after[n] = f[n]}
<1>4. 0 \in D
  <2> HIDE DEF start
  <2>1. after[0] = start
    BY <1>2
  <2>2. f[0] = start
    BY <1>1
  <2> QED BY <2>1, <2>2
<1>5. ASSUME NEW n \in Nat, n \in D PROVE n + 1 \in D
  <2> SUFFICES ASSUME n + 1 <= Len(records) PROVE after[n + 1] = f[n + 1]
    OBVIOUS
  <2> HIDE DEF start
  <2>1. after[n] = f[n]
    BY <1>5
  <2>2. n + 1 \in 0..Len(records) /\ n + 1 # 0 /\ (n + 1) - 1 = n
    OBVIOUS
  <2>3. after[n + 1] = ConvertRecord(after[n], records[n + 1], capturing)
    BY <1>2, <2>2
  <2>4. f[n + 1] = ConvertRecord(f[n], records[n + 1], capturing)
    BY <1>1, <2>2
  <2> QED BY <2>1, <2>3, <2>4
<1>6. ASSUME NEW n \in D PROVE n <= Len(records) => after[n] = f[n]
  OBVIOUS
<1> HIDE DEF D, start
<1>7. \A n \in Nat : n \in D
  BY <1>4, <1>5, SetInduction
<1>8. after[Len(records)] = f[Len(records)]
  BY <1>6, <1>7
<1> QED BY <1>3, <1>8

\* A heartbeat gives nothing.
LEMMA ConvertBeat ==
  ASSUME NEW rows, NEW sealed, NEW saw, NEW complete, NEW capturing
  PROVE  Gives(Gave(rows, sealed, saw, complete), Heartbeat, capturing,
               Gave(rows, sealed, saw, complete))
BY DEF Gives, ConvertRecord, Gave, Heartbeat, Rec

\* A row of a snapshot that is not complete.
LEMMA ConvertRow ==
  ASSUME NEW rows, NEW saw, NEW rec \in Records, rec.kind \in {"row", "last"}, NEW last, last = (rec.kind = "last")
  PROVE  Gives(Gave(rows, FALSE, saw, FALSE), rec, TRUE, Gave(Extended(rows, rec), FALSE, TRUE, last))
<1>1. PICK rows2 : rows2 = Append(rows, rec)
  OBVIOUS
<1>2. ConvertRecord(Gave(rows, FALSE, saw, FALSE), rec, TRUE)
        = [Gave(rows, FALSE, saw, FALSE) EXCEPT !.rows = Append(@, rec), !.saw = TRUE,
                                                !.complete = rec.kind = "last"]
  BY DEF ConvertRecord, Gave
<1> QED BY <1>1, <1>2 DEF Gave, Extended, Gives

\* A change, while streaming or after a complete snapshot.
LEMMA ConvertEvent ==
  ASSUME NEW rows, NEW sealed, NEW saw, NEW complete, NEW rec, rec.kind = "event",
         NEW capturing, ~capturing \/ (source.postgres /\ complete)
  PROVE  Gives(Gave(rows, sealed, saw, complete), rec, capturing,
               Gave(Extended(rows, rec), sealed, saw, complete))
<1>1. PICK rows2 : rows2 = Append(rows, rec)
  OBVIOUS
<1>2. ConvertRecord(Gave(rows, sealed, saw, complete), rec, capturing)
        = [Gave(rows, sealed, saw, complete) EXCEPT !.rows = Append(@, rec)]
  BY DEF ConvertRecord, Gave, CAPTURE_ACCEPTS_STREAMING, Postgres
<1> QED BY <1>1, <1>2 DEF Gave, Extended, Gives

\* The completion of a snapshot of which all rows or none came.
LEMMA ConvertDone ==
  ASSUME NEW rows, NEW saw, NEW complete, ~(saw /\ ~complete)
  PROVE  Gives(Gave(rows, FALSE, saw, complete), Done, TRUE,
               Gave(rows, TRUE, saw, complete \/ source.postgres))
BY DEF Gives, ConvertRecord, Gave, Done, Rec, CAPTURE_ACCEPTS_STREAMING, Postgres

-----------------------------------------------------------------------------
(* Deliveries.                                                             *)

\* One item more.
LEMMA PartAppend ==
  ASSUME NEW mode, NEW p \in Nat, NEW r \in Nat, NEW n \in Nat, NEW i \in Nat, i # 0
  PROVE  Extended(Part(mode, p, r, n, i - 1), LifeAt(mode, p, r, n + i)) = Part(mode, p, r, n, i)
<1>1. PICK a : a = Part(mode, p, r, n, i - 1)
  OBVIOUS
<1>2. PICK j \in Nat : j = i - 1
  OBVIOUS
<1>3. a \in Seq(Records) /\ Len(a) = j /\ \A x \in 1..j : a[x] = LifeAt(mode, p, r, n + x)
  BY <1>1, <1>2, PartType
<1>4. PICK b : b = Part(mode, p, r, n, i)
  OBVIOUS
<1>5. b \in Seq(Records) /\ Len(b) = j + 1 /\ \A x \in 1..(j + 1) : b[x] = LifeAt(mode, p, r, n + x)
  <2>1. b \in Seq(Records) /\ Len(b) = i /\ \A x \in 1..i : b[x] = LifeAt(mode, p, r, n + x)
    BY <1>4, PartType
  <2> QED BY <1>2, <2>1
<1>6. PICK e \in Records : e = LifeAt(mode, p, r, n + i)
  BY LifeType
<1>7. /\ Append(a, e) \in Seq(Records) /\ Len(Append(a, e)) = j + 1
      /\ \A x \in 1..(j + 1) : Append(a, e)[x] = IF x <= j THEN a[x] ELSE e
  BY <1>3
<1>8. \A x \in 1..(j + 1) : Append(a, e)[x] = b[x]
  <2>1. b[j + 1] = e
    BY <1>2, <1>5, <1>6
  <2> QED BY <1>3, <1>5, <1>7, <2>1
<1>9. Append(a, e) = b
  BY <1>5, <1>7, <1>8, SameElements
<1> QED BY <1>1, <1>4, <1>6, <1>9 DEF Extended

\* A streaming connector's changes are taken as they come.
LEMMA StreamConverts ==
  ASSUME NEW p \in Nat, NEW r \in Nat, NEW n \in Nat, NEW k \in Nat, NEW pr
  PROVE  ConvertsTo(Part("stream", p, r, n, k), FALSE, pr,
                    Gave(Part("stream", p, r, n, k), FALSE, pr.saw, pr.complete))
<1>1. PICK s : s = Part("stream", p, r, n, k)
  OBVIOUS
<1>2. Len(s) = k /\ \A i \in 1..k : s[i] = LifeAt("stream", p, r, n + i)
  BY <1>1, PartType
<1> DEFINE f == [i \in 0..k |-> Gave(Part("stream", p, r, n, i), FALSE, pr.saw, pr.complete)]
<1>3. f[0] = Gave(<<>>, FALSE, pr.saw, pr.complete)
  <2>1. Part("stream", p, r, n, 0) = <<>>
    BY PartNone
  <2>2. f[0] = Gave(Part("stream", p, r, n, 0), FALSE, pr.saw, pr.complete)
    OBVIOUS
  <2> QED BY <2>1, <2>2
<1>4. ASSUME NEW i \in 1..k PROVE Gives(f[i - 1], s[i], FALSE, f[i])
  <2>1. s[i] = LifeAt("stream", p, r, n + i) /\ LifeAt("stream", p, r, n + i).kind = "event"
    BY <1>2 DEF LifeAt, Event, Rec
  <2>2. Gives(Gave(Part("stream", p, r, n, i - 1), FALSE, pr.saw, pr.complete),
              LifeAt("stream", p, r, n + i), FALSE,
              Gave(Extended(Part("stream", p, r, n, i - 1), LifeAt("stream", p, r, n + i)),
                   FALSE, pr.saw, pr.complete))
    BY <2>1, ConvertEvent, Zenon
  <2>3. Extended(Part("stream", p, r, n, i - 1), LifeAt("stream", p, r, n + i)) = Part("stream", p, r, n, i)
    BY PartAppend
  <2>4. i - 1 \in 0..k /\ i \in 0..k
    OBVIOUS
  <2> QED BY <2>1, <2>2, <2>3, <2>4
<1>5. f = [i \in 0..k |-> f[i]] /\ f[k] = Gave(s, FALSE, pr.saw, pr.complete)
  BY <1>1
<1> HIDE DEF f
<1>6. Converts(f, s, FALSE, Gave(<<>>, FALSE, pr.saw, pr.complete))
  BY <1>2, <1>3, <1>4, <1>5 DEF Converts
<1>7. Convert(s, FALSE, pr) = f[Len(s)]
  BY <1>2, <1>6, ConvertIs
<1> QED BY <1>1, <1>2, <1>5, <1>7 DEF ConvertsTo

\* What n items of a bootstrap gave.
Prefix(mode, p, r, n, i) == Gave(Part(mode, p, r, n, i), FALSE, n + i > 0, n + i > 0 /\ n + i >= r)

\* Each item gives the progress of one more: a row before the last, the last row, or,
\* from PostgreSQL, a change after it.
LEMMA CaptureStep ==
  ASSUME NEW mode, mode # "stream", NEW p \in Nat, NEW r \in Nat, r # 0, NEW n \in Nat,
         NEW i \in Nat, i # 0, source.postgres \/ n + i <= r
  PROVE  Gives(Prefix(mode, p, r, n, i - 1), LifeAt(mode, p, r, n + i), TRUE,
               Prefix(mode, p, r, n, i))
<1>1. PICK a : a = Part(mode, p, r, n, i - 1)
  OBVIOUS
<1>2. PICK e : e = LifeAt(mode, p, r, n + i)
  OBVIOUS
<1>3. Extended(a, e) = Part(mode, p, r, n, i)
  BY <1>1, <1>2, PartAppend
<1>4. PICK m \in Nat : m = n + (i - 1)
  OBVIOUS
<1>5. n + i = m + 1
  BY <1>4
<1>6. (n + i > 0) = TRUE
  OBVIOUS
<1>7. CASE n + i <= r
  <2>1. e = Row(r, p, n + i)
    BY <1>2, <1>7 DEF LifeAt
  <2>2. e.kind \in {"row", "last"} /\ (e.kind = "last") = (n + i = r)
    BY <2>1 DEF Row, Rec
  <2>3. (m > 0 /\ m >= r) = FALSE
    BY <1>5, <1>7
  <2>0. PICK saw : saw = (m > 0)
    OBVIOUS
  <2>l. PICK last : last = (e.kind = "last")
    OBVIOUS
  <2>4. Gives(Gave(a, FALSE, saw, FALSE), e, TRUE, Gave(Extended(a, e), FALSE, TRUE, last))
    <3>1. e \in Records
      BY <1>2, LifeType
    <3> QED BY <2>2, <2>l, <3>1, ConvertRow
  <2>5. (e.kind = "last") = (n + i > 0 /\ n + i >= r)
    BY <1>7, <2>2
  <2>6. Prefix(mode, p, r, n, i - 1) = Gave(a, FALSE, saw, FALSE)
    BY <1>1, <1>4, <2>0, <2>3 DEF Prefix
  <2>7. Prefix(mode, p, r, n, i) = Gave(Extended(a, e), FALSE, TRUE, last)
    BY <1>3, <1>6, <2>5, <2>l DEF Prefix
  <2> QED BY <1>2, <2>4, <2>6, <2>7
<1>8. CASE n + i > r
  <2>1. e = Event(p + ((n + i) - r)) /\ source.postgres
    BY <1>2, <1>8 DEF LifeAt
  <2>2. e.kind = "event"
    BY <2>1 DEF Event, Rec
  <2>3. (m > 0 /\ m >= r) = TRUE /\ (m > 0) = TRUE /\ (n + i > 0 /\ n + i >= r) = TRUE
    BY <1>5, <1>8
  <2>4. Gives(Gave(a, FALSE, TRUE, TRUE), e, TRUE, Gave(Extended(a, e), FALSE, TRUE, TRUE))
    BY <2>1, <2>2, ConvertEvent, Zenon
  <2>5. Prefix(mode, p, r, n, i - 1) = Gave(a, FALSE, TRUE, TRUE)
    BY <1>1, <1>4, <2>3 DEF Prefix
  <2>6. Prefix(mode, p, r, n, i) = Gave(Extended(a, e), FALSE, TRUE, TRUE)
    BY <1>3, <1>6, <2>3 DEF Prefix
  <2> QED BY <1>2, <2>4, <2>5, <2>6
<1>9. n + i <= r \/ n + i > r
  OBVIOUS
<1> QED BY <1>7, <1>8, <1>9, Zenon

\* A delivery of a bootstrap without the completion.
LEMMA CaptureConverts ==
  ASSUME NEW mode, mode # "stream", NEW p \in Nat, NEW r \in Nat, NEW n \in Nat, NEW k \in Nat,
         source.postgres \/ n + k <= r, r = 0 => k = 0
  PROVE  ConvertsTo(Part(mode, p, r, n, k), TRUE, ProgressAt(r, n), Prefix(mode, p, r, n, k))
<1>1. PICK s : s = Part(mode, p, r, n, k)
  OBVIOUS
<1>2. Len(s) = k /\ \A i \in 1..k : s[i] = LifeAt(mode, p, r, n + i)
  BY <1>1, PartType
<1>3. PICK pr : pr = ProgressAt(r, n)
  OBVIOUS
<1> DEFINE f == [i \in 0..k |-> Prefix(mode, p, r, n, i)]
<1>4. f[0] = Gave(<<>>, FALSE, pr.saw, pr.complete)
  <2>1. Prefix(mode, p, r, n, 0) = Gave(<<>>, FALSE, n > 0, n > 0 /\ n >= r)
    <3>1. n + 0 = n /\ Part(mode, p, r, n, 0) = <<>>
      BY PartNone
    <3> QED BY <3>1 DEF Prefix
  <2>2. pr.saw = (n > 0) /\ pr.complete = (n > 0 /\ n >= r)
    BY <1>3 DEF ProgressAt
  <2>3. f[0] = Prefix(mode, p, r, n, 0)
    OBVIOUS
  <2> QED BY <2>1, <2>2, <2>3
<1>5. ASSUME NEW i \in 1..k PROVE Gives(f[i - 1], s[i], TRUE, f[i])
  <2>1. r # 0 /\ i \in Nat /\ i # 0 /\ (source.postgres \/ n + i <= r)
    OBVIOUS
  <2>2. Gives(Prefix(mode, p, r, n, i - 1), LifeAt(mode, p, r, n + i), TRUE,
              Prefix(mode, p, r, n, i))
    BY <2>1, CaptureStep, Zenon
  <2>3. i - 1 \in 0..k /\ i \in 0..k
    OBVIOUS
  <2> QED BY <1>2, <2>2, <2>3
<1>6. f = [i \in 0..k |-> f[i]] /\ f[k] = Prefix(mode, p, r, n, k)
  OBVIOUS
<1> HIDE DEF f
<1>7. Converts(f, s, TRUE, Gave(<<>>, FALSE, pr.saw, pr.complete))
  BY <1>2, <1>4, <1>5, <1>6 DEF Converts
<1>8. Convert(s, TRUE, pr) = f[Len(s)]
  BY <1>2, <1>7, ConvertIs
<1> QED BY <1>1, <1>2, <1>3, <1>6, <1>8 DEF ConvertsTo

-----------------------------------------------------------------------------
\* t is s with e after the first j.
Inserted(t, s, j, e) ==
  /\ Len(t) = Len(s) + 1 /\ t[j + 1] = e
  /\ \A i \in 1..j : t[i] = s[i]
  /\ \A i \in (j + 2)..(Len(s) + 1) : t[i] = s[i - 1]

\* Inserting a record.
LEMMA InsertIs ==
  ASSUME NEW S, NEW s \in Seq(S), NEW e \in S, NEW j \in 0..Len(s)
  PROVE  Inserted(InsertAt(s, j + 1, e), s, j, e)
<1>1. PICK n \in Nat : n = Len(s)
  OBVIOUS
<1>2. PICK a : a = SubSeq(s, 1, j)
  OBVIOUS
<1>3. PICK c : c = SubSeq(s, j + 1, n)
  OBVIOUS
<1>4. a \in Seq(S) /\ Len(a) = j /\ \A i \in 1..j : a[i] = s[i]
  BY <1>1, <1>2
<1>5. c \in Seq(S) /\ Len(c) = n - j /\ \A i \in 1..(n - j) : c[i] = s[j + i]
  BY <1>1, <1>3
<1>6. PICK b : b = Cat(a, <<e>>)
  OBVIOUS
<1>7. b \in Seq(S) /\ Len(b) = j + 1 /\ (\A i \in 1..j : b[i] = a[i]) /\ b[j + 1] = e
  <2>1. <<e>> \in Seq(S) /\ Len(<<e>>) = 1 /\ <<e>>[1] = e
    OBVIOUS
  <2> QED BY <1>4, <1>6, <2>1 DEF Cat
<1>8. PICK t : t = Cat(b, c)
  OBVIOUS
<1>9. InsertAt(s, j + 1, e) = t
  <2>1. (j + 1) - 1 = j
    BY <1>1
  <2> QED BY <1>1, <1>2, <1>3, <1>6, <1>8, <2>1 DEF InsertAt, Cat
<1>10. /\ t \in Seq(S) /\ Len(t) = Len(b) + Len(c)
       /\ \A i \in 1..Len(b) : t[i] = b[i]
       /\ \A i \in (Len(b) + 1)..(Len(b) + Len(c)) : t[i] = c[i - Len(b)]
  BY <1>5, <1>7, <1>8, CatIs
<1>11. Len(t) = n + 1 /\ \A i \in 1..j : t[i] = s[i]
  BY <1>1, <1>4, <1>5, <1>7, <1>10
<1>12. t[j + 1] = e
  BY <1>1, <1>7, <1>10
<1>13. ASSUME NEW i \in (j + 2)..(n + 1) PROVE t[i] = s[i - 1]
  <2>1. j \in Nat /\ j <= n
    BY <1>1
  <2>2. /\ i \in (Len(b) + 1)..(Len(b) + Len(c)) /\ i - Len(b) \in 1..(n - j)
        /\ j + (i - Len(b)) = i - 1
    <3>1. Len(b) = j + 1 /\ Len(c) = n - j
      BY <1>5, <1>7
    <3>2. Len(b) + Len(c) = n + 1
      BY <2>1, <3>1
    <3> QED BY <2>1, <3>1, <3>2
  <2> QED BY <1>5, <1>10, <2>2
<1> QED BY <1>1, <1>9, <1>11, <1>12, <1>13 DEF Inserted

\* A delivery of a bootstrap with the completion after its first j items; only changes
\* follow it.
LEMMA DoneConverts ==
  ASSUME NEW mode, mode # "stream", NEW p \in Nat, NEW r \in Nat, NEW n \in Nat, NEW k \in Nat,
         source.postgres \/ n + k <= r, source.postgres \in BOOLEAN,
         NEW j \in 0..k, n + j >= r, r = 0 => j = 0
  PROVE  \E saw, complete \in BOOLEAN :
           ConvertsTo(InsertAt(Part(mode, p, r, n, k), j + 1, Done), TRUE, ProgressAt(r, n),
                      Gave(Part(mode, p, r, n, k), TRUE, saw, complete))
<1>1. PICK s : s = Part(mode, p, r, n, k)
  OBVIOUS
<1>2. s \in Seq(Records) /\ Len(s) = k /\ \A i \in 1..k : s[i] = LifeAt(mode, p, r, n + i)
  BY <1>1, PartType
<1>3. Done \in Records
  BY DEF Done, Rec, Records, Kinds
<1>4. PICK t : t = InsertAt(s, j + 1, Done)
  OBVIOUS
<1>5. /\ Len(t) = k + 1 /\ t[j + 1] = Done
      /\ \A i \in 1..j : t[i] = s[i]
      /\ \A i \in (j + 2)..(k + 1) : t[i] = s[i - 1]
  <2>1. j \in 0..Len(s)
    BY <1>2
  <2>2. /\ Len(t) = Len(s) + 1 /\ t[j + 1] = Done
        /\ \A i \in 1..j : t[i] = s[i]
        /\ \A i \in (j + 2)..(Len(s) + 1) : t[i] = s[i - 1]
    <3>1. Inserted(InsertAt(s, j + 1, Done), s, j, Done)
      BY <1>2, <1>3, <2>1, InsertIs
    <3> QED BY <1>4, <3>1 DEF Inserted
  <2> QED BY <1>2, <2>2
<1>6. PICK pr : pr = ProgressAt(r, n)
  OBVIOUS
<1>7. PICK saw \in BOOLEAN : saw = (n + j > 0)
  <2>1. (n + j > 0) \in BOOLEAN
    OBVIOUS
  <2> QED BY <2>1, Zenon
<1>8. PICK had \in BOOLEAN : had = (n + j > 0 /\ n + j >= r)
  OBVIOUS
<1>9. PICK complete \in BOOLEAN : complete = (had \/ source.postgres)
  OBVIOUS
<1> DEFINE f == [i \in 0..(k + 1) |-> IF i <= j THEN Prefix(mode, p, r, n, i)
                                      ELSE Gave(Part(mode, p, r, n, i - 1), TRUE, saw, complete)]
<1>10. \A i \in 0..j : f[i] = Prefix(mode, p, r, n, i)
  OBVIOUS
<1>11. ASSUME NEW i \in (j + 1)..(k + 1)
       PROVE  f[i] = Gave(Part(mode, p, r, n, i - 1), TRUE, saw, complete)
  <2>1. i \in 0..(k + 1) /\ ~(i <= j)
    OBVIOUS
  <2> QED BY <2>1
<1>12. f = [i \in 0..(k + 1) |-> f[i]]
  OBVIOUS
<1> HIDE DEF f
<1>13. f[0] = Gave(<<>>, FALSE, pr.saw, pr.complete)
  <2>1. Prefix(mode, p, r, n, 0) = Gave(<<>>, FALSE, n > 0, n > 0 /\ n >= r)
    <3>1. n + 0 = n /\ Part(mode, p, r, n, 0) = <<>>
      BY PartNone
    <3> QED BY <3>1 DEF Prefix
  <2>2. pr.saw = (n > 0) /\ pr.complete = (n > 0 /\ n >= r)
    BY <1>6 DEF ProgressAt
  <2>3. f[0] = Prefix(mode, p, r, n, 0)
    BY <1>10
  <2> QED BY <2>1, <2>2, <2>3
<1>14. ASSUME NEW i \in 1..(k + 1) PROVE Gives(f[i - 1], t[i], TRUE, f[i])
  <2>1. CASE i <= j
    <3>1. i \in 1..j /\ i \in 0..j /\ i - 1 \in 0..j /\ i \in 1..k
      BY <2>1
    <3>2. r # 0 /\ i \in Nat /\ i # 0 /\ (source.postgres \/ n + i <= r)
      BY <3>1
    <3>3. Gives(Prefix(mode, p, r, n, i - 1), LifeAt(mode, p, r, n + i), TRUE,
                Prefix(mode, p, r, n, i))
      BY <3>2, CaptureStep, Zenon
    <3>4. t[i] = LifeAt(mode, p, r, n + i)
      BY <1>2, <1>5, <3>1
    <3>5. f[i] = Prefix(mode, p, r, n, i) /\ f[i - 1] = Prefix(mode, p, r, n, i - 1)
      BY <1>10, <3>1
    <3> QED BY <3>3, <3>4, <3>5
  <2>2. CASE i = j + 1
    <3>1. i \in (j + 1)..(k + 1) /\ i - 1 = j /\ j \in 0..j
      BY <2>2
    <3>2. f[i] = Gave(Part(mode, p, r, n, j), TRUE, saw, complete)
      BY <1>11, <3>1
    <3>3. f[i - 1] = Gave(Part(mode, p, r, n, j), FALSE, saw, had)
      BY <1>7, <1>8, <1>10, <3>1 DEF Prefix
    <3>4. ~(saw /\ ~had)
      BY <1>7, <1>8
    <3>5. Gives(Gave(Part(mode, p, r, n, j), FALSE, saw, had), Done, TRUE,
                Gave(Part(mode, p, r, n, j), TRUE, saw, had \/ source.postgres))
      BY <3>4, ConvertDone, Zenon
    <3> QED BY <1>5, <1>9, <2>2, <3>2, <3>3, <3>5
  <2>3. CASE i > j + 1
    <3>1. PICK x \in Nat : x = i - 1
      BY <2>3
    <3>2. /\ x \in 1..k /\ x # 0 /\ i \in (j + 2)..(k + 1) /\ i \in (j + 1)..(k + 1)
          /\ x \in (j + 1)..(k + 1) /\ n + x > r
      BY <2>3, <3>1
    <3>3. source.postgres /\ complete
      BY <1>9, <3>2
    <3>4. t[i] = LifeAt(mode, p, r, n + x)
      BY <1>2, <1>5, <3>1, <3>2
    <3>5. LifeAt(mode, p, r, n + x).kind = "event"
      BY <3>2 DEF LifeAt, Event, Rec
    <3>6. Gives(Gave(Part(mode, p, r, n, x - 1), TRUE, saw, complete), LifeAt(mode, p, r, n + x), TRUE,
                Gave(Extended(Part(mode, p, r, n, x - 1), LifeAt(mode, p, r, n + x)), TRUE, saw, complete))
      BY <3>3, <3>5, ConvertEvent, Zenon
    <3>7. Extended(Part(mode, p, r, n, x - 1), LifeAt(mode, p, r, n + x)) = Part(mode, p, r, n, x)
      BY <3>2, PartAppend
    <3>8. f[i] = Gave(Part(mode, p, r, n, x), TRUE, saw, complete)
      BY <1>11, <3>1, <3>2
    <3>9. f[x] = Gave(Part(mode, p, r, n, x - 1), TRUE, saw, complete)
      BY <1>11, <3>2
    <3> QED BY <3>1, <3>4, <3>6, <3>7, <3>8, <3>9
  <2>4. i <= j \/ i = j + 1 \/ i > j + 1
    OBVIOUS
  <2> QED BY <2>1, <2>2, <2>3, <2>4, Zenon
<1>15. Converts(f, t, TRUE, Gave(<<>>, FALSE, pr.saw, pr.complete))
  BY <1>5, <1>12, <1>13, <1>14 DEF Converts
<1>16. Convert(t, TRUE, pr) = f[Len(t)]
  <2>1. Len(t) \in Nat
    BY <1>5
  <2> QED BY <1>15, <2>1, ConvertIs
<1>17. f[k + 1] = Gave(Part(mode, p, r, n, k), TRUE, saw, complete)
  <2>1. k + 1 \in (j + 1)..(k + 1) /\ (k + 1) - 1 = k
    OBVIOUS
  <2> QED BY <1>11, <2>1
<1>18. Convert(t, TRUE, pr) = Gave(Part(mode, p, r, n, k), TRUE, saw, complete)
  BY <1>5, <1>16, <1>17
<1> QED BY <1>1, <1>4, <1>6, <1>18 DEF ConvertsTo

-----------------------------------------------------------------------------
\* A heartbeat alone gives nothing.
LEMMA ConvertOneBeat ==
  ASSUME NEW capturing, NEW pr
  PROVE  Convert(<<Heartbeat>>, capturing, pr) = Gave(<<>>, FALSE, pr.saw, pr.complete)
<1>1. PICK s : s = <<Heartbeat>>
  OBVIOUS
<1>2. Len(s) = 1 /\ s[1] = Heartbeat
  BY <1>1
<1>3. PICK c : c = Gave(<<>>, FALSE, pr.saw, pr.complete)
  OBVIOUS
<1>4. Gives(c, Heartbeat, capturing, c)
  BY <1>3, ConvertBeat
<1> DEFINE f == [i \in 0..1 |-> c]
<1>5. f[0] = c /\ f[1] = c /\ f = [i \in 0..1 |-> f[i]]
  OBVIOUS
<1> HIDE DEF f
<1>6. Converts(f, s, capturing, c)
  BY <1>2, <1>4, <1>5 DEF Converts
<1>7. Convert(s, capturing, pr) = f[Len(s)]
  <2>1. Len(s) \in Nat
    BY <1>2
  <2>2. Converts(f, s, capturing, Gave(<<>>, FALSE, pr.saw, pr.complete))
    BY <1>3, <1>6, Zenon
  <2> QED BY <2>1, <2>2, ConvertIs
<1> QED BY <1>1, <1>2, <1>3, <1>5, <1>7

\* Checkpoints are numbers, and grow.
LEMMA AfterType ==
  ASSUME NEW mode, NEW p \in Nat, NEW r \in Nat, NEW n \in Nat
  PROVE  /\ After(mode, p, r, n) \in Nat
         /\ \A k \in Nat : After(mode, p, r, n) <= After(mode, p, r, n + k)
BY DEF After

\* A poll whose records give these rows.
PolledAs(d, rows, sealed, saw, complete, k) ==
  /\ d.ok /\ d.rows = rows /\ d.sealed = sealed /\ d.sent = k
  /\ d.progress = [saw |-> saw, complete |-> complete]
  /\ d.streaming = (nextStep = "stream")
  /\ d.checkpoint = After(connector.mode, connector.at, source.rows, connector.sent + k)

\* The delivery made of the records.
LEMMA PolledIs ==
  ASSUME TypeOK, NEW records, NEW k \in Nat, NEW rows \in Seq(Records),
         NEW sealed \in BOOLEAN, NEW saw \in BOOLEAN, NEW complete \in BOOLEAN,
         NEW capturing, capturing = ~(nextStep = "stream"),
         Convert(records, capturing, progress) = Gave(rows, sealed, saw, complete)
  PROVE  /\ Polled(records, k) \in DeliveryType
         /\ PolledAs(Polled(records, k), rows, sealed, saw, complete, k)
<1>1. connector.sent \in Nat /\ connector.at \in Nat /\ source.rows \in Nat
  BY SourceType DEF TypeOK, Connectors
<1>2. PICK e \in Nat : e = After(connector.mode, connector.at, source.rows, connector.sent + k)
  <2>1. connector.sent + k \in Nat
    BY <1>1
  <2>2. After(connector.mode, connector.at, source.rows, connector.sent + k) \in Nat
    BY <1>1, <2>1, AfterType
  <2> QED BY <2>2, Zenon
<1>3. ChangeAfter(connector.sent + k) = e
  BY <1>1, <1>2, ChangeAfterIs
<1>4. PICK c : c = Convert(records, capturing, progress)
  OBVIOUS
<1>5. c = [rows |-> rows, sealed |-> sealed, saw |-> saw, complete |-> complete, ok |-> TRUE]
  BY <1>4 DEF Gave
<1>6. Convert(records, ~(nextStep = "stream"), progress) = c
  BY <1>4
<1>7. Polled(records, k)
        = [kind |-> "cdc", rows |-> c.rows, sealed |-> c.sealed, streaming |-> nextStep = "stream",
           progress |-> [saw |-> c.saw, complete |-> c.complete],
           checkpoint |-> e, sent |-> k, ok |-> c.ok]
  BY <1>3, <1>6 DEF Polled
<1>8. c.rows = rows /\ c.sealed = sealed /\ c.saw = saw /\ c.complete = complete /\ c.ok = TRUE
  BY <1>5
<1>9. Polled(records, k)
        = [kind |-> "cdc", rows |-> rows, sealed |-> sealed, streaming |-> nextStep = "stream",
           progress |-> [saw |-> saw, complete |-> complete],
           checkpoint |-> e, sent |-> k, ok |-> TRUE]
  BY <1>7, <1>8
<1>10. Polled(records, k) \in DeliveryType
  <2>1. (nextStep = "stream") \in BOOLEAN
    OBVIOUS
  <2>2. [saw |-> saw, complete |-> complete] \in ProgressType
    BY DEF ProgressType
  <2> QED BY <1>9, <2>1, <2>2 DEF DeliveryType
<1>11. PolledAs(Polled(records, k), rows, sealed, saw, complete, k)
  BY <1>2, <1>9 DEF PolledAs
<1> QED BY <1>10, <1>11

\* Such a delivery is of the connector.
LEMMA PolledDelivers ==
  ASSUME TypeOK, NEW d, NEW k \in Nat, NEW sealed \in BOOLEAN, NEW saw, NEW complete,
         PolledAs(d, Part(connector.mode, connector.at, source.rows, connector.sent, k),
                  sealed, saw, complete, k),
         sealed => nextStep = "capture" /\ connector.sent + k >= source.rows,
         nextStep = "capture" /\ ~sealed =>
           /\ [saw |-> saw, complete |-> complete] = ProgressAt(source.rows, connector.sent + k)
           /\ source.rows = 0 => k = 0
  PROVE  Delivers(d, connector, source.rows, nextStep)
BY DEF PolledAs, Delivers

\* Whatever a running connector sends next, cut anywhere, is accepted and is the next
\* part of its life.
LEMMA DeliveriesAre ==
  ASSUME TypeOK, Barriers, Connected, Content, Running, NEW d \in Deliveries
  PROVE  d \in DeliveryType /\ d.ok /\ Delivers(d, connector, source.rows, nextStep)
<1>1. PICK mode \in {"snapshot", "stream"} : mode = connector.mode
  BY DEF TypeOK, Connectors, Running, Absent
<1>2. PICK p \in Nat : p = connector.at
  BY DEF TypeOK, Connectors
<1>3. PICK n \in Nat : n = connector.sent
  BY DEF TypeOK, Connectors
<1>4. PICK r \in Nat : r = source.rows
  BY SourceType DEF TypeOK
<1>5. Working
  BY DEF Running, Barriers, Working
<1>6. nextStep = IF mode = "stream" THEN "stream" ELSE "capture"
  BY <1>1, <1>5 DEF Connected, Running
<1>7. mode # "stream" => progress = ProgressAt(r, n) /\ (r = 0 => n = 0)
  BY <1>3, <1>4, <1>5, <1>6 DEF Content
<1>8. source.postgres \in BOOLEAN
  BY SourceType DEF TypeOK
<1>9. progress.saw \in BOOLEAN /\ progress.complete \in BOOLEAN
  BY DEF TypeOK, ProgressType
<1>10. ASSUME NEW k \in Nat
       PROVE  Part(mode, p, r, n, k) \in Seq(Records)
  BY PartType
<1> DEFINE next(k) == SubSeq(Life, connector.sent + 1, connector.sent + k)
           amounts == {k \in 0..MaxRecords : connector.sent + k <= Len(Life)}
<1>11. ASSUME NEW k \in amounts
       PROVE  k \in Nat /\ next(k) = Part(mode, p, r, n, k)
  <2>1. k \in Nat /\ n + k <= Len(Life)
    BY <1>3, CdcAssumption
  <2> QED BY <1>1, <1>2, <1>3, <1>4, <2>1, NextIs
<1>12. ASSUME NEW k \in amounts, mode # "stream"
       PROVE  source.postgres \/ n + k <= r
  <2>1. n + k <= Len(Life)
    BY <1>3
  <2>2. ~source.postgres => Len(Life) <= r
    BY <1>1, <1>4, <1>12, LifeIs
  <2>3. Len(Life) \in Nat /\ k \in Nat
    BY LifeIs, <1>11
  <2> QED BY <2>1, <2>2, <2>3
<1>13. EmptySnapshot <=> mode # "stream" /\ r = 0
  BY <1>1, <1>4 DEF EmptySnapshot, SnapshotRows
<1>14. ASSUME NEW k \in amounts, EmptySnapshot => k = 0,
              NEW records, records = IF k = 0 THEN <<Heartbeat>> ELSE next(k)
       PROVE  Polled(records, k) \in DeliveryType /\ Polled(records, k).ok
              /\ Delivers(Polled(records, k), connector, source.rows, nextStep)
  <2>1. k \in Nat /\ next(k) = Part(mode, p, r, n, k)
    BY <1>11
  <2>2. PICK rows \in Seq(Records) : rows = Part(mode, p, r, n, k)
    BY <1>10, <2>1
  <2>3. CASE mode = "stream"
    <3>1. Convert(records, FALSE, progress) = Gave(rows, FALSE, progress.saw, progress.complete)
      <4>1. CASE k = 0
        BY <4>1, <1>14, <2>2, ConvertOneBeat, PartNone
      <4>2. CASE k # 0
        <5>1. ConvertsTo(Part("stream", p, r, n, k), FALSE, progress,
                         Gave(Part("stream", p, r, n, k), FALSE, progress.saw, progress.complete))
          BY <2>1, StreamConverts
        <5>2. records = Part("stream", p, r, n, k) /\ rows = Part("stream", p, r, n, k)
          BY <1>14, <2>1, <2>2, <2>3, <4>2
        <5> QED BY <5>1, <5>2 DEF ConvertsTo
      <4> QED BY <4>1, <4>2
    <3>2. nextStep = "stream" /\ FALSE = ~(nextStep = "stream")
      BY <1>6, <2>3
    <3>3. /\ Polled(records, k) \in DeliveryType
          /\ PolledAs(Polled(records, k), rows, FALSE, progress.saw, progress.complete, k)
      BY <1>9, <2>1, <3>1, <3>2, PolledIs
    <3>4. Delivers(Polled(records, k), connector, source.rows, nextStep)
      BY <1>1, <1>2, <1>3, <1>4, <2>1, <2>2, <3>2, <3>3, PolledDelivers
    <3> QED BY <3>3, <3>4 DEF PolledAs
  <2>4. CASE mode # "stream"
    <3>0. PICK saw \in BOOLEAN : saw = (n + k > 0)
      <4>1. (n + k > 0) \in BOOLEAN
        OBVIOUS
      <4> QED BY <4>1, Zenon
    <3>00. PICK complete \in BOOLEAN : complete = (n + k > 0 /\ n + k >= r)
      <4>1. (n + k > 0 /\ n + k >= r) \in BOOLEAN
        OBVIOUS
      <4> QED BY <4>1, Zenon
    <3>1. Convert(records, TRUE, progress) = Gave(rows, FALSE, saw, complete)
      <4>1. CASE k = 0
        <5>1. n + k = n
          BY <4>1
        <5>2. progress.saw = saw /\ progress.complete = complete
          BY <1>7, <2>4, <3>0, <3>00, <5>1 DEF ProgressAt
        <5> QED BY <4>1, <5>2, <1>14, <2>2, ConvertOneBeat, PartNone
      <4>2. CASE k # 0
        <5>1. source.postgres \/ n + k <= r
          BY <1>12, <2>4
        <5>2. r = 0 => k = 0
          BY <1>13, <1>14, <2>4
        <5>3. ConvertsTo(Part(mode, p, r, n, k), TRUE, ProgressAt(r, n), Prefix(mode, p, r, n, k))
          BY <2>1, <2>4, <5>1, <5>2, CaptureConverts
        <5>4. Prefix(mode, p, r, n, k) = Gave(rows, FALSE, saw, complete)
          BY <2>2, <3>0, <3>00 DEF Prefix
        <5>5. records = Part(mode, p, r, n, k) /\ progress = ProgressAt(r, n)
          BY <1>7, <1>14, <2>1, <2>4, <4>2
        <5> QED BY <5>3, <5>4, <5>5 DEF ConvertsTo
      <4> QED BY <4>1, <4>2
    <3>2. nextStep = "capture" /\ TRUE = ~(nextStep = "stream")
      BY <1>6, <2>4
    <3>3. /\ Polled(records, k) \in DeliveryType
          /\ PolledAs(Polled(records, k), rows, FALSE, saw, complete, k)
      BY <2>1, <3>1, <3>2, PolledIs
    <3>4. [saw |-> saw, complete |-> complete] = ProgressAt(r, n + k)
      BY <3>0, <3>00 DEF ProgressAt
    <3>5. r = 0 => k = 0
      BY <1>13, <1>14, <2>4
    <3>6. Delivers(Polled(records, k), connector, source.rows, nextStep)
      BY <1>1, <1>2, <1>3, <1>4, <2>1, <2>2, <3>2, <3>3, <3>4, <3>5, PolledDelivers
    <3> QED BY <3>3, <3>6 DEF PolledAs
  <2> QED BY <2>3, <2>4
<1>15. ASSUME NEW k \in amounts, NEW j \in 0..MaxRecords, j <= k,
              connector.mode = "snapshot", connector.sent + j >= SnapshotRows, EmptySnapshot => j = 0,
              NEW records, records = InsertAt(next(k), j + 1, Done)
       PROVE  Polled(records, k) \in DeliveryType /\ Polled(records, k).ok
              /\ Delivers(Polled(records, k), connector, source.rows, nextStep)
  <2>1. k \in Nat /\ next(k) = Part(mode, p, r, n, k)
    BY <1>11
  <2>2. PICK rows \in Seq(Records) : rows = Part(mode, p, r, n, k)
    BY <1>10, <2>1
  <2>3. mode # "stream" /\ nextStep = "capture" /\ TRUE = ~(nextStep = "stream")
    BY <1>1, <1>6, <1>15
  <2>4. source.postgres \/ n + k <= r
    BY <1>12, <2>3
  <2>5. j \in 0..k /\ n + j >= r /\ (r = 0 => j = 0) /\ n + k >= r
    <3>1. j \in Nat /\ j <= k /\ n + j >= r
      BY <1>3, <1>4, <1>15 DEF SnapshotRows
    <3>2. r = 0 => j = 0
      BY <1>13, <1>15, <2>3
    <3> QED BY <2>1, <3>1, <3>2
  <2>6. PICK saw \in BOOLEAN, complete \in BOOLEAN :
          ConvertsTo(InsertAt(Part(mode, p, r, n, k), j + 1, Done), TRUE, ProgressAt(r, n),
                     Gave(Part(mode, p, r, n, k), TRUE, saw, complete))
    BY <1>8, <2>1, <2>3, <2>4, <2>5, DoneConverts
  <2>7. Convert(records, TRUE, progress) = Gave(rows, TRUE, saw, complete)
    BY <1>7, <1>15, <2>1, <2>2, <2>3, <2>6 DEF ConvertsTo
  <2>8. /\ Polled(records, k) \in DeliveryType
        /\ PolledAs(Polled(records, k), rows, TRUE, saw, complete, k)
    BY <2>1, <2>3, <2>7, PolledIs
  <2>9. Delivers(Polled(records, k), connector, source.rows, nextStep)
    BY <1>1, <1>2, <1>3, <1>4, <2>1, <2>2, <2>3, <2>5, <2>8, PolledDelivers
  <2> QED BY <2>8, <2>9 DEF PolledAs
<1>16. CASE d \in {Polled(IF k = 0 THEN <<Heartbeat>> ELSE next(k), k) :
                     k \in {k \in amounts : EmptySnapshot => k = 0}}
  <2>1. PICK k \in amounts : /\ EmptySnapshot => k = 0
                             /\ d = Polled(IF k = 0 THEN <<Heartbeat>> ELSE next(k), k)
    BY <1>16
  <2>2. PICK records : records = IF k = 0 THEN <<Heartbeat>> ELSE next(k)
    OBVIOUS
  <2> HIDE DEF amounts, next
  <2> QED BY <1>14, <2>1, <2>2
<1>17. CASE d \in {Polled(InsertAt(next(j[1]), j[2] + 1, Done), j[1]) :
                     j \in {j \in amounts \X (0..MaxRecords) :
                              /\ connector.mode = "snapshot" /\ j[2] <= j[1]
                              /\ connector.sent + j[2] >= SnapshotRows
                              /\ EmptySnapshot => j[2] = 0}}
  <2>1. PICK j \in amounts \X (0..MaxRecords) :
          /\ connector.mode = "snapshot" /\ j[2] <= j[1]
          /\ connector.sent + j[2] >= SnapshotRows
          /\ EmptySnapshot => j[2] = 0
          /\ d = Polled(InsertAt(next(j[1]), j[2] + 1, Done), j[1])
    BY <1>17
  <2>2. PICK k \in amounts : k = j[1]
    OBVIOUS
  <2>3. PICK i \in 0..MaxRecords : i = j[2]
    OBVIOUS
  <2>4. PICK records : records = InsertAt(next(k), i + 1, Done)
    OBVIOUS
  <2> HIDE DEF amounts, next
  <2> QED BY <1>15, <2>1, <2>2, <2>3, <2>4
<1> QED BY <1>16, <1>17 DEF Deliveries

-----------------------------------------------------------------------------
(* The store's transactions.                                               *)

\* The fields of a store.
LEMMA StoreFields ==
  ASSUME NEW s \in StoreType
  PROVE  /\ s.phase \in Phase /\ s.checkpoint \in Nat \cup {None} /\ s.input \in Seq(Seq(Records))
         /\ s.bytes \in Nat /\ s.taken \in Seq(Records)
BY DEF StoreType

\* A sequence is its first k elements and the others.
LEMMA CutIs ==
  ASSUME NEW S, NEW q \in Seq(S), NEW k \in 0..Len(q)
  PROVE  /\ SubSeq(q, 1, k) \in Seq(S) /\ SubSeq(q, k + 1, Len(q)) \in Seq(S)
         /\ Cat(SubSeq(q, 1, k), SubSeq(q, k + 1, Len(q))) = q
         /\ Len(SubSeq(q, k + 1, Len(q))) = Len(q) - k
<1>1. PICK n \in Nat : n = Len(q)
  OBVIOUS
<1>2. PICK a : a = SubSeq(q, 1, k)
  OBVIOUS
<1>3. PICK b : b = SubSeq(q, k + 1, n)
  OBVIOUS
<1>4. a \in Seq(S) /\ Len(a) = k /\ \A i \in 1..k : a[i] = q[i]
  BY <1>1, <1>2
<1>5. b \in Seq(S) /\ Len(b) = n - k /\ \A i \in 1..(n - k) : b[i] = q[k + i]
  BY <1>1, <1>3
<1>6. /\ Cat(a, b) \in Seq(S) /\ Len(Cat(a, b)) = Len(a) + Len(b)
      /\ \A i \in 1..Len(a) : Cat(a, b)[i] = a[i]
      /\ \A i \in (Len(a) + 1)..(Len(a) + Len(b)) : Cat(a, b)[i] = b[i - Len(a)]
  BY <1>4, <1>5, CatIs
<1>7. k \in Nat /\ k <= n /\ Len(a) = k /\ Len(a) + Len(b) = n
  BY <1>1, <1>4, <1>5
<1>8. ASSUME NEW i \in 1..n PROVE Cat(a, b)[i] = q[i]
  <2>1. CASE i <= k
    BY <1>4, <1>6, <1>7, <2>1
  <2>2. CASE i > k
    <3>1. i \in (k + 1)..n /\ i - k \in 1..(n - k) /\ k + (i - k) = i
      BY <1>7, <2>2
    <3> QED BY <1>5, <1>6, <1>7, <3>1
  <2> QED BY <1>7, <2>1, <2>2
<1>9. Cat(a, b) = q
  BY <1>1, <1>6, <1>7, <1>8, SameElements
<1> QED BY <1>1, <1>2, <1>3, <1>4, <1>5, <1>9

\* t is s without the entries a at its front, and its bytes are counted.
Discarded(s, t, a) ==
  /\ t \in StoreType /\ t.phase = s.phase /\ t.checkpoint = s.checkpoint /\ t.taken = s.taken
  /\ t.bytes = Len(FlattenSeq(t.input)) /\ t.bytes <= s.bytes
  /\ s.input = <<>> => t.input = <<>>
  /\ FlattenSeq(s.input) = Cat(FlattenSeq(a), FlattenSeq(t.input))

\* Discarding keeps the account exact.
LEMMA DiscardIs ==
  ASSUME NEW s \in StoreType, s.bytes = Len(FlattenSeq(s.input)), NEW count \in Nat,
         NEW k, k = IF count < Len(s.input) THEN count ELSE Len(s.input)
  PROVE  Discarded(s, DiscardFront(s, count), SubSeq(s.input, 1, k))
<1>1. PICK q \in Seq(Seq(Records)) : q = s.input
  BY StoreFields
<1>2. PICK n \in Nat : n = Len(q)
  OBVIOUS
<1>3. k \in Nat /\ k <= n
  BY <1>1, <1>2
<1>4. PICK a : a = SubSeq(q, 1, k)
  OBVIOUS
<1>5. PICK b : b = SubSeq(q, k + 1, n)
  OBVIOUS
<1>6. /\ a \in Seq(Seq(Records)) /\ b \in Seq(Seq(Records)) /\ Cat(a, b) = q
      /\ Len(b) = n - k
  <2>1. k \in 0..Len(q)
    BY <1>2, <1>3
  <2>2. /\ SubSeq(q, 1, k) \in Seq(Seq(Records)) /\ SubSeq(q, k + 1, Len(q)) \in Seq(Seq(Records))
        /\ Cat(SubSeq(q, 1, k), SubSeq(q, k + 1, Len(q))) = q
        /\ Len(SubSeq(q, k + 1, Len(q))) = Len(q) - k
    BY <2>1, CutIs, Zenon
  <2> QED BY <1>2, <1>4, <1>5, <2>2, Zenon
<1>9. PICK fa \in Seq(Records) : fa = FlattenSeq(a)
  BY <1>6, FlattenType
<1>10. PICK fb \in Seq(Records) : fb = FlattenSeq(b)
  BY <1>6, FlattenType
<1>11. FlattenSeq(q) = Cat(fa, fb)
  BY <1>6, <1>9, <1>10, FlattenCat
<1>12. Len(Cat(fa, fb)) = Len(fa) + Len(fb)
  BY CatIs
<1>13. s.bytes - Len(fa) = Len(fb) /\ Len(fb) \in Nat /\ Len(fa) \in Nat /\ Len(fb) <= s.bytes
  BY <1>1, <1>11, <1>12
<1>14. PICK t : t = DiscardFront(s, count)
  OBVIOUS
<1>15. t = [s EXCEPT !.input = b, !.bytes = Len(fb)]
  BY <1>1, <1>2, <1>4, <1>5, <1>9, <1>13, <1>14 DEF DiscardFront, Bytes
<1>16. /\ t \in StoreType /\ t.phase = s.phase /\ t.checkpoint = s.checkpoint /\ t.taken = s.taken
       /\ t.input = b /\ t.bytes = Len(fb)
  BY <1>6, <1>13, <1>15 DEF StoreType
<1>17. q = <<>> => b = <<>>
  BY <1>2, <1>3, <1>6
<1> QED BY <1>1, <1>4, <1>9, <1>10, <1>11, <1>13, <1>14, <1>16, <1>17 DEF Discarded

\* Begin: an empty store starts to capture.
LEMMA GoodBegin ==
  ASSUME NEW src \in Sources, NEW sl, NEW s, Good(src, sl, s), s.phase = "fresh"
  PROVE  /\ Good(src, sl, BeginCapture(s))
         /\ BeginCapture(s).phase = "capturing" /\ BeginCapture(s).input = <<>>
<1>1. PICK t : t = BeginCapture(s)
  OBVIOUS
<1>2. s \in StoreType
  BY DEF Good
<1>3. /\ t \in StoreType /\ t.phase = "capturing" /\ t.checkpoint = s.checkpoint
      /\ t.input = s.input /\ t.bytes = s.bytes /\ t.taken = s.taken
  BY <1>1, <1>2 DEF BeginCapture, StoreType, Phase
<1>4. Holds(src.rows, t)
  BY <1>3 DEF Good, Holds, Visible
<1>5. Taken(src, t) /\ t.input = <<>>
  BY <1>3 DEF Good, Taken, Visible
<1>6. Agrees(src, sl, t)
  BY <1>3 DEF Agrees, Visible
<1> QED BY <1>1, <1>3, <1>4, <1>5, <1>6 DEF Good

\* Reset: some entries go; once none is left the store is fresh.
LEMMA GoodReset ==
  ASSUME NEW src \in Sources, NEW sl, NEW s, Good(src, sl, s), s.phase \in {"capturing", "resetting"},
         src.postgres => sl = None
  PROVE  Good(src, sl, Reset(s)) /\ Reset(s).phase \in {"fresh", "resetting"}
<1>1. PICK t : t = DiscardFront(s, ResetBatch)
  OBVIOUS
<1>2. s \in StoreType /\ s.bytes = Len(FlattenSeq(s.input)) /\ ResetBatch \in Nat
  BY CdcAssumption DEF Good, Taken
<1>3. PICK a : Discarded(s, t, a)
  BY <1>1, <1>2, DiscardIs
<1>4. PICK u : u = Reset(s)
  OBVIOUS
<1>5. /\ t \in StoreType /\ t.phase = s.phase /\ t.checkpoint = s.checkpoint /\ t.taken = s.taken
      /\ t.bytes = Len(FlattenSeq(t.input)) /\ t.bytes <= s.bytes
      /\ s.input = <<>> => t.input = <<>>
  BY <1>3 DEF Discarded
<1>6. s.taken = <<>> /\ t.bytes <= src.spool
  <2>1. s.bytes <= src.spool /\ s.taken = <<>>
    BY DEF Good, Holds, Taken, Visible
  <2>2. src.spool \in Nat
    BY CdcAssumption
  <2>3. s.bytes \in Nat /\ t.bytes \in Nat
    BY <1>2, <1>5, StoreFields
  <2> QED BY <1>5, <2>1, <2>2, <2>3
<1>7. CASE t.input = <<>>
  <2>1. u = [t EXCEPT !.phase = "fresh", !.checkpoint = None]
    BY <1>1, <1>4, <1>7 DEF Reset
  <2>2. /\ u \in StoreType /\ u.phase = "fresh" /\ u.checkpoint = None /\ u.input = t.input
        /\ u.bytes = t.bytes /\ u.taken = t.taken
    BY <1>5, <2>1 DEF StoreType, Phase
  <2>3. u.bytes <= src.spool
    BY <1>6, <2>2
  <2>4. Taken(src, u)
    BY <1>5, <1>7, <2>2, <2>3 DEF Taken, Visible
  <2>5. Holds(src.rows, u) /\ Agrees(src, sl, u)
    BY <1>5, <1>6, <2>2 DEF Holds, Visible, Agrees
  <2> QED BY <1>4, <2>2, <2>4, <2>5 DEF Good
<1>8. CASE t.input # <<>>
  <2>1. u = [t EXCEPT !.phase = "resetting"]
    BY <1>1, <1>4, <1>8 DEF Reset
  <2>2. /\ u \in StoreType /\ u.phase = "resetting" /\ u.checkpoint = t.checkpoint /\ u.input = t.input
        /\ u.bytes = t.bytes /\ u.taken = t.taken
    BY <1>5, <2>1 DEF StoreType, Phase
  <2>3. u.bytes <= src.spool
    BY <1>6, <2>2
  <2>4. ~src.postgres => s.checkpoint # None
    BY <1>5, <1>8 DEF Good, Taken
  <2>5. Taken(src, u)
    BY <1>5, <2>2, <2>3, <2>4 DEF Taken, Visible
  <2>6. Holds(src.rows, u) /\ Agrees(src, sl, u)
    BY <1>5, <1>6, <2>2 DEF Holds, Visible, Agrees
  <2> QED BY <1>4, <2>2, <2>5, <2>6 DEF Good
<1> QED BY <1>7, <1>8

-----------------------------------------------------------------------------
\* Concatenation is associative.
LEMMA CatAssoc ==
  ASSUME NEW S, NEW x \in Seq(S), NEW y \in Seq(S), NEW z \in Seq(S)
  PROVE  Cat(Cat(x, y), z) = Cat(x, Cat(y, z))
<1>1. (x \o y) \o z = x \o (y \o z)
  BY ConcatAssociative
<1> QED BY <1>1 DEF Cat

\* Nothing added.
LEMMA CatNone ==
  ASSUME NEW S, NEW x \in Seq(S)
  PROVE  Cat(x, <<>>) = x /\ Cat(<<>>, x) = x
BY DEF Cat

\* The first element.
LEMMA FirstIs ==
  ASSUME NEW S, NEW q \in Seq(S), q # <<>>
  PROVE  SubSeq(q, 1, 1) = <<Head(q)>>
<1>1. Len(q) \in Nat /\ Len(q) >= 1
  OBVIOUS
<1>2. SubSeq(q, 1, 1) \in Seq(S) /\ Len(SubSeq(q, 1, 1)) = 1 /\ SubSeq(q, 1, 1)[1] = q[1]
  BY <1>1
<1>3. <<Head(q)>> \in Seq(S) /\ Len(<<Head(q)>>) = 1 /\ <<Head(q)>>[1] = q[1]
  BY <1>1
<1>4. PICK a : a = SubSeq(q, 1, 1)
  OBVIOUS
<1>5. PICK b : b = <<Head(q)>>
  OBVIOUS
<1>6. a \in Seq(S) /\ b \in Seq(S) /\ Len(a) = 1 /\ Len(b) = 1 /\ a[1] = b[1]
  BY <1>2, <1>3, <1>4, <1>5
<1>7. a = b
  BY <1>6, SameElements
<1> QED BY <1>4, <1>5, <1>7

\* Consume: the rows of an entry move, and all rows stay what they were.
LEMMA GoodConsume ==
  ASSUME NEW src \in Sources, NEW sl, NEW s, Good(src, sl, s), Visible(s), s.input # <<>>
  PROVE  /\ Good(src, sl, Consume(s))
         /\ Consume(s).phase = s.phase /\ Consume(s).checkpoint = s.checkpoint
<1>1. s \in StoreType /\ s.bytes = Len(FlattenSeq(s.input))
  BY DEF Good, Taken
<1>2. PICK q \in Seq(Seq(Records)) : q = s.input
  BY <1>1, StoreFields
<1>3. Len(q) \in Nat /\ Len(q) >= 1
  BY <1>2
<1>4. PICK h \in Seq(Records) : h = Head(q)
  BY <1>3
<1>5. SubSeq(q, 1, 1) = <<h>>
  <2>1. SubSeq(q, 1, 1) = <<Head(q)>>
    BY <1>2, FirstIs, Zenon
  <2> QED BY <1>4, <2>1, Zenon
<1>6. FlattenSeq(<<h>>) = h
  BY FlattenOne
<1>7. PICK t : t = DiscardFront(s, 1)
  OBVIOUS
<1>8. Discarded(s, t, SubSeq(q, 1, 1))
  <2>1. PICK k : k = IF 1 < Len(s.input) THEN 1 ELSE Len(s.input)
    OBVIOUS
  <2>2. k = 1
    <3>1. PICK n \in Nat : n = Len(s.input)
      BY <1>2, <1>3
    <3>2. n >= 1
      BY <1>2, <1>3, <3>1
    <3>3. k = IF 1 < n THEN 1 ELSE n
      BY <2>1, <3>1
    <3>4. ~(1 < n) => n = 1
      BY <3>2
    <3> QED BY <3>3, <3>4, Zenon
  <2>3. Discarded(s, DiscardFront(s, 1), SubSeq(s.input, 1, k))
    BY <1>1, <2>1, DiscardIs
  <2> QED BY <1>2, <1>7, <2>2, <2>3
<1>9. /\ t \in StoreType /\ t.phase = s.phase /\ t.checkpoint = s.checkpoint /\ t.taken = s.taken
      /\ t.bytes = Len(FlattenSeq(t.input)) /\ t.bytes <= s.bytes
      /\ FlattenSeq(q) = Cat(h, FlattenSeq(t.input))
  BY <1>2, <1>5, <1>6, <1>8 DEF Discarded
<1>10. PICK u : u = Consume(s)
  OBVIOUS
<1>11. PICK x \in Seq(Records) : x = s.taken
  BY <1>1, StoreFields
<1>12. PICK y : y = Cat(x, h)
  OBVIOUS
<1>13. y \in Seq(Records)
  BY <1>12, CatIs
<1>14. u = [t EXCEPT !.taken = y]
  BY <1>2, <1>4, <1>7, <1>9, <1>10, <1>11, <1>12 DEF Consume, Cat
<1>15. /\ u \in StoreType /\ u.phase = s.phase /\ u.checkpoint = s.checkpoint /\ u.taken = y
       /\ u.bytes = t.bytes /\ u.input = t.input
  BY <1>9, <1>13, <1>14 DEF StoreType
<1>16. PICK z \in Seq(Records) : z = FlattenSeq(t.input)
  <2>1. t.input \in Seq(Seq(Records))
    BY <1>9, StoreFields
  <2> QED BY <2>1, FlattenType
<1>17. Cat(y, z) = Cat(x, Cat(h, z))
  BY <1>12, CatAssoc
<1>18. Cat(u.taken, FlattenSeq(u.input)) = Cat(s.taken, FlattenSeq(s.input))
  BY <1>2, <1>9, <1>11, <1>15, <1>16, <1>17
<1>19. Holds(src.rows, u)
  BY <1>15, <1>18 DEF Good, Holds, Visible
<1>20. u.bytes \in Nat /\ s.bytes \in Nat /\ u.bytes <= s.bytes
  BY <1>1, <1>9, <1>15, StoreFields
<1>21. u.bytes <= IF u.phase = "streaming" THEN StreamBytes ELSE src.spool
  <2>1. s.bytes <= IF u.phase = "streaming" THEN StreamBytes ELSE src.spool
    BY <1>15 DEF Good, Taken
  <2>2. src.spool \in Nat /\ StreamBytes \in Nat
    BY CdcAssumption
  <2> QED BY <1>20, <2>1, <2>2
<1>22. Taken(src, u)
  <2>1. s.checkpoint # None
    BY DEF Good, Taken
  <2>2. Visible(u) /\ u.phase \notin {"fresh", "capturing", "resetting"}
    BY <1>15 DEF Visible
  <2> QED BY <1>9, <1>15, <1>21, <2>1, <2>2 DEF Taken
<1>23. Agrees(src, sl, u)
  BY <1>15 DEF Good, Agrees, Visible
<1> QED BY <1>10, <1>15, <1>19, <1>22, <1>23 DEF Good

\* t is s after the delivery d.
RecordedAs(s, t, d) ==
  /\ t \in StoreType /\ t.taken = s.taken /\ t.checkpoint = d.checkpoint
  /\ t.phase = IF d.streaming THEN "streaming" ELSE IF d.sealed THEN "sealed" ELSE s.phase
  /\ FlattenSeq(t.input) = Cat(FlattenSeq(s.input), d.rows)
  /\ t.bytes = Len(FlattenSeq(t.input)) /\ t.bytes = s.bytes + Len(d.rows)

\* Recording: the rows of the delivery follow those of the queue.
LEMMA RecordIs ==
  ASSUME NEW s \in StoreType, s.bytes = Len(FlattenSeq(s.input)), NEW d \in DeliveryType
  PROVE  RecordedAs(s, RecordCapture(s, d), d)
<1>1. PICK q \in Seq(Seq(Records)) : q = s.input
  BY StoreFields
<1>2. PICK w \in Seq(Records) : w = d.rows
  BY DEF DeliveryType
<1>3. d.checkpoint \in Nat /\ d.streaming \in BOOLEAN /\ d.sealed \in BOOLEAN
  BY DEF DeliveryType
<1>4. PICK f \in Seq(Records) : f = FlattenSeq(q)
  BY FlattenType
<1>5. PICK i : i = IF w = <<>> THEN q ELSE Append(q, w)
  OBVIOUS
<1>6. i \in Seq(Seq(Records)) /\ FlattenSeq(i) = Cat(f, w)
  <2>1. CASE w = <<>>
    BY <1>4, <1>5, <2>1, CatNone
  <2>2. CASE w # <<>>
    <3>1. PICK e : e = <<w>>
      OBVIOUS
    <3>2. e \in Seq(Seq(Records)) /\ FlattenSeq(e) = w
      BY <3>1, FlattenOne
    <3>3. Append(q, w) = Cat(q, e) /\ Append(q, w) \in Seq(Seq(Records))
      BY <3>1 DEF Cat
    <3>4. FlattenSeq(Cat(q, e)) = Cat(f, w)
      BY <1>4, <3>2, FlattenCat
    <3> QED BY <1>5, <2>2, <3>3, <3>4
  <2> QED BY <2>1, <2>2
<1>7. Len(Cat(f, w)) = Len(f) + Len(w)
  BY CatIs
<1>8. PICK ph \in Phase : ph = IF d.streaming THEN "streaming" ELSE IF d.sealed THEN "sealed" ELSE s.phase
  BY StoreFields DEF Phase
<1>9. PICK n \in Nat : n = s.bytes + Len(w)
  BY StoreFields
<1>10. PICK t : t = RecordCapture(s, d)
  OBVIOUS
<1>11. t = [s EXCEPT !.input = i, !.bytes = n, !.checkpoint = d.checkpoint, !.phase = ph]
  BY <1>1, <1>2, <1>5, <1>8, <1>9, <1>10 DEF RecordCapture
<1>12. /\ t \in StoreType /\ t.input = i /\ t.bytes = n /\ t.checkpoint = d.checkpoint
       /\ t.phase = ph /\ t.taken = s.taken
  BY <1>3, <1>6, <1>11 DEF StoreType
<1>13. n = Len(f) + Len(w)
  BY <1>1, <1>4, <1>9
<1> QED BY <1>1, <1>2, <1>4, <1>6, <1>7, <1>8, <1>9, <1>10, <1>12, <1>13 DEF RecordedAs

\* A recorded delivery leaves a store that is good if its rows go on from the store's.
LEMMA GoodRecord ==
  ASSUME source \in Sources, NEW s, Good(source, slot, s), NEW d \in DeliveryType, Fits(s, d),
         SlotBefore(source, slot, d.checkpoint), ~d.streaming => s.phase = "capturing",
         d.streaming \/ d.sealed =>
           \E p \in 0..d.checkpoint :
             Cat(s.taken, Cat(FlattenSeq(s.input), d.rows)) = Whole(source.rows, p, d.checkpoint)
  PROVE  Good(source, slot, RecordCapture(s, d))
<1>1. s \in StoreType /\ s.bytes = Len(FlattenSeq(s.input))
  BY DEF Good, Taken
<1>2. PICK t : t = RecordCapture(s, d)
  OBVIOUS
<1>3. /\ t \in StoreType /\ t.taken = s.taken /\ t.checkpoint = d.checkpoint
      /\ t.phase = IF d.streaming THEN "streaming" ELSE IF d.sealed THEN "sealed" ELSE s.phase
      /\ FlattenSeq(t.input) = Cat(FlattenSeq(s.input), d.rows)
      /\ t.bytes = Len(FlattenSeq(t.input)) /\ t.bytes = s.bytes + Len(d.rows)
  BY <1>1, <1>2, RecordIs DEF RecordedAs
<1>4. d.checkpoint \in Nat /\ d.checkpoint # None /\ d.streaming \in BOOLEAN /\ d.sealed \in BOOLEAN
  BY CdcAssumption DEF DeliveryType
<1>5. Visible(t) <=> d.streaming \/ d.sealed
  BY <1>3, <1>4 DEF Visible
<1>6. t.phase \in {"streaming", "sealed", "capturing"} /\ (t.phase = "streaming" <=> d.streaming)
  BY <1>3, <1>4
<1>7. Holds(source.rows, t)
  <2>1. CASE d.streaming \/ d.sealed
    BY <1>3, <1>5, <2>1 DEF Holds
  <2>2. CASE ~(d.streaming \/ d.sealed)
    <3>1. s.taken = <<>>
      BY <2>2 DEF Good, Holds, Visible
    <3> QED BY <1>3, <1>5, <2>2, <3>1 DEF Holds
  <2> QED BY <2>1, <2>2
<1>8. t.bytes <= IF t.phase = "streaming" THEN StreamBytes ELSE source.spool
  <2>1. s.bytes \in Nat /\ d.rows \in Seq(Records)
    BY <1>1 DEF StoreType, DeliveryType
  <2>2. ~d.streaming => s.bytes <= source.spool
    BY DEF Good, Taken
  <2>3. CASE d.rows = <<>>
    <3>1. t.bytes = s.bytes
      BY <1>3, <2>1, <2>3
    <3>2. d.streaming => s.bytes <= StreamBytes
      BY <2>3 DEF Fits
    <3> QED BY <1>6, <2>2, <3>1, <3>2
  <2>4. CASE d.rows # <<>>
    <3>1. s.bytes + Len(d.rows) <= IF d.streaming THEN StreamBytes ELSE source.spool
      BY <2>4 DEF Fits, Capacity, SpoolBytes
    <3> QED BY <1>3, <1>6, <3>1
  <2> QED BY <2>3, <2>4
<1>9. Taken(source, t)
  BY <1>3, <1>4, <1>6, <1>8 DEF Taken
<1>10. Agrees(source, slot, t)
  <2>1. source.postgres => slot \in Nat /\ slot # None /\ slot <= t.checkpoint
    BY <1>3, CdcAssumption DEF SlotBefore
  <2> QED BY <1>6, <2>1 DEF Agrees
<1> QED BY <1>2, <1>3, <1>7, <1>9, <1>10 DEF Good

-----------------------------------------------------------------------------
(* The steps.                                                              *)

\* A step that only goes on with the round.
LEMMA MovesOn ==
  ASSUME IInv, Settled, pc' \in {"stack", "finish"}, UNCHANGED source,
         UNCHANGED <<store, durable, process, needsReopen, external>>
  PROVE  IInv'
<1> USE DEF process, external
<1>1. TypeOK'
  BY DEF IInv, TypeOK, PCs
<1>2. Stores'
  BY DEF IInv, Stores
<1>3. Barriers'
  BY DEF IInv, Barriers, Settled, Working
<1>4. Phases'
  BY DEF IInv, Phases, Settled, Working
<1>5. InHand'
  BY DEF IInv, InHand, Held, Settled, Working, HandBegin, HandReset, HandCdc
<1>6. Connected'
  BY DEF IInv, Connected, Settled, Working
<1>7. Content'
  BY DEF IInv, Content, Settled, Working
<1> QED BY <1>1, <1>2, <1>3, <1>4, <1>5, <1>6, <1>7 DEF IInv

\* A step that ends the round with a failure, after which the flow is reopened.
LEMMA FailsStop ==
  ASSUME IInv, TypeOK', Stores', pc' \in {"finish", "closed"}, needsReopen',
         (Absent(connector) => connector = Stopped)'
  PROVE  IInv'
<1>1. Barriers'
  BY DEF Barriers
<1>2. ~Working'
  BY DEF Working
<1>3. Phases'
  BY <1>2 DEF Phases, Settled
<1>4. InHand' /\ Connected'
  BY <1>2 DEF InHand, Connected
<1>5. Content'
  BY <1>2 DEF Content, Settled
<1> QED BY <1>1, <1>3, <1>4, <1>5 DEF IInv

\* A transaction whose result is good.
LEMMA Commits ==
  ASSUME IInv, NEW t, NEW next, Commit(t, next), Good(source, slot, t), source' = source, slot' = slot
  PROVE  /\ Stores' /\ store' \in durable'
         /\ \/ store' = t /\ pc' = next /\ needsReopen' = needsReopen
            \/ store' = store /\ pc' = "finish" /\ needsReopen' = TRUE
<1>1. durable' = durable \cup {t}
  BY DEF Commit
<1>2. Stores'
  BY <1>1 DEF IInv, Stores
<1>3. store' = t \/ store' = store
  BY DEF Commit
<1>4. store' \in durable'
  BY <1>1, <1>3 DEF IInv, TypeOK
<1> QED BY <1>2, <1>4 DEF Commit

\* The store in use is good.
LEMMA StoreGood ==
  ASSUME IInv
  PROVE  /\ Good(source, slot, store) /\ store \in StoreType /\ source \in Sources
         /\ Holds(source.rows, store) /\ Taken(source, store) /\ Agrees(source, slot, store)
BY DEF IInv, TypeOK, Stores, Good

\* The invariant holds of a store just created and a process not yet restored.
LEMMA InitIInv == Init => IInv
<1> SUFFICES ASSUME Init PROVE IInv
  OBVIOUS
<1>1. EmptyStore \in StoreType
  BY DEF EmptyStore, StoreType, Phase
<1>2. /\ EmptyStore.phase = "fresh" /\ EmptyStore.checkpoint = None /\ EmptyStore.input = <<>>
      /\ EmptyStore.bytes = 0 /\ EmptyStore.taken = <<>>
  BY DEF EmptyStore
<1>3. source \in Sources /\ source.spool \in Nat
  BY SourceType DEF Init
<1>4. Good(source, None, EmptyStore)
  <2>1. Holds(source.rows, EmptyStore) /\ Agrees(source, None, EmptyStore)
    BY <1>2 DEF Holds, Visible, Agrees
  <2>2. Len(FlattenSeq(<<>>)) = 0
    BY FlattenEmpty
  <2>3. Taken(source, EmptyStore)
    BY <1>2, <1>3, <2>2 DEF Taken, Visible
  <2> QED BY <1>1, <2>1, <2>3 DEF Good
<1>5. TypeOK
  BY <1>3 DEF Init, TypeOK, PCs, NextSteps, NoProgress, ProgressType, Stopped, Connectors
<1>6. Stores
  BY <1>4 DEF Init, Stores
<1>7. Absent(Stopped)
  BY DEF Absent, Stopped
<1> QED BY <1>5, <1>6, <1>7 DEF Init, IInv, Barriers, Phases, Fresh, Settled, Working, InHand, Connected, Content

\* restore() takes up a store that a crash left, in the step its phase calls for.
LEMMA RestoreStep ==
  ASSUME IInv, Restore, UNCHANGED source
  PROVE  IInv'
<1> USE DEF external
<1>1. /\ pc = "down" /\ pc' = "poll" /\ nextStep' = StepAfter(store.phase)
      /\ resume' = (IF Visible(store) \/ ~Postgres THEN store.checkpoint ELSE None)
      /\ UNCHANGED <<source, store, durable, progress, delivery, needsReopen, connector, slot, changes>>
  BY DEF Restore
<1>2. store.phase \in Phase /\ store.checkpoint \in Nat \cup {None}
  BY StoreGood, StoreFields
<1>3. nextStep' \in NextSteps /\ Stands(nextStep', store.phase) /\ nextStep' # "capture"
  BY <1>1, <1>2 DEF StepAfter, Phase, NextSteps, Stands
<1>4. nextStep' = "stream" => resume' = store.checkpoint
  BY <1>1, <1>3 DEF Stands, Visible
<1>5. resume' \in Nat \cup {None}
  BY <1>1, <1>2
<1>6. delivery = None /\ Absent(connector) /\ ~needsReopen /\ durable = {store}
  BY <1>1 DEF IInv, Phases, Fresh, Barriers
<1>7. TypeOK'
  BY <1>1, <1>3, <1>5 DEF IInv, TypeOK, PCs
<1>8. Stores'
  BY <1>1 DEF IInv, Stores
<1>9. Barriers'
  BY <1>1, <1>6 DEF Barriers
<1>10. Phases'
  BY <1>1, <1>3 DEF Phases, Settled
<1>11. InHand'
  BY <1>1, <1>6 DEF InHand, Held
<1>12. Connected'
  BY <1>1, <1>6 DEF IInv, Connected
<1>13. Content'
  BY <1>1, <1>3, <1>4 DEF Content
<1> QED BY <1>7, <1>8, <1>9, <1>10, <1>11, <1>12, <1>13 DEF IInv

\* Offering the begin of a bootstrap keeps the invariant.
LEMMA PollBeginStep ==
  ASSUME IInv, PollBegin, UNCHANGED source
  PROVE  IInv'
<1> USE DEF external
<1>1. /\ pc = "poll" /\ delivery = None /\ nextStep \in {"begin", "reset"}
      /\ delivery' = Maintenance(nextStep) /\ pc' = "record"
      /\ UNCHANGED <<source, store, durable, nextStep, resume, progress, needsReopen, connector, slot, changes>>
  BY DEF PollBegin
<1>2. Settled /\ Working /\ Settled' /\ Working'
  BY <1>1 DEF IInv, Barriers, Settled, Working
<1>3. nextStep = "reset" => (source.postgres => slot = None)
  <2>1. nextStep = "reset" => store.phase = "resetting"
    BY <1>2 DEF IInv, Phases, Stands
  <2> QED BY <2>1, StoreGood DEF Agrees
<1>4. TypeOK'
  BY <1>1 DEF IInv, TypeOK, PCs
<1>5. Stores'
  BY <1>1 DEF IInv, Stores
<1>6. Barriers'
  BY <1>1 DEF IInv, Barriers
<1>7. Phases'
  BY <1>1, <1>2 DEF IInv, Phases
<1>8. InHand'
  BY <1>1, <1>3 DEF InHand, HandBegin, HandReset
<1>9. Connected'
  BY <1>1, <1>2 DEF IInv, Connected
<1>10. Content'
  BY <1>1, <1>2 DEF IInv, Content
<1> QED BY <1>4, <1>5, <1>6, <1>7, <1>8, <1>9, <1>10 DEF IInv

\* Offering the next cleaning step of a reset keeps the invariant.
LEMMA PollPrepareResetStep ==
  ASSUME IInv, PollPrepareReset, UNCHANGED source
  PROVE  IInv'
<1>1. /\ pc = "poll" /\ delivery = None /\ nextStep = "prepareReset"
      /\ delivery' = Maintenance("reset") /\ connector' = Stopped
      /\ slot' = (IF source.postgres THEN None ELSE slot) /\ pc' = "record"
      /\ UNCHANGED <<source, store, durable, nextStep, resume, progress, needsReopen, changes>>
  BY DEF PollPrepareReset, RESET_REQUIRES_SOURCE_CLEANUP, Postgres
<1>2. Settled /\ Working /\ Settled' /\ Working' /\ durable = {store}
  BY <1>1 DEF IInv, Barriers, Settled, Working
<1>3. store.phase = "capturing"
  BY <1>1, <1>2 DEF IInv, Phases, Stands
<1>4. TypeOK'
  BY <1>1 DEF IInv, TypeOK, PCs, Connectors, Stopped
<1>5. Stores'
  <2>1. Agrees(source, slot', store)
    BY <1>3 DEF Agrees, Visible
  <2>2. Good(source, slot', store)
    BY <2>1, StoreGood DEF Good
  <2> QED BY <1>1, <1>2, <2>2 DEF Stores
<1>6. Barriers'
  BY <1>1, <1>2 DEF IInv, Barriers
<1>7. Phases'
  BY <1>1, <1>2 DEF IInv, Phases
<1>8. InHand'
  BY <1>1 DEF InHand, HandReset
<1>9. Connected'
  BY <1>1 DEF Connected, Absent, Stopped
<1>10. Content'
  BY <1>1 DEF Content
<1> QED BY <1>4, <1>5, <1>6, <1>7, <1>8, <1>9, <1>10 DEF IInv

-----------------------------------------------------------------------------
\* A connector that starts to stream goes on from the checkpoint of the store, which the
\* slot still has.
LEMMA StreamsFrom ==
  ASSUME IInv, pc = "poll", nextStep = "stream"
  PROVE  /\ resume = store.checkpoint /\ resume \in Nat
         /\ source.postgres => slot \in Nat /\ slot <= resume
<1>1. Settled
  BY DEF IInv, Barriers, Settled, Working
<1>2. Visible(store) /\ resume = store.checkpoint
  BY <1>1 DEF IInv, Phases, Stands, Content, Visible
<1>3. store.checkpoint \in Nat
  BY <1>2, StoreGood, StoreFields DEF Taken
<1>4. source.postgres => slot # None /\ slot <= store.checkpoint
  BY <1>2, StoreGood DEF Agrees
<1>5. slot \in Nat \cup {None}
  BY DEF IInv, TypeOK
<1> QED BY <1>2, <1>3, <1>4, <1>5

\* Both ways to start.
LEMMA StartsConnector ==
  ASSUME IInv, StartConnector, UNCHANGED source
  PROVE  /\ TypeOK' /\ Stores' /\ ~Absent(connector')
         /\ connector'.sent = 0
         /\ nextStep = IF connector'.mode = "stream" THEN "stream" ELSE "capture"
         /\ SlotBefore(source, slot', After(connector'.mode, connector'.at, source.rows, 0))
         /\ nextStep = "stream" => resume = After(connector'.mode, connector'.at, source.rows, 0)
<1>0. /\ pc = "poll" /\ delivery = None /\ Absent(connector)
      /\ UNCHANGED <<source, store, durable, nextStep, resume, progress, delivery, changes>>
      /\ pc' \in {pc, "finish"} /\ needsReopen' \in {needsReopen, TRUE}
  BY DEF StartConnector, process, FailStop
<1>1. durable = {store} /\ Settled
  BY <1>0 DEF IInv, Barriers, Settled, Working
<1>2. source \in Sources /\ source.rows \in Nat /\ source.postgres \in BOOLEAN /\ changes \in Nat
  BY SourceType DEF IInv, TypeOK
<1>3. CASE nextStep = "capture"
  <2>1. /\ connector' = [mode |-> "snapshot", at |-> changes, sent |-> 0]
        /\ slot' = (IF source.postgres THEN changes ELSE None)
    BY <1>3 DEF StartConnector, Postgres
  <2>2. /\ connector' \in Connectors /\ connector'.mode = "snapshot" /\ connector'.at = changes
        /\ connector'.sent = 0 /\ ~Absent(connector')
    BY <1>2, <2>1 DEF Connectors, Absent
  <2>3. After("snapshot", changes, source.rows, 0) = changes
    BY <1>2 DEF After
  <2>4. store.phase = "capturing"
    BY <1>1, <1>3 DEF IInv, Phases, Stands
  <2>5. Good(source, slot', store)
    BY <2>4, StoreGood DEF Good, Agrees, Visible
  <2>6. Stores'
    BY <1>0, <1>1, <2>5 DEF Stores
  <2>7. TypeOK'
    BY <1>0, <1>2, <2>1, <2>2 DEF IInv, TypeOK, PCs
  <2>8. SlotBefore(source, slot', changes)
    BY <1>2, <2>1 DEF SlotBefore
  <2> QED BY <1>3, <2>2, <2>3, <2>6, <2>7, <2>8
<1>4. CASE nextStep = "stream"
  <2>1. resume \in Nat /\ (source.postgres => slot \in Nat /\ slot <= resume)
    BY <1>0, <1>4, StreamsFrom
  <2>2. connector' = [mode |-> "stream", sent |-> 0, at |-> resume] /\ slot' = slot
    BY <1>4, <2>1 DEF StartConnector, Postgres
  <2>3. /\ connector' \in Connectors /\ connector'.mode = "stream" /\ connector'.at = resume
        /\ connector'.sent = 0 /\ ~Absent(connector')
    BY <2>1, <2>2 DEF Connectors, Absent
  <2>4. After("stream", resume, source.rows, 0) = resume
    BY <2>1 DEF After
  <2>5. Stores'
    BY <1>0, <2>2 DEF IInv, Stores
  <2>6. TypeOK'
    BY <1>0, <2>2, <2>3 DEF IInv, TypeOK, PCs
  <2>7. SlotBefore(source, slot', resume)
    BY <2>1, <2>2 DEF SlotBefore
  <2> QED BY <1>4, <2>3, <2>4, <2>5, <2>6, <2>7
<1> QED BY <1>3, <1>4 DEF StartConnector

\* Starting a connector, with or without a slot left behind, keeps it.
LEMMA StartConnectorStep ==
  ASSUME IInv, StartConnector, UNCHANGED source
  PROVE  IInv'
<1>1. /\ pc = "poll" /\ delivery = None /\ Absent(connector)
      /\ UNCHANGED <<source, store, durable, nextStep, resume, progress, delivery, changes>>
      /\ \/ pc' = pc /\ needsReopen' = needsReopen
         \/ pc' = "finish" /\ needsReopen' = TRUE
  BY DEF StartConnector, process, FailStop
<1>2. CASE pc' = "finish" /\ needsReopen' = TRUE
  BY <1>2, StartsConnector, FailsStop
<1>3. CASE pc' = pc /\ needsReopen' = needsReopen
  <2>1. Settled /\ Working /\ Settled' /\ Working'
    BY <1>1, <1>3 DEF IInv, Barriers, Settled, Working
  <2>2. Barriers'
    BY <1>1, <1>3 DEF IInv, Barriers
  <2>3. Phases'
    BY <1>1, <1>3, <2>1 DEF IInv, Phases
  <2>4. InHand'
    BY <1>1, <1>3 DEF InHand, Held
  <2>5. Connected'
    BY <1>1, StartsConnector DEF Connected
  <2>6. Content'
    <3>1. connector.sent = 0 /\ connector'.sent = 0
      BY <1>1, StartsConnector DEF IInv, Connected, Stopped
    <3>2. \A mode, p, r : Part(mode, p, r, 0, 0) = <<>>
      BY PartNone
    <3>3. nextStep = "capture" => FlattenSeq(store.input) = <<>> /\ progress = ProgressAt(source.rows, 0)
      BY <2>1, <3>1, <3>2 DEF IInv, Content
    <3>4. nextStep = "stream" => resume = store.checkpoint
      BY <2>1 DEF IInv, Content
    <3> QED BY <1>1, <1>3, <3>1, <3>2, <3>3, <3>4 DEF Content
  <2> QED BY <2>2, <2>3, <2>4, <2>5, <2>6, StartsConnector DEF IInv
<1> QED BY <1>1, <1>2, <1>3

\* Receiving a delivery, converting it and offering it keeps it.
LEMMA PollDeliveryStep ==
  ASSUME IInv, PollDelivery, UNCHANGED source
  PROVE  IInv'
<1> USE DEF external
<1>1. /\ Running /\ delivery' \in Deliveries /\ pc' = "record"
      /\ UNCHANGED <<source, store, durable, nextStep, resume, progress, needsReopen, connector, slot, changes>>
  BY DEF PollDelivery
<1>2. pc = "poll" /\ ~Absent(connector) /\ Settled /\ Working /\ Settled' /\ Working'
  BY <1>1 DEF Running, IInv, Barriers, Settled, Working
<1>3. PICK d : d = delivery'
  OBVIOUS
<1>4. d \in DeliveryType /\ Delivers(d, connector, source.rows, nextStep)
  BY <1>1, <1>3, DeliveriesAre DEF IInv
<1>5. SlotBefore(source, slot, d.checkpoint)
  <2>1. connector.at \in Nat /\ connector.sent \in Nat /\ source.rows \in Nat
    BY SourceType DEF IInv, TypeOK, Connectors
  <2>2. PICK a \in Nat : a = After(connector.mode, connector.at, source.rows, connector.sent)
    BY <2>1, AfterType
  <2>3. d.sent \in Nat /\ d.checkpoint \in Nat
    BY <1>4 DEF DeliveryType
  <2>4. a <= d.checkpoint
    BY <1>4, <2>1, <2>2, <2>3, AfterType DEF Delivers
  <2>5. SlotBefore(source, slot, a)
    BY <1>2, <2>2 DEF IInv, Connected
  <2> QED BY <2>3, <2>4, <2>5 DEF SlotBefore
<1>6. TypeOK'
  BY <1>1 DEF IInv, TypeOK, PCs
<1>7. Stores'
  BY <1>1 DEF IInv, Stores
<1>8. Barriers'
  BY <1>1, <1>2 DEF IInv, Barriers
<1>9. Phases'
  BY <1>1, <1>2 DEF IInv, Phases
<1>10. InHand'
  BY <1>1, <1>2, <1>3, <1>4, <1>5 DEF InHand, HandCdc
<1>11. Connected'
  BY <1>1, <1>2 DEF IInv, Connected
<1>12. Content'
  BY <1>1, <1>2 DEF IInv, Content
<1> QED BY <1>6, <1>7, <1>8, <1>9, <1>10, <1>11, <1>12 DEF IInv

\* A poll with nothing to offer keeps it.
LEMMA PollNoneStep ==
  ASSUME IInv, PollNone, UNCHANGED source
  PROVE  IInv'
<1>1. Settled
  BY DEF PollNone, Running, IInv, Barriers, Settled, Working
<1> QED BY <1>1, MovesOn DEF PollNone

\* A failing poll, which stops the process, keeps it.
LEMMA PollFailsStep ==
  ASSUME IInv, PollFails, UNCHANGED source
  PROVE  IInv'
<1>1. /\ pc = "poll" /\ pc' = "finish" /\ needsReopen' = TRUE
      /\ slot' \in {slot} \cup (IF nextStep = "prepareReset" THEN {None} ELSE {})
      /\ UNCHANGED <<source, store, durable, nextStep, resume, progress, connector, changes>>
  BY DEF PollFails, FailStop, process
<1>2. TypeOK'
  BY <1>1 DEF IInv, TypeOK, PCs
<1>3. Stores'
  <2>1. CASE slot' = slot
    BY <1>1, <2>1 DEF IInv, Stores
  <2>2. CASE slot' # slot
    <3>1. nextStep = "prepareReset" /\ durable = {store} /\ Settled
      BY <1>1, <2>2 DEF IInv, Barriers, Settled, Working
    <3>2. store.phase = "capturing"
      BY <3>1 DEF IInv, Phases, Stands
    <3>3. Good(source, slot', store)
      BY <3>2, StoreGood DEF Good, Agrees, Visible
    <3> QED BY <1>1, <3>1, <3>3 DEF Stores
  <2> QED BY <2>1, <2>2
<1>4. (Absent(connector) => connector = Stopped)'
  BY <1>1 DEF IInv, Connected
<1> QED BY <1>1, <1>2, <1>3, <1>4, FailsStop

\* Offering again what is still in hand keeps it.
LEMMA PollHeldStep ==
  ASSUME IInv, PollHeld, UNCHANGED source
  PROVE  IInv'
<1> USE DEF process, external
<1>1. /\ pc = "poll" /\ delivery # None /\ pc' = "record"
      /\ UNCHANGED <<source, store, durable, process, needsReopen, external>>
  BY DEF PollHeld
<1>2. Settled /\ Working /\ Settled' /\ Working' /\ Held
  BY <1>1 DEF IInv, Barriers, Settled, Working, Held
<1>3. TypeOK'
  BY <1>1 DEF IInv, TypeOK, PCs
<1>4. Stores'
  BY <1>1 DEF IInv, Stores
<1>5. Barriers'
  BY <1>1 DEF IInv, Barriers
<1>6. Phases'
  BY <1>1, <1>2 DEF IInv, Phases
<1>7. InHand'
  BY <1>1, <1>2 DEF IInv, InHand, HandBegin, HandReset, HandCdc
<1>8. Connected'
  BY <1>1, <1>2 DEF IInv, Connected
<1>9. Content'
  BY <1>1, <1>2 DEF IInv, Content
<1> QED BY <1>3, <1>4, <1>5, <1>6, <1>7, <1>8, <1>9 DEF IInv

-----------------------------------------------------------------------------
\* What is in hand when a delivery of the connector is recorded or acked.
LEMMA InHandCdc ==
  ASSUME IInv, pc \in {"record", "sync", "ack"}, delivery.kind = "cdc"
  PROVE  HandCdc /\ Working
<1>1. Working /\ Held
  BY DEF IInv, Barriers, Working, Held
<1>2. Maintenance("begin").kind # "cdc" /\ Maintenance("reset").kind # "cdc"
  BY DEF Maintenance
<1> QED BY <1>1, <1>2 DEF IInv, InHand, HandBegin, HandReset

\* What is in hand otherwise.
LEMMA InHandOther ==
  ASSUME IInv, pc \in {"record", "sync", "ack"}, delivery.kind # "cdc"
  PROVE  /\ Working /\ Absent(connector)
         /\ \/ HandBegin /\ delivery.kind = "begin"
            \/ HandReset /\ delivery.kind = "reset"
<1>1. Working /\ Held
  BY DEF IInv, Barriers, Working, Held
<1>2. Maintenance("begin").kind = "begin" /\ Maintenance("reset").kind = "reset"
  BY DEF Maintenance
<1>3. ~HandCdc
  BY DEF HandCdc, DeliveryType
<1>4. HandBegin \/ HandReset
  BY <1>1, <1>3 DEF IInv, InHand
<1>5. Absent(connector)
  BY <1>1, <1>4 DEF IInv, Connected, HandBegin, HandReset
<1> QED BY <1>1, <1>2, <1>4, <1>5 DEF HandBegin, HandReset

\* Recording a begin or a reset step, committed or not, keeps it.
LEMMA RecordMaintenanceStep ==
  ASSUME IInv, RecordMaintenance, UNCHANGED source
  PROVE  IInv'
<1> USE DEF process, external
<1>1. PICK t : t = IF delivery.kind = "begin" THEN BeginCapture(store) ELSE Reset(store)
  OBVIOUS
<1>2. /\ pc = "record" /\ delivery.kind # "cdc" /\ Commit(t, "ack")
      /\ UNCHANGED <<source, nextStep, resume, progress, delivery, connector, slot, changes>>
  BY <1>1 DEF RecordMaintenance
<1>3. /\ Working /\ Settled /\ Absent(connector)
      /\ \/ HandBegin /\ delivery.kind = "begin"
         \/ HandReset /\ delivery.kind = "reset"
  BY <1>2, InHandOther DEF Settled
<1>4. Good(source, slot, t) /\ Recorded(delivery, t)
  <2>1. CASE HandBegin /\ delivery.kind = "begin"
    <3>1. store.phase = "fresh"
      BY <1>3, <2>1 DEF IInv, Phases, Stands, HandBegin
    <3>2. Good(source, slot, t) /\ t.phase = "capturing" /\ t.input = <<>>
      BY <1>1, <2>1, <3>1, StoreGood, GoodBegin
    <3> QED BY <2>1, <3>2 DEF Recorded
  <2>2. CASE HandReset /\ delivery.kind = "reset"
    <3>1. store.phase \in {"capturing", "resetting"} /\ (source.postgres => slot = None)
      BY <1>3, <2>2 DEF IInv, Phases, Stands, HandReset
    <3>2. Good(source, slot, t) /\ t.phase \in {"fresh", "resetting"}
      BY <1>1, <2>2, <3>1, StoreGood, GoodReset
    <3> QED BY <2>2, <3>2 DEF Recorded
  <2> QED BY <1>3, <2>1, <2>2
<1>5. /\ Stores' /\ store' \in durable'
      /\ \/ store' = t /\ pc' = "ack" /\ needsReopen' = needsReopen
         \/ store' = store /\ pc' = "finish" /\ needsReopen' = TRUE
  BY <1>2, <1>4, Commits
<1>6. TypeOK'
  BY <1>2, <1>5 DEF IInv, TypeOK, PCs
<1>7. (Absent(connector) => connector = Stopped)'
  BY <1>2 DEF IInv, Connected
<1>8. CASE pc' = "finish" /\ needsReopen' = TRUE
  BY <1>5, <1>6, <1>7, <1>8, FailsStop
<1>9. CASE store' = t /\ pc' = "ack" /\ needsReopen' = needsReopen
  <2>1. Barriers'
    BY <1>2, <1>3, <1>9 DEF Barriers, Working
  <2>2. Phases'
    BY <1>2, <1>4, <1>9 DEF Phases, Settled
  <2>3. InHand'
    BY <1>2, <1>3, <1>9 DEF InHand, HandBegin, HandReset
  <2>4. Connected'
    BY <1>2, <1>3, <1>7 DEF Connected
  <2>5. Content'
    <3>1. nextStep' # "capture"
      BY <1>2, <1>3 DEF HandBegin, HandReset
    <3>2. ~Settled'
      BY <1>9 DEF Settled
    <3> QED BY <3>1, <3>2 DEF Content
  <2> QED BY <1>5, <1>6, <2>1, <2>2, <2>3, <2>4, <2>5 DEF IInv
<1> QED BY <1>5, <1>8, <1>9

\* The rows of a delivery in hand go on from what the store has.
LEMMA GoesOn ==
  ASSUME IInv, pc = "record", delivery.kind = "cdc"
  PROVE  /\ ~delivery.streaming =>
              /\ nextStep = "capture" /\ store.phase = "capturing"
              /\ Cat(FlattenSeq(store.input), delivery.rows)
                   = Part(connector.mode, connector.at, source.rows, 0, connector.sent + delivery.sent)
         /\ delivery.streaming \/ delivery.sealed =>
              \E p \in 0..delivery.checkpoint :
                Cat(store.taken, Cat(FlattenSeq(store.input), delivery.rows))
                  = Whole(source.rows, p, delivery.checkpoint)
<1>1. HandCdc /\ Working /\ Settled
  BY InHandCdc DEF Settled
<1>2. PICK d \in DeliveryType : d = delivery
  BY <1>1 DEF HandCdc
<1>3. /\ d.rows = Part(connector.mode, connector.at, source.rows, connector.sent, d.sent)
      /\ d.checkpoint = After(connector.mode, connector.at, source.rows, connector.sent + d.sent)
      /\ d.streaming <=> nextStep = "stream"
      /\ d.sealed => nextStep = "capture" /\ connector.sent + d.sent >= source.rows
  BY <1>1, <1>2 DEF HandCdc, Delivers
<1>4. nextStep = IF connector.mode = "stream" THEN "stream" ELSE "capture"
  BY <1>1 DEF IInv, Connected, HandCdc
<1>5. PICK mode : mode = connector.mode
  OBVIOUS
<1>6. PICK at \in Nat : at = connector.at
  BY DEF IInv, TypeOK, Connectors
<1>7. PICK n \in Nat : n = connector.sent
  BY DEF IInv, TypeOK, Connectors
<1>8. PICK r \in Nat : r = source.rows
  BY SourceType DEF IInv, TypeOK
<1>9. PICK k \in Nat : k = d.sent
  BY DEF DeliveryType
<1>10. PICK f \in Seq(Records) : f = FlattenSeq(store.input)
  BY StoreGood, StoreFields, FlattenType
<1>11. PICK x \in Seq(Records) : x = store.taken
  BY StoreGood, StoreFields
<1>12. PICK w \in Seq(Records) : w = d.rows
  BY DEF DeliveryType
<1>13. w = Part(mode, at, r, n, k) /\ d.checkpoint = After(mode, at, r, n + k)
  BY <1>3, <1>5, <1>6, <1>7, <1>8, <1>9, <1>12
<1>14. CASE mode # "stream"
  <2>1. nextStep = "capture" /\ ~d.streaming
    BY <1>3, <1>4, <1>5, <1>14
  <2>2. store.phase = "capturing" /\ f = Part(mode, at, r, 0, n)
    BY <1>1, <1>5, <1>6, <1>7, <1>8, <1>10, <2>1 DEF IInv, Phases, Stands, Content
  <2>3. Cat(f, w) = Part(mode, at, r, 0, n + k)
    <3>1. 0 \in Nat /\ n = 0 + n
      OBVIOUS
    <3>2. PICK m \in Nat : m = n + k
      OBVIOUS
    <3>3. Joins(Part(mode, at, r, 0, n), Part(mode, at, r, n, k), Part(mode, at, r, 0, m))
      BY <3>1, <3>2, PartCat
    <3> QED BY <1>13, <2>2, <3>2, <3>3 DEF Joins
  <2>4. x = <<>>
    BY <1>11, <2>2, StoreGood DEF Holds, Visible
  <2>5. ASSUME d.sealed
        PROVE  \E p \in 0..d.checkpoint : Cat(x, Cat(f, w)) = Whole(r, p, d.checkpoint)
    <3>1. n + k >= r /\ n + k \in Nat
      BY <1>3, <1>7, <1>8, <1>9, <2>5
    <3>2. PICK e : e = After(mode, at, r, n + k)
      OBVIOUS
    <3>3. e \in Nat /\ at <= e /\ Part(mode, at, r, 0, n + k) = Whole(r, at, e)
      BY <1>14, <3>1, <3>2, WholeIs
    <3>4. Cat(f, w) \in Seq(Records)
      BY CatIs
    <3>5. Cat(x, Cat(f, w)) = Cat(f, w)
      BY <2>4, <3>4, CatNone
    <3>6. at \in 0..d.checkpoint /\ Cat(x, Cat(f, w)) = Whole(r, at, d.checkpoint)
      BY <1>13, <2>3, <3>2, <3>3, <3>5
    <3> QED BY <3>6
  <2> QED BY <1>2, <1>5, <1>6, <1>7, <1>8, <1>9, <1>10, <1>11, <1>12, <2>1, <2>2, <2>3, <2>5
<1>15. CASE mode = "stream"
  <2>1. nextStep = "stream" /\ d.streaming /\ ~d.sealed
    BY <1>3, <1>4, <1>5, <1>15
  <2>2. Visible(store) /\ resume = store.checkpoint
    BY <1>1, <2>1 DEF IInv, Phases, Stands, Content, Visible
  <2>3. resume = After(mode, at, r, n)
    BY <1>1, <1>5, <1>6, <1>7, <1>8, <2>1 DEF IInv, Connected, HandCdc
  <2>4. After(mode, at, r, n) = at + n /\ After(mode, at, r, n + k) = (at + n) + k
    BY <1>15 DEF After
  <2>5. PICK e \in Nat : e = at + n
    OBVIOUS
  <2>6. store.checkpoint = e /\ d.checkpoint = e + k
    BY <1>13, <2>2, <2>3, <2>4, <2>5
  <2>7. PICK p \in 0..e : Cat(x, f) = Whole(r, p, e)
    BY <1>8, <1>10, <1>11, <2>2, <2>6, StoreGood DEF Holds
  <2>8. p \in Nat /\ p <= e /\ p \in 0..(e + k)
    BY <2>5
  <2>9. Cat(Whole(r, p, e), Part("stream", at, r, n, k)) = Whole(r, p, e + k)
    BY <2>5, <2>8, WholeCat
  <2>10. Cat(x, Cat(f, w)) = Whole(r, p, d.checkpoint)
    <3>1. Cat(Cat(x, f), w) = Cat(x, Cat(f, w))
      BY CatAssoc
    <3> QED BY <1>13, <1>15, <2>6, <2>7, <2>9, <3>1
  <2>11. \E pp \in 0..d.checkpoint : Cat(x, Cat(f, w)) = Whole(r, pp, d.checkpoint)
    BY <2>6, <2>8, <2>10
  <2> QED BY <1>2, <1>8, <1>10, <1>11, <1>12, <2>1, <2>11
<1> QED BY <1>14, <1>15

-----------------------------------------------------------------------------
\* Recording a delivery with its rows and its checkpoint keeps it.
LEMMA RecordStep ==
  ASSUME IInv, Record, UNCHANGED source
  PROVE  IInv'
<1> USE DEF process, external
<1>1. PICK t : t = RecordCapture(store, delivery)
  OBVIOUS
<1>2. /\ pc = "record" /\ delivery.kind = "cdc" /\ Fits(store, delivery) /\ Commit(t, "sync")
      /\ UNCHANGED <<source, nextStep, resume, progress, delivery, connector, slot, changes>>
  BY <1>1 DEF Record
<1>3. HandCdc /\ Working
  BY <1>2, InHandCdc
<1>4. PICK d \in DeliveryType : d = delivery
  BY <1>3 DEF HandCdc
<1>5. SlotBefore(source, slot, d.checkpoint)
  BY <1>3, <1>4 DEF HandCdc
<1>6. /\ ~d.streaming =>
           /\ nextStep = "capture" /\ store.phase = "capturing"
           /\ Cat(FlattenSeq(store.input), d.rows)
                = Part(connector.mode, connector.at, source.rows, 0, connector.sent + d.sent)
      /\ d.streaming \/ d.sealed =>
           \E p \in 0..d.checkpoint :
             Cat(store.taken, Cat(FlattenSeq(store.input), d.rows)) = Whole(source.rows, p, d.checkpoint)
  BY <1>2, <1>4, GoesOn
<1>7. Good(source, slot, t)
  BY <1>1, <1>2, <1>4, <1>5, <1>6, StoreGood, GoodRecord
<1>8. /\ t.checkpoint = d.checkpoint
      /\ t.phase = IF d.streaming THEN "streaming" ELSE IF d.sealed THEN "sealed" ELSE store.phase
      /\ FlattenSeq(t.input) = Cat(FlattenSeq(store.input), d.rows)
  BY <1>1, <1>4, StoreGood, RecordIs DEF RecordedAs, Taken
<1>9. /\ Stores' /\ store' \in durable'
      /\ \/ store' = t /\ pc' = "sync" /\ needsReopen' = needsReopen
         \/ store' = store /\ pc' = "finish" /\ needsReopen' = TRUE
  BY <1>2, <1>7, Commits
<1>10. TypeOK'
  BY <1>2, <1>9 DEF IInv, TypeOK, PCs
<1>11. (Absent(connector) => connector = Stopped)'
  BY <1>2 DEF IInv, Connected
<1>12. CASE pc' = "finish" /\ needsReopen' = TRUE
  BY <1>9, <1>10, <1>11, <1>12, FailsStop
<1>13. CASE store' = t /\ pc' = "sync" /\ needsReopen' = needsReopen
  <2>0. Working'
    BY <1>3, <1>13 DEF Working
  <2>1. Barriers'
    BY <1>3, <1>13 DEF Barriers, Working
  <2>2. Phases'
    <3>1. Recorded(delivery, t)
      BY <1>2, <1>4, <1>6, <1>8 DEF Recorded
    <3> QED BY <1>2, <1>13, <3>1 DEF Phases, Settled
  <2>3. InHand'
    BY <1>2, <1>3 DEF InHand, HandCdc
  <2>4. Connected'
    BY <1>2, <1>3, <2>0 DEF IInv, Connected
  <2>5. Content'
    <3>1. nextStep = "capture" =>
            FlattenSeq(t.input) = Part(connector.mode, connector.at, source.rows, 0, connector.sent + d.sent)
      <4>1. nextStep = "capture" => ~d.streaming
        BY <1>3, <1>4 DEF HandCdc, Delivers
      <4> QED BY <1>6, <1>8, <4>1
    <3>2. ~Settled'
      BY <1>13 DEF Settled
    <3>3. nextStep = "capture" =>
            progress = ProgressAt(source.rows, connector.sent) /\ (source.rows = 0 => connector.sent = 0)
      BY <1>3 DEF IInv, Content
    <3> QED BY <1>2, <1>4, <1>13, <3>1, <3>2, <3>3 DEF Content
  <2> QED BY <1>9, <1>10, <2>1, <2>2, <2>3, <2>4, <2>5 DEF IInv
<1> QED BY <1>9, <1>12, <1>13

\* A delivery that the queue has no room for stays in hand.
LEMMA RecordRefusedStep ==
  ASSUME IInv, RecordRefused, UNCHANGED source
  PROVE  IInv'
<1>1. Settled
  BY DEF RecordRefused, IInv, Barriers, Settled, Working
<1>2. pc' \in {"stack", "finish"}
  BY DEF RecordRefused
<1> QED BY <1>1, <1>2, MovesOn DEF RecordRefused

\* The barrier makes the current store the only one a crash may leave.
LEMMA SyncStep ==
  ASSUME IInv, Sync, UNCHANGED source
  PROVE  IInv'
<1> USE DEF process, external
<1>1. /\ pc = "sync"
      /\ UNCHANGED <<source, store, nextStep, resume, progress, delivery, connector, slot, changes>>
      /\ \/ durable' = {store} /\ pc' = "ack" /\ needsReopen' = needsReopen
         \/ durable' = durable /\ pc' = "finish" /\ needsReopen' = TRUE
  BY DEF Sync, FailStop
<1>2. TypeOK'
  BY <1>1 DEF IInv, TypeOK, PCs
<1>3. Stores'
  BY <1>1 DEF IInv, TypeOK, Stores
<1>4. CASE pc' = "finish" /\ needsReopen' = TRUE
  <2>1. (Absent(connector) => connector = Stopped)'
    BY <1>1 DEF IInv, Connected
  <2> QED BY <1>2, <1>3, <1>4, <2>1, FailsStop
<1>5. CASE durable' = {store} /\ pc' = "ack" /\ needsReopen' = needsReopen
  <2>1. Working /\ Working' /\ Held
    BY <1>1, <1>5 DEF IInv, Barriers, Working, Held
  <2>2. Barriers'
    BY <1>1, <1>5, <2>1 DEF Barriers, Working
  <2>3. Phases'
    BY <1>1, <1>5 DEF IInv, Phases, Settled
  <2>4. InHand'
    BY <1>1, <2>1 DEF IInv, InHand, HandBegin, HandReset, HandCdc
  <2>5. Connected'
    BY <1>1, <2>1 DEF IInv, Connected
  <2>6. Content'
    BY <1>1, <1>5, <2>1 DEF IInv, Content, Settled
  <2> QED BY <1>2, <1>3, <2>2, <2>3, <2>4, <2>5, <2>6 DEF IInv
<1> QED BY <1>1, <1>4, <1>5

\* Acknowledging a begin or a reset step moves on to the next step.
LEMMA AckMaintenanceStep ==
  ASSUME IInv, AckMaintenance, UNCHANGED source
  PROVE  IInv'
<1> USE DEF external
<1>1. /\ pc = "ack" /\ delivery.kind # "cdc"
      /\ nextStep' = (IF delivery.kind = "begin" THEN "capture"
                      ELSE IF store.phase = "fresh" THEN "begin" ELSE "reset")
      /\ resume' = (IF delivery.kind = "begin" THEN resume ELSE None)
      /\ progress' = NoProgress /\ delivery' = None /\ pc' = "stack"
      /\ UNCHANGED <<source, store, durable, needsReopen, connector, slot, changes>>
  BY DEF AckMaintenance
<1>2. Working /\ Absent(connector) /\ delivery.kind \in {"begin", "reset"}
  BY <1>1, InHandOther
<1>3. Recorded(delivery, store)
  BY <1>1 DEF IInv, Phases
<1>4. Stands(nextStep', store.phase) /\ nextStep' \in NextSteps /\ nextStep' # "stream"
  BY <1>1, <1>2, <1>3 DEF Recorded, Stands, NextSteps
<1>5. TypeOK'
  BY <1>1, <1>4 DEF IInv, TypeOK, PCs, NoProgress, ProgressType
<1>6. Stores'
  BY <1>1 DEF IInv, Stores
<1>7. Barriers'
  BY <1>1, <1>2 DEF Barriers, Working
<1>8. Phases'
  BY <1>1, <1>4 DEF Phases
<1>9. InHand'
  BY <1>1 DEF InHand, Held
<1>10. Connected'
  BY <1>1, <1>2 DEF IInv, Connected
<1>11. Content'
  <2>1. connector.sent = 0
    BY <1>2 DEF IInv, Connected, Stopped
  <2>2. Part(connector.mode, connector.at, source.rows, 0, 0) = <<>>
    BY PartNone
  <2>3. NoProgress = ProgressAt(source.rows, 0)
    <3>1. (0 > 0) = FALSE /\ (0 > 0 /\ 0 >= source.rows) = FALSE
      OBVIOUS
    <3> QED BY <3>1, Zenon DEF NoProgress, ProgressAt
  <2>4. nextStep' = "capture" => FlattenSeq(store.input) = <<>>
    BY <1>1, <1>2, <1>3, FlattenEmpty DEF Recorded
  <2> QED BY <1>1, <1>4, <2>1, <2>2, <2>3, <2>4 DEF Content
<1> QED BY <1>5, <1>6, <1>7, <1>8, <1>9, <1>10, <1>11 DEF IInv

-----------------------------------------------------------------------------
\* A slot moved to the checkpoint of the only store that a crash may leave.
LEMMA SlotMoves ==
  ASSUME IInv, pc = "ack", delivery.kind = "cdc", source' = source, store' = store, durable' = durable,
         slot' \in {slot, IF source.postgres THEN delivery.checkpoint ELSE None}
  PROVE  Stores' /\ slot' \in Nat \cup {None}
<1>1. HandCdc
  BY InHandCdc
<1>2. delivery.checkpoint \in Nat /\ delivery.checkpoint # None
  BY <1>1, CdcAssumption DEF HandCdc, DeliveryType
<1>3. durable = {store} /\ Recorded(delivery, store)
  BY DEF IInv, Barriers, Phases
<1>4. store.checkpoint = delivery.checkpoint /\ store.phase \notin {"fresh", "resetting"}
  BY <1>3 DEF Recorded
<1>5. slot \in Nat \cup {None}
  BY DEF IInv, TypeOK
<1>6. CASE slot' = slot
  BY <1>5, <1>6 DEF IInv, Stores
<1>7. CASE slot' = IF source.postgres THEN delivery.checkpoint ELSE None
  <2>1. Agrees(source, slot', store)
    BY <1>2, <1>4, <1>7 DEF Agrees
  <2>2. Good(source, slot', store)
    BY <2>1, StoreGood DEF Good
  <2> QED BY <1>2, <1>3, <1>7, <2>2 DEF Stores
<1> QED BY <1>6, <1>7

\* Acknowledging a delivery moves the slot and the connector behind the store.
LEMMA AckStep ==
  ASSUME IInv, Ack, UNCHANGED source
  PROVE  IInv'
<1>1. /\ pc = "ack" /\ delivery.kind = "cdc" /\ resume' = delivery.checkpoint
      /\ slot' = (IF source.postgres THEN delivery.checkpoint ELSE None)
      /\ delivery' = None /\ pc' = "stack"
      /\ UNCHANGED <<source, store, durable, needsReopen, changes>>
  BY DEF Ack, Postgres
<1>2. HandCdc /\ Working
  BY <1>1, InHandCdc
<1>3. PICK d \in DeliveryType : d = delivery
  BY <1>2 DEF HandCdc
<1>4. /\ d.checkpoint \in Nat /\ d.sent \in Nat /\ d.sealed \in BOOLEAN /\ d.streaming \in BOOLEAN
      /\ d.progress \in ProgressType
  BY DEF DeliveryType
<1>5. Stores' /\ slot' \in Nat \cup {None}
  BY <1>1, SlotMoves
<1>6. store.checkpoint = d.checkpoint
      /\ store.phase = IF d.streaming THEN "streaming" ELSE IF d.sealed THEN "sealed" ELSE "capturing"
  BY <1>1, <1>3 DEF IInv, Phases, Recorded
<1>7. /\ d.checkpoint = After(connector.mode, connector.at, source.rows, connector.sent + d.sent)
      /\ d.streaming <=> nextStep = "stream"
      /\ d.sealed => nextStep = "capture"
      /\ nextStep = "capture" /\ ~d.sealed =>
           /\ d.progress = ProgressAt(source.rows, connector.sent + d.sent)
           /\ source.rows = 0 => d.sent = 0
  BY <1>2, <1>3 DEF HandCdc, Delivers
<1>8. nextStep = (IF connector.mode = "stream" THEN "stream" ELSE "capture") /\ ~Absent(connector)
  BY <1>2 DEF IInv, Connected, HandCdc
<1>9. SlotBefore(source, slot', d.checkpoint)
  BY <1>1, <1>3, <1>4 DEF SlotBefore
<1>10. Working'
  BY <1>1, <1>2 DEF Working
<1>11. Barriers'
  BY <1>1, <1>2 DEF Barriers, Working
<1>12. InHand'
  BY <1>1 DEF InHand, Held
<1>13. CASE d.sealed
  <2>1. connector' = Stopped /\ nextStep' = "stream" /\ progress' = progress
    BY <1>3, <1>13 DEF Ack
  <2>2. TypeOK'
    BY <1>1, <1>3, <1>4, <1>5, <2>1 DEF IInv, TypeOK, PCs, NextSteps, Connectors, Stopped
  <2>3. Phases'
    <3>1. store.phase = "sealed"
      BY <1>6, <1>7, <1>13
    <3> QED BY <1>1, <2>1, <3>1 DEF Phases, Stands
  <2>4. Connected'
    BY <2>1 DEF Connected, Absent, Stopped
  <2>5. Content'
    BY <1>1, <1>3, <1>6, <2>1 DEF Content
  <2> QED BY <1>5, <1>11, <1>12, <2>2, <2>3, <2>4, <2>5 DEF IInv
<1>14. CASE ~d.sealed
  <2>1. /\ connector' = [connector EXCEPT !.sent = @ + d.sent] /\ nextStep' = nextStep
        /\ progress' = (IF d.streaming THEN progress ELSE d.progress)
    BY <1>3, <1>14 DEF Ack
  <2>2. /\ connector' \in Connectors /\ connector'.mode = connector.mode /\ connector'.at = connector.at
        /\ connector'.sent = connector.sent + d.sent
    BY <1>4, <2>1 DEF IInv, TypeOK, Connectors
  <2>3. TypeOK'
    BY <1>1, <1>3, <1>4, <1>5, <2>1, <2>2 DEF IInv, TypeOK, PCs
  <2>4. Phases'
    <3>1. Stands(nextStep, store.phase)
      BY <1>6, <1>7, <1>8, <1>14 DEF Stands
    <3> QED BY <1>1, <2>1, <3>1 DEF Phases
  <2>5. Connected'
    BY <1>1, <1>3, <1>7, <1>8, <1>9, <2>1, <2>2 DEF Connected, Absent
  <2>6. Content'
    <3>1. nextStep = "stream" => resume' = store.checkpoint
      BY <1>1, <1>3, <1>6
    <3>2. nextStep = "capture" =>
            /\ progress' = ProgressAt(source.rows, connector'.sent)
            /\ source.rows = 0 => connector'.sent = 0
      <4>1. source.rows = 0 /\ nextStep = "capture" => connector.sent = 0
        BY <1>2 DEF IInv, Content
      <4> QED BY <1>7, <1>14, <2>1, <2>2, <4>1
    <3>3. nextStep = "capture" =>
            FlattenSeq(store.input)
              = Part(connector'.mode, connector'.at, source.rows, 0, connector'.sent)
      BY <1>1, <1>3, <2>2 DEF IInv, Content
    <3> QED BY <1>1, <2>1, <3>1, <3>2, <3>3 DEF Content
  <2> QED BY <1>5, <1>11, <1>12, <2>3, <2>4, <2>5, <2>6 DEF IInv
<1> QED BY <1>13, <1>14

\* An acknowledgement that fails may still have moved the slot.
LEMMA AckFailsStep ==
  ASSUME IInv, AckFails, UNCHANGED source
  PROVE  IInv'
<1>1. /\ pc = "ack" /\ delivery.kind = "cdc" /\ pc' = "finish" /\ needsReopen' = TRUE
      /\ slot' \in {slot, IF source.postgres THEN delivery.checkpoint ELSE None}
      /\ UNCHANGED <<source, store, durable, nextStep, resume, progress, connector, changes>>
  BY DEF AckFails, FailStop, Postgres
<1>2. Stores' /\ slot' \in Nat \cup {None}
  BY <1>1, SlotMoves
<1>3. TypeOK'
  BY <1>1, <1>2 DEF IInv, TypeOK, PCs
<1>4. (Absent(connector) => connector = Stopped)'
  BY <1>1 DEF IInv, Connected
<1> QED BY <1>1, <1>2, <1>3, <1>4, FailsStop

\* Handing the oldest published batch to the stack keeps the invariant.
LEMMA ConsumePublishedStep ==
  ASSUME IInv, ConsumePublished, UNCHANGED source
  PROVE  IInv'
<1> USE DEF process, external
<1>1. PICK t : t = Consume(store)
  OBVIOUS
<1>2. /\ pc = "stack" /\ Visible(store) /\ store.input # <<>> /\ Commit(t, "stack")
      /\ UNCHANGED <<source, nextStep, resume, progress, delivery, connector, slot, changes>>
  BY <1>1 DEF ConsumePublished
<1>3. Good(source, slot, t) /\ t.phase = store.phase /\ t.checkpoint = store.checkpoint
  BY <1>1, <1>2, StoreGood, GoodConsume
<1>4. /\ Stores' /\ store' \in durable'
      /\ \/ store' = t /\ pc' = "stack" /\ needsReopen' = needsReopen
         \/ store' = store /\ pc' = "finish" /\ needsReopen' = TRUE
  BY <1>2, <1>3, Commits
<1>5. TypeOK'
  BY <1>2, <1>4 DEF IInv, TypeOK, PCs
<1>6. CASE pc' = "finish" /\ needsReopen' = TRUE
  <2>1. (Absent(connector) => connector = Stopped)'
    BY <1>2 DEF IInv, Connected
  <2> QED BY <1>4, <1>5, <1>6, <2>1, FailsStop
<1>7. CASE store' = t /\ pc' = "stack" /\ needsReopen' = needsReopen
  <2>1. Settled /\ Working /\ Settled' /\ Working'
    BY <1>2, <1>7 DEF IInv, Barriers, Settled, Working
  <2>2. Barriers'
    BY <1>7, <2>1 DEF Barriers, Working
  <2>3. Stands(nextStep, store.phase) /\ nextStep # "capture"
    BY <1>2, <2>1 DEF IInv, Phases, Stands, Visible
  <2>4. Phases'
    BY <1>2, <1>3, <1>7, <2>3 DEF Phases
  <2>5. InHand'
    BY <1>2, <1>7, <2>1 DEF IInv, InHand, Held, HandBegin, HandReset, HandCdc
  <2>6. Connected'
    BY <1>2, <2>1 DEF IInv, Connected
  <2>7. Content'
    BY <1>2, <1>3, <1>7, <2>1, <2>3 DEF IInv, Content
  <2> QED BY <1>4, <1>5, <2>2, <2>4, <2>5, <2>6, <2>7 DEF IInv
<1> QED BY <1>4, <1>6, <1>7

\* The end of the stack work of a round keeps it.
LEMMA StackDoneStep ==
  ASSUME IInv, StackDone, UNCHANGED source
  PROVE  IInv'
<1>1. Settled
  BY DEF StackDone, IInv, Barriers, Settled, Working
<1> QED BY <1>1, MovesOn DEF StackDone

\* The barrier that ends a round, passed or failed, keeps it.
LEMMA FinishStep ==
  ASSUME IInv, Finish, UNCHANGED source
  PROVE  IInv'
<1> USE DEF process, external
<1>1. /\ pc = "finish"
      /\ UNCHANGED <<source, store, nextStep, resume, progress, delivery, connector, slot, changes>>
      /\ \/ ~needsReopen /\ durable' = {store} /\ pc' = "poll" /\ needsReopen' = needsReopen
         \/ pc' = "closed" /\ needsReopen' = TRUE /\ durable' = durable
  BY DEF Finish, IInv, TypeOK
<1>2. TypeOK'
  BY <1>1 DEF IInv, TypeOK, PCs
<1>3. Stores'
  BY <1>1 DEF IInv, TypeOK, Stores
<1>4. CASE pc' = "closed" /\ needsReopen' = TRUE
  <2>1. (Absent(connector) => connector = Stopped)'
    BY <1>1 DEF IInv, Connected
  <2> QED BY <1>2, <1>3, <1>4, <2>1, FailsStop
<1>5. CASE ~needsReopen /\ durable' = {store} /\ pc' = "poll" /\ needsReopen' = needsReopen
  <2>1. Settled /\ Working /\ Settled' /\ Working'
    BY <1>1, <1>5 DEF Settled, Working
  <2>2. Barriers'
    BY <1>1, <1>5 DEF Barriers
  <2>3. Phases'
    BY <1>1, <1>5, <2>1 DEF IInv, Phases
  <2>4. InHand'
    BY <1>1, <1>5, <2>1 DEF IInv, InHand, Held, HandBegin, HandReset, HandCdc
  <2>5. Connected'
    BY <1>1, <2>1 DEF IInv, Connected
  <2>6. Content'
    BY <1>1, <1>5, <2>1 DEF IInv, Content
  <2> QED BY <1>2, <1>3, <2>2, <2>3, <2>4, <2>5, <2>6 DEF IInv
<1> QED BY <1>1, <1>4, <1>5

\* A crash leaves one of the stores the last barrier allows and nothing else.
LEMMA CrashStep ==
  ASSUME IInv, Crash, UNCHANGED source
  PROVE  IInv'
<1>1. PICK s \in durable : store' = s /\ durable' = {s}
  BY DEF Crash
<1>2. /\ pc' = "down" /\ needsReopen' = FALSE /\ nextStep' = "restore" /\ resume' = None
      /\ progress' = NoProgress /\ delivery' = None /\ connector' = Stopped
      /\ UNCHANGED <<source, slot, changes>>
  BY DEF Crash, Restart
<1>3. TypeOK'
  BY <1>1, <1>2 DEF IInv, TypeOK, PCs, NextSteps, NoProgress, ProgressType, Connectors, Stopped
<1>4. Stores'
  BY <1>1, <1>2 DEF IInv, Stores
<1>5. Barriers'
  BY <1>1, <1>2 DEF Barriers
<1>6. ~Working' /\ Absent(connector')
  BY <1>2 DEF Working, Absent, Stopped
<1>7. Phases'
  BY <1>2, <1>6 DEF Phases, Fresh, Settled
<1>8. InHand' /\ Connected'
  BY <1>2, <1>6 DEF InHand, Connected
<1>9. Content'
  BY <1>2, <1>6 DEF Content, Settled
<1> QED BY <1>3, <1>4, <1>5, <1>7, <1>8, <1>9 DEF IInv

\* A step that leaves all but the number of changes alone.
LEMMA QuietStep ==
  ASSUME IInv, UNCHANGED <<source, store, durable, pc, process, needsReopen, connector, slot>>,
         changes' \in Nat
  PROVE  IInv'
<1> USE DEF process
<1>1. TypeOK' /\ Stores' /\ Barriers'
  BY DEF IInv, TypeOK, Stores, Barriers
<1>2. Phases'
  BY DEF IInv, Phases, Fresh, Settled, Working
<1>3. InHand'
  BY DEF IInv, InHand, Held, Working, HandBegin, HandReset, HandCdc
<1>4. Connected'
  BY DEF IInv, Connected, Working
<1>5. Content'
  BY DEF IInv, Content, Settled, Working
<1> QED BY <1>1, <1>2, <1>3, <1>4, <1>5 DEF IInv

\* Every step keeps the invariant.
LEMMA NextIInv == IInv /\ [Next]_vars => IInv'
<1> SUFFICES ASSUME IInv, [Next]_vars PROVE IInv'
  OBVIOUS
<1>0. changes \in Nat
  BY DEF IInv, TypeOK
<1>1. CASE Round
  <2>1. Turn /\ UNCHANGED source
    BY <1>1 DEF Round, Same
  <2>2. CASE Poll
    BY <2>1, <2>2, RestoreStep, PollBeginStep, PollPrepareResetStep, StartConnectorStep,
       PollDeliveryStep, PollNoneStep, PollFailsStep, PollHeldStep DEF Poll
  <2>3. CASE RecordMaintenance \/ Record \/ RecordRefused \/ Sync
    BY <2>1, <2>3, RecordMaintenanceStep, RecordStep, RecordRefusedStep, SyncStep
  <2>4. CASE AckMaintenance \/ Ack \/ AckFails \/ ConsumePublished \/ StackDone \/ Finish
    BY <2>1, <2>4, AckMaintenanceStep, AckStep, AckFailsStep, ConsumePublishedStep, StackDoneStep,
       FinishStep
  <2> QED BY <2>1, <2>2, <2>3, <2>4 DEF Turn
<1>2. CASE Same(Crash)
  BY <1>2, CrashStep DEF Same
<1>3. CASE Same(DatabaseChanges)
  <2>1. /\ UNCHANGED <<source, store, durable, pc, process, needsReopen, connector, slot>>
        /\ changes' \in Nat
    BY <1>0, <1>3 DEF Same, DatabaseChanges
  <2> QED BY <2>1, QuietStep
<1>4. CASE UNCHANGED vars
  <2>1. /\ UNCHANGED <<source, store, durable, pc, process, needsReopen, connector, slot>>
        /\ changes' \in Nat
    BY <1>0, <1>4 DEF vars, external
  <2> QED BY <2>1, QuietStep
<1> QED BY <1>1, <1>2, <1>3, <1>4 DEF Next

\* So it always holds.
LEMMA CdcInvariant == Spec => []IInv
BY InitIInv, NextIInv, PTL DEF Spec

-----------------------------------------------------------------------------
(* The theorems.                                                           *)

(***************************************************************************)
(* In every store a crash may leave, what was handed over and what is      *)
(* still queued are one snapshot and all later changes up to the           *)
(* checkpoint, each once and in order, and before the bootstrap is sealed  *)
(* nothing was handed over; for any table, any cut into deliveries and any *)
(* sequence of failures, resets and restarts.                              *)
(***************************************************************************)
THEOREM SourceCapturesOnce == Spec => []CapturedOnce
<1>1. IInv => CapturedOnce
  <2> SUFFICES ASSUME IInv, NEW s \in durable
               PROVE  IF Visible(s)
                      THEN \E p \in 0..s.checkpoint :
                             s.taken \o FlattenSeq(s.input) = Snapshot(p) \o Events(p, s.checkpoint)
                      ELSE s.taken = <<>>
    BY DEF CapturedOnce
  <2>1. s \in StoreType /\ Holds(source.rows, s) /\ Taken(source, s) /\ source \in Sources
    BY DEF IInv, TypeOK, Stores, Good
  <2>2. CASE ~Visible(s)
    BY <2>1, <2>2 DEF Holds
  <2>3. CASE Visible(s)
    <3>1. s.checkpoint \in Nat
      BY <2>1, <2>3, StoreFields DEF Taken
    <3>2. PICK p \in 0..s.checkpoint :
            Cat(s.taken, FlattenSeq(s.input)) = Whole(source.rows, p, s.checkpoint)
      BY <2>1, <2>3 DEF Holds
    <3>3. Cat(Snapshot(p), Events(p, s.checkpoint)) = Whole(source.rows, p, s.checkpoint)
      <4>1. PICK e \in Nat : e = s.checkpoint
        BY <3>1
      <4>2. p \in Nat /\ p <= e
        BY <4>1
      <4>3. Cat(Snapshot(p), Events(p, e)) = Whole(source.rows, p, e)
        BY <2>1, <4>2, WholeModel
      <4> QED BY <4>1, <4>3, Zenon
    <3>4. s.taken \o FlattenSeq(s.input) = Snapshot(p) \o Events(p, s.checkpoint)
      BY <3>2, <3>3, Zenon DEF Cat
    <3> QED BY <2>3, <3>4, Zenon
  <2> QED BY <2>2, <2>3
<1> QED BY <1>1, CdcInvariant, PTL

(***************************************************************************)
(* restore() accepts every store a crash may leave, with any capacities    *)
(* and any batch of a reset, and the queue's byte account is exact there.  *)
(***************************************************************************)
THEOREM SourceRestores == Spec => []RestoreAccepts
<1>1. IInv => RestoreAccepts
  BY DEF IInv, Stores, Good, Taken, RestoreAccepts, Bytes, Restorable, Capacity, SpoolBytes,
         ValidPhase, Postgres
<1> QED BY <1>1, CdcInvariant, PTL

(***************************************************************************)
(* The replication slot agrees with every store a crash may leave, though  *)
(* no transaction covers it: it is gone when a bootstrap will start, and   *)
(* there, not past the checkpoint, when a sealed source will go on.        *)
(***************************************************************************)
THEOREM SlotAgreesWithStores == Spec => []SlotAgrees
<1>1. IInv => SlotAgrees
  BY DEF IInv, Stores, Good, Agrees, SlotAgrees, Postgres
<1> QED BY <1>1, CdcInvariant, PTL

(***************************************************************************)
(* convert_values accepts whatever a running connector sends next, for     *)
(* every cut of the snapshot, its completion and the first changes into    *)
(* deliveries: the progress kept between deliveries is the one the rows    *)
(* acked so far give.                                                      *)
(***************************************************************************)
THEOREM ConversionNeverRefuses == Spec => []ConversionAccepts
<1>1. IInv => ConversionAccepts
  BY DeliveriesAre DEF IInv, ConversionAccepts
<1> QED BY <1>1, CdcInvariant, PTL

=============================================================================
