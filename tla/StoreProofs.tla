---------------------------- MODULE StoreProofs ----------------------------
(***************************************************************************)
(* What the ordered bytes of Store promise, for any keys, payloads, limits *)
(* and data ids.  From the order and the framing of keys it follows which  *)
(* keys a scan reaches and what a page of it holds; from the layout of the *)
(* queue (QueueIs) and of the map (Tidy) what every call answers and       *)
(* leaves.  The invariant (Inv) ties the transaction and the scan to the   *)
(* states that a crash may recover, and Stands the variables of the        *)
(* contract to the bytes.                                                  *)
(***************************************************************************)
EXTENDS MCStore, FiniteSetTheorems, SequenceTheorems, WellFoundedInduction, TLAPS

Key == Seq(Byte)

-----------------------------------------------------------------------------
(* Induction over a set of numbers.                                        *)

Below == {pair \in Nat \X Nat : pair[1] < pair[2]}

\* A set that has 0 and with every number the next one has all numbers.
LEMMA SetInduction ==
  ASSUME NEW S, 0 \in S, \A n \in Nat : n \in S => n + 1 \in S
  PROVE  \A n \in Nat : n \in S
<1> SUFFICES ASSUME \E n \in Nat : n \notin S PROVE FALSE
  OBVIOUS
<1> DEFINE T == Nat \ S
<1>1. IsWellFoundedOn(Below, Nat)
  BY NatLessThanWellFounded DEF OpToRel, Below
<1>2. T \subseteq Nat /\ T # {}
  OBVIOUS
<1>3. PICK n \in T : \A m \in T : <<m, n>> \notin Below
  <2> HIDE DEF T
  <2> QED BY <1>1, <1>2, WFMin
<1>4. n - 1 \in Nat /\ <<n - 1, n>> \in Below
  BY <1>3 DEF Below
<1> QED BY <1>3, <1>4

\* A nonempty set of numbers has a least one.
LEMMA Least ==
  ASSUME NEW S, S \subseteq Nat, S # {}
  PROVE  \E n \in S : \A m \in S : n <= m
<1>1. IsWellFoundedOn(Below, Nat)
  BY NatLessThanWellFounded DEF OpToRel, Below
<1>2. PICK n \in S : \A m \in S : <<m, n>> \notin Below
  BY <1>1, WFMin
<1>3. ASSUME NEW m \in S PROVE n <= m
  <2>1. m \in Nat /\ n \in Nat /\ <<m, n>> \notin Below
    BY <1>2
  <2> QED BY <2>1 DEF Below
<1> QED BY <1>3

\* A nonempty bounded set of numbers has a greatest one.
LEMMA Greatest ==
  ASSUME NEW S, S \subseteq Nat, S # {}, NEW b \in Nat, \A m \in S : m <= b
  PROVE  \E n \in S : \A m \in S : m <= n
<1> DEFINE T == {b - m : m \in S}
<1>0. \A m \in S : m \in Nat /\ b - m \in Nat
  OBVIOUS
<1>1. T \subseteq Nat /\ T # {}
  BY <1>0
<1>2. PICK t \in T : \A u \in T : t <= u
  <2> HIDE DEF T
  <2> QED BY <1>1, Least
<1>3. PICK n \in S : t = b - n
  BY <1>2
<1>4. \A m \in S : t <= b - m
  BY <1>2
<1>5. \A m \in S : m <= n
  BY <1>0, <1>3, <1>4
<1> QED BY <1>5

-----------------------------------------------------------------------------
(* Concatenation and prefixes.                                             *)

\* What a concatenation is.
LEMMA CatIs ==
  ASSUME NEW a \in Key, NEW b \in Key
  PROVE  /\ a \o b \in Key /\ Len(a \o b) = Len(a) + Len(b)
         /\ \A i \in 1..Len(a) : (a \o b)[i] = a[i]
         /\ \A i \in 1..Len(b) : (a \o b)[Len(a) + i] = b[i]
BY DEF Key

\* Two keys with the same bytes are the same.
LEMMA KeyEqual ==
  ASSUME NEW a \in Key, NEW b \in Key, Len(a) = Len(b), \A i \in 1..Len(a) : a[i] = b[i]
  PROVE  a = b
BY SeqEqual DEF Key

\* A common beginning cancels.
LEMMA CatCancels ==
  ASSUME NEW p \in Key, NEW a \in Key, NEW b \in Key, p \o a = p \o b
  PROVE  a = b
<1>1. Len(a) = Len(b)
  BY CatIs DEF Key
<1>2. PICK c : c = p \o a /\ c = p \o b
  OBVIOUS
<1>3. \A i \in 1..Len(a) : c[Len(p) + i] = a[i]
  BY <1>2, CatIs
<1>4. \A i \in 1..Len(b) : c[Len(p) + i] = b[i]
  BY <1>2, CatIs
<1> QED BY <1>1, <1>3, <1>4, KeyEqual

\* What StripPrefix leaves.
LEMMA StripIs ==
  ASSUME NEW p \in Key, NEW k \in Key, Len(p) <= Len(k)
  PROVE  /\ StripPrefix(p, k) \in Key /\ Len(StripPrefix(p, k)) = Len(k) - Len(p)
         /\ \A i \in 1..(Len(k) - Len(p)) : StripPrefix(p, k)[i] = k[Len(p) + i]
BY SubSeqProperties DEF Key, StripPrefix

\* A key with a prefix is the prefix and the rest.
LEMMA PrefixSplits ==
  ASSUME NEW p \in Key, NEW k \in Key
  PROVE  /\ IsPrefix(p, k) <=> Len(p) <= Len(k) /\ \A i \in 1..Len(p) : p[i] = k[i]
         /\ IsPrefix(p, k) => StripPrefix(p, k) \in Key /\ k = p \o StripPrefix(p, k)
<1>1. IsPrefix(p, k) <=> Len(p) <= Len(k) /\ \A i \in 1..Len(p) : p[i] = k[i]
  <2>1. ASSUME Len(p) <= Len(k) PROVE SubSeq(p, 1, Len(p)) = SubSeq(k, 1, Len(p)) <=> \A i \in 1..Len(p) : p[i] = k[i]
    <3>1. /\ SubSeq(p, 1, Len(p)) \in Key /\ Len(SubSeq(p, 1, Len(p))) = Len(p)
          /\ \A i \in 1..Len(p) : SubSeq(p, 1, Len(p))[i] = p[i]
      BY SubSeqProperties DEF Key
    <3>2. /\ SubSeq(k, 1, Len(p)) \in Key /\ Len(SubSeq(k, 1, Len(p))) = Len(p)
          /\ \A i \in 1..Len(p) : SubSeq(k, 1, Len(p))[i] = k[i]
      BY <2>1, SubSeqProperties DEF Key
    <3>3. ASSUME \A i \in 1..Len(p) : p[i] = k[i] PROVE SubSeq(p, 1, Len(p)) = SubSeq(k, 1, Len(p))
      BY <3>1, <3>2, <3>3, KeyEqual
    <3>4. ASSUME SubSeq(p, 1, Len(p)) = SubSeq(k, 1, Len(p)) PROVE \A i \in 1..Len(p) : p[i] = k[i]
      BY <3>1, <3>2, <3>4
    <3> QED BY <3>3, <3>4
  <2> QED BY <2>1 DEF IsPrefix
<1>2. ASSUME IsPrefix(p, k) PROVE StripPrefix(p, k) \in Key /\ k = p \o StripPrefix(p, k)
  <2>1. Len(p) <= Len(k) /\ \A i \in 1..Len(p) : p[i] = k[i]
    BY <1>1, <1>2
  <2>2. PICK r : r = StripPrefix(p, k)
    OBVIOUS
  <2>3. /\ r \in Key /\ Len(r) = Len(k) - Len(p) /\ Len(p) \in Nat /\ Len(k) \in Nat
        /\ \A i \in 1..(Len(k) - Len(p)) : r[i] = k[Len(p) + i]
    BY <2>1, <2>2, StripIs DEF Key
  <2>4. /\ p \o r \in Key /\ Len(p \o r) = Len(k)
        /\ \A i \in 1..Len(p) : (p \o r)[i] = p[i]
        /\ \A i \in 1..Len(r) : (p \o r)[Len(p) + i] = r[i]
    BY <2>3, CatIs
  <2>5. ASSUME NEW i \in 1..Len(k) PROVE k[i] = (p \o r)[i]
    <3>1. CASE i <= Len(p)
      BY <3>1, <2>1, <2>4, <2>3
    <3>2. CASE i > Len(p)
      <4>1. i - Len(p) \in 1..Len(r) /\ Len(p) + (i - Len(p)) = i
        BY <3>2, <2>3
      <4> QED BY <4>1, <2>3, <2>4
    <3> QED BY <3>1, <3>2, <2>3
  <2> QED BY <2>2, <2>3, <2>4, <2>5, KeyEqual
<1> QED BY <1>1, <1>2

\* The beginning of a concatenation is a prefix, and stripping it gives the rest.
LEMMA CatStrips ==
  ASSUME NEW p \in Key, NEW r \in Key
  PROVE  IsPrefix(p, p \o r) /\ StripPrefix(p, p \o r) = r
<1>1. /\ p \o r \in Key /\ Len(p \o r) = Len(p) + Len(r) /\ Len(p) \in Nat /\ Len(r) \in Nat
      /\ \A i \in 1..Len(p) : (p \o r)[i] = p[i]
  BY CatIs DEF Key
<1>2. IsPrefix(p, p \o r)
  <2>1. PICK k \in Key : k = p \o r
    BY <1>1
  <2>2. Len(p) <= Len(k) /\ \A i \in 1..Len(p) : p[i] = k[i]
    BY <1>1, <2>1
  <2> QED BY <2>1, <2>2, PrefixSplits
<1>3. StripPrefix(p, p \o r) \in Key /\ p \o r = p \o StripPrefix(p, p \o r)
  BY <1>1, <1>2, PrefixSplits
<1> QED BY <1>2, <1>3, CatCancels

-----------------------------------------------------------------------------
(* The order of keys.                                                      *)

\* a comes before b, and n is the length of what they share.
Splits(a, b, n) ==
  /\ n <= Len(a) /\ n < Len(b)
  /\ \A i \in 1..n : a[i] = b[i]
  /\ n < Len(a) => a[n + 1] < b[n + 1]

\* What LexLess says.
LEMMA LexIs ==
  ASSUME NEW a \in Key, NEW b \in Key
  PROVE  LexLess(a, b) <=> \E n \in Nat : Splits(a, b, n)
<1>0. Len(a) \in Nat /\ Len(b) \in Nat
  BY DEF Key
<1>1. ASSUME NEW n \in Nat, n <= Len(a), n <= Len(b)
      PROVE  SubSeq(a, 1, n) = SubSeq(b, 1, n) <=> \A i \in 1..n : a[i] = b[i]
  <2>1. /\ SubSeq(a, 1, n) \in Key /\ Len(SubSeq(a, 1, n)) = n
        /\ \A i \in 1..n : SubSeq(a, 1, n)[i] = a[i]
    BY <1>1, SubSeqProperties DEF Key
  <2>2. /\ SubSeq(b, 1, n) \in Key /\ Len(SubSeq(b, 1, n)) = n
        /\ \A i \in 1..n : SubSeq(b, 1, n)[i] = b[i]
    BY <1>1, SubSeqProperties DEF Key
  <2>3. ASSUME \A i \in 1..n : a[i] = b[i] PROVE SubSeq(a, 1, n) = SubSeq(b, 1, n)
    BY <2>1, <2>2, <2>3, KeyEqual
  <2>4. ASSUME SubSeq(a, 1, n) = SubSeq(b, 1, n) PROVE \A i \in 1..n : a[i] = b[i]
    BY <2>1, <2>2, <2>4
  <2> QED BY <2>3, <2>4
<1>2. ASSUME LexLess(a, b) PROVE \E n \in Nat : Splits(a, b, n)
  <2>1. PICK n \in 0..Len(a) : /\ n <= Len(b) /\ SubSeq(a, 1, n) = SubSeq(b, 1, n)
                               /\ \/ n = Len(a) /\ n < Len(b)
                                  \/ n < Len(a) /\ n < Len(b) /\ a[n + 1] < b[n + 1]
    BY <1>2 DEF LexLess
  <2>2. n \in Nat /\ n <= Len(a)
    BY <1>0
  <2>3. \A i \in 1..n : a[i] = b[i]
    BY <2>1, <2>2, <1>1
  <2> QED BY <1>0, <2>1, <2>2, <2>3 DEF Splits
<1>3. ASSUME NEW n \in Nat, Splits(a, b, n) PROVE LexLess(a, b)
  <2>1. n \in 0..Len(a) /\ n <= Len(b)
    BY <1>0, <1>3 DEF Splits
  <2>2. SubSeq(a, 1, n) = SubSeq(b, 1, n)
    BY <1>0, <1>3, <1>1, <2>1 DEF Splits
  <2>3. \/ n = Len(a) /\ n < Len(b)
        \/ n < Len(a) /\ n < Len(b) /\ a[n + 1] < b[n + 1]
    BY <1>0, <1>3 DEF Splits
  <2> QED BY <2>1, <2>2, <2>3 DEF LexLess
<1> QED BY <1>2, <1>3

\* Bytes are numbers.
LEMMA ByteIs ==
  ASSUME NEW a \in Key, NEW i \in 1..Len(a)
  PROVE  a[i] \in Byte /\ a[i] \in Int /\ a[i] >= 0 /\ a[i] <= 255
<1>1. a[i] \in Byte
  BY ElementOfSeq DEF Key
<1>2. PICK x \in Byte : x = a[i]
  BY <1>1
<1>3. x \in Int /\ x >= 0 /\ x <= 255
  BY DEF Byte
<1> QED BY <1>2, <1>3

\* No key is before itself.
LEMMA LexIrreflexive ==
  ASSUME NEW a \in Key
  PROVE  ~ LexLess(a, a)
<1> SUFFICES ASSUME NEW n \in Nat, Splits(a, a, n) PROVE FALSE
  BY LexIs
<1>1. Len(a) \in Nat /\ n < Len(a) /\ a[n + 1] < a[n + 1] /\ n + 1 \in 1..Len(a)
  BY DEF Splits, Key
<1> QED BY <1>1, ByteIs

\* The order is transitive.
LEMMA LexTransitive ==
  ASSUME NEW a \in Key, NEW b \in Key, NEW c \in Key, LexLess(a, b), LexLess(b, c)
  PROVE  LexLess(a, c)
<1>0. Len(a) \in Nat /\ Len(b) \in Nat /\ Len(c) \in Nat
  BY DEF Key
<1>1. PICK m \in Nat : Splits(a, b, m)
  BY LexIs
<1>2. PICK n \in Nat : Splits(b, c, n)
  BY LexIs
<1>3. CASE m <= n
  <2>1. /\ m <= Len(a) /\ m < Len(c) /\ \A i \in 1..m : a[i] = c[i]
    BY <1>0, <1>1, <1>2, <1>3 DEF Splits
  <2>2. ASSUME m < Len(a) PROVE a[m + 1] < c[m + 1]
    <3>1. a[m + 1] < b[m + 1] /\ m < Len(b) /\ m + 1 \in 1..Len(a) /\ m + 1 \in 1..Len(b) /\ m + 1 \in 1..Len(c)
      BY <1>0, <1>1, <2>1, <2>2 DEF Splits
    <3>2. CASE m < n
      <4>1. b[m + 1] = c[m + 1]
        BY <1>0, <1>2, <3>1, <3>2 DEF Splits
      <4> QED BY <3>1, <4>1
    <3>3. CASE m = n
      <4>1. b[m + 1] < c[m + 1]
        BY <1>0, <1>2, <3>1, <3>3 DEF Splits
      <4> QED BY <3>1, <4>1, ByteIs
    <3> QED BY <1>3, <3>2, <3>3
  <2>3. Splits(a, c, m)
    BY <2>1, <2>2 DEF Splits
  <2> QED BY <2>3, LexIs
<1>4. CASE n < m
  <2>1. n < Len(a) /\ n < Len(c) /\ (\A i \in 1..n : a[i] = c[i]) /\ n < Len(b)
    BY <1>0, <1>1, <1>2, <1>4 DEF Splits
  <2>2. a[n + 1] = b[n + 1] /\ b[n + 1] < c[n + 1]
    BY <1>0, <1>1, <1>2, <1>4, <2>1 DEF Splits
  <2>3. Splits(a, c, n)
    BY <1>0, <2>1, <2>2 DEF Splits
  <2> QED BY <2>3, LexIs
<1> QED BY <1>3, <1>4

\* The order is total.
LEMMA LexTotal ==
  ASSUME NEW a \in Key, NEW b \in Key, a # b
  PROVE  LexLess(a, b) \/ LexLess(b, a)
<1>0. Len(a) \in Nat /\ Len(b) \in Nat
  BY DEF Key
<1> DEFINE D == {n \in Nat : n + 1 > Len(a) \/ n + 1 > Len(b) \/ a[n + 1] # b[n + 1]}
<1>1. Len(a) \in D
  BY <1>0
<1>2. D \subseteq Nat /\ D # {}
  BY <1>1
<1>3. PICK n \in D : \A m \in D : n <= m
  <2> HIDE DEF D
  <2> QED BY <1>2, Least
<1>4. n \in Nat /\ n <= Len(a)
  BY <1>0, <1>1, <1>3
<1>5. n <= Len(b)
  <2>1. Len(b) \in D
    BY <1>0
  <2> QED BY <2>1, <1>3
<1>6. ASSUME NEW i \in 1..n PROVE a[i] = b[i]
  <2>1. i - 1 \in Nat /\ ~(n <= i - 1) /\ i - 1 + 1 = i
    BY <1>4
  <2>2. i - 1 \notin D
    BY <2>1, <1>3
  <2> QED BY <2>1, <2>2
<1>7. CASE n = Len(a) /\ n = Len(b)
  BY <1>6, <1>7, KeyEqual
<1>8. CASE n = Len(a) /\ n < Len(b)
  <2>1. Splits(a, b, n)
    BY <1>0, <1>6, <1>8 DEF Splits
  <2> QED BY <2>1, <1>4, LexIs
<1>9. CASE n = Len(b) /\ n < Len(a)
  <2>1. Splits(b, a, n)
    BY <1>0, <1>6, <1>9 DEF Splits
  <2> QED BY <2>1, <1>4, LexIs
<1>10. CASE n < Len(a) /\ n < Len(b)
  <2>1. a[n + 1] # b[n + 1]
    BY <1>0, <1>3, <1>10
  <2>2. n + 1 \in 1..Len(a) /\ n + 1 \in 1..Len(b)
    BY <1>0, <1>4, <1>10
  <2>3. a[n + 1] < b[n + 1] \/ b[n + 1] < a[n + 1]
    BY <2>1, <2>2, ByteIs
  <2>4. Splits(a, b, n) \/ Splits(b, a, n)
    BY <1>0, <1>6, <1>10, <2>3 DEF Splits
  <2> QED BY <2>4, <1>4, LexIs
<1> QED BY <1>0, <1>4, <1>5, <1>7, <1>8, <1>9, <1>10

\* A common beginning does not matter.
LEMMA LexCancels ==
  ASSUME NEW p \in Key, NEW a \in Key, NEW b \in Key
  PROVE  LexLess(p \o a, p \o b) <=> LexLess(a, b)
<1>0. Len(a) \in Nat /\ Len(b) \in Nat /\ Len(p) \in Nat
  BY DEF Key
<1>a. PICK c \in Key : c = p \o a
  BY CatIs
<1>b. PICK d \in Key : d = p \o b
  BY CatIs
<1>1. /\ Len(c) = Len(p) + Len(a) /\ Len(d) = Len(p) + Len(b)
      /\ \A i \in 1..Len(p) : c[i] = d[i]
      /\ \A i \in 1..Len(a) : c[Len(p) + i] = a[i]
      /\ \A i \in 1..Len(b) : d[Len(p) + i] = b[i]
  BY <1>a, <1>b, CatIs
<1>2. ASSUME NEW n \in Nat, Splits(a, b, n) PROVE Splits(c, d, Len(p) + n)
  <2>1. Len(p) + n <= Len(c) /\ Len(p) + n < Len(d)
    BY <1>0, <1>1, <1>2 DEF Splits
  <2>2. ASSUME NEW i \in 1..(Len(p) + n) PROVE c[i] = d[i]
    <3>1. CASE i <= Len(p)
      BY <3>1, <1>0, <1>1
    <3>2. CASE i > Len(p)
      <4>1. i - Len(p) \in 1..n /\ Len(p) + (i - Len(p)) = i
        BY <3>2, <1>0
      <4>2. PICK j \in 1..n : Len(p) + j = i
        BY <4>1
      <4>3. a[j] = b[j] /\ j \in 1..Len(a) /\ j \in 1..Len(b)
        BY <1>0, <1>2 DEF Splits
      <4> QED BY <4>2, <4>3, <1>1
    <3> QED BY <3>1, <3>2, <1>0
  <2>3. ASSUME Len(p) + n < Len(c) PROVE c[Len(p) + n + 1] < d[Len(p) + n + 1]
    <3>1. n < Len(a) /\ n < Len(b)
      BY <1>0, <1>1, <1>2, <2>3 DEF Splits
    <3>2. n + 1 \in 1..Len(a) /\ n + 1 \in 1..Len(b) /\ Len(p) + (n + 1) = Len(p) + n + 1
      BY <3>1, <1>0
    <3>3. c[Len(p) + n + 1] = a[n + 1] /\ d[Len(p) + n + 1] = b[n + 1]
      BY <1>1, <3>2
    <3> QED BY <3>1, <3>3, <1>2 DEF Splits
  <2> QED BY <2>1, <2>2, <2>3 DEF Splits
<1>3. ASSUME NEW m \in Nat, Splits(c, d, m) PROVE \E n \in Nat : Splits(a, b, n)
  <2>1. ~(m < Len(p))
    <3> SUFFICES ASSUME m < Len(p) PROVE FALSE
      OBVIOUS
    <3>1. m < Len(c) /\ m + 1 \in 1..Len(p) /\ m + 1 \in 1..Len(c)
      BY <1>0, <1>1
    <3>2. c[m + 1] < d[m + 1] /\ c[m + 1] = d[m + 1]
      BY <3>1, <1>1, <1>3 DEF Splits
    <3> QED BY <3>1, <3>2, ByteIs
  <2>2. PICK n \in Nat : m = Len(p) + n
    <3>1. m - Len(p) \in Nat /\ m = Len(p) + (m - Len(p))
      BY <2>1, <1>0
    <3> QED BY <3>1
  <2>3. n <= Len(a) /\ n < Len(b)
    BY <1>0, <1>1, <1>3, <2>2 DEF Splits
  <2>4. ASSUME NEW i \in 1..n PROVE a[i] = b[i]
    <3>1. i \in 1..Len(a) /\ i \in 1..Len(b) /\ Len(p) + i \in 1..m
      BY <1>0, <2>2, <2>3
    <3>2. c[Len(p) + i] = d[Len(p) + i]
      BY <3>1, <1>3 DEF Splits
    <3> QED BY <3>1, <3>2, <1>1
  <2>5. ASSUME n < Len(a) PROVE a[n + 1] < b[n + 1]
    <3>1. n + 1 \in 1..Len(a) /\ n + 1 \in 1..Len(b) /\ Len(p) + (n + 1) = m + 1 /\ m < Len(c)
      BY <1>0, <1>1, <2>2, <2>3, <2>5
    <3>2. c[m + 1] = a[n + 1] /\ d[m + 1] = b[n + 1]
      BY <1>1, <3>1
    <3> QED BY <3>1, <3>2, <1>3 DEF Splits
  <2>6. Splits(a, b, n)
    BY <2>3, <2>4, <2>5 DEF Splits
  <2> QED BY <2>6
<1>4. LexLess(c, d) <=> LexLess(a, b)
  <2>1. LexLess(c, d) <=> \E n \in Nat : Splits(c, d, n)
    BY LexIs
  <2>2. LexLess(a, b) <=> \E n \in Nat : Splits(a, b, n)
    BY LexIs
  <2>3. \A n \in Nat : Len(p) + n \in Nat
    BY <1>0
  <2> QED BY <2>1, <2>2, <2>3, <1>2, <1>3
<1> QED BY <1>4, <1>a, <1>b

\* A key does not come before its prefix, and what lies between a prefix and a key
\* that has it has it too.
LEMMA PrefixFirst ==
  ASSUME NEW p \in Key, NEW k \in Key, IsPrefix(p, k)
  PROVE  /\ LexLeq(p, k)
         /\ \A j \in Key : LexLeq(p, j) /\ LexLess(j, k) => IsPrefix(p, j)
<1>0. Len(p) \in Nat /\ Len(k) \in Nat /\ Len(p) <= Len(k) /\ \A i \in 1..Len(p) : p[i] = k[i]
  BY PrefixSplits DEF Key
<1>1. LexLeq(p, k)
  <2>1. CASE Len(p) = Len(k)
    BY <2>1, <1>0, KeyEqual DEF LexLeq
  <2>2. CASE Len(p) < Len(k)
    <3>1. Splits(p, k, Len(p))
      BY <2>2, <1>0 DEF Splits
    <3> QED BY <3>1, <1>0, LexIs DEF LexLeq
  <2> QED BY <2>1, <2>2, <1>0
<1>2. ASSUME NEW j \in Key, LexLess(p, j), LexLess(j, k) PROVE IsPrefix(p, j)
  <2>0. Len(j) \in Nat
    BY DEF Key
  <2>1. PICK m \in Nat : Splits(p, j, m)
    BY <1>2, LexIs
  <2>2. PICK n \in Nat : Splits(j, k, n)
    BY <1>2, LexIs
  <2>3. CASE m = Len(p)
    BY <2>1, <2>3, <1>0, <2>0, PrefixSplits DEF Splits
  <2>4. CASE m < Len(p)
    <3>1. p[m + 1] < j[m + 1] /\ m < Len(j) /\ m + 1 \in 1..Len(p) /\ m + 1 \in 1..Len(j) /\ m + 1 \in 1..Len(k)
      BY <2>1, <2>4, <1>0, <2>0 DEF Splits
    <3>2. p[m + 1] = k[m + 1]
      BY <3>1, <1>0
    <3>3. CASE n > m
      <4>1. j[m + 1] = k[m + 1]
        BY <2>2, <3>3, <3>1 DEF Splits
      <4> QED BY <4>1, <3>1, <3>2, ByteIs
    <3>4. CASE n = m
      <4>1. j[m + 1] < k[m + 1]
        BY <2>2, <3>4, <3>1 DEF Splits
      <4> QED BY <4>1, <3>1, <3>2, ByteIs
    <3>5. CASE n < m
      <4>1. j[n + 1] < k[n + 1] /\ n + 1 \in 1..m /\ n + 1 \in 1..Len(p) /\ n + 1 \in 1..Len(j)
        BY <2>2, <3>5, <3>1, <2>4, <1>0, <2>0 DEF Splits
      <4>2. p[n + 1] = j[n + 1] /\ p[n + 1] = k[n + 1]
        BY <4>1, <2>1, <1>0 DEF Splits
      <4> QED BY <4>1, <4>2, ByteIs
    <3> QED BY <3>3, <3>4, <3>5
  <2> QED BY <2>3, <2>4, <2>1, <1>0 DEF Splits
<1>3. IsPrefix(p, p)
  BY <1>0, PrefixSplits
<1> QED BY <1>1, <1>2, <1>3 DEF LexLeq

-----------------------------------------------------------------------------
(* The order of a scan.                                                    *)

\* It is a strict total order in both directions.
LEMMA BeforeOrders ==
  ASSUME NEW asc \in BOOLEAN, NEW a \in Key, NEW b \in Key
  PROVE  /\ ~ Before(asc, a, a)
         /\ ~(Before(asc, a, b) /\ Before(asc, b, a))
         /\ \A c \in Key : Before(asc, a, b) /\ Before(asc, b, c) => Before(asc, a, c)
         /\ a # b => Before(asc, a, b) \/ Before(asc, b, a)
<1>1. ~ Before(asc, a, a)
  BY LexIrreflexive DEF Before
<1>2. ASSUME NEW x \in Key, NEW y \in Key, NEW z \in Key, Before(asc, x, y), Before(asc, y, z)
      PROVE  Before(asc, x, z)
  BY <1>2, LexTransitive DEF Before
<1>3. a # b => Before(asc, a, b) \/ Before(asc, b, a)
  BY LexTotal DEF Before
<1> QED BY <1>1, <1>2, <1>3

\* The keys before one, and their number.
Earlier(S, asc, k) == {j \in S : Before(asc, j, k)}
Place(S, asc, k) == Cardinality(Earlier(S, asc, k))

\* Places are numbers below the size and grow with the order.
LEMMA Places ==
  ASSUME NEW S, S \subseteq Key, IsFiniteSet(S), NEW asc \in BOOLEAN, NEW k \in S
  PROVE  /\ Place(S, asc, k) \in Nat /\ Cardinality(S) \in Nat /\ Place(S, asc, k) < Cardinality(S)
         /\ \A j \in S : Before(asc, j, k) => Place(S, asc, j) < Place(S, asc, k)
<1>1. k \in Key
  OBVIOUS
<1>2. Earlier(S, asc, k) \in SUBSET S /\ k \notin Earlier(S, asc, k)
  BY <1>1, BeforeOrders DEF Earlier
<1>3. /\ IsFiniteSet(Earlier(S, asc, k)) /\ Cardinality(Earlier(S, asc, k)) <= Cardinality(S)
      /\ (Cardinality(S) = Cardinality(Earlier(S, asc, k)) => S = Earlier(S, asc, k))
  BY <1>2, FS_Subset
<1>4. Cardinality(S) \in Nat /\ Place(S, asc, k) \in Nat
  BY <1>3, FS_CardinalityType DEF Place
<1>5. Place(S, asc, k) < Cardinality(S)
  BY <1>2, <1>3, <1>4 DEF Place
<1>6. ASSUME NEW j \in S, Before(asc, j, k) PROVE Place(S, asc, j) < Place(S, asc, k)
  <2>1. j \in Key
    OBVIOUS
  <2>2. ASSUME NEW i \in Earlier(S, asc, j) PROVE i \in Earlier(S, asc, k)
    <3>1. i \in S /\ i \in Key /\ Before(asc, i, j)
      BY <2>2 DEF Earlier
    <3>2. Before(asc, i, k)
      BY <3>1, <2>1, <1>1, <1>6, BeforeOrders
    <3> QED BY <3>1, <3>2 DEF Earlier
  <2>3. j \in Earlier(S, asc, k) /\ j \notin Earlier(S, asc, j)
    BY <2>1, <1>6, BeforeOrders DEF Earlier
  <2>4. Earlier(S, asc, j) \in SUBSET Earlier(S, asc, k)
    BY <2>2
  <2>5. /\ IsFiniteSet(Earlier(S, asc, j)) /\ Cardinality(Earlier(S, asc, j)) <= Cardinality(Earlier(S, asc, k))
        /\ (Cardinality(Earlier(S, asc, k)) = Cardinality(Earlier(S, asc, j)) => Earlier(S, asc, k) = Earlier(S, asc, j))
    BY <2>4, <1>3, FS_Subset
  <2>6. Place(S, asc, j) \in Nat
    BY <2>5, FS_CardinalityType DEF Place
  <2> QED BY <2>3, <2>5, <2>6, <1>4 DEF Place
<1> QED BY <1>4, <1>5, <1>6

\* Every place is taken, by one key.
LEMMA PlacesTaken ==
  ASSUME NEW S, S \subseteq Key, IsFiniteSet(S), NEW asc \in BOOLEAN, NEW i \in 1..Cardinality(S)
  PROVE  \E k \in S : Place(S, asc, k) = i - 1
<1> SUFFICES ASSUME \A k \in S : Place(S, asc, k) # i - 1 PROVE FALSE
  OBVIOUS
<1>1. Cardinality(S) \in Nat
  BY FS_CardinalityType
<1>2. PICK n \in Nat : n = Cardinality(S)
  BY <1>1
<1>3. PICK T : T = (0..(n - 1)) \ {i - 1}
  OBVIOUS
<1>4. IsFiniteSet(T) /\ Cardinality(T) < Cardinality(S)
  <2>1. /\ IsFiniteSet(0..(n - 1)) /\ Cardinality(0..(n - 1)) = n
    <3>1. n - 1 \in Int /\ n >= 1
      BY <1>2
    <3> QED BY <3>1, FS_Interval
  <2>2. i - 1 \in 0..(n - 1)
    BY <1>2
  <2>3. PICK U, x : U = 0..(n - 1) /\ x = i - 1
    OBVIOUS
  <2>4. IsFiniteSet(U) /\ Cardinality(U) = n /\ x \in U /\ T = U \ {x}
    BY <2>1, <2>2, <2>3, <1>3
  <2>5. IsFiniteSet(T) /\ Cardinality(T) = n - 1
    BY <2>4, FS_RemoveElement
  <2> QED BY <2>5, <1>2
<1> DEFINE f == [k \in S |-> Place(S, asc, k)]
<1>5. ASSUME NEW k \in S PROVE Place(S, asc, k) \in T
  BY <1>2, <1>3, Places
<1>6. f \in [S -> T]
  BY <1>5
<1>7. PICK x \in S, y \in S : x # y /\ f[x] = f[y]
  <2> HIDE DEF f
  <2> QED BY <1>4, <1>6, FS_PigeonHole
<1>8. Place(S, asc, x) = Place(S, asc, y) /\ x \in Key /\ y \in Key
  BY <1>7
<1>9. Before(asc, x, y) \/ Before(asc, y, x)
  BY <1>7, <1>8, BeforeOrders
<1>10. Place(S, asc, x) < Place(S, asc, y) \/ Place(S, asc, y) < Place(S, asc, x)
  BY <1>9, Places
<1>11. Place(S, asc, x) \in Nat
  BY Places
<1> QED BY <1>8, <1>10, <1>11

\* InDirection lists the keys in the order of the scan.
LEMMA DirectionLists ==
  ASSUME NEW S, S \subseteq Key, IsFiniteSet(S), NEW asc \in BOOLEAN, NEW q, q = InDirection(S, asc)
  PROVE  /\ q \in Seq(S) /\ Len(q) = Cardinality(S) /\ DOMAIN q = 1..Len(q) /\ Len(q) \in Nat
         /\ \A i \in 1..Len(q) : q[i] \in S
         /\ \A k \in S : \E i \in 1..Len(q) : q[i] = k
         /\ \A i, j \in 1..Len(q) : i < j => Before(asc, q[i], q[j])
<1>1. PICK n \in Nat : n = Cardinality(S)
  BY FS_CardinalityType
<1>2. q = [i \in 1..n |-> CHOOSE k \in S : Place(S, asc, k) = i - 1]
  BY <1>1 DEF InDirection, Place, Earlier
<1>3. ASSUME NEW i \in 1..n PROVE q[i] \in S /\ Place(S, asc, q[i]) = i - 1
  <2>1. q[i] = CHOOSE k \in S : Place(S, asc, k) = i - 1
    BY <1>2
  <2>2. \E k \in S : Place(S, asc, k) = i - 1
    BY <1>1, PlacesTaken
  <2> QED BY <2>1, <2>2
<1>4. q \in [1..n -> S]
  BY <1>2, <1>3
<1>5. q \in Seq(S) /\ Len(q) = n /\ DOMAIN q = 1..n
  BY <1>4, IsASeq
<1>6. ASSUME NEW k \in S PROVE \E i \in 1..n : q[i] = k
  <2>1. Place(S, asc, k) \in Nat /\ Place(S, asc, k) < n
    BY <1>1, Places
  <2>2. PICK i \in 1..n : i - 1 = Place(S, asc, k)
    <3>1. PICK p \in Nat : p = Place(S, asc, k)
      BY <2>1
    <3>2. PICK i \in 1..n : i = p + 1
      BY <2>1, <3>1
    <3>3. i - 1 = p
      BY <3>2
    <3> QED BY <3>1, <3>3
  <2>3. q[i] \in S /\ Place(S, asc, q[i]) = Place(S, asc, k)
    BY <1>3, <2>2
  <2>4. ~ Before(asc, q[i], k) /\ ~ Before(asc, k, q[i])
    BY <2>1, <2>3, Places
  <2>5. q[i] \in Key /\ k \in Key
    BY <2>3
  <2>6. q[i] = k
    BY <2>4, <2>5, BeforeOrders
  <2> QED BY <2>6
<1>7. ASSUME NEW i \in 1..n, NEW j \in 1..n, i < j PROVE Before(asc, q[i], q[j])
  <2>1. q[i] \in S /\ q[j] \in S /\ Place(S, asc, q[i]) = i - 1 /\ Place(S, asc, q[j]) = j - 1
    BY <1>3
  <2>2. q[i] # q[j]
    BY <2>1, <1>7
  <2>3. ~ Before(asc, q[j], q[i])
    <3> SUFFICES ASSUME Before(asc, q[j], q[i]) PROVE FALSE
      OBVIOUS
    <3>1. Place(S, asc, q[j]) < Place(S, asc, q[i])
      BY <2>1, Places
    <3> QED BY <3>1, <2>1, <1>7
  <2> QED BY <2>1, <2>2, <2>3, BeforeOrders
<1> QED BY <1>1, <1>3, <1>5, <1>6, <1>7

-----------------------------------------------------------------------------
(* Which keys a scan admits.                                               *)

\* The last byte of a number and what is before it.
LEMMA LowByte ==
  ASSUME NEW n \in Int
  PROVE  /\ n % 256 \in Byte /\ Shifted(n) \in Int
         /\ \E d \in Int, m \in Int : d = Shifted(n) /\ m = n % 256 /\ n = 256 * d + m
<1>1. n % 256 \in 0..255
  OBVIOUS
<1>2. n \div 256 \in Int
  OBVIOUS
<1>3. PICK d \in Int, m \in Int : d = n \div 256 /\ m = n % 256
  BY <1>1, <1>2
<1>4. n = 256 * d + m
  BY <1>3
<1>5. Shifted(n) = d
  BY <1>3 DEF Shifted
<1>6. m \in Byte
  BY <1>1, <1>3 DEF Byte
<1>7. n % 256 \in Byte /\ Shifted(n) \in Int
  BY <1>3, <1>5, <1>6, Zenon
<1> QED BY <1>3, <1>4, <1>5, <1>7

\* The four bytes of a data id.
LEMMA IdBytes ==
  ASSUME NEW id \in DataId
  PROVE  /\ Shifted(Shifted(Shifted(id))) \in Byte /\ Shifted(Shifted(id)) % 256 \in Byte
         /\ Shifted(id) % 256 \in Byte /\ id % 256 \in Byte
<1>1. id \in Int /\ Shifted(Shifted(Shifted(id))) \in Byte
  BY DEF DataId
<1>2. Shifted(id) \in Int
  BY <1>1, LowByte
<1>3. Shifted(Shifted(id)) \in Int
  BY <1>2, LowByte
<1> QED BY <1>1, <1>2, <1>3, LowByte

\* A prefix of five bytes.
LEMMA FiveBytes ==
  ASSUME NEW a \in Byte, NEW b \in Byte, NEW c \in Byte, NEW d \in Byte, NEW p, p = <<2, a, b, c, d>>
  PROVE  p \in Key /\ Len(p) = 5 /\ DOMAIN p = 1..5 /\ p[1] = 2
<1>1. DOMAIN p = 1..5 /\ p[1] = 2 /\ Len(p) = 5
  OBVIOUS
<1>2. 2 \in Byte
  BY DEF Byte
<1>3. <<2, a, b, c, d>> \in Seq(Byte)
  BY <1>2
<1> QED BY <1>1, <1>3 DEF Key

\* One of the five bytes can grow.
LEMMA OneGrows ==
  ASSUME NEW p \in Key, Len(p) = 5, p[1] = 2
  PROVE  \E i \in 1..5 : p[i] # 255 /\ \A j \in 1..5 : j > i => p[j] = 255
<1>1. p[1] # 255
  OBVIOUS
<1>2. \A j \in 1..5 : (j > 5 => FALSE) /\ (j > 4 => j = 5) /\ (j > 3 => j \in {4, 5})
                     /\ (j > 2 => j \in {3, 4, 5}) /\ (j > 1 => j \in {2, 3, 4, 5})
  OBVIOUS
<1>3. CASE p[5] # 255
  <2>1. 5 \in 1..5 /\ \A j \in 1..5 : j > 5 => p[j] = 255
    BY <1>2
  <2> QED BY <2>1, <1>3
<1>4. CASE p[5] = 255 /\ p[4] # 255
  <2>1. 4 \in 1..5 /\ \A j \in 1..5 : j > 4 => p[j] = 255
    BY <1>2, <1>4
  <2> QED BY <2>1, <1>4
<1>5. CASE p[5] = 255 /\ p[4] = 255 /\ p[3] # 255
  <2>1. 3 \in 1..5 /\ \A j \in 1..5 : j > 3 => p[j] = 255
    BY <1>2, <1>5
  <2> QED BY <2>1, <1>5
<1>6. CASE p[5] = 255 /\ p[4] = 255 /\ p[3] = 255 /\ p[2] # 255
  <2>1. 2 \in 1..5 /\ \A j \in 1..5 : j > 2 => p[j] = 255
    BY <1>2, <1>6
  <2> QED BY <2>1, <1>6
<1>7. CASE p[5] = 255 /\ p[4] = 255 /\ p[3] = 255 /\ p[2] = 255
  <2>1. 1 \in 1..5 /\ \A j \in 1..5 : j > 1 => p[j] = 255
    BY <1>2, <1>7
  <2> QED BY <2>1, <1>1
<1> QED BY <1>3, <1>4, <1>5, <1>6, <1>7

\* A key in which one byte has grown, whatever follows it, is after every key
\* with the prefix.
LEMMA GrownIsAfter ==
  ASSUME NEW p \in Key, NEW s \in Key, NEW g \in 1..Len(p), Len(s) = Len(p),
         \A i \in 1..Len(p) : i < g => s[i] = p[i], s[g] > p[g], NEW k \in Key, IsPrefix(p, k)
  PROVE  LexLess(k, s)
<1>1. Len(p) \in Nat /\ Len(k) \in Nat /\ Len(p) <= Len(k) /\ \A i \in 1..Len(p) : p[i] = k[i]
  BY PrefixSplits DEF Key
<1>2. g - 1 \in Nat /\ g - 1 + 1 = g /\ g \in Nat
  BY <1>1
<1>3. PICK m \in Nat : m = g - 1
  BY <1>2
<1>4. m + 1 = g /\ m < Len(p)
  BY <1>1, <1>3
<1>5. p[g] \in Int /\ s[g] \in Int /\ k[g] = p[g]
  BY <1>1, ByteIs
<1>6. \A i \in 1..m : k[i] = s[i]
  BY <1>1, <1>4
<1>7. k[m + 1] < s[m + 1]
  BY <1>4, <1>5
<1>8. Splits(k, s, m)
  BY <1>1, <1>4, <1>6, <1>7 DEF Splits
<1> QED BY <1>8, LexIs

\* The prefix of a data id and its successor.
LEMMA SuccessorIs ==
  ASSUME NEW id \in DataId
  PROVE  /\ data_prefix(id) \in Key /\ Len(data_prefix(id)) = 5
         /\ prefix_successor(data_prefix(id)) \in Key
         /\ \A k \in Key : IsPrefix(data_prefix(id), k) => LexLess(k, prefix_successor(data_prefix(id)))
<1>1. PICK a \in Byte, b \in Byte : a = Shifted(Shifted(Shifted(id))) /\ b = Shifted(Shifted(id)) % 256
  BY IdBytes
<1>2. PICK c \in Byte, d \in Byte : c = Shifted(id) % 256 /\ d = id % 256
  BY IdBytes
<1>4. PICK p : p = <<2, a, b, c, d>>
  OBVIOUS
<1>5. p = data_prefix(id)
  BY <1>1, <1>2, <1>4, Zenon DEF data_prefix, DataDomain
<1>6. p \in Key /\ Len(p) = 5 /\ DOMAIN p = 1..5 /\ p[1] = 2
  BY <1>4, FiveBytes
<1> DEFINE Grows(i) == p[i] # 255 /\ \A j \in 1..5 : j > i => p[j] = 255
<1>7. \E i \in 1..5 : Grows(i)
  BY <1>6, OneGrows
<1>8. PICK g : g = CHOOSE i \in 1..5 : Grows(i)
  OBVIOUS
<1>9. g \in 1..5 /\ Grows(g)
  <2> HIDE DEF Grows
  <2> QED BY <1>7, <1>8
<1>10. PICK s : s = prefix_successor(p)
  OBVIOUS
<1>11. s = [i \in 1..5 |-> CASE i < g -> p[i] [] i = g -> p[i] + 1 [] i > g -> 0]
  BY <1>6, <1>8, <1>10 DEF prefix_successor
<1>12. \A i \in 1..5 : p[i] \in Byte /\ p[i] \in Int /\ p[i] >= 0 /\ p[i] <= 255
  BY <1>6, ByteIs
<1>13. \A i \in 1..5 : i < g => s[i] = p[i]
  BY <1>9, <1>11
<1>14. s[g] = p[g] + 1
  BY <1>9, <1>11
<1>15. \A i \in 1..5 : i > g => s[i] = 0
  BY <1>9, <1>11
<1>16. s[g] \in Byte /\ s[g] > p[g]
  <2>1. PICK x : x = p[g]
    OBVIOUS
  <2>2. x \in Int /\ x >= 0 /\ x <= 255 /\ x # 255
    BY <2>1, <1>9, <1>12
  <2>3. x + 1 \in 0..255 /\ x + 1 > x
    BY <2>2
  <2> QED BY <2>1, <2>3, <1>14 DEF Byte
<1>17. 0 \in Byte
  BY DEF Byte
<1>18. \A i \in 1..5 : s[i] \in Byte
  BY <1>9, <1>12, <1>13, <1>15, <1>16, <1>17
<1>19. s \in [1..5 -> Byte]
  BY <1>11, <1>18
<1>20. s \in Key /\ Len(s) = 5
  <2>1. 5 \in Nat
    OBVIOUS
  <2>2. PICK n \in Nat : n = 5
    BY <2>1
  <2>a. s \in [1..n -> Byte]
    BY <1>19, <2>2
  <2>b. s \in Seq(Byte)
    BY <2>a, IsASeq
  <2>3. DOMAIN s = 1..5
    BY <1>11
  <2>4. Len(s) = 5
    BY <2>b, <2>3, LenProperties
  <2> QED BY <2>b, <2>4 DEF Key
<1>21. ASSUME NEW k \in Key, IsPrefix(p, k) PROVE LexLess(k, s)
  <2>1. g \in 1..Len(p) /\ Len(s) = Len(p) /\ \A i \in 1..Len(p) : i < g => s[i] = p[i]
    BY <1>6, <1>9, <1>13, <1>20
  <2> HIDE DEF Grows
  <2> QED BY <2>1, <1>6, <1>16, <1>20, <1>21, GrownIsAfter
<1> QED BY <1>5, <1>6, <1>10, <1>20, <1>21

\* A bound of a scan: none, or one key.
IsBound(b) == b = <<>> \/ (Len(b) = 1 /\ b[1].key \in Key /\ b[1].inclusive \in BOOLEAN)

\* A lower bound admits what comes after an admitted key, an upper one what comes
\* before.
LEMMA BoundsOrder ==
  ASSUME NEW a \in Key, NEW b \in Key, LexLess(a, b), NEW bound, IsBound(bound)
  PROVE  /\ within_lower(a, bound) => within_lower(b, bound)
         /\ within_upper(b, bound) => within_upper(a, bound)
<1>1. CASE bound = <<>>
  BY <1>1 DEF within_lower, within_upper
<1>2. CASE bound # <<>>
  <2>1. bound[1].key \in Key
    BY <1>2 DEF IsBound
  <2>2. PICK c \in Key : c = bound[1].key
    BY <2>1
  <2>3. LexLess(c, a) => LexLess(c, b)
    BY LexTransitive
  <2>4. LexLess(b, c) => LexLess(a, c)
    BY LexTransitive
  <2> QED BY <2>2, <2>3, <2>4 DEF within_lower, within_upper
<1> QED BY <1>1, <1>2

\* The loop meets and admits every key within the bounds: it does not end before
\* one of them.
LEMMA AdmittedIs ==
  ASSUME NEW id \in DataId, NEW view, DOMAIN view \subseteq Key, NEW asc \in BOOLEAN,
         NEW lower, NEW upper, IsBound(lower), IsBound(upper)
  PROVE  Admitted(view, data_prefix(id), asc, lower, upper)
           = InDirection({k \in DOMAIN view : Admits(data_prefix(id), lower, upper, k)}, asc)
<1>1. PICK p : p = data_prefix(id)
  OBVIOUS
<1>2. /\ p \in Key /\ prefix_successor(p) \in Key
      /\ \A k \in Key : IsPrefix(p, k) => LexLess(k, prefix_successor(p))
  BY <1>1, SuccessorIs
<1>3. PICK visited : visited = Visited(view, p, asc, lower, upper)
  OBVIOUS
<1>4. ASSUME NEW k \in DOMAIN view, Admits(p, lower, upper, k) PROVE k \in visited
  <2>1. k \in Key /\ IsPrefix(p, k) /\ within_lower(StripPrefix(p, k), lower) /\ within_upper(StripPrefix(p, k), upper)
    BY <1>4 DEF Admits
  <2>2. PICK r \in Key : r = StripPrefix(p, k) /\ k = p \o r
    BY <2>1, <1>2, PrefixSplits
  <2>3. LexLeq(p, k) /\ LexLess(k, prefix_successor(p))
    BY <2>1, <1>2, PrefixFirst
  <2>4. ASSUME lower # <<>> PROVE LexLeq(p \o lower[1].key, k)
    <3>1. PICK c \in Key : c = lower[1].key
      BY <2>4 DEF IsBound
    <3>2. LexLess(c, r) \/ c = r
      BY <2>1, <2>2, <2>4, <3>1 DEF within_lower
    <3>3. LexLess(p \o c, p \o r) \/ p \o c = p \o r
      BY <3>2, <1>2, LexCancels
    <3> QED BY <3>1, <3>3, <2>2 DEF LexLeq
  <2>5. ASSUME upper # <<>> PROVE LexLeq(k, p \o upper[1].key)
    <3>1. PICK c \in Key : c = upper[1].key
      BY <2>5 DEF IsBound
    <3>2. LexLess(r, c) \/ c = r
      BY <2>1, <2>2, <2>5, <3>1 DEF within_upper
    <3>3. LexLess(p \o r, p \o c) \/ p \o c = p \o r
      BY <3>2, <1>2, LexCancels
    <3> QED BY <3>1, <3>3, <2>2 DEF LexLeq
  <2> QED BY <2>3, <2>4, <2>5, <1>3 DEF Visited, LexLeq
<1>5. ASSUME NEW k \in DOMAIN view, Admits(p, lower, upper, k),
             NEW e \in visited, Ends(p, asc, lower, upper, e), Before(asc, e, k)
      PROVE  FALSE
  <2>1. k \in Key /\ IsPrefix(p, k) /\ within_lower(StripPrefix(p, k), lower) /\ within_upper(StripPrefix(p, k), upper)
    BY <1>5 DEF Admits
  <2>2. e \in Key
    BY <1>3, <1>5 DEF Visited
  <2>3. PICK r \in Key : r = StripPrefix(p, k) /\ k = p \o r
    BY <2>1, <1>2, PrefixSplits
  <2>4. CASE asc
    <3>1. LexLess(e, k)
      BY <2>4, <1>5 DEF Before
    <3>2. LexLeq(p, e)
      <4>1. CASE lower = <<>>
        BY <4>1, <1>3, <1>5 DEF Visited
      <4>2. CASE lower # <<>>
        <5>1. PICK c \in Key : c = lower[1].key
          BY <4>2 DEF IsBound
        <5>2. LexLeq(p \o c, e) /\ p \o c \in Key
          BY <4>2, <5>1, <1>2, <1>3, <1>5, CatIs DEF Visited
        <5>3. LexLeq(p, p \o c)
          BY <5>1, <5>2, <1>2, CatStrips, PrefixFirst
        <5> QED BY <5>2, <5>3, <2>2, <1>2, LexTransitive DEF LexLeq
      <4> QED BY <4>1, <4>2
    <3>3. IsPrefix(p, e)
      BY <3>1, <3>2, <2>1, <2>2, <1>2, PrefixFirst
    <3>4. PICK t \in Key : t = StripPrefix(p, e) /\ e = p \o t
      BY <3>3, <2>2, <1>2, PrefixSplits
    <3>5. LexLess(t, r)
      <4>1. LexLess(p \o t, p \o r)
        BY <3>1, <3>4, <2>3
      <4> QED BY <4>1, <1>2, LexCancels
    <3>6. within_upper(t, upper)
      BY <3>5, <2>1, <2>3, BoundsOrder
    <3> QED BY <3>3, <3>4, <3>6, <2>4, <1>5 DEF Ends
  <2>5. CASE ~asc
    <3>1. LexLess(k, e)
      BY <2>5, <1>5 DEF Before
    <3>2. IsPrefix(p, e) /\ ~within_lower(StripPrefix(p, e), lower)
      BY <2>5, <1>5 DEF Ends
    <3>3. PICK t \in Key : t = StripPrefix(p, e) /\ e = p \o t
      BY <3>2, <2>2, <1>2, PrefixSplits
    <3>4. LexLess(r, t)
      <4>1. LexLess(p \o r, p \o t)
        BY <3>1, <3>3, <2>3
      <4> QED BY <4>1, <1>2, LexCancels
    <3>5. within_lower(t, lower)
      BY <3>4, <2>1, <2>3, BoundsOrder
    <3> QED BY <3>2, <3>3, <3>5
  <2> QED BY <2>4, <2>5
<1>6. visited \subseteq DOMAIN view
  BY <1>3 DEF Visited
<1>7. {k \in visited : /\ Admits(p, lower, upper, k)
                       /\ \A e \in {j \in visited : Ends(p, asc, lower, upper, j)} : ~ Before(asc, e, k)}
        = {k \in DOMAIN view : Admits(p, lower, upper, k)}
  BY <1>4, <1>5, <1>6
<1>8. Admitted(view, p, asc, lower, upper)
        = InDirection({k \in DOMAIN view : Admits(p, lower, upper, k)}, asc)
  BY <1>3, <1>7 DEF Admitted
<1> QED BY <1>1, <1>8

-----------------------------------------------------------------------------
(* Partitioned keys.                                                       *)

\* A function on 0..n defined from each number to the next.
LEMMA Recursion ==
  ASSUME NEW S, NEW b \in S, NEW n \in Nat, NEW G \in [1..n -> [S -> S]]
  PROVE  \E f \in [0..n -> S] : f[0] = b /\ \A i \in 1..n : f[i] = G[i][f[i - 1]]
<1> DEFINE Good(f, m) == f \in [0..m -> S] /\ f[0] = b /\ \A i \in 1..m : f[i] = G[i][f[i - 1]]
           I == {m \in Nat : m <= n => \E f : Good(f, m)}
<1>1. 0 \in I
  <2>1. Good([i \in 0..0 |-> b], 0)
    OBVIOUS
  <2> QED BY <2>1
<1>2. ASSUME NEW m \in Nat, m \in I PROVE m + 1 \in I
  <2>1. CASE ~ (m + 1 <= n)
    BY <2>1
  <2>2. CASE m + 1 <= n
    <3>1. PICK f : Good(f, m)
      BY <1>2, <2>2
    <3>2. f[m] \in S /\ G[m + 1] \in [S -> S]
      BY <3>1, <2>2
    <3>3. PICK x \in S : x = G[m + 1][f[m]]
      BY <3>2
    <3>4. PICK g : g = [i \in 0..(m + 1) |-> IF i <= m THEN f[i] ELSE x]
      OBVIOUS
    <3>5. g \in [0..(m + 1) -> S]
      BY <3>1, <3>4
    <3>6. g[0] = b
      BY <3>1, <3>4
    <3>7. ASSUME NEW i \in 1..(m + 1) PROVE g[i] = G[i][g[i - 1]]
      <4>1. CASE i <= m
        <5>1. g[i] = f[i] /\ g[i - 1] = f[i - 1] /\ i \in 1..m
          BY <4>1, <3>4
        <5> QED BY <5>1, <3>1
      <4>2. CASE i = m + 1
        <5>1. g[i] = x /\ g[i - 1] = f[m]
          BY <4>2, <3>4
        <5> QED BY <5>1, <4>2, <3>3
      <4> QED BY <4>1, <4>2
    <3>8. Good(g, m + 1)
      BY <3>5, <3>6, <3>7
    <3> HIDE DEF Good
    <3> QED BY <3>8
  <2> QED BY <2>1, <2>2
<1>3. \A m \in Nat : m \in I
  <2> HIDE DEF I
  <2> QED BY <1>1, <1>2, SetInduction
<1>4. PICK f : Good(f, n)
  <2>1. n \in I /\ n <= n
    BY <1>3
  <2> QED BY <2>1
<1> QED BY <1>4

\* A function made so.
Runs(f, S, b, n, G) == f \in [0..n -> S] /\ f[0] = b /\ \A i \in 1..n : f[i] = G[i][f[i - 1]]

\* There is one.
LEMMA RunExists ==
  ASSUME NEW S, NEW b \in S, NEW n \in Nat, NEW G \in [1..n -> [S -> S]]
  PROVE  \E f : Runs(f, S, b, n, G)
BY Recursion DEF Runs

\* Short keys.
LEMMA ShortKeys ==
  /\ <<>> \in Key /\ <<0, 0>> \in Key /\ Len(<<0, 0>>) = 2
  /\ \A b \in Byte : escape(b) \in Key /\ Len(escape(b)) >= 1
  /\ \A b \in Byte : <<b>> \in Key
<1>1. 0 \in Byte /\ 255 \in Byte
  BY DEF Byte
<1>2. <<>> \in Key /\ <<0, 0>> \in Key /\ <<0, 255>> \in Key
  BY <1>1 DEF Key
<1>3. \A b \in Byte : <<b>> \in Key
  BY DEF Key
<1>4. ASSUME NEW b \in Byte PROVE escape(b) \in Key /\ Len(escape(b)) >= 1
  <2>1. escape(b) = <<0, 255>> \/ escape(b) = <<b>>
    BY DEF escape
  <2>2. escape(b) \in Key
    BY <2>1, <1>2, <1>3
  <2>3. Len(<<0, 255>>) >= 1 /\ Len(<<b>>) >= 1
    OBVIOUS
  <2> QED BY <2>1, <2>2, <2>3
<1>5. Len(<<0, 0>>) = 2
  OBVIOUS
<1> QED BY <1>2, <1>3, <1>4, <1>5

\* The escaped beginnings of a partition.
Escapes(p, F) ==
  /\ F \in [0..Len(p) -> Key] /\ F[0] = <<>>
  /\ \A i \in 1..Len(p) : F[i] = F[i - 1] \o escape(p[i])
  /\ partition_prefix(p) = F[Len(p)] \o <<0, 0>>

\* Every partition has them.
LEMMA FramingIs ==
  ASSUME NEW p \in Key
  PROVE  \E F : Escapes(p, F)
<1>1. PICK n \in Nat : n = Len(p)
  BY DEF Key
<1>2. \A i \in 1..n : p[i] \in Byte
  BY <1>1, ByteIs
<1>3. PICK G : G = [i \in 1..n |-> [x \in Key |-> x \o escape(p[i])]]
  OBVIOUS
<1>4. G \in [1..n -> [Key -> Key]]
  <2>1. ASSUME NEW i \in 1..n PROVE [x \in Key |-> x \o escape(p[i])] \in [Key -> Key]
    <3>1. escape(p[i]) \in Key
      BY <1>2, ShortKeys
    <3>2. \A x \in Key : x \o escape(p[i]) \in Key
      BY <3>1, CatIs
    <3> QED BY <3>2
  <2> QED BY <1>3, <2>1
<1>5. PICK f \in [0..n -> Key] : f[0] = <<>> /\ \A i \in 1..n : f[i] = G[i][f[i - 1]]
  <2>1. PICK none \in Key : none = <<>>
    BY ShortKeys
  <2>2. PICK f : Runs(f, Key, none, n, G)
    BY <1>4, RunExists
  <2> QED BY <2>1, <2>2 DEF Runs
<1>6. \A i \in 1..n : f[i] = f[i - 1] \o escape(p[i])
  <2>1. ASSUME NEW i \in 1..n PROVE f[i] = f[i - 1] \o escape(p[i])
    <3>1. i - 1 \in 0..n
      OBVIOUS
    <3>2. f[i - 1] \in Key
      BY <3>1, <1>5
    <3>3. G[i] = [x \in Key |-> x \o escape(p[i])]
      BY <1>3
    <3> QED BY <3>2, <3>3, <1>5
  <2> QED BY <2>1
<1> DEFINE Fix(e) == e = [i \in 0..Len(p) |-> IF i = 0 THEN <<>> ELSE e[i - 1] \o escape(p[i])]
<1>7. Fix(f)
  <2>1. ASSUME NEW i \in 0..n PROVE f[i] = IF i = 0 THEN <<>> ELSE f[i - 1] \o escape(p[i])
    <3>1. CASE i = 0
      BY <3>1, <1>5
    <3>2. CASE i # 0
      <4>1. i \in 1..n
        BY <3>2
      <4>2. f[i] = f[i - 1] \o escape(p[i])
        BY <4>1, <1>6
      <4> QED BY <3>2, <4>2, Zenon
    <3> QED BY <3>1, <3>2
  <2>2. f = [i \in 0..n |-> f[i]]
    BY <1>5
  <2> QED BY <2>1, <2>2, <1>1
<1>8. PICK e : e = CHOOSE x : Fix(x)
  OBVIOUS
<1>9. Fix(e)
  <2> HIDE DEF Fix
  <2> QED BY <1>7, <1>8
<1>10. partition_prefix(p) = e[Len(p)] \o <<0, 0>>
  BY <1>8 DEF partition_prefix
<1>11. DOMAIN e = 0..n /\ e[0] = <<>> /\ \A i \in 1..n : e[i] = e[i - 1] \o escape(p[i])
  <2>1. e = [i \in 0..n |-> IF i = 0 THEN <<>> ELSE e[i - 1] \o escape(p[i])]
    BY <1>1, <1>9
  <2>2. DOMAIN e = 0..n
    BY <2>1
  <2>3. \A i \in 0..n : e[i] = IF i = 0 THEN <<>> ELSE e[i - 1] \o escape(p[i])
    BY <2>1
  <2>4. e[0] = <<>>
    BY <2>3
  <2>5. ASSUME NEW i \in 1..n PROVE e[i] = e[i - 1] \o escape(p[i])
    <3>1. i \in 0..n /\ i # 0
      OBVIOUS
    <3> QED BY <3>1, <2>3, Zenon
  <2> QED BY <2>2, <2>4, <2>5
<1>12. \A i \in 0..n : e[i] \in Key
  <2> DEFINE I == {m \in Nat : m <= n => e[m] \in Key}
  <2>1. 0 \in I
    BY <1>11, ShortKeys
  <2>2. ASSUME NEW m \in Nat, m \in I PROVE m + 1 \in I
    <3> SUFFICES ASSUME m + 1 <= n PROVE e[m + 1] \in Key
      OBVIOUS
    <3>1. m + 1 \in 1..n /\ m + 1 - 1 = m /\ e[m] \in Key
      BY <2>2
    <3>2. PICK j \in 1..n : j = m + 1 /\ j - 1 = m
      BY <3>1
    <3>3. e[j] = e[j - 1] \o escape(p[j])
      BY <1>11, Zenon
    <3>4. escape(p[j]) \in Key
      BY <1>2, ShortKeys
    <3>5. e[j - 1] \in Key
      BY <3>1, <3>2
    <3>6. e[j] \in Key
      BY <3>3, <3>4, <3>5, CatIs
    <3> QED BY <3>2, <3>6
  <2>3. \A m \in Nat : m \in I
    <3> HIDE DEF I
    <3> QED BY <2>1, <2>2, SetInduction
  <2> QED BY <2>3
<1>13. e \in [0..n -> Key]
  BY <1>9, <1>1, <1>12
<1>14. Escapes(p, e)
  BY <1>1, <1>10, <1>11, <1>13 DEF Escapes
<1> QED BY <1>14

\* A framing is a key of at least as many bytes as the partition and two more.
LEMMA FramingType ==
  ASSUME NEW p \in Key, NEW F, Escapes(p, F)
  PROVE  /\ partition_prefix(p) \in Key
         /\ \A n \in 0..Len(p) : F[n] \in Key /\ Len(F[n]) >= n
         /\ Len(partition_prefix(p)) >= Len(p) + 2
<1>1. PICK L \in Nat : L = Len(p)
  BY DEF Key
<1>a. F \in [0..L -> Key]
  BY <1>1 DEF Escapes
<1>b. \A s \in Key : Len(s) \in Nat
  BY DEF Key
<1>2. \A n \in 0..L : F[n] \in Key /\ Len(F[n]) \in Nat
  BY <1>a, <1>b
<1> DEFINE I == {m \in Nat : m <= L => Len(F[m]) >= m}
<1>3. 0 \in I
  <2>1. F[0] = <<>> /\ Len(<<>>) = 0
    BY DEF Escapes
  <2> QED BY <2>1
<1>4. ASSUME NEW m \in Nat, m \in I PROVE m + 1 \in I
  <2> SUFFICES ASSUME m + 1 <= L PROVE Len(F[m + 1]) >= m + 1
    OBVIOUS
  <2>1. m + 1 \in 1..L /\ m + 1 - 1 = m /\ Len(F[m]) >= m /\ m \in 0..L
    BY <1>4
  <2>2. p[m + 1] \in Byte
    BY <1>1, <2>1, ByteIs
  <2>3. PICK x \in Key : x = escape(p[m + 1]) /\ Len(x) >= 1
    BY <2>2, ShortKeys
  <2>c. PICK j \in 1..L : j = m + 1 /\ j - 1 = m
    BY <2>1
  <2>d. F[j] = F[j - 1] \o escape(p[j])
    BY <1>1 DEF Escapes
  <2>4. F[m + 1] = F[m] \o x
    BY <2>c, <2>d, <2>3
  <2>5. PICK y \in Key : y = F[m]
    BY <2>1, <1>2
  <2>6. PICK w : w = y \o x
    OBVIOUS
  <2>7. Len(w) = Len(y) + Len(x) /\ Len(y) \in Nat /\ Len(x) \in Nat
    BY <1>b, <2>6, CatIs
  <2>8. F[m + 1] = w /\ Len(y) >= m
    BY <2>1, <2>4, <2>5, <2>6
  <2> QED BY <2>3, <2>7, <2>8
<1>5. \A m \in Nat : m \in I
  <2> HIDE DEF I
  <2> QED BY <1>3, <1>4, SetInduction
<1>6. PICK y \in Key : y = F[L]
  BY <1>2
<1>7. Len(y) >= L /\ Len(y) \in Nat
  BY <1>5, <1>6, <1>2
<1>8. PICK z \in Key : z = <<0, 0>> /\ Len(z) = 2
  BY ShortKeys
<1>9. partition_prefix(p) = y \o z
  BY <1>1, <1>6, <1>8 DEF Escapes
<1>10. y \o z \in Key /\ Len(y \o z) = Len(y) + Len(z)
  BY CatIs
<1> QED BY <1>1, <1>2, <1>5, <1>7, <1>8, <1>9, <1>10

\* A key begins with another.
BeginsWith(e, a) == \E r \in Key : e = a \o r

\* What is joined from three keys begins with the first one.
LEMMA CatAssociates ==
  ASSUME NEW a \in Key, NEW b \in Key, NEW c \in Key, NEW e, e = (a \o b) \o c
  PROVE  BeginsWith(e, a)
<1>1. (a \o b) \o c = a \o (b \o c)
  BY ConcatAssociative DEF Key
<1>2. PICK r \in Key : r = b \o c
  BY CatIs
<1>3. e = a \o r
  BY <1>1, <1>2
<1> QED BY <1>3 DEF BeginsWith

\* An encoded key begins with every escaped beginning of its partition.
LEMMA EscapedBegins ==
  ASSUME NEW p \in Key, NEW k \in Key, NEW F, Escapes(p, F)
  PROVE  \A n \in 0..Len(p) : BeginsWith(encode_key(p, k), F[n])
<1>1. PICK L \in Nat : L = Len(p)
  BY DEF Key
<1>2. \A n \in 0..L : F[n] \in Key
  BY <1>1, FramingType
<1>3. \A i \in 1..L : F[i] = F[i - 1] \o escape(p[i]) /\ escape(p[i]) \in Key
  BY <1>1, ByteIs, ShortKeys DEF Escapes
<1>4. PICK z \in Key : z = <<0, 0>>
  BY ShortKeys
<1>5. PICK e : e = encode_key(p, k)
  OBVIOUS
<1> DEFINE I == {m \in Nat : m <= L => BeginsWith(e, F[L - m])}
<1>6. 0 \in I
  <2>1. PICK y \in Key : y = F[L]
    BY <1>2
  <2>2. e = (y \o z) \o k
    BY <1>1, <1>4, <1>5, <2>1 DEF Escapes, encode_key
  <2>3. BeginsWith(e, y)
    BY <2>2, CatAssociates
  <2>4. L - 0 = L
    OBVIOUS
  <2> QED BY <2>1, <2>3, <2>4
<1>7. ASSUME NEW m \in Nat, m \in I PROVE m + 1 \in I
  <2> SUFFICES ASSUME m + 1 <= L PROVE BeginsWith(e, F[L - (m + 1)])
    OBVIOUS
  <2>1. PICK j \in 1..L : j = L - m /\ j - 1 = L - (m + 1) /\ j - 1 \in 0..L /\ j \in 0..L
    OBVIOUS
  <2>2. PICK r \in Key : e = F[j] \o r
    BY <1>7, <2>1 DEF BeginsWith
  <2>3. PICK y \in Key : y = F[j - 1]
    BY <1>2, <2>1
  <2>4. PICK x \in Key : x = escape(p[j])
    BY <1>3
  <2>5. e = (y \o x) \o r
    BY <1>3, <2>2, <2>3, <2>4
  <2>6. BeginsWith(e, y)
    BY <2>5, CatAssociates
  <2> QED BY <2>1, <2>3, <2>6
<1>8. \A m \in Nat : m \in I
  <2> HIDE DEF I
  <2> QED BY <1>6, <1>7, SetInduction
<1>9. ASSUME NEW n \in 0..L PROVE BeginsWith(e, F[n])
  <2>1. PICK m \in Nat : m = L - n /\ m <= L /\ L - m = n
    OBVIOUS
  <2> QED BY <1>8, <2>1
<1> QED BY <1>1, <1>5, <1>9

\* The bytes of an encoded key: the escapes in turn, two zeros and the local key.
Laid(p, k, F, e) ==
  /\ e \in Key /\ Len(e) \in Nat /\ Len(p) \in Nat /\ Len(k) \in Nat
  /\ \A n \in 0..Len(p) : Len(F[n]) \in Nat /\ Len(F[n]) >= n
  /\ \A n \in 1..Len(p) : /\ Len(F[n]) = Len(F[n - 1]) + Len(escape(p[n]))
                          /\ Len(F[n]) <= Len(e)
                          /\ \A i \in 1..Len(escape(p[n])) : e[Len(F[n - 1]) + i] = escape(p[n])[i]
  /\ Len(e) = Len(F[Len(p)]) + 2 + Len(k)
  /\ e[Len(F[Len(p)]) + 1] = 0 /\ e[Len(F[Len(p)]) + 2] = 0
  /\ SubSeq(e, Len(F[Len(p)]) + 3, Len(e)) = k

\* Encoding lays them out.
LEMMA EncodedBytes ==
  ASSUME NEW p \in Key, NEW k \in Key, NEW F, Escapes(p, F)
  PROVE  Laid(p, k, F, encode_key(p, k))
<1>b. \A n \in 0..Len(p) : BeginsWith(encode_key(p, k), F[n])
  BY EscapedBegins
<1>0. PICK e : e = encode_key(p, k)
  OBVIOUS
<1>1. PICK L \in Nat : L = Len(p)
  BY DEF Key
<1>a. \A s \in Key : Len(s) \in Nat
  BY DEF Key
<1>2. \A n \in 0..L : F[n] \in Key /\ Len(F[n]) \in Nat /\ Len(F[n]) >= n
  BY <1>1, <1>a, FramingType
<1>3. partition_prefix(p) \in Key
  BY FramingType
<1>4. e \in Key /\ Len(e) \in Nat
  BY <1>0, <1>3, <1>a, CatIs DEF encode_key
<1>5. ASSUME NEW n \in 1..L
      PROVE  /\ Len(F[n]) = Len(F[n - 1]) + Len(escape(p[n]))
             /\ Len(F[n]) <= Len(e)
             /\ \A i \in 1..Len(escape(p[n])) : e[Len(F[n - 1]) + i] = escape(p[n])[i]
  <2>1. PICK y \in Key : y = F[n - 1]
    BY <1>2
  <2>2. PICK x \in Key : x = escape(p[n])
    BY <1>1, ByteIs, ShortKeys
  <2>3. PICK z \in Key : z = F[n]
    BY <1>2
  <2>4. z = y \o x
    BY <1>1, <2>1, <2>2, <2>3 DEF Escapes
  <2>5. PICK r \in Key : e = z \o r
    <3>1. n \in 0..Len(p)
      BY <1>1
    <3>2. BeginsWith(e, z)
      BY <3>1, <1>b, <2>3, <1>0
    <3> QED BY <3>2 DEF BeginsWith
  <2>6. Len(z) = Len(y) + Len(x) /\ \A i \in 1..Len(x) : z[Len(y) + i] = x[i]
    BY <2>4, CatIs
  <2>7. Len(e) = Len(z) + Len(r) /\ \A i \in 1..Len(z) : e[i] = z[i]
    BY <2>5, CatIs
  <2>8. Len(z) \in Nat /\ Len(y) \in Nat /\ Len(x) \in Nat /\ Len(r) \in Nat
    BY <1>a
  <2>9. ASSUME NEW i \in 1..Len(x) PROVE e[Len(y) + i] = x[i]
    <3>1. Len(y) + i \in 1..Len(z)
      BY <2>6, <2>8
    <3> QED BY <3>1, <2>6, <2>7
  <2>10. Len(z) <= Len(e)
    BY <2>7, <2>8
  <2> QED BY <2>1, <2>2, <2>3, <2>6, <2>9, <2>10
<1>6. PICK y \in Key : y = F[L]
  BY <1>2
<1>7. PICK z \in Key : z = <<0, 0>> /\ Len(z) = 2 /\ z[1] = 0 /\ z[2] = 0
  BY ShortKeys
<1>8. PICK w \in Key : w = y \o z
  BY CatIs
<1>9. e = w \o k
  BY <1>0, <1>1, <1>6, <1>7, <1>8 DEF Escapes, encode_key
<1>10. Len(w) = Len(y) + 2 /\ w[Len(y) + 1] = 0 /\ w[Len(y) + 2] = 0 /\ Len(y) \in Nat /\ Len(k) \in Nat
  <2>1. Len(w) = Len(y) + Len(z) /\ \A i \in 1..Len(z) : w[Len(y) + i] = z[i]
    BY <1>8, CatIs
  <2>2. 1 \in 1..Len(z) /\ 2 \in 1..Len(z)
    BY <1>7
  <2>3. w[Len(y) + 1] = z[1] /\ w[Len(y) + 2] = z[2]
    BY <2>1, <2>2
  <2> QED BY <2>1, <2>3, <1>7, <1>a
<1>11. Len(e) = Len(w) + Len(k) /\ \A i \in 1..Len(w) : e[i] = w[i]
  BY <1>9, CatIs
<1>12. e[Len(y) + 1] = 0 /\ e[Len(y) + 2] = 0 /\ Len(e) = Len(y) + 2 + Len(k)
  BY <1>10, <1>11
<1>13. SubSeq(e, Len(y) + 3, Len(e)) = k
  <2>1. Len(w) + 1 = Len(y) + 3
    BY <1>10
  <2>2. StripPrefix(w, e) = k
    BY <1>9, CatStrips
  <2>3. SubSeq(e, Len(w) + 1, Len(e)) = k
    BY <2>2 DEF StripPrefix
  <2> QED BY <2>1, <2>3
<1>14. Laid(p, k, F, e)
  BY <1>1, <1>2, <1>4, <1>5, <1>6, <1>10, <1>12, <1>13 DEF Laid
<1> QED BY <1>0, <1>14

\* What the decoding loop keeps.
Decoding == [ok : BOOLEAN, at : Nat \ {0}, partition : Key, key : Key]

\* The states of the decoding loop.
Turns(bytes, A) ==
  /\ A[0] = Reading(1, <<>>)
  /\ \A i \in 1..Len(bytes) : A[i] = decode_turn(bytes, A[i - 1])
  /\ decode_key(bytes) = A[Len(bytes)]

\* A turn keeps the type.
LEMMA TurnType ==
  ASSUME NEW bytes \in Key, NEW s \in Decoding
  PROVE  decode_turn(bytes, s) \in Decoding
<1>1. PICK L \in Nat : L = Len(bytes)
  BY DEF Key
<1>2. PICK at \in Nat \ {0} : at = s.at
  BY DEF Decoding
<1>3. s.partition \in Key /\ s.key \in Key /\ s.ok \in BOOLEAN
  BY DEF Decoding
<1>4. \A b \in Byte : Append(s.partition, b) \in Key
  BY <1>3, AppendProperties DEF Key
<1>5. 0 \in Byte
  BY DEF Byte
<1>p. /\ <<>> \in Key
      /\ \A x \in Nat \ {0}, q \in Key, r \in Key : Reading(x, q) \in Decoding /\ Found(x, q, r) \in Decoding
  BY ShortKeys DEF Reading, Found, Decoding
<1>6. CASE s.ok \/ at > L
  BY <1>1, <1>2, <1>6 DEF decode_turn
<1>7. CASE ~ s.ok /\ at <= L /\ bytes[at] # 0
  <2>1. decode_turn(bytes, s) = Reading(at + 1, Append(s.partition, bytes[at]))
    BY <1>1, <1>2, <1>7 DEF decode_turn
  <2>2. bytes[at] \in Byte
    BY <1>1, <1>2, <1>7, ByteIs
  <2>3. Append(s.partition, bytes[at]) \in Key /\ at + 1 \in Nat \ {0}
    BY <2>2, <1>4
  <2> QED BY <2>1, <2>3, <1>p
<1>8. CASE ~ s.ok /\ at < L /\ bytes[at] = 0 /\ bytes[at + 1] = 255
  <2>1. decode_turn(bytes, s) = Reading(at + 2, Append(s.partition, 0))
    BY <1>1, <1>2, <1>8 DEF decode_turn
  <2>2. Append(s.partition, 0) \in Key /\ at + 2 \in Nat \ {0}
    BY <1>4, <1>5
  <2> QED BY <2>1, <2>2, <1>p
<1>9. CASE ~ s.ok /\ at < L /\ bytes[at] = 0 /\ bytes[at + 1] = 0
  <2>1. decode_turn(bytes, s) = Found(at, s.partition, SubSeq(bytes, at + 2, L))
    BY <1>1, <1>2, <1>9 DEF decode_turn
  <2>2. SubSeq(bytes, at + 2, L) \in Key
    <3>1. \A i \in (at + 2)..L : bytes[i] \in Byte
      BY <1>1, ByteIs
    <3>2. at + 2 \in Int /\ L \in Int
      OBVIOUS
    <3> QED BY <3>1, <3>2, SubSeqProperties DEF Key
  <2> QED BY <2>1, <2>2, <1>3, <1>p
<1>10. CASE ~ s.ok /\ at <= L /\ bytes[at] = 0 /\ ~ (at < L /\ (bytes[at + 1] = 255 \/ bytes[at + 1] = 0))
  <2>1. decode_turn(bytes, s) = Reading(L + 1, <<>>)
    BY <1>1, <1>2, <1>10 DEF decode_turn
  <2>2. L + 1 \in Nat \ {0}
    OBVIOUS
  <2> QED BY <2>1, <2>2, <1>p
<1> QED BY <1>1, <1>2, <1>6, <1>7, <1>8, <1>9, <1>10

\* The loop runs.
LEMMA DecodeRuns ==
  ASSUME NEW bytes \in Key
  PROVE  \E A : Turns(bytes, A)
<1>1. PICK n \in Nat : n = Len(bytes)
  BY DEF Key
<1>2. PICK b \in Decoding : b = Reading(1, <<>>)
  <2>1. <<>> \in Key /\ 1 \in Nat \ {0}
    BY ShortKeys
  <2>2. PICK none \in Key : none = <<>>
    BY <2>1
  <2>3. Reading(1, none) \in Decoding
    BY <2>1 DEF Decoding, Reading
  <2> QED BY <2>2, <2>3
<1>3. PICK G : G = [i \in 1..n |-> [x \in Decoding |-> decode_turn(bytes, x)]]
  OBVIOUS
<1>4. G \in [1..n -> [Decoding -> Decoding]]
  BY <1>3, TurnType
<1>5. PICK f \in [0..n -> Decoding] : f[0] = b /\ \A i \in 1..n : f[i] = G[i][f[i - 1]]
  BY <1>4, Recursion
<1>6. ASSUME NEW i \in 1..n PROVE f[i] = decode_turn(bytes, f[i - 1])
  <2>1. i - 1 \in 0..n
    OBVIOUS
  <2>2. f[i - 1] \in Decoding
    BY <2>1, <1>5
  <2>3. G[i] = [x \in Decoding |-> decode_turn(bytes, x)]
    BY <1>3
  <2> QED BY <2>2, <2>3, <1>5
<1> DEFINE Fix(e) == e = [i \in 0..Len(bytes) |->
                           IF i = 0 THEN Reading(1, <<>>)
                           ELSE decode_turn(bytes, e[i - 1])]
<1>7. Fix(f)
  <2>1. ASSUME NEW i \in 0..n PROVE f[i] = IF i = 0 THEN b ELSE decode_turn(bytes, f[i - 1])
    <3>1. CASE i = 0
      BY <3>1, <1>5
    <3>2. CASE i # 0
      <4>1. i \in 1..n
        BY <3>2
      <4>2. f[i] = decode_turn(bytes, f[i - 1])
        BY <4>1, <1>6
      <4> QED BY <3>2, <4>2, Zenon
    <3> QED BY <3>1, <3>2
  <2>2. f = [i \in 0..n |-> f[i]]
    BY <1>5
  <2> QED BY <2>1, <2>2, <1>1, <1>2
<1>8. PICK e : e = CHOOSE x : Fix(x)
  OBVIOUS
<1>9. Fix(e)
  <2> HIDE DEF Fix
  <2> QED BY <1>7, <1>8
<1>10. decode_key(bytes) = e[Len(bytes)]
  BY <1>8 DEF decode_key
<1>11. \A i \in 0..n : e[i] = IF i = 0 THEN b ELSE decode_turn(bytes, e[i - 1])
  BY <1>1, <1>2, <1>9
<1>12. e[0] = b
  BY <1>11
<1>13. ASSUME NEW i \in 1..n PROVE e[i] = decode_turn(bytes, e[i - 1])
  <2>1. i \in 0..n /\ i # 0
    OBVIOUS
  <2> QED BY <2>1, <1>11, Zenon
<1>14. Turns(bytes, e)
  BY <1>1, <1>2, <1>10, <1>12, <1>13 DEF Turns
<1> QED BY <1>14

\* A turn of the loop that has not ended, at an unescaped byte, an escaped zero and
\* the terminator.
LEMMA TurnIs ==
  ASSUME NEW bytes \in Key, NEW at \in Nat \ {0}, NEW part \in Key,
         NEW s, s = Reading(at, part)
  PROVE  /\ at <= Len(bytes) /\ bytes[at] # 0
              => decode_turn(bytes, s) = Reading(at + 1, Append(part, bytes[at]))
         /\ at < Len(bytes) /\ bytes[at] = 0 /\ bytes[at + 1] = 255
              => decode_turn(bytes, s) = Reading(at + 2, Append(part, 0))
         /\ at < Len(bytes) /\ bytes[at] = 0 /\ bytes[at + 1] = 0
              => decode_turn(bytes, s) = Found(at, part, SubSeq(bytes, at + 2, Len(bytes)))
<1>1. PICK L \in Nat : L = Len(bytes)
  BY DEF Key
<1>2. s.ok = FALSE /\ s.at = at /\ s.partition = part
  BY DEF Reading
<1>3. ASSUME at <= L, bytes[at] # 0
      PROVE  decode_turn(bytes, s) = Reading(at + 1, Append(part, bytes[at]))
  BY <1>1, <1>2, <1>3 DEF decode_turn
<1>4. ASSUME at < L, bytes[at] = 0, bytes[at + 1] = 255
      PROVE  decode_turn(bytes, s) = Reading(at + 2, Append(part, 0))
  BY <1>1, <1>2, <1>4 DEF decode_turn
<1>5. ASSUME at < L, bytes[at] = 0, bytes[at + 1] = 0
      PROVE  decode_turn(bytes, s) = Found(at, part, SubSeq(bytes, at + 2, L))
  BY <1>1, <1>2, <1>5 DEF decode_turn
<1> QED BY <1>1, <1>3, <1>4, <1>5

\* An encoded key decodes to its partition and its local key.
LEMMA DecodesEncoded ==
  ASSUME NEW p \in Key, NEW k \in Key
  PROVE  LET d == decode_key(encode_key(p, k)) IN d.ok /\ d.partition = p /\ d.key = k
<1>1. PICK F : Escapes(p, F)
  BY FramingIs
<1>2. PICK e : e = encode_key(p, k)
  OBVIOUS
<1>3. Laid(p, k, F, e)
  BY <1>1, <1>2, EncodedBytes
<1>a. e \in Key /\ Len(e) \in Nat /\ Len(p) \in Nat
  BY <1>3 DEF Laid
<1>4. PICK A : Turns(e, A)
  BY <1>a, DecodeRuns
<1>5. PICK L \in Nat : L = Len(p)
  BY <1>a
<1>6. PICK E \in Nat : E = Len(e)
  BY <1>a
<1>7. L + 2 <= E
  <2>1. Len(F[L]) >= L /\ Len(F[L]) \in Nat /\ Len(k) \in Nat /\ E = Len(F[L]) + 2 + Len(k)
    BY <1>3, <1>5, <1>6 DEF Laid
  <2> QED BY <2>1
<1>b. PICK none : none = <<>>
  OBVIOUS
<1> DEFINE State(n) == Reading(Len(F[n]) + 1, SubSeq(p, 1, n))
           I == {m \in Nat : m <= L => A[m] = State(m)}
<1>8. 0 \in I
  <2>1. Len(F[0]) = 0
    BY <1>1 DEF Escapes
  <2>2. SubSeq(p, 1, 0) = <<>>
    BY SubSeqEmpty
  <2>3. A[0] = Reading(1, none)
    BY <1>4, <1>b DEF Turns
  <2>a. Len(F[0]) + 1 = 1 /\ SubSeq(p, 1, 0) = none
    BY <2>1, <2>2, <1>b
  <2>4. State(0) = A[0]
    BY <2>3, <2>a
  <2> QED BY <2>4
<1>9. ASSUME NEW m \in Nat, m \in I PROVE m + 1 \in I
  <2> SUFFICES ASSUME m + 1 <= L PROVE A[m + 1] = State(m + 1)
    OBVIOUS
  <2>1. PICK n \in 1..L : n = m + 1 /\ n - 1 = m /\ m \in 0..L /\ n \in 1..Len(e) /\ n \in 0..L
    BY <1>6, <1>7
  <2>2. A[m] = State(m)
    BY <1>9
  <2>3. A[n] = decode_turn(e, State(m))
    BY <1>4, <2>1, <2>2 DEF Turns
  <2>4. PICK y \in Nat : y = Len(F[m])
    BY <1>3, <1>5, <2>1 DEF Laid
  <2>5. PICK b \in Byte : b = p[n]
    BY <1>5, ByteIs
  <2>6. SubSeq(p, 1, n) = Append(SubSeq(p, 1, m), b)
    <3>1. /\ SubSeq(p, 1, m) \in Key /\ Len(SubSeq(p, 1, m)) = m
          /\ \A i \in 1..m : SubSeq(p, 1, m)[i] = p[i]
      <4>1. \A i \in 1..m : p[i] \in Byte
        BY <1>5, <2>1, ByteIs
      <4> QED BY <4>1, SubSeqProperties DEF Key
    <3>2. /\ SubSeq(p, 1, n) \in Key /\ Len(SubSeq(p, 1, n)) = n
          /\ \A i \in 1..n : SubSeq(p, 1, n)[i] = p[i]
      <4>1. \A i \in 1..n : p[i] \in Byte
        BY <1>5, <2>1, ByteIs
      <4> QED BY <4>1, SubSeqProperties DEF Key
    <3>3. PICK u \in Key : u = SubSeq(p, 1, m)
      BY <3>1
    <3>4. PICK v \in Key : v = SubSeq(p, 1, n)
      BY <3>2
    <3>5. Append(u, b) \in Key /\ Len(Append(u, b)) = m + 1 /\ (\A i \in 1..m : Append(u, b)[i] = u[i]) /\ Append(u, b)[m + 1] = b
      BY <3>1, <3>3, AppendProperties DEF Key
    <3>6. PICK w \in Key : w = Append(u, b)
      BY <3>5
    <3>7. \A i \in 1..n : w[i] = v[i]
      BY <2>1, <2>5, <3>1, <3>2, <3>3, <3>4, <3>5, <3>6
    <3>8. w = v
      BY <2>1, <3>2, <3>4, <3>5, <3>6, <3>7, KeyEqual
    <3> QED BY <3>3, <3>4, <3>6, <3>8
  <2>7. PICK x \in Key : x = escape(b) /\ Len(F[n]) = y + Len(x) /\ y + Len(x) <= E /\ \A i \in 1..Len(x) : e[y + i] = x[i]
    <3>1. PICK x \in Key : x = escape(p[n])
      BY <2>5, ShortKeys
    <3>2. Len(F[n]) = Len(F[n - 1]) + Len(x) /\ Len(F[n]) <= Len(e) /\ \A i \in 1..Len(x) : e[Len(F[n - 1]) + i] = x[i]
      BY <1>3, <1>5, <3>1 DEF Laid
    <3>3. x = escape(b) /\ Len(F[n - 1]) = y
      BY <3>1, <2>1, <2>4, <2>5
    <3>4. Len(F[n]) = y + Len(x) /\ (\A i \in 1..Len(x) : e[y + i] = x[i])
      BY <3>2, <3>3
    <3>5. y + Len(x) <= E
      BY <3>2, <3>4, <1>6
    <3> QED BY <3>3, <3>4, <3>5, Zenon
  <2>a. PICK part \in Key : part = SubSeq(p, 1, m)
    <3>1. \A i \in 1..m : p[i] \in Byte
      BY <1>5, <2>1, ByteIs
    <3>2. 1 \in Int /\ m \in Int
      OBVIOUS
    <3> QED BY <3>1, <3>2, SubSeqProperties DEF Key
  <2>b. State(m) = Reading(y + 1, part)
    BY <2>4, <2>a
  <2>d. PICK at \in Nat \ {0} : at = y + 1
    OBVIOUS
  <2>c. PICK s : s = Reading(at, part)
    OBVIOUS
  <2>8. CASE b # 0
    <3>1. x = <<b>>
      BY <2>7, <2>8 DEF escape
    <3>2. Len(F[n]) = y + 1 /\ e[y + 1] = b /\ y + 1 <= E
      BY <2>7, <3>1
    <3>3. at <= Len(e) /\ e[at] = b /\ at + 1 = y + 2 /\ Len(F[n]) + 1 = y + 2
      BY <3>2, <1>6, <2>d
    <3>4. decode_turn(e, s) = Reading(at + 1, Append(part, e[at]))
      BY <2>8, <2>c, <3>3, <1>a, TurnIs
    <3>5. SubSeq(p, 1, n) = Append(part, b)
      BY <2>6, <2>a
    <3>6. A[n] = decode_turn(e, s)
      BY <2>3, <2>b, <2>c, <2>d
    <3>7. State(n) = Reading(y + 2, Append(part, b))
      BY <3>3, <3>5
    <3> QED BY <2>1, <3>3, <3>4, <3>6, <3>7
  <2>9. CASE b = 0
    <3>1. x = <<0, 255>>
      BY <2>7, <2>9 DEF escape
    <3>2. Len(F[n]) = y + 2 /\ e[y + 1] = 0 /\ e[y + 2] = 255 /\ y + 2 <= E
      BY <2>7, <3>1
    <3>3. at < Len(e) /\ e[at] = 0 /\ e[at + 1] = 255 /\ at + 2 = y + 3 /\ Len(F[n]) + 1 = y + 3
      BY <3>2, <1>6, <2>d
    <3>4. decode_turn(e, s) = Reading(at + 2, Append(part, 0))
      BY <2>c, <3>3, <1>a, TurnIs
    <3>5. SubSeq(p, 1, n) = Append(part, 0)
      BY <2>6, <2>a, <2>9
    <3>6. A[n] = decode_turn(e, s)
      BY <2>3, <2>b, <2>c, <2>d
    <3>7. State(n) = Reading(y + 3, Append(part, 0))
      BY <3>3, <3>5
    <3> QED BY <2>1, <3>3, <3>4, <3>6, <3>7
  <2> QED BY <2>8, <2>9
<1>10. \A m \in Nat : m \in I
  <2> HIDE DEF I
  <2> QED BY <1>8, <1>9, SetInduction
<1>11. A[L] = State(L)
  BY <1>10
<1>12. SubSeq(p, 1, L) = p
  BY <1>5, SubSeqFull DEF Key
<1>13. PICK y \in Nat : y = Len(F[L])
  BY <1>3, <1>5 DEF Laid
<1>14. PICK d : d = Found(y + 1, p, k)
  OBVIOUS
<1>15. A[L + 1] = d
  <2>1. L + 1 \in 1..Len(e) /\ L + 1 - 1 = L
    BY <1>6, <1>7
  <2>2. A[L + 1] = decode_turn(e, State(L))
    BY <1>4, <1>11, <2>1 DEF Turns
  <2>3. e[y + 1] = 0 /\ e[y + 2] = 0 /\ SubSeq(e, y + 3, E) = k /\ y + 2 <= E
    <3>1. e[y + 1] = 0 /\ e[y + 2] = 0 /\ SubSeq(e, y + 3, E) = k
      BY <1>3, <1>5, <1>6, <1>13, Zenon DEF Laid
    <3>2. E = y + 2 + Len(k) /\ Len(k) \in Nat
      BY <1>3, <1>5, <1>6, <1>13 DEF Laid
    <3> QED BY <3>1, <3>2
  <2>4. State(L) = Reading(y + 1, p)
    BY <1>12, <1>13
  <2>5. PICK at \in Nat \ {0} : at = y + 1
    OBVIOUS
  <2>6. at < Len(e) /\ e[at] = 0 /\ e[at + 1] = 0 /\ SubSeq(e, at + 2, Len(e)) = k
    <3>1. at + 1 = y + 2 /\ at + 2 = y + 3
      BY <2>5
    <3> QED BY <3>1, <2>3, <2>5, <1>6
  <2>7. PICK s : s = Reading(at, p)
    OBVIOUS
  <2>8. decode_turn(e, s) = Found(at, p, SubSeq(e, at + 2, Len(e)))
    BY <2>6, <2>7, <1>a, TurnIs
  <2> QED BY <2>2, <2>4, <2>5, <2>6, <2>7, <2>8, <1>14
<1> DEFINE J == {m \in Nat : L + 1 + m <= E => A[L + 1 + m] = d}
<1>16. 0 \in J
  BY <1>15
<1>17. ASSUME NEW m \in Nat, m \in J PROVE m + 1 \in J
  <2> SUFFICES ASSUME L + 1 + (m + 1) <= E PROVE A[L + 1 + (m + 1)] = d
    OBVIOUS
  <2>1. PICK i \in 1..Len(e) : i = L + 1 + (m + 1) /\ i - 1 = L + 1 + m
    BY <1>6
  <2>2. A[i - 1] = d
    BY <1>17, <2>1
  <2>3. A[i] = decode_turn(e, d)
    BY <1>4, <2>2 DEF Turns
  <2>4. decode_turn(e, d) = d
    BY <1>14 DEF decode_turn, Found
  <2> QED BY <2>1, <2>3, <2>4
<1>18. \A m \in Nat : m \in J
  <2> HIDE DEF J
  <2> QED BY <1>16, <1>17, SetInduction
<1>19. A[E] = d
  <2>1. PICK m \in Nat : L + 1 + m = E
    <3>1. E - L - 1 \in Nat /\ L + 1 + (E - L - 1) = E
      BY <1>7
    <3> QED BY <3>1
  <2> QED BY <1>18, <2>1
<1>20. decode_key(e) = d
  BY <1>4, <1>6, <1>19 DEF Turns
<1> QED BY <1>2, <1>14, <1>20 DEF Found

\* An encoded key.
LEMMA EncodedKey ==
  ASSUME NEW p \in Key, NEW k \in Key
  PROVE  /\ partition_prefix(p) \in Key /\ Len(partition_prefix(p)) >= 2
         /\ encode_key(p, k) \in Key
         /\ IsPrefix(partition_prefix(p), encode_key(p, k))
         /\ StripPrefix(partition_prefix(p), encode_key(p, k)) = k
<1>1. PICK F : Escapes(p, F)
  BY FramingIs
<1>2. partition_prefix(p) \in Key /\ Len(partition_prefix(p)) >= Len(p) + 2 /\ Len(p) \in Nat
  BY <1>1, FramingType DEF Key
<1>3. PICK f \in Key : f = partition_prefix(p) /\ Len(f) >= 2 /\ Len(f) \in Nat
  BY <1>2 DEF Key
<1>4. encode_key(p, k) = f \o k
  BY <1>3 DEF encode_key
<1>5. f \o k \in Key /\ IsPrefix(f, f \o k) /\ StripPrefix(f, f \o k) = k
  BY CatIs, CatStrips
<1> QED BY <1>3, <1>4, <1>5

\* Encoding is injective, and a framing begins only the keys of its own partition.
LEMMA EncodedApart ==
  ASSUME NEW p \in Key, NEW k \in Key, NEW q \in Key, NEW j \in Key
  PROVE  /\ encode_key(p, k) = encode_key(q, j) => p = q /\ k = j
         /\ IsPrefix(partition_prefix(p), encode_key(q, j)) => p = q
<1>1. ASSUME NEW x \in Key, encode_key(p, x) = encode_key(q, j) PROVE p = q /\ x = j
  <2>1. PICK d : d = decode_key(encode_key(q, j))
    OBVIOUS
  <2>2. d.partition = q /\ d.key = j
    BY <2>1, DecodesEncoded
  <2>3. d.partition = p /\ d.key = x
    BY <2>1, <1>1, DecodesEncoded
  <2> QED BY <2>2, <2>3
<1>2. ASSUME IsPrefix(partition_prefix(p), encode_key(q, j)) PROVE p = q
  <2>1. PICK e \in Key : e = encode_key(q, j)
    BY EncodedKey
  <2>2. PICK f \in Key : f = partition_prefix(p)
    BY EncodedKey
  <2>3. PICK x \in Key : e = f \o x
    BY <1>2, <2>1, <2>2, PrefixSplits
  <2>4. encode_key(p, x) = e
    BY <2>2, <2>3 DEF encode_key
  <2> QED BY <2>1, <2>4, <1>1
<1> QED BY <1>1, <1>2

\* Partitions with a common beginning have a common escaped beginning.
LEMMA CommonEscapes ==
  ASSUME NEW p \in Key, NEW q \in Key, NEW F, Escapes(p, F), NEW H, Escapes(q, H),
         NEW n \in Nat, n <= Len(p), n <= Len(q), \A i \in 1..n : p[i] = q[i]
  PROVE  F[n] = H[n]
<1>1. PICK L \in Nat : L = Len(p)
  BY DEF Key
<1>2. PICK M \in Nat : M = Len(q)
  BY DEF Key
<1>3. F[0] = <<>> /\ \A i \in 1..L : F[i] = F[i - 1] \o escape(p[i])
  BY <1>1 DEF Escapes
<1>4. H[0] = <<>> /\ \A i \in 1..M : H[i] = H[i - 1] \o escape(q[i])
  BY <1>2 DEF Escapes
<1> DEFINE I == {m \in Nat : m <= n => F[m] = H[m]}
<1>5. 0 \in I
  BY <1>3, <1>4
<1>6. ASSUME NEW m \in Nat, m \in I PROVE m + 1 \in I
  <2> SUFFICES ASSUME m + 1 <= n PROVE F[m + 1] = H[m + 1]
    OBVIOUS
  <2>1. PICK i \in 1..n : i = m + 1 /\ i - 1 = m /\ i \in 1..L /\ i \in 1..M
    BY <1>1, <1>2
  <2>2. F[i - 1] = H[i - 1] /\ p[i] = q[i]
    BY <1>6, <2>1
  <2>3. F[i] = F[i - 1] \o escape(p[i])
    BY <1>3, <2>1, Zenon
  <2>4. H[i] = H[i - 1] \o escape(q[i])
    BY <1>4, <2>1, Zenon
  <2> QED BY <2>1, <2>2, <2>3, <2>4
<1>7. \A m \in Nat : m \in I
  <2> HIDE DEF I
  <2> QED BY <1>5, <1>6, SetInduction
<1> QED BY <1>7

\* The first byte at which two keys differ decides.
LEMMA DecidedAt ==
  ASSUME NEW a \in Key, NEW b \in Key, NEW n \in Nat, n < Len(a), n < Len(b),
         \A i \in 1..n : a[i] = b[i], a[n + 1] < b[n + 1]
  PROVE  LexLess(a, b)
<1>1. Splits(a, b, n)
  BY DEF Splits, Key
<1> QED BY <1>1, LexIs

\* A smaller partition has smaller encoded keys.
LEMMA PartitionsOrder ==
  ASSUME NEW p \in Key, NEW k \in Key, NEW q \in Key, NEW j \in Key, LexLess(p, q)
  PROVE  LexLess(encode_key(p, k), encode_key(q, j))
<1>1. PICK n \in Nat : Splits(p, q, n)
  BY LexIs
<1>2. PICK L \in Nat : L = Len(p)
  BY DEF Key
<1>3. PICK M \in Nat : M = Len(q)
  BY DEF Key
<1>4. n <= L /\ n < M /\ (\A i \in 1..n : p[i] = q[i]) /\ (n < L => p[n + 1] < q[n + 1])
  BY <1>1, <1>2, <1>3 DEF Splits
<1>5. PICK F : Escapes(p, F)
  BY FramingIs
<1>6. PICK H : Escapes(q, H)
  BY FramingIs
<1>7. F[n] = H[n]
  BY <1>2, <1>3, <1>4, <1>5, <1>6, CommonEscapes
<1>8. PICK a : a = encode_key(p, k)
  OBVIOUS
<1>9. PICK b : b = encode_key(q, j)
  OBVIOUS
<1>10. Laid(p, k, F, a) /\ Laid(q, j, H, b)
  BY <1>5, <1>6, <1>8, <1>9, EncodedBytes
<1>11. a \in Key /\ b \in Key /\ Len(a) \in Nat /\ Len(b) \in Nat
  BY <1>10 DEF Laid
<1>n. n \in 0..Len(p) /\ n \in 0..Len(q)
  BY <1>2, <1>3, <1>4
<1>12. PICK c \in Key : c = F[n] /\ c = H[n]
  BY <1>n, <1>5, <1>7, FramingType
<1>13. PICK N \in Nat : N = Len(c)
  BY DEF Key
<1>14. N <= Len(a) /\ N <= Len(b) /\ \A i \in 1..N : a[i] = b[i]
  <2>1. BeginsWith(a, c)
    BY <1>n, <1>5, <1>8, <1>12, EscapedBegins
  <2>2. BeginsWith(b, c)
    BY <1>n, <1>6, <1>9, <1>12, EscapedBegins
  <2>3. PICK x \in Key : a = c \o x
    BY <2>1 DEF BeginsWith
  <2>4. PICK y \in Key : b = c \o y
    BY <2>2 DEF BeginsWith
  <2>5. Len(a) = N + Len(x) /\ \A i \in 1..N : a[i] = c[i]
    BY <2>3, <1>13, CatIs
  <2>6. Len(b) = N + Len(y) /\ \A i \in 1..N : b[i] = c[i]
    BY <2>4, <1>13, CatIs
  <2>7. Len(x) \in Nat /\ Len(y) \in Nat
    BY DEF Key
  <2> QED BY <2>5, <2>6, <2>7
<1>15. PICK m \in 1..M : m = n + 1 /\ m - 1 = n
  BY <1>4
<1>16. PICK y \in Byte : y = q[m] /\ y \in Int /\ y >= 0
  BY <1>3, ByteIs
<1>17. PICK w \in Key : w = escape(q[m]) /\ N + Len(w) <= Len(b) /\ \A i \in 1..Len(w) : b[N + i] = w[i]
  <2>1. PICK w \in Key : w = escape(q[m])
    BY <1>16, ShortKeys
  <2>2. Len(H[m]) = Len(H[m - 1]) + Len(w) /\ Len(H[m]) <= Len(b) /\ \A i \in 1..Len(w) : b[Len(H[m - 1]) + i] = w[i]
    BY <1>3, <1>10, <2>1 DEF Laid
  <2>3. Len(H[m - 1]) = N
    BY <1>12, <1>13, <1>15
  <2>4. N + Len(w) <= Len(b) /\ \A i \in 1..Len(w) : b[N + i] = w[i]
    BY <2>2, <2>3
  <2> QED BY <2>1, <2>4
<1>18. CASE n = L
  <2>1. N + 2 <= Len(a) /\ a[N + 1] = 0 /\ a[N + 2] = 0
    <3>1. Len(a) = Len(F[L]) + 2 + Len(k) /\ a[Len(F[L]) + 1] = 0 /\ a[Len(F[L]) + 2] = 0 /\ Len(k) \in Nat
      BY <1>2, <1>10 DEF Laid
    <3>2. Len(F[L]) = N
      BY <1>12, <1>13, <1>18
    <3>3. a[N + 1] = 0 /\ a[N + 2] = 0
      BY <3>1, <3>2
    <3>4. Len(a) = N + 2 + Len(k)
      BY <3>1, <3>2
    <3> QED BY <3>1, <3>3, <3>4
  <2>2. CASE y # 0
    <3>1. w = <<y>>
      BY <2>2, <1>16, <1>17 DEF escape
    <3>2. b[N + 1] = y /\ N + 1 <= Len(b)
      BY <3>1, <1>17
    <3>3. N < Len(a) /\ N < Len(b) /\ a[N + 1] < b[N + 1]
      BY <2>1, <2>2, <3>2, <1>11, <1>16
    <3> QED BY <3>3, <1>8, <1>9, <1>11, <1>14, DecidedAt
  <2>3. CASE y = 0
    <3>1. w = <<0, 255>>
      BY <2>3, <1>16, <1>17 DEF escape
    <3>2. b[N + 1] = 0 /\ b[N + 2] = 255 /\ N + 2 <= Len(b)
      BY <3>1, <1>17
    <3>3. PICK N1 \in Nat : N1 = N + 1 /\ N1 + 1 = N + 2
      OBVIOUS
    <3>4. N1 < Len(a) /\ N1 < Len(b) /\ a[N1 + 1] < b[N1 + 1]
      BY <2>1, <3>2, <3>3, <1>11
    <3>5. \A i \in 1..N1 : a[i] = b[i]
      BY <2>1, <3>2, <3>3, <1>14
    <3> QED BY <3>4, <3>5, <1>8, <1>9, <1>11, DecidedAt
  <2> QED BY <2>2, <2>3
<1>19. CASE n < L
  <2>1. m \in 1..L /\ p[m] < y
    BY <1>4, <1>15, <1>16, <1>19
  <2>2. PICK x \in Byte : x = p[m] /\ x \in Int /\ x >= 0 /\ x < y
    BY <2>1, <1>2, ByteIs
  <2>3. PICK v \in Key : v = escape(p[m]) /\ N + Len(v) <= Len(a) /\ \A i \in 1..Len(v) : a[N + i] = v[i]
    <3>1. PICK v \in Key : v = escape(p[m])
      BY <2>2, ShortKeys
    <3>2. Len(F[m]) = Len(F[m - 1]) + Len(v) /\ Len(F[m]) <= Len(a) /\ \A i \in 1..Len(v) : a[Len(F[m - 1]) + i] = v[i]
      BY <1>2, <1>10, <2>1, <3>1 DEF Laid
    <3>3. Len(F[m - 1]) = N
      BY <1>12, <1>13, <1>15
    <3>4. N + Len(v) <= Len(a) /\ \A i \in 1..Len(v) : a[N + i] = v[i]
      BY <3>2, <3>3
    <3> QED BY <3>1, <3>4
  <2>4. w = <<y>>
    BY <2>2, <1>16, <1>17 DEF escape
  <2>5. b[N + 1] = y /\ N + 1 <= Len(b)
    BY <2>4, <1>17
  <2>6. a[N + 1] = x /\ N + 1 <= Len(a)
    <3>1. CASE x = 0
      <4>1. v = <<0, 255>>
        BY <3>1, <2>2, <2>3 DEF escape
      <4>2. 1 \in 1..Len(v) /\ v[1] = 0 /\ Len(v) = 2
        BY <4>1
      <4>3. a[N + 1] = v[1]
        BY <4>2, <2>3
      <4> QED BY <3>1, <4>2, <4>3, <2>3, <1>11
    <3>2. CASE x # 0
      <4>1. v = <<x>>
        BY <3>2, <2>2, <2>3 DEF escape
      <4> QED BY <4>1, <2>3
    <3> QED BY <3>1, <3>2
  <2>7. N < Len(a) /\ N < Len(b) /\ a[N + 1] < b[N + 1]
    BY <2>2, <2>5, <2>6, <1>11
  <2> QED BY <2>7, <1>8, <1>9, <1>11, <1>14, DecidedAt
<1> QED BY <1>4, <1>18, <1>19

\* The order of encoded keys is the order of their pairs.
LEMMA EncodingOrders ==
  ASSUME NEW p \in Key, NEW k \in Key, NEW q \in Key, NEW j \in Key
  PROVE  KeyBefore(<<p, k>>, <<q, j>>) <=> LexLess(encode_key(p, k), encode_key(q, j))
<1>1. KeyBefore(<<p, k>>, <<q, j>>) <=> LexLess(p, q) \/ (p = q /\ LexLess(k, j))
  BY DEF KeyBefore
<1>2. PICK a \in Key : a = encode_key(p, k)
  BY EncodedKey
<1>3. PICK b \in Key : b = encode_key(q, j)
  BY EncodedKey
<1>4. ASSUME p = q PROVE LexLess(a, b) <=> LexLess(k, j)
  <2>1. PICK f \in Key : f = partition_prefix(p)
    BY EncodedKey
  <2>2. a = f \o k /\ b = f \o j
    BY <1>2, <1>3, <1>4, <2>1 DEF encode_key
  <2> QED BY <2>2, LexCancels
<1>5. LexLess(p, q) => LexLess(a, b)
  BY <1>2, <1>3, PartitionsOrder
<1>6. LexLess(q, p) => LexLess(b, a)
  BY <1>2, <1>3, PartitionsOrder
<1>7. ~ (LexLess(a, b) /\ LexLess(b, a))
  BY LexTransitive, LexIrreflexive
<1>8. p = q \/ LexLess(p, q) \/ LexLess(q, p)
  BY LexTotal
<1> QED BY <1>1, <1>2, <1>3, <1>4, <1>5, <1>6, <1>7, <1>8

\* The keys from a key to the one with its last byte grown are the keys that begin
\* with it.
LEMMA GrownRange ==
  ASSUME NEW f \in Key, Len(f) >= 1, f[Len(f)] + 1 \in Byte,
         NEW s, s = [f EXCEPT ![Len(f)] = @ + 1], NEW k \in Key
  PROVE  /\ s \in Key
         /\ IsPrefix(f, k) <=> LexLeq(f, k) /\ LexLess(k, s)
<1>1. PICK n \in Nat : n = Len(f) /\ n >= 1 /\ n \in 1..n /\ n - 1 \in Nat
  BY DEF Key
<1>2. DOMAIN f = 1..n /\ f \in [1..n -> Byte]
  BY <1>1, LenProperties DEF Key
<1>3. s[n] = f[n] + 1 /\ (\A i \in 1..n : i < n => s[i] = f[i]) /\ DOMAIN s = 1..n
  BY <1>1, <1>2
<1>4. \A i \in 1..n : f[i] \in Byte /\ f[i] \in Int
  BY <1>1, ByteIs
<1>5. \A i \in 1..n : s[i] \in Byte
  BY <1>1, <1>3, <1>4
<1>6. s \in [1..n -> Byte]
  BY <1>1, <1>2, <1>5
<1>7. s \in Key /\ Len(s) = n
  <2>1. s \in Seq(Byte)
    <3>1. PICK x \in Byte : x = f[n] + 1
      BY <1>1
    <3>2. f \in Seq(Byte) /\ n \in 1..Len(f) /\ s = [f EXCEPT ![n] = x]
      BY <1>1, <3>1 DEF Key
    <3> QED BY <3>2, ExceptSeq
  <2>2. Len(s) = n
    BY <2>1, <1>3, LenProperties
  <2> QED BY <2>1, <2>2 DEF Key
<1>8. ASSUME IsPrefix(f, k) PROVE LexLeq(f, k) /\ LexLess(k, s)
  <2>1. LexLeq(f, k)
    BY <1>8, PrefixFirst
  <2>2. n \in 1..Len(f) /\ Len(s) = Len(f) /\ (\A i \in 1..Len(f) : i < n => s[i] = f[i]) /\ s[n] > f[n]
    BY <1>1, <1>3, <1>4, <1>7
  <2>3. LexLess(k, s)
    BY <1>7, <1>8, <2>2, GrownIsAfter
  <2> QED BY <2>1, <2>3
<1>9. ASSUME LexLeq(f, k), LexLess(k, s) PROVE IsPrefix(f, k)
  <2>1. PICK m \in Nat : Splits(k, s, m)
    BY <1>7, <1>9, LexIs
  <2>2. m <= Len(k) /\ m < n /\ (\A i \in 1..m : k[i] = s[i]) /\ (m < Len(k) => k[m + 1] < s[m + 1])
    BY <2>1, <1>7 DEF Splits
  <2>3. \A i \in 1..m : k[i] = f[i]
    BY <2>2, <1>3
  <2>4. ~ LexLess(k, f)
    BY <1>9, LexTransitive, LexIrreflexive DEF LexLeq
  <2>5. PICK K \in Nat : K = Len(k)
    BY DEF Key
  <2>6. ASSUME m = K PROVE FALSE
    <3>1. Splits(k, f, m)
      BY <2>2, <2>3, <2>5, <2>6, <1>1 DEF Splits
    <3> QED BY <3>1, <2>4, LexIs
  <2>7. m < K
    BY <2>2, <2>5, <2>6
  <2>8. PICK j \in 1..n : j = m + 1
    BY <2>2
  <2>9. k[j] < s[j] /\ k[j] \in Int /\ f[j] \in Int /\ j \in 1..Len(k)
    BY <2>2, <2>5, <2>7, <2>8, <1>4, ByteIs
  <2>10. ~ (k[j] < f[j])
    <3>1. ASSUME k[j] < f[j] PROVE Splits(k, f, m)
      BY <2>2, <2>3, <2>8, <3>1, <1>1 DEF Splits
    <3> QED BY <3>1, <2>4, LexIs
  <2>11. j = n
    BY <2>9, <2>10, <1>3
  <2>12. k[n] = f[n]
    BY <2>9, <2>10, <2>11, <1>3
  <2>13. Len(f) <= Len(k) /\ \A i \in 1..Len(f) : f[i] = k[i]
    BY <2>3, <2>5, <2>7, <2>8, <2>11, <2>12, <1>1
  <2> QED BY <2>13, PrefixSplits
<1> QED BY <1>7, <1>8, <1>9

-----------------------------------------------------------------------------
(* The keys of the map and of the queue.                                   *)

\* Numbers with the same last byte, and the same before it.
LEMMA SameNumber ==
  ASSUME NEW i \in Int, NEW j \in Int, Shifted(i) = Shifted(j), i % 256 = j % 256
  PROVE  i = j
<1>1. PICK s \in Int, m \in Int : s = Shifted(i) /\ m = i % 256 /\ i = 256 * s + m
  BY LowByte
<1>2. PICK t \in Int, n \in Int : t = Shifted(j) /\ n = j % 256 /\ j = 256 * t + n
  BY LowByte
<1>3. s = t /\ m = n
  BY <1>1, <1>2
<1> QED BY <1>1, <1>2, <1>3

\* An id is its four bytes.
LEMMA IdsApart ==
  ASSUME NEW i \in DataId, NEW j \in DataId,
         Shifted(Shifted(Shifted(i))) = Shifted(Shifted(Shifted(j))),
         Shifted(Shifted(i)) % 256 = Shifted(Shifted(j)) % 256,
         Shifted(i) % 256 = Shifted(j) % 256, i % 256 = j % 256
  PROVE  i = j
<1>1. i \in Int /\ j \in Int
  BY DEF DataId
<1>2. PICK x \in Int, y \in Int : x = Shifted(i) /\ y = Shifted(j)
  BY <1>1, LowByte
<1>3. PICK v \in Int, w \in Int : v = Shifted(x) /\ w = Shifted(y)
  BY LowByte
<1>4. v = w
  BY <1>2, <1>3, SameNumber
<1>5. x = y
  BY <1>2, <1>3, <1>4, SameNumber
<1> QED BY <1>1, <1>2, <1>5, SameNumber

\* The two prefixes are different keys of the same length.
LEMMA PrefixesApart ==
  /\ MapP \in Key /\ QueueP \in Key /\ Len(MapP) = 5 /\ Len(QueueP) = 5 /\ MapP # QueueP
<1>1. MapId \in DataId /\ QueueId \in DataId /\ MapId # QueueId
  BY StoreAssumption
<1>2. MapP \in Key /\ QueueP \in Key /\ Len(MapP) = 5 /\ Len(QueueP) = 5
  BY <1>1, SuccessorIs DEF MapP, QueueP
<1>3. ASSUME MapP = QueueP PROVE FALSE
  <2>1. PICK a, b, c, d : /\ a = Shifted(Shifted(Shifted(MapId))) /\ b = Shifted(Shifted(MapId)) % 256
                          /\ c = Shifted(MapId) % 256 /\ d = MapId % 256
    BY Zenon
  <2>2. PICK e, f, g, h : /\ e = Shifted(Shifted(Shifted(QueueId))) /\ f = Shifted(Shifted(QueueId)) % 256
                          /\ g = Shifted(QueueId) % 256 /\ h = QueueId % 256
    BY Zenon
  <2>3. MapP = <<2, a, b, c, d>> /\ QueueP = <<2, e, f, g, h>>
    <3>1. MapP = <<2, a, b, c, d>>
      BY <2>1 DEF MapP, data_prefix, DataDomain
    <3>2. QueueP = <<2, e, f, g, h>>
      BY <2>2 DEF QueueP, data_prefix, DataDomain
    <3> QED BY <3>1, <3>2
  <2>4. PICK x, y : x = <<2, a, b, c, d>> /\ y = <<2, e, f, g, h>> /\ x = y
    BY <1>3, <2>3, Zenon
  <2>5. a = e /\ b = f /\ c = g /\ d = h
    BY <2>4
  <2> QED BY <2>1, <2>2, <2>5, <1>1, IdsApart, Zenon
<1> QED BY <1>2, <1>3

\* Keys behind prefixes of the same length differ when the prefixes do.
LEMMA BehindApart ==
  ASSUME NEW p \in Key, NEW q \in Key, Len(p) = Len(q), p # q, NEW a \in Key, NEW b \in Key
  PROVE  p \o a # q \o b /\ ~ IsPrefix(p, q \o b)
<1>1. ASSUME NEW x \in Key, p \o x = q \o b PROVE FALSE
  <2>1. PICK e : e = p \o x /\ e = q \o b
    BY <1>1
  <2>a. (\A i \in 1..Len(p) : (p \o x)[i] = p[i]) /\ (\A i \in 1..Len(q) : (q \o b)[i] = q[i])
    BY CatIs
  <2>2. \A i \in 1..Len(p) : e[i] = p[i]
    BY <2>1, <2>a
  <2>3. \A i \in 1..Len(q) : e[i] = q[i]
    BY <2>1, <2>a
  <2>4. p = q
    BY <2>2, <2>3, KeyEqual
  <2> QED BY <2>4
<1>2. ASSUME IsPrefix(p, q \o b) PROVE FALSE
  <2>1. PICK e \in Key : e = q \o b
    BY CatIs
  <2>2. PICK x \in Key : e = p \o x
    BY <1>2, <2>1, PrefixSplits
  <2> QED BY <2>1, <2>2, <1>1
<1> QED BY <1>1, <1>2

\* Behind one prefix keys differ when they do.
MapAt(pk) == MapP \o Encoded[pk]
QueueAt(a) == QueueP \o a

\* The map's physical keys: injective, apart from the queue's.
LEMMA MapAtIs ==
  ASSUME NEW pk \in MapKey
  PROVE  /\ pk[1] \in Key /\ pk[2] \in Key /\ pk = <<pk[1], pk[2]>>
         /\ Encoded[pk] = encode_key(pk[1], pk[2]) /\ Encoded[pk] \in Key
         /\ MapAt(pk) \in Key /\ IsPrefix(MapP, MapAt(pk)) /\ StripPrefix(MapP, MapAt(pk)) = Encoded[pk]
         /\ Decoded[Encoded[pk]].partition = pk[1] /\ Decoded[Encoded[pk]].key = pk[2]
<1>1. pk[1] \in Key /\ pk[2] \in Key /\ pk = <<pk[1], pk[2]>>
  BY StoreAssumption DEF Key
<1>2. PICK p \in Key : p = pk[1]
  BY <1>1
<1>3. PICK k \in Key : k = pk[2]
  BY <1>1
<1>4. Encoded[pk] = encode_key(p, k)
  BY <1>2, <1>3 DEF Encoded
<1>5. PICK e \in Key : e = encode_key(p, k)
  BY EncodedKey
<1>6. MapP \o e \in Key /\ IsPrefix(MapP, MapP \o e) /\ StripPrefix(MapP, MapP \o e) = e
  BY PrefixesApart, CatIs, CatStrips
<1>7. Decoded[Encoded[pk]] = decode_key(e)
  BY <1>4, <1>5 DEF Decoded
<1>8. decode_key(e).partition = p /\ decode_key(e).key = k
  BY <1>5, DecodesEncoded
<1> QED BY <1>1, <1>2, <1>3, <1>4, <1>5, <1>6, <1>7, <1>8 DEF MapAt

\* Different keys of the map have different physical keys.
LEMMA MapAtApart ==
  ASSUME NEW pk \in MapKey, NEW other \in MapKey, MapAt(pk) = MapAt(other)
  PROVE  pk = other
<1>1. Encoded[pk] = Encoded[other]
  <2>1. PICK a \in Key, b \in Key : a = Encoded[pk] /\ b = Encoded[other]
    BY MapAtIs
  <2>2. PICK p \in Key : p = MapP
    BY PrefixesApart
  <2>3. p \o a = p \o b
    BY <2>1, <2>2 DEF MapAt
  <2> QED BY <2>1, <2>3, CatCancels
<1>2. pk[1] = other[1] /\ pk[2] = other[2]
  BY <1>1, MapAtIs
<1>3. pk = <<pk[1], pk[2]>> /\ other = <<other[1], other[2]>>
  BY MapAtIs
<1> QED BY <1>2, <1>3

\* The queue's physical keys.
LEMMA QueueAtIs ==
  ASSUME NEW a \in Key
  PROVE  /\ QueueAt(a) \in Key /\ IsPrefix(QueueP, QueueAt(a)) /\ ~ IsPrefix(MapP, QueueAt(a))
         /\ \A b \in Key : QueueAt(a) = QueueAt(b) => a = b
         /\ \A pk \in MapKey : MapAt(pk) # QueueAt(a) /\ ~ IsPrefix(QueueP, MapAt(pk))
<1>1. QueueAt(a) \in Key /\ IsPrefix(QueueP, QueueAt(a))
  BY PrefixesApart, CatIs, CatStrips DEF QueueAt
<1>2. ~ IsPrefix(MapP, QueueAt(a))
  BY PrefixesApart, BehindApart DEF QueueAt
<1>3. ASSUME NEW b \in Key, QueueAt(a) = QueueAt(b) PROVE a = b
  BY <1>3, PrefixesApart, CatCancels DEF QueueAt
<1>4. ASSUME NEW pk \in MapKey PROVE MapAt(pk) # QueueAt(a) /\ ~ IsPrefix(QueueP, MapAt(pk))
  <2>1. MapAt(pk) # QueueAt(a)
    BY <1>2, MapAtIs
  <2>2. PICK e \in Key : e = Encoded[pk]
    BY MapAtIs
  <2>3. ~ IsPrefix(QueueP, MapP \o e)
    BY PrefixesApart, BehindApart
  <2> QED BY <2>1, <2>2, <2>3 DEF MapAt
<1> QED BY <1>1, <1>2, <1>3, <1>4

\* What a collection owns.
LEMMA OwnedIs ==
  ASSUME NEW view, DOMAIN view \subseteq Key, NEW p \in Key
  PROVE  Owned(view, p) = {a \in Key : p \o a \in DOMAIN view}
<1>1. ASSUME NEW a \in Owned(view, p) PROVE a \in Key /\ p \o a \in DOMAIN view
  <2>1. PICK k \in DOMAIN view : IsPrefix(p, k) /\ a = StripPrefix(p, k)
    BY <1>1 DEF Owned
  <2>2. StripPrefix(p, k) \in Key /\ k = p \o StripPrefix(p, k)
    BY <2>1, PrefixSplits
  <2> QED BY <2>1, <2>2
<1>2. ASSUME NEW a \in Key, p \o a \in DOMAIN view PROVE a \in Owned(view, p)
  <2>1. PICK k : k = p \o a
    OBVIOUS
  <2>2. IsPrefix(p, k) /\ StripPrefix(p, k) = a
    BY <2>1, CatStrips
  <2>3. k \in DOMAIN view
    BY <1>2, <2>1
  <2> QED BY <2>2, <2>3 DEF Owned
<1> QED BY <1>1, <1>2

-----------------------------------------------------------------------------
(* Views of the data.                                                      *)

\* A stored weight.
Weighs(v) == \E w \in 1..MaxWeight : v = Value(WeightBytes, <<w>>)

\* A view whose keys are keys of the map, with positive weights, and of the queue.
Tidy(view) ==
  /\ IsFiniteSet(DOMAIN view) /\ DOMAIN view \subseteq Key
  /\ \A k \in DOMAIN view : view[k].size \in Nat
  /\ \A k \in DOMAIN view : (\E pk \in MapKey : k = MapAt(pk)) \/ (\E a \in Key : k = QueueAt(a))
  /\ \A pk \in MapKey : MapAt(pk) \in DOMAIN view => Weighs(view[MapAt(pk)])

\* Two views with the same map, and with the same queue.
SameMap(v, w) ==
  \A pk \in MapKey : /\ MapAt(pk) \in DOMAIN v <=> MapAt(pk) \in DOMAIN w
                     /\ MapAt(pk) \in DOMAIN v => v[MapAt(pk)] = w[MapAt(pk)]

SameQueue(v, w) ==
  \A a \in Key : /\ QueueAt(a) \in DOMAIN v <=> QueueAt(a) \in DOMAIN w
                 /\ QueueAt(a) \in DOMAIN v => v[QueueAt(a)] = w[QueueAt(a)]

\* The queue writes a key: the map stays.
LEMMA PutQueue ==
  ASSUME NEW view, Tidy(view), NEW a \in Key, NEW value, value.size \in Nat,
         NEW w, w = put(view, QueueP, a, value)
  PROVE  /\ Tidy(w) /\ SameMap(view, w) /\ w[QueueAt(a)] = value
         /\ \A b \in Key : QueueAt(b) \in DOMAIN w <=> b = a \/ QueueAt(b) \in DOMAIN view
         /\ \A b \in Key : b # a /\ QueueAt(b) \in DOMAIN view => w[QueueAt(b)] = view[QueueAt(b)]
<1>1. PICK k \in Key : k = QueueAt(a)
  BY QueueAtIs
<1>a. w = [x \in DOMAIN view \cup {k} |-> IF x = k THEN value ELSE view[x]]
  BY <1>1 DEF QueueAt, put
<1>2. /\ DOMAIN w = DOMAIN view \cup {k} /\ w[k] = value
      /\ \A x \in DOMAIN view : x # k => w[x] = view[x]
  BY <1>a
<1>3. \A pk \in MapKey : MapAt(pk) # k
  BY <1>1, QueueAtIs
<1>4. SameMap(view, w)
  BY <1>2, <1>3 DEF SameMap
<1>5. Tidy(w)
  <2>1. IsFiniteSet(DOMAIN w)
    BY <1>2, FS_AddElement DEF Tidy
  <2>2. DOMAIN w \subseteq Key
    BY <1>2 DEF Tidy
  <2>3. \A x \in DOMAIN w : w[x].size \in Nat
    BY <1>2 DEF Tidy
  <2>4. \A x \in DOMAIN w : (\E pk \in MapKey : x = MapAt(pk)) \/ (\E b \in Key : x = QueueAt(b))
    BY <1>1, <1>2 DEF Tidy
  <2>5. \A pk \in MapKey : MapAt(pk) \in DOMAIN w => Weighs(w[MapAt(pk)])
    BY <1>4 DEF Tidy, SameMap
  <2> QED BY <2>1, <2>2, <2>3, <2>4, <2>5 DEF Tidy
<1>6. \A b \in Key : QueueAt(b) = k <=> b = a
  BY <1>1, QueueAtIs
<1> QED BY <1>1, <1>2, <1>4, <1>5, <1>6

\* The queue erases a key: the map stays.
LEMMA EraseQueue ==
  ASSUME NEW view, Tidy(view), NEW a \in Key, NEW w, w = erase(view, QueueP, a)
  PROVE  /\ Tidy(w) /\ SameMap(view, w)
         /\ \A b \in Key : QueueAt(b) \in DOMAIN w <=> b # a /\ QueueAt(b) \in DOMAIN view
         /\ \A b \in Key : b # a /\ QueueAt(b) \in DOMAIN view => w[QueueAt(b)] = view[QueueAt(b)]
<1>1. PICK k \in Key : k = QueueAt(a)
  BY QueueAtIs
<1>a. w = [x \in DOMAIN view \ {k} |-> view[x]]
  BY <1>1 DEF QueueAt, erase
<1>2. /\ DOMAIN w = DOMAIN view \ {k}
      /\ \A x \in DOMAIN view : x # k => w[x] = view[x]
  BY <1>a
<1>3. \A pk \in MapKey : MapAt(pk) # k
  BY <1>1, QueueAtIs
<1>4. SameMap(view, w)
  BY <1>2, <1>3 DEF SameMap
<1>5. Tidy(w)
  <2>1. IsFiniteSet(DOMAIN w)
    BY <1>2, FS_RemoveElement DEF Tidy
  <2>2. DOMAIN w \subseteq Key
    BY <1>2 DEF Tidy
  <2>3. \A x \in DOMAIN w : w[x].size \in Nat
    BY <1>2 DEF Tidy
  <2>4. \A x \in DOMAIN w : (\E pk \in MapKey : x = MapAt(pk)) \/ (\E b \in Key : x = QueueAt(b))
    BY <1>1, <1>2 DEF Tidy
  <2>5. \A pk \in MapKey : MapAt(pk) \in DOMAIN w => Weighs(w[MapAt(pk)])
    BY <1>4 DEF Tidy, SameMap
  <2> QED BY <2>1, <2>2, <2>3, <2>4, <2>5 DEF Tidy
<1>6. \A b \in Key : QueueAt(b) = k <=> b = a
  BY <1>1, QueueAtIs
<1> QED BY <1>1, <1>2, <1>4, <1>5, <1>6

\* The map sets a weight: the queue and the other weights stay.
LEMMA SetMap ==
  ASSUME NEW view, Tidy(view), NEW pk \in MapKey, NEW n \in 0..MaxWeight,
         NEW w, w = set_encoded(view, MapP, Encoded[pk], n)
  PROVE  /\ Tidy(w) /\ SameQueue(view, w)
         /\ MapAt(pk) \in DOMAIN w <=> n # 0
         /\ n # 0 => w[MapAt(pk)] = Value(WeightBytes, <<n>>)
         /\ \A other \in MapKey : other # pk =>
              /\ MapAt(other) \in DOMAIN view <=> MapAt(other) \in DOMAIN w
              /\ MapAt(other) \in DOMAIN view => view[MapAt(other)] = w[MapAt(other)]
<1>1. PICK k \in Key : k = MapAt(pk)
  BY MapAtIs
<1>2. PICK value : value = Value(WeightBytes, <<n>>)
  OBVIOUS
<1>3. value.size \in Nat /\ (n # 0 => Weighs(value))
  <2>1. value.size = 8
    BY <1>2 DEF Value, WeightBytes
  <2>2. n # 0 => n \in 1..MaxWeight
    BY NamespaceAssumption
  <2> QED BY <1>2, <2>1, <2>2 DEF Weighs
<1>4. /\ \A x \in DOMAIN view : x # k => x \in DOMAIN w /\ w[x] = view[x]
      /\ \A x \in DOMAIN w : x # k => x \in DOMAIN view
      /\ k \in DOMAIN w <=> n # 0
      /\ n # 0 => w[k] = value
      /\ IsFiniteSet(DOMAIN w)
  <2>1. CASE n = 0
    <3>1. w = erase(view, MapP, Encoded[pk])
      BY <2>1 DEF set_encoded
    <3>a. w = [x \in DOMAIN view \ {k} |-> view[x]]
      BY <1>1, <3>1 DEF MapAt, erase
    <3>2. /\ DOMAIN w = DOMAIN view \ {k}
          /\ \A x \in DOMAIN view : x # k => w[x] = view[x]
      BY <3>a
    <3>3. IsFiniteSet(DOMAIN w)
      BY <3>2, FS_RemoveElement DEF Tidy
    <3> QED BY <2>1, <3>2, <3>3
  <2>2. CASE n # 0
    <3>1. w = put(view, MapP, Encoded[pk], value)
      BY <2>2, <1>2 DEF set_encoded
    <3>a. w = [x \in DOMAIN view \cup {k} |-> IF x = k THEN value ELSE view[x]]
      BY <1>1, <3>1 DEF MapAt, put
    <3>2. /\ DOMAIN w = DOMAIN view \cup {k} /\ w[k] = value
          /\ \A x \in DOMAIN view : x # k => w[x] = view[x]
      BY <3>a
    <3>3. IsFiniteSet(DOMAIN w)
      BY <3>2, FS_AddElement DEF Tidy
    <3> QED BY <2>2, <3>2, <3>3
  <2> QED BY <2>1, <2>2
<1>5. SameQueue(view, w)
  <2>1. \A a \in Key : QueueAt(a) # k
    BY <1>1, QueueAtIs
  <2> QED BY <2>1, <1>4 DEF SameQueue
<1>6. ASSUME NEW other \in MapKey, other # pk
      PROVE  /\ MapAt(other) \in DOMAIN view <=> MapAt(other) \in DOMAIN w
             /\ MapAt(other) \in DOMAIN view => view[MapAt(other)] = w[MapAt(other)]
  <2>1. MapAt(other) # k
    BY <1>1, <1>6, MapAtApart
  <2> QED BY <2>1, <1>4
<1>7. Tidy(w)
  <2>2. DOMAIN w \subseteq Key
    BY <1>4 DEF Tidy
  <2>3. ASSUME NEW x \in DOMAIN w PROVE w[x].size \in Nat
    <3>1. CASE x = k
      BY <3>1, <1>3, <1>4
    <3>2. CASE x # k
      BY <3>2, <1>4 DEF Tidy
    <3> QED BY <3>1, <3>2
  <2>4. \A x \in DOMAIN w : (\E q \in MapKey : x = MapAt(q)) \/ (\E b \in Key : x = QueueAt(b))
    BY <1>1, <1>4 DEF Tidy
  <2>5. ASSUME NEW q \in MapKey, MapAt(q) \in DOMAIN w PROVE Weighs(w[MapAt(q)])
    <3>1. CASE q = pk
      BY <3>1, <2>5, <1>1, <1>3, <1>4
    <3>2. CASE q # pk
      BY <3>2, <2>5, <1>6 DEF Tidy
    <3> QED BY <3>1, <3>2
  <2> QED BY <2>2, <2>3, <2>4, <2>5, <1>4 DEF Tidy
<1> QED BY <1>1, <1>2, <1>4, <1>5, <1>6, <1>7

-----------------------------------------------------------------------------
(* The bytes of a queue.                                                   *)

BytesOf(q) ==
  LET sum[n \in 0..Len(q)] == IF n = 0 THEN 0 ELSE sum[n - 1] + q[n].size + SequenceBytes
  IN sum[Len(q)]

\* The bytes of the first values of a queue.
Sums(q, f) ==
  /\ f \in [0..Len(q) -> Nat] /\ f[0] = 0
  /\ \A i \in 1..Len(q) : f[i] = f[i - 1] + q[i].size + SequenceBytes
  /\ BytesOf(q) = f[Len(q)]

\* A value of a queue has a size.
LEMMA PayloadIs ==
  ASSUME NEW q \in Seq(Payload)
  PROVE  Len(q) \in Nat /\ \A i \in 1..Len(q) : q[i] \in Payload /\ q[i].size \in Nat
<1>1. Len(q) \in Nat /\ \A i \in 1..Len(q) : q[i] \in Payload
  BY LenProperties, ElementOfSeq
<1>2. \A v \in Payload : v.size \in Nat
  BY StoreAssumption
<1> QED BY <1>1, <1>2

\* Every queue has them.
LEMMA SumsExist ==
  ASSUME NEW q \in Seq(Payload)
  PROVE  \E f : Sums(q, f)
<1>1. PICK n \in Nat : n = Len(q)
  BY PayloadIs
<1>2. \A i \in 1..n : q[i].size \in Nat
  BY <1>1, PayloadIs
<1>3. PICK G : G = [i \in 1..n |-> [x \in Nat |-> x + q[i].size + SequenceBytes]]
  OBVIOUS
<1>4. G \in [1..n -> [Nat -> Nat]]
  <2>1. ASSUME NEW i \in 1..n PROVE [x \in Nat |-> x + q[i].size + SequenceBytes] \in [Nat -> Nat]
    <3>1. PICK s \in Nat : s = q[i].size
      BY <1>2
    <3>2. \A x \in Nat : x + s + SequenceBytes \in Nat
      BY DEF SequenceBytes
    <3> QED BY <3>1, <3>2
  <2> QED BY <1>3, <2>1
<1>5. PICK f \in [0..n -> Nat] : f[0] = 0 /\ \A i \in 1..n : f[i] = G[i][f[i - 1]]
  <2>1. PICK S : S = Nat
    OBVIOUS
  <2>2. PICK b \in S : b = 0
    BY <2>1
  <2>3. G \in [1..n -> [S -> S]]
    BY <1>4, <2>1
  <2>4. \E f \in [0..n -> S] : f[0] = b /\ \A i \in 1..n : f[i] = G[i][f[i - 1]]
    BY <2>3, Recursion
  <2> QED BY <2>1, <2>2, <2>4
<1>6. ASSUME NEW i \in 1..n PROVE f[i] = f[i - 1] + q[i].size + SequenceBytes
  <2>1. i - 1 \in 0..n
    OBVIOUS
  <2>2. f[i - 1] \in Nat
    BY <2>1, <1>5
  <2>3. G[i] = [x \in Nat |-> x + q[i].size + SequenceBytes]
    BY <1>3
  <2> QED BY <2>2, <2>3, <1>5
<1> DEFINE Fix(e) == e = [i \in 0..Len(q) |-> IF i = 0 THEN 0 ELSE e[i - 1] + q[i].size + SequenceBytes]
<1>7. Fix(f)
  <2>1. ASSUME NEW i \in 0..n PROVE f[i] = IF i = 0 THEN 0 ELSE f[i - 1] + q[i].size + SequenceBytes
    <3>1. CASE i = 0
      BY <3>1, <1>5
    <3>2. CASE i # 0
      <4>1. i \in 1..n
        BY <3>2
      <4>2. f[i] = f[i - 1] + q[i].size + SequenceBytes
        BY <4>1, <1>6
      <4> QED BY <3>2, <4>2, Zenon
    <3> QED BY <3>1, <3>2
  <2>2. f = [i \in 0..n |-> f[i]]
    BY <1>5
  <2> QED BY <2>1, <2>2, <1>1
<1>8. PICK e : e = CHOOSE x : Fix(x)
  OBVIOUS
<1>9. Fix(e)
  <2> HIDE DEF Fix
  <2> QED BY <1>7, <1>8
<1>10. BytesOf(q) = e[Len(q)]
  BY <1>8 DEF BytesOf
<1>11. DOMAIN e = 0..n /\ \A i \in 0..n : e[i] = IF i = 0 THEN 0 ELSE e[i - 1] + q[i].size + SequenceBytes
  <2>1. e = [i \in 0..n |-> IF i = 0 THEN 0 ELSE e[i - 1] + q[i].size + SequenceBytes]
    BY <1>1, <1>9
  <2> QED BY <2>1
<1>12. e[0] = 0
  <2>1. 0 \in 0..n
    OBVIOUS
  <2> QED BY <2>1, <1>11
<1>13. ASSUME NEW i \in 1..n PROVE e[i] = e[i - 1] + q[i].size + SequenceBytes
  <2>1. i \in 0..n /\ i # 0
    OBVIOUS
  <2> QED BY <2>1, <1>11, Zenon
<1>14. \A i \in 0..n : e[i] \in Nat
  <2> DEFINE I == {m \in Nat : m <= n => e[m] \in Nat}
  <2>1. 0 \in I
    BY <1>12
  <2>2. ASSUME NEW m \in Nat, m \in I PROVE m + 1 \in I
    <3> SUFFICES ASSUME m + 1 <= n PROVE e[m + 1] \in Nat
      OBVIOUS
    <3>1. PICK j \in 1..n : j = m + 1 /\ j - 1 = m
      OBVIOUS
    <3>2. PICK x \in Nat : x = e[j - 1]
      BY <2>2, <3>1
    <3>3. PICK s \in Nat : s = q[j].size
      BY <1>2
    <3>4. e[j] = x + s + 8
      BY <1>13, <3>2, <3>3 DEF SequenceBytes
    <3> QED BY <3>1, <3>4
  <2>3. \A m \in Nat : m \in I
    <3> HIDE DEF I
    <3> QED BY <2>1, <2>2, SetInduction
  <2> QED BY <2>3
<1>15. e \in [0..n -> Nat]
  BY <1>9, <1>1, <1>14
<1>16. Sums(q, e)
  BY <1>1, <1>10, <1>12, <1>13, <1>15 DEF Sums
<1> QED BY <1>16

\* The values of r are those of q after the first d.
Within(q, r, d) == d + Len(r) <= Len(q) /\ \A i \in 1..Len(r) : r[i] = q[d + i]

\* What the bytes are when values follow others: the first values of a queue count
\* as they do alone.
LEMMA SumsAgree ==
  ASSUME NEW q \in Seq(Payload), NEW r \in Seq(Payload), NEW f, Sums(q, f), NEW g, Sums(r, g),
         NEW d \in Nat, Within(q, r, d)
  PROVE  \A n \in 0..Len(r) : f[d + n] = f[d] + g[n]
<1>1. PICK L \in Nat : L = Len(q)
  BY PayloadIs
<1>2. PICK M \in Nat : M = Len(r)
  BY PayloadIs
<1>3. f \in [0..L -> Nat] /\ \A i \in 1..L : f[i] = f[i - 1] + q[i].size + 8
  BY <1>1 DEF Sums, SequenceBytes
<1>4. g \in [0..M -> Nat] /\ g[0] = 0 /\ \A i \in 1..M : g[i] = g[i - 1] + r[i].size + 8
  BY <1>2 DEF Sums, SequenceBytes
<1>5. d + M <= L
  BY <1>1, <1>2 DEF Within
<1> DEFINE I == {m \in Nat : m <= M => f[d + m] = f[d] + g[m]}
<1>6. 0 \in I
  <2>1. f[d] \in Nat /\ d + 0 = d
    BY <1>3, <1>5
  <2> QED BY <2>1, <1>4
<1>7. ASSUME NEW m \in Nat, m \in I PROVE m + 1 \in I
  <2> SUFFICES ASSUME m + 1 <= M PROVE f[d + (m + 1)] = f[d] + g[m + 1]
    OBVIOUS
  <2>1. PICK i \in 1..M : i = m + 1 /\ i - 1 = m
    OBVIOUS
  <2>2. PICK j \in 1..L : j = d + i /\ j - 1 = d + m /\ j = d + (m + 1)
    BY <1>5, <2>1
  <2>3. PICK x \in Nat : x = f[d]
    BY <1>3, <1>5
  <2>4. PICK y \in Nat : y = g[m]
    <3>1. m \in 0..M
      BY <2>1
    <3>2. g[m] \in Nat
      BY <3>1, <1>4
    <3> QED BY <3>2
  <2>5. f[j - 1] = x + y
    BY <1>7, <2>1, <2>2, <2>3, <2>4
  <2>6. r[i] = q[j]
    BY <1>2, <2>2 DEF Within
  <2>7. PICK s \in Nat : s = q[j].size /\ s = r[i].size
    BY <1>1, <2>6, PayloadIs
  <2>8. f[j] = x + y + s + 8
    BY <1>3, <2>5, <2>7
  <2>9. g[i] = y + s + 8
    BY <1>4, <2>1, <2>4, <2>7
  <2> QED BY <2>1, <2>2, <2>3, <2>8, <2>9
<1>8. \A m \in Nat : m \in I
  <2> HIDE DEF I
  <2> QED BY <1>6, <1>7, SetInduction
<1> QED BY <1>2, <1>8

\* Every value counts at least for its sequence number.
LEMMA BytesCover ==
  ASSUME NEW q \in Seq(Payload)
  PROVE  BytesOf(q) \in Nat /\ BytesOf(q) >= 8 * Len(q) /\ (q = <<>> => BytesOf(q) = 0)
<1>1. PICK f : Sums(q, f)
  BY SumsExist
<1>2. PICK L \in Nat : L = Len(q)
  BY PayloadIs
<1>3. f \in [0..L -> Nat] /\ f[0] = 0 /\ (\A i \in 1..L : f[i] = f[i - 1] + q[i].size + 8) /\ BytesOf(q) = f[L]
  BY <1>1, <1>2 DEF Sums, SequenceBytes
<1> DEFINE I == {m \in Nat : m <= L => f[m] >= 8 * m}
<1>4. 0 \in I
  BY <1>3
<1>5. ASSUME NEW m \in Nat, m \in I PROVE m + 1 \in I
  <2> SUFFICES ASSUME m + 1 <= L PROVE f[m + 1] >= 8 * (m + 1)
    OBVIOUS
  <2>1. PICK i \in 1..L : i = m + 1 /\ i - 1 = m
    OBVIOUS
  <2>2. PICK x \in Nat : x = f[m] /\ x >= 8 * m
    BY <1>3, <1>5, <2>1
  <2>3. PICK s \in Nat : s = q[i].size
    BY <1>2, PayloadIs
  <2>4. f[i] = x + s + 8
    BY <1>3, <2>1, <2>2, <2>3
  <2> QED BY <2>1, <2>2, <2>4
<1>6. \A m \in Nat : m \in I
  <2> HIDE DEF I
  <2> QED BY <1>4, <1>5, SetInduction
<1>7. f[L] >= 8 * L /\ f[L] \in Nat
  BY <1>3, <1>6
<1>8. q = <<>> => L = 0
  BY <1>2
<1> QED BY <1>2, <1>3, <1>7, <1>8

\* A value at the end.
LEMMA BytesOfPush ==
  ASSUME NEW q \in Seq(Payload), NEW v \in Payload
  PROVE  BytesOf(Append(q, v)) = BytesOf(q) + v.size + 8
<1>1. PICK L \in Nat : L = Len(q)
  BY PayloadIs
<1>2. PICK r \in Seq(Payload) : r = Append(q, v) /\ Len(r) = L + 1 /\ (\A i \in 1..L : r[i] = q[i]) /\ r[L + 1] = v
  BY <1>1, AppendProperties
<1>3. PICK f : Sums(q, f)
  BY SumsExist
<1>4. PICK g : Sums(r, g)
  BY SumsExist
<1>5. \A n \in 0..L : g[0 + n] = g[0] + f[n]
  <2>1. Within(r, q, 0)
    BY <1>1, <1>2 DEF Within
  <2> QED BY <2>1, <1>1, <1>3, <1>4, SumsAgree
<1>6. g[L] = g[0] + f[L]
  <2>1. L \in 0..L /\ 0 + L = L
    OBVIOUS
  <2> QED BY <2>1, <1>5
<1>7. g[0] = 0 /\ f \in [0..L -> Nat] /\ BytesOf(q) = f[L] /\ BytesOf(r) = g[L + 1]
  BY <1>1, <1>2, <1>3, <1>4 DEF Sums
<1>8. g[L + 1] = g[L] + v.size + 8
  <2>1. L + 1 \in 1..Len(r) /\ L + 1 - 1 = L
    BY <1>2
  <2> QED BY <2>1, <1>2, <1>4 DEF Sums, SequenceBytes
<1>9. f[L] \in Nat
  BY <1>7
<1> QED BY <1>2, <1>6, <1>7, <1>8, <1>9

\* What is left of q without its first n values.
Rest(q, n, r) == r = SubSeq(q, n + 1, Len(q))

\* Values that leave at the front.
LEMMA BytesOfRest ==
  ASSUME NEW q \in Seq(Payload), NEW f, Sums(q, f), NEW n \in 0..Len(q), NEW r, Rest(q, n, r)
  PROVE  /\ r \in Seq(Payload) /\ Len(r) = Len(q) - n /\ (\A i \in 1..Len(r) : r[i] = q[n + i])
         /\ BytesOf(r) = f[Len(q)] - f[n]
<1>1. PICK L \in Nat : L = Len(q)
  BY PayloadIs
<1>2. n \in Nat /\ n <= L
  BY <1>1
<1>3. r \in Seq(Payload) /\ Len(r) = L - n /\ \A i \in 1..(L - n) : r[i] = q[n + i]
  <2>1. \A i \in (n + 1)..L : q[i] \in Payload
    BY <1>1, <1>2, PayloadIs
  <2>2. n + 1 \in Int /\ L \in Int
    BY <1>2
  <2>3. /\ r \in Seq(Payload) /\ Len(r) = (IF n + 1 <= L THEN L - (n + 1) + 1 ELSE 0)
        /\ \A i \in 1..(L - (n + 1) + 1) : r[i] = q[n + 1 + i - 1]
    BY <1>1, <2>1, <2>2, SubSeqProperties DEF Rest
  <2>4. Len(r) = L - n
    BY <1>2, <2>3
  <2>5. ASSUME NEW i \in 1..(L - n) PROVE r[i] = q[n + i]
    <3>1. i \in 1..(L - (n + 1) + 1) /\ n + 1 + i - 1 = n + i
      BY <1>2
    <3> QED BY <3>1, <2>3
  <2> QED BY <2>3, <2>4, <2>5
<1>4. PICK g : Sums(r, g)
  BY <1>3, SumsExist
<1>5. \A i \in 0..Len(r) : f[n + i] = f[n] + g[i]
  <2>1. n + Len(r) <= Len(q) /\ \A i \in 1..Len(r) : r[i] = q[n + i]
    BY <1>1, <1>2, <1>3
  <2>2. PICK s \in Seq(Payload) : s = r
    BY <1>3
  <2>3. PICK d \in Nat : d = n
    BY <1>2
  <2>4. Sums(s, g) /\ Within(q, s, d)
    BY <2>1, <2>2, <2>3, <1>4 DEF Within
  <2>5. \A i \in 0..Len(s) : f[d + i] = f[d] + g[i]
    BY <2>4, SumsAgree
  <2> QED BY <2>2, <2>3, <2>5
<1>6. PICK m \in Nat : m = L - n /\ n + m = L /\ m = Len(r)
  BY <1>2, <1>3
<1>7. f[L] = f[n] + g[m]
  <2>1. m \in 0..Len(r)
    BY <1>6
  <2> QED BY <2>1, <1>5, <1>6
<1>8. f[n] \in Nat /\ g[m] \in Nat /\ BytesOf(r) = g[m]
  <2>1. f \in [0..L -> Nat]
    BY <1>1 DEF Sums
  <2>2. g \in [0..m -> Nat] /\ BytesOf(r) = g[m]
    BY <1>4, <1>6 DEF Sums
  <2> QED BY <2>1, <2>2, <1>2
<1> QED BY <1>1, <1>3, <1>7, <1>8

\* The contract counts the same bytes.
LEMMA ContractBytes ==
  ASSUME NEW c
  PROVE  Contract!QueuedBytes(c) = BytesOf(c.fifo)
BY DEF Contract!QueuedBytes, BytesOf

-----------------------------------------------------------------------------
(* The queue in a view.                                                    *)

\* Where the entry with a sequence number is.
Slot(s) == QueueAt(encode_sequence(s))

\* The queue of a view holds q, numbered from h on.
QueueIs(view, h, q) ==
  /\ h \in Nat /\ q \in Seq(Payload) /\ (q = <<>> => h = 0) /\ h + Len(q) <= MaxSequence
  /\ \A a \in Key : QueueAt(a) \in DOMAIN view
                      <=> q # <<>> /\ (a = MetadataKey \/ \E i \in 1..Len(q) : a = encode_sequence(h + i - 1))
  /\ q # <<>> => view[QueueAt(MetadataKey)] = stored_metadata(Metadata(h, h + Len(q), BytesOf(q)))
  /\ \A i \in 1..Len(q) : view[Slot(h + i - 1)] = q[i]

\* Sequence numbers are bytes, and their keys differ from each other and from the
\* metadata's.
LEMMA SequenceKeys ==
  /\ MetadataKey \in Key /\ MaxSequence \in Nat /\ MaxSequence <= 255 /\ MaxSequence >= 1
  /\ \A s \in 0..MaxSequence : encode_sequence(s) \in Key /\ encode_sequence(s) # MetadataKey
  /\ \A s, t \in 0..MaxSequence : encode_sequence(s) = encode_sequence(t) => s = t
<1>1. MaxSequence \in Nat /\ MaxSequence <= 255 /\ MaxSequence >= 1
  BY QueueAssumption
<1>2. MetadataKey \in Key
  BY ShortKeys DEF MetadataKey
<1>3. \A s \in 0..MaxSequence : s \in Byte
  BY <1>1 DEF Byte
<1>4. ASSUME NEW s \in 0..MaxSequence PROVE encode_sequence(s) \in Key /\ encode_sequence(s) # MetadataKey
  BY <1>3, ShortKeys DEF encode_sequence, MetadataKey
<1>5. ASSUME NEW s, NEW t, encode_sequence(s) = encode_sequence(t) PROVE s = t
  BY <1>5 DEF encode_sequence
<1> QED BY <1>1, <1>2, <1>4, <1>5

\* Whether the queue's namespace is empty.
LEMMA EmptyNamespace ==
  ASSUME NEW view, Tidy(view)
  PROVE  namespace_is_empty(view, QueueP, <<>>, <<>>) <=> \A a \in Key : QueueAt(a) \notin DOMAIN view
<1>1. Owned(view, QueueP) = {a \in Key : QueueAt(a) \in DOMAIN view}
  BY PrefixesApart, OwnedIs DEF Tidy, QueueAt
<1>2. \A k \in Key : IsPrefix(<<>>, k)
  <2>1. ASSUME NEW k \in Key PROVE IsPrefix(<<>>, k)
    <3>1. PICK none \in Key : none = <<>> /\ Len(none) = 0
      BY ShortKeys
    <3>2. Len(none) <= Len(k) /\ \A i \in 1..Len(none) : none[i] = k[i]
      BY <3>1 DEF Key
    <3>3. IsPrefix(none, k)
      BY <3>2, PrefixSplits
    <3> QED BY <3>1, <3>3
  <2> QED BY <2>1
<1>3. PICK K : K = Owned(view, QueueP)
  OBVIOUS
<1>4. {k \in K : IsPrefix(<<>>, k)} = K
  BY <1>1, <1>2, <1>3
<1>5. namespace_is_empty(view, QueueP, <<>>, <<>>) <=> K = {}
  <2>1. namespace_is_empty(view, QueueP, <<>>, <<>>)
          <=> K \ {k \in {j \in K : \A other \in K : LexLeq(j, other)} : FALSE /\ k = <<>> \o <<>>[1]} = {}
    BY <1>3, <1>4 DEF namespace_is_empty
  <2> QED BY <2>1
<1> QED BY <1>1, <1>3, <1>5

\* What is read back as the metadata.
LEMMA MetadataRead ==
  ASSUME NEW view, Tidy(view), NEW h, NEW q, QueueIs(view, h, q),
         NEW found, found = read_metadata(view, QueueP)
  PROVE  /\ found.ok
         /\ found.metadata = Metadata(h, h + Len(q), BytesOf(q))
<1>1. h \in Nat /\ q \in Seq(Payload) /\ Len(q) \in Nat
  BY PayloadIs DEF QueueIs
<1>2. PICK t \in Nat : t = h + Len(q)
  BY <1>1
<1>3. PICK b \in Nat : b = BytesOf(q) /\ b >= 8 * Len(q)
  BY <1>1, BytesCover
<1>4. PICK M : M = Metadata(h, t, b)
  OBVIOUS
<1>5. Has(view, QueueP, MetadataKey) <=> q # <<>>
  BY SequenceKeys DEF Has, QueueIs, QueueAt
<1>6. CASE q # <<>>
  <2>1. Read(view, QueueP, MetadataKey) = stored_metadata(M)
    BY <1>2, <1>3, <1>4, <1>6 DEF Read, QueueIs, QueueAt
  <2>2. PICK data : data = Read(view, QueueP, MetadataKey).data
    OBVIOUS
  <2>3. data = <<h, t, b>>
    BY <2>1, <2>2, <1>4 DEF stored_metadata, Value, Metadata
  <2>4. Metadata(data[1], data[2], data[3]) = M
    BY <2>3, <1>4 DEF Metadata
  <2>5. found = [ok |-> is_valid(M), metadata |-> M]
    BY <2>2, <2>4, <1>5, <1>6 DEF read_metadata
  <2>6. is_valid(M)
    <3>1. Len(q) >= 1
      BY <1>1, <1>6, EmptySeq
    <3>2. M.head = h /\ M.tail = t /\ M.bytes = b
      BY <1>4 DEF Metadata
    <3> QED BY <3>1, <3>2, <1>1, <1>2, <1>3 DEF is_valid, SequenceBytes
  <2> QED BY <2>5, <2>6, <1>2, <1>3, <1>4
<1>7. CASE q = <<>>
  <2>1. found = [ok |-> namespace_is_empty(view, QueueP, <<>>, <<>>), metadata |-> EmptyMetadata]
    BY <1>5, <1>7 DEF read_metadata
  <2>2. namespace_is_empty(view, QueueP, <<>>, <<>>)
    BY <1>7, EmptyNamespace DEF QueueIs
  <2>a. h = 0
    BY <1>7 DEF QueueIs
  <2>b. Len(q) = 0
    BY <1>7
  <2>c. b = 0
    BY <1>1, <1>3, <1>7, BytesCover
  <2>3. h = 0 /\ t = 0 /\ b = 0
    BY <1>1, <1>2, <2>a, <2>b, <2>c
  <2>4. M = EmptyMetadata
    BY <2>3, <1>4 DEF EmptyMetadata
  <2> QED BY <2>1, <2>2, <2>4, <1>2, <1>3, <1>4
<1> QED BY <1>6, <1>7


\* An entry is where its number says.
LEMMA HeldSlot ==
  ASSUME NEW view, NEW h, NEW q, QueueIs(view, h, q), NEW i \in 1..Len(q)
  PROVE  /\ h + i - 1 \in 0..MaxSequence /\ encode_sequence(h + i - 1) \in Key
         /\ encode_sequence(h + i - 1) # MetadataKey
         /\ QueueAt(encode_sequence(h + i - 1)) \in DOMAIN view
         /\ view[QueueAt(encode_sequence(h + i - 1))] = q[i]
<1>1. h \in Nat /\ q \in Seq(Payload) /\ Len(q) \in Nat /\ h + Len(q) <= MaxSequence
  BY PayloadIs DEF QueueIs
<1>2. PICK s \in Nat : s = h + i - 1
  BY <1>1
<1>3. s \in 0..MaxSequence
  BY <1>1, <1>2, SequenceKeys
<1>4. PICK a \in Key : a = encode_sequence(s) /\ a # MetadataKey
  BY <1>3, SequenceKeys
<1>5. q # <<>>
  BY <1>1
<1>6. QueueAt(a) \in DOMAIN view
  BY <1>2, <1>4, <1>5 DEF QueueIs
<1>7. view[QueueAt(a)] = q[i]
  BY <1>2, <1>4 DEF QueueIs, Slot
<1> QED BY <1>2, <1>3, <1>4, <1>6, <1>7

\* No entry has a number from the tail on or from below the head.
LEMMA FreeSlot ==
  ASSUME NEW view, NEW h, NEW q, QueueIs(view, h, q), NEW s \in 0..MaxSequence,
         s >= h + Len(q) \/ s < h
  PROVE  encode_sequence(s) \in Key /\ QueueAt(encode_sequence(s)) \notin DOMAIN view
<1>1. h \in Nat /\ q \in Seq(Payload) /\ Len(q) \in Nat /\ h + Len(q) <= MaxSequence
  BY PayloadIs DEF QueueIs
<1>2. PICK a \in Key : a = encode_sequence(s) /\ a # MetadataKey
  BY SequenceKeys
<1>3. ASSUME NEW i \in 1..Len(q), a = encode_sequence(h + i - 1) PROVE FALSE
  <2>1. PICK r \in 0..MaxSequence : r = h + i - 1
    BY HeldSlot
  <2>2. r = s
    BY <1>2, <1>3, <2>1, SequenceKeys
  <2> QED BY <2>1, <2>2, <1>1
<1>4. QueueAt(a) \notin DOMAIN view
  BY <1>2, <1>3 DEF QueueIs
<1> QED BY <1>2, <1>4

\* Stored metadata has a size.
LEMMA MetadataSize ==
  ASSUME NEW m
  PROVE  stored_metadata(m).size \in Nat
BY DEF stored_metadata, Value, MetadataBytes

\* The writes of a push leave a queue with one value more.
LEMMA PushWrites ==
  ASSUME NEW view, Tidy(view), NEW h, NEW q, QueueIs(view, h, q), NEW v \in Payload,
         h + Len(q) # MaxSequence,
         NEW e, e = put(view, QueueP, encode_sequence(h + Len(q)), v),
         NEW w, w = put(e, QueueP, MetadataKey,
                        stored_metadata(Metadata(h, h + Len(q) + 1, BytesOf(q) + v.size + 8)))
  PROVE  Tidy(w) /\ SameMap(view, w) /\ QueueIs(w, h, Append(q, v))
<1>1. h \in Nat /\ q \in Seq(Payload) /\ h + Len(q) <= MaxSequence
  BY DEF QueueIs
<1>2. PICK L \in Nat : L = Len(q)
  BY <1>1, PayloadIs
<1>3. PICK r \in Seq(Payload) : r = Append(q, v) /\ Len(r) = L + 1 /\ (\A i \in 1..L : r[i] = q[i]) /\ r[L + 1] = v
  <2>1. PICK r : r = Append(q, v)
    OBVIOUS
  <2>2. r \in Seq(Payload)
    BY <2>1, <1>1, AppendProperties
  <2>3. Len(r) = L + 1 /\ r[L + 1] = v
    BY <2>1, <1>1, <1>2, AppendProperties
  <2>4. \A i \in 1..L : r[i] = q[i]
    BY <2>1, <1>1, <1>2, AppendProperties
  <2> QED BY <2>1, <2>2, <2>3, <2>4
<1>4. PICK t \in Nat : t = h + L /\ t + 1 <= MaxSequence /\ t = h + Len(q)
  BY <1>1, <1>2, SequenceKeys
<1>5. PICK a \in Key : a = encode_sequence(t) /\ a # MetadataKey /\ QueueAt(a) \notin DOMAIN view
  <2>1. t \in 0..MaxSequence /\ t >= h + Len(q)
    BY <1>4, SequenceKeys
  <2> QED BY <2>1, FreeSlot, SequenceKeys
<1>6. PICK M : M = Metadata(h, t + 1, BytesOf(r)) /\ M = Metadata(h, h + Len(q) + 1, BytesOf(q) + v.size + 8)
  <2>1. BytesOf(r) = BytesOf(q) + v.size + 8
    BY <1>1, <1>3, BytesOfPush
  <2> QED BY <2>1, <1>4
<1>7. v.size \in Nat
  BY StoreAssumption
<1>8. /\ Tidy(e) /\ SameMap(view, e) /\ e[QueueAt(a)] = v
      /\ \A b \in Key : QueueAt(b) \in DOMAIN e <=> b = a \/ QueueAt(b) \in DOMAIN view
      /\ \A b \in Key : b # a /\ QueueAt(b) \in DOMAIN view => e[QueueAt(b)] = view[QueueAt(b)]
  <2>1. e = put(view, QueueP, a, v)
    BY <1>4, <1>5
  <2> QED BY <2>1, <1>7, PutQueue
<1>9. /\ Tidy(w) /\ SameMap(e, w) /\ w[QueueAt(MetadataKey)] = stored_metadata(M)
      /\ \A b \in Key : QueueAt(b) \in DOMAIN w <=> b = MetadataKey \/ QueueAt(b) \in DOMAIN e
      /\ \A b \in Key : b # MetadataKey /\ QueueAt(b) \in DOMAIN e => w[QueueAt(b)] = e[QueueAt(b)]
  <2>1. PICK value : value = stored_metadata(M) /\ value.size \in Nat
    BY MetadataSize
  <2>2. w = put(e, QueueP, MetadataKey, value)
    BY <1>6, <2>1
  <2>3. MetadataKey \in Key
    BY SequenceKeys
  <2> QED BY <2>1, <2>2, <2>3, <1>8, PutQueue
<1>10. SameMap(view, w)
  BY <1>8, <1>9 DEF SameMap
<1>11. r # <<>>
  BY <1>3
<1>12. ASSUME NEW b \in Key
       PROVE  QueueAt(b) \in DOMAIN w
                <=> r # <<>> /\ (b = MetadataKey \/ \E i \in 1..Len(r) : b = encode_sequence(h + i - 1))
  <2>1. QueueAt(b) \in DOMAIN w <=> b = MetadataKey \/ b = a \/ QueueAt(b) \in DOMAIN view
    BY <1>8, <1>9
  <2>2. QueueAt(b) \in DOMAIN view => b = MetadataKey \/ \E i \in 1..L : b = encode_sequence(h + i - 1)
    BY <1>2 DEF QueueIs
  <2>3. (\E i \in 1..L : b = encode_sequence(h + i - 1)) => QueueAt(b) \in DOMAIN view
    BY <1>2, HeldSlot
  <2>4. ASSUME NEW i \in 1..(L + 1), b = encode_sequence(h + i - 1) PROVE b = a \/ \E j \in 1..L : b = encode_sequence(h + j - 1)
    <3>1. CASE i = L + 1
      <4>1. h + i - 1 = t
        BY <3>1, <1>1, <1>4
      <4> QED BY <4>1, <2>4, <1>5
    <3>2. CASE i # L + 1
      <4>1. i \in 1..L
        BY <3>2
      <4> QED BY <4>1, <2>4
    <3> QED BY <3>1, <3>2
  <2>5. b = a => \E i \in 1..(L + 1) : b = encode_sequence(h + i - 1)
    <3>1. PICK i \in 1..(L + 1) : i = L + 1
      OBVIOUS
    <3>2. h + i - 1 = t
      BY <3>1, <1>1, <1>4
    <3> QED BY <3>2, <1>5
  <2>6. (\E i \in 1..L : b = encode_sequence(h + i - 1)) => \E i \in 1..(L + 1) : b = encode_sequence(h + i - 1)
    <3>1. \A i \in 1..L : i \in 1..(L + 1)
      OBVIOUS
    <3> QED BY <3>1
  <2>7. QueueAt(b) \in DOMAIN w <=> b = MetadataKey \/ \E i \in 1..(L + 1) : b = encode_sequence(h + i - 1)
    BY <2>1, <2>2, <2>3, <2>4, <2>5, <2>6
  <2> QED BY <2>7, <1>3, <1>11
<1>13. ASSUME NEW i \in 1..Len(r) PROVE w[Slot(h + i - 1)] = r[i]
  <2>1. CASE i = L + 1
    <3>1. h + i - 1 = t
      BY <2>1, <1>1, <1>4
    <3>2. w[QueueAt(a)] = v
      BY <1>5, <1>8, <1>9
    <3> QED BY <3>1, <3>2, <2>1, <1>3, <1>5 DEF Slot
  <2>2. CASE i # L + 1
    <3>1. i \in 1..L /\ i \in 1..Len(q)
      BY <2>2, <1>2, <1>3
    <3>2. PICK b \in Key : b = encode_sequence(h + i - 1) /\ b # MetadataKey /\ QueueAt(b) \in DOMAIN view /\ view[QueueAt(b)] = q[i]
      BY <3>1, HeldSlot
    <3>3. w[QueueAt(b)] = q[i]
      BY <3>2, <1>5, <1>8, <1>9
    <3> QED BY <3>1, <3>2, <3>3, <1>3 DEF Slot
  <2> QED BY <2>1, <2>2
<1>14. h + Len(r) = t + 1
  BY <1>1, <1>3, <1>4
<1>15. QueueIs(w, h, r)
  <2>1. r # <<>> => w[QueueAt(MetadataKey)] = stored_metadata(Metadata(h, h + Len(r), BytesOf(r)))
    BY <1>6, <1>9, <1>14
  <2>2. h + Len(r) <= MaxSequence
    BY <1>4, <1>14
  <2> QED BY <2>1, <2>2, <1>1, <1>11, <1>12, <1>13 DEF QueueIs
<1> QED BY <1>3, <1>9, <1>10, <1>15

\* The first n entries are gone from w, and nothing else is.
Trimmed(view, w, h, n) ==
  /\ Tidy(w) /\ SameMap(view, w)
  /\ \A a \in Key : QueueAt(a) \in DOMAIN w
                      <=> /\ QueueAt(a) \in DOMAIN view
                          /\ \A i \in 1..n : a # encode_sequence(h + i - 1)
  /\ \A a \in Key : QueueAt(a) \in DOMAIN w => w[QueueAt(a)] = view[QueueAt(a)]

\* One more entry goes.
LEMMA TrimMore ==
  ASSUME NEW view, NEW w, NEW h \in Nat, NEW n \in Nat, Trimmed(view, w, h, n), h + n <= MaxSequence,
         NEW x, x = erase(w, QueueP, encode_sequence(h + n))
  PROVE  Trimmed(view, x, h, n + 1)
<1>1. PICK c \in Key : c = encode_sequence(h + n)
  <2>1. h + n \in 0..MaxSequence
    BY SequenceKeys
  <2> QED BY <2>1, SequenceKeys
<1>2. /\ Tidy(x) /\ SameMap(w, x)
      /\ \A b \in Key : QueueAt(b) \in DOMAIN x <=> b # c /\ QueueAt(b) \in DOMAIN w
      /\ \A b \in Key : b # c /\ QueueAt(b) \in DOMAIN w => x[QueueAt(b)] = w[QueueAt(b)]
  BY <1>1, EraseQueue DEF Trimmed
<1>3. SameMap(view, x)
  BY <1>2 DEF Trimmed, SameMap
<1>4. ASSUME NEW a \in Key
      PROVE  (\A i \in 1..(n + 1) : a # encode_sequence(h + i - 1))
               <=> a # c /\ \A i \in 1..n : a # encode_sequence(h + i - 1)
  <2>1. \A i \in 1..(n + 1) : i \in 1..n \/ i = n + 1
    OBVIOUS
  <2>2. n + 1 \in 1..(n + 1) /\ h + (n + 1) - 1 = h + n /\ \A i \in 1..n : i \in 1..(n + 1)
    OBVIOUS
  <2>3. ASSUME NEW i \in 1..(n + 1), i = n + 1 PROVE encode_sequence(h + i - 1) = c
    BY <2>2, <2>3, <1>1
  <2>4. encode_sequence(h + (n + 1) - 1) = c
    BY <2>2, <1>1
  <2>5. ASSUME \A i \in 1..(n + 1) : a # encode_sequence(h + i - 1) PROVE a # c
    BY <2>2, <2>4, <2>5
  <2> QED BY <2>1, <2>2, <2>3, <2>5
<1>5. \A a \in Key : QueueAt(a) \in DOMAIN x
                      <=> /\ QueueAt(a) \in DOMAIN view
                          /\ \A i \in 1..(n + 1) : a # encode_sequence(h + i - 1)
  BY <1>2, <1>4 DEF Trimmed
<1>6. \A a \in Key : QueueAt(a) \in DOMAIN x => x[QueueAt(a)] = view[QueueAt(a)]
  BY <1>2 DEF Trimmed
<1> QED BY <1>2, <1>3, <1>5, <1>6 DEF Trimmed

\* The case of a removal: n entries are gone from the last view, m says so.
Removal(view, h, q, n, views, r, m) ==
  /\ n \in 1..Len(q) /\ Trimmed(view, Last(views), h, n)
  /\ Rest(q, n, r) /\ m = Metadata(h + n, h + Len(q), BytesOf(r))

\* What finish_front_removal does after the first n entries are gone: the metadata
\* follows, and with the last entry goes too.
LEMMA FinishIs ==
  ASSUME NEW view, NEW h, NEW q, QueueIs(view, h, q), NEW n, NEW views, NEW r, NEW m,
         Removal(view, h, q, n, views, r, m),
         NEW answer, NEW o, o = finish_front_removal(views, QueueP, m, answer)
  PROVE  \E x : /\ o = Outcome(Append(views, x), answer)
                /\ Tidy(x) /\ SameMap(view, x) /\ \E g : QueueIs(x, g, r)
<1>0. PICK w : w = Last(views)
  OBVIOUS
<1>w. /\ n \in 1..Len(q) /\ Trimmed(view, w, h, n) /\ Rest(q, n, r)
      /\ m = Metadata(h + n, h + Len(q), BytesOf(r))
  BY <1>0 DEF Removal
<1> USE <1>0, <1>w
<1>1. h \in Nat /\ q \in Seq(Payload) /\ h + Len(q) <= MaxSequence
  BY DEF QueueIs
<1>2. PICK L \in Nat : L = Len(q) /\ n \in Nat /\ n >= 1 /\ n <= L
  BY <1>1, PayloadIs
<1>3. r \in Seq(Payload) /\ Len(r) = L - n /\ \A i \in 1..Len(r) : r[i] = q[n + i]
  <2>1. PICK f : Sums(q, f)
    BY <1>1, SumsExist
  <2>2. n \in 0..Len(q)
    BY <1>2
  <2>3. r \in Seq(Payload) /\ Len(r) = Len(q) - n /\ \A i \in 1..Len(r) : r[i] = q[n + i]
    BY <2>1, <2>2, <1>1, BytesOfRest
  <2> QED BY <2>3, <1>2
<1>4. PICK g \in Nat : g = h + n /\ g + Len(r) = h + L
  BY <1>1, <1>2, <1>3
<1>5. m.head = g /\ m.tail = h + L /\ m.bytes = BytesOf(r)
  BY <1>2, <1>4 DEF Metadata
<1>6. MetadataKey \in Key /\ q # <<>> /\ BytesOf(r) \in Nat /\ BytesOf(r) >= 8 * Len(r)
  <2>1. q = <<>> => Len(q) = 0
    OBVIOUS
  <2>2. q # <<>>
    BY <2>1, <1>2
  <2> QED BY <2>2, <1>3, SequenceKeys, BytesCover
<1>a. \A i \in 1..L : /\ encode_sequence(h + i - 1) \in Key /\ encode_sequence(h + i - 1) # MetadataKey
                      /\ QueueAt(encode_sequence(h + i - 1)) \in DOMAIN view
                      /\ view[QueueAt(encode_sequence(h + i - 1))] = q[i]
                      /\ h + i - 1 \in 0..MaxSequence
  BY <1>2, HeldSlot
\* Where the entries of r are.
<1>b. ASSUME NEW i \in 1..Len(r)
      PROVE  /\ encode_sequence(g + i - 1) \in Key /\ encode_sequence(g + i - 1) # MetadataKey
             /\ QueueAt(encode_sequence(g + i - 1)) \in DOMAIN w
             /\ w[QueueAt(encode_sequence(g + i - 1))] = r[i]
  <2>a. i \in Int /\ 1 <= i /\ i <= L - n
    BY <1>2, <1>3
  <2>1. PICK j \in 1..L : j = n + i /\ g + i - 1 = h + j - 1
    BY <2>a, <1>1, <1>2, <1>4
  <2>2. PICK a \in Key : /\ a = encode_sequence(h + j - 1) /\ a # MetadataKey
                         /\ QueueAt(a) \in DOMAIN view /\ view[QueueAt(a)] = q[j]
    BY <1>a
  <2>3. ASSUME NEW k \in 1..n, a = encode_sequence(h + k - 1) PROVE FALSE
    <3>1. k \in 1..L
      BY <1>2
    <3>2. h + k - 1 \in 0..MaxSequence /\ h + j - 1 \in 0..MaxSequence
      BY <3>1, <1>a
    <3>3. h + k - 1 = h + j - 1
      BY <3>2, <2>2, <2>3, SequenceKeys
    <3> QED BY <3>3, <2>1, <1>1, <1>2
  <2>4. QueueAt(a) \in DOMAIN w /\ w[QueueAt(a)] = view[QueueAt(a)]
    BY <2>2, <2>3 DEF Trimmed
  <2>5. r[i] = q[j]
    BY <1>3, <2>1
  <2> QED BY <2>1, <2>2, <2>4, <2>5
<1>c. ASSUME NEW a \in Key, QueueAt(a) \in DOMAIN w, a # MetadataKey
      PROVE  \E i \in 1..Len(r) : a = encode_sequence(g + i - 1)
  <2>1. QueueAt(a) \in DOMAIN view
    BY <1>c DEF Trimmed
  <2>2. PICK j \in 1..Len(q) : a = encode_sequence(h + j - 1)
    BY <2>1, <1>c DEF QueueIs
  <2>3. j \notin 1..n
    BY <1>c, <2>2 DEF Trimmed
  <2>a. j \in Int /\ j >= 1 /\ j <= L
    BY <1>2
  <2>b. j > n
    BY <2>3, <2>a, <1>2
  <2>4. PICK i \in 1..Len(r) : i = j - n /\ g + i - 1 = h + j - 1
    BY <2>a, <2>b, <1>1, <1>2, <1>3, <1>4
  <2> QED BY <2>2, <2>4
<1>d. QueueAt(MetadataKey) \in DOMAIN w
  <2>1. QueueAt(MetadataKey) \in DOMAIN view
    BY <1>6 DEF QueueIs
  <2>2. \A i \in 1..n : MetadataKey # encode_sequence(h + i - 1)
    <3>1. \A i \in 1..n : i \in 1..L
      BY <1>2
    <3> QED BY <3>1, <1>a
  <2> QED BY <2>1, <2>2, <1>6 DEF Trimmed
<1>7. CASE n = L
  <2>1. Len(r) = 0 /\ r = <<>> /\ m.head = m.tail /\ BytesOf(r) = 0
    <3>1. Len(r) = 0
      BY <1>7, <1>2, <1>3
    <3>2. r = <<>>
      BY <3>1, <1>3, EmptySeq
    <3>3. BytesOf(r) = 0
      BY <3>2, <1>3, BytesCover
    <3> QED BY <3>1, <3>2, <3>3, <1>4, <1>5, <1>7
  <2>2. PICK x : x = erase(w, QueueP, MetadataKey)
    OBVIOUS
  <2>3. /\ Tidy(x) /\ SameMap(w, x)
        /\ \A b \in Key : QueueAt(b) \in DOMAIN x <=> b # MetadataKey /\ QueueAt(b) \in DOMAIN w
    BY <2>2, <1>6, EraseQueue DEF Trimmed
  <2>4. \A a \in Key : QueueAt(a) \notin DOMAIN x
    <3>1. ~ \E i \in 1..Len(r) : TRUE
      BY <2>1
    <3> QED BY <3>1, <2>3, <1>c
  <2>5. namespace_is_empty(x, QueueP, <<>>, <<>>)
    BY <2>3, <2>4, EmptyNamespace
  <2>6. o = Outcome(Append(views, x), answer)
    BY <2>1, <2>2, <2>5, <1>5 DEF finish_front_removal
  <2>7. SameMap(view, x)
    BY <2>3 DEF SameMap, Trimmed
  <2>8. QueueIs(x, 0, r)
    <3>1. 0 + Len(r) <= MaxSequence
      BY <2>1, SequenceKeys
    <3>2. \A i \in 1..Len(r) : FALSE
      BY <2>1
    <3> QED BY <3>1, <3>2, <2>1, <2>4, <1>3 DEF QueueIs
  <2> QED BY <2>3, <2>6, <2>7, <2>8
<1>8. CASE n # L
  <2>1. Len(r) \in Nat /\ Len(r) >= 1 /\ m.head # m.tail /\ r # <<>> /\ Len(r) = (h + L) - g
    <3>1. Len(r) \in Nat /\ Len(r) >= 1
      BY <1>2, <1>3, <1>8
    <3>a. r = <<>> => Len(r) = 0
      OBVIOUS
    <3>2. r # <<>>
      BY <3>1, <3>a
    <3> QED BY <3>1, <3>2, <1>1, <1>2, <1>4, <1>5
  <2>2. Has(w, QueueP, encode_sequence(m.head))
    <3>1. 1 \in 1..Len(r) /\ g + 1 - 1 = g
      BY <2>1
    <3>2. QueueAt(encode_sequence(g)) \in DOMAIN w
      BY <3>1, <1>b
    <3> QED BY <3>2, <1>5 DEF Has, QueueAt
  <2>3. is_valid(m)
    <3>1. m.tail > m.head
      BY <2>1, <1>1, <1>2, <1>4, <1>5
    <3>2. m.bytes >= (m.tail - m.head) * 8
      BY <2>1, <1>5, <1>6
    <3> QED BY <3>1, <3>2 DEF is_valid, SequenceBytes
  <2>4. PICK value : value = stored_metadata(m) /\ value.size \in Nat
    BY MetadataSize
  <2>5. PICK x : x = put(w, QueueP, MetadataKey, value)
    OBVIOUS
  <2>6. o = Outcome(Append(views, x), answer)
    BY <2>1, <2>2, <2>3, <2>4, <2>5 DEF finish_front_removal
  <2>7. /\ Tidy(x) /\ SameMap(w, x) /\ x[QueueAt(MetadataKey)] = value
        /\ \A b \in Key : QueueAt(b) \in DOMAIN x <=> b = MetadataKey \/ QueueAt(b) \in DOMAIN w
        /\ \A b \in Key : b # MetadataKey /\ QueueAt(b) \in DOMAIN w => x[QueueAt(b)] = w[QueueAt(b)]
    BY <2>4, <2>5, <1>6, PutQueue DEF Trimmed
  <2>8. SameMap(view, x)
    BY <2>7 DEF SameMap, Trimmed
  <2>9. QueueIs(x, g, r)
    <3>1. g + Len(r) <= MaxSequence
      BY <1>1, <1>2, <1>4
    <3>2. m = Metadata(g, g + Len(r), BytesOf(r))
      BY <1>2, <1>4
    <3>3. ASSUME NEW a \in Key
          PROVE  QueueAt(a) \in DOMAIN x
                   <=> a = MetadataKey \/ \E i \in 1..Len(r) : a = encode_sequence(g + i - 1)
      BY <2>7, <1>b, <1>c
    <3>4. ASSUME NEW i \in 1..Len(r) PROVE x[Slot(g + i - 1)] = r[i]
      BY <2>7, <1>b DEF Slot
    <3> QED BY <3>1, <3>2, <3>3, <3>4, <2>1, <2>4, <2>7, <1>3, <1>4 DEF QueueIs
  <2> QED BY <2>6, <2>7, <2>8, <2>9
<1> QED BY <1>7, <1>8

\* The call leaves the queue holding r and the map as it was, and a view without
\* writes is the one it began with.
LeavesQueue(view, o, r) ==
  /\ Tidy(Last(o.views)) /\ SameMap(view, Last(o.views)) /\ \E g : QueueIs(Last(o.views), g, r)
  /\ ~(Len(o.views) > 1) => Last(o.views) = view

\* A call without writes.
LEMMA UnchangedIs ==
  ASSUME NEW view, NEW answer, NEW o, o = Unchanged(view, answer)
  PROVE  /\ o.reply = answer /\ Last(o.views) = view /\ Len(o.views) = 1
         /\ \A h, q : Tidy(view) /\ QueueIs(view, h, q) => LeavesQueue(view, o, q)
<1>1. o.reply = answer /\ o.views = <<view>>
  BY DEF Unchanged, Outcome
<1>2. Last(o.views) = view /\ Len(o.views) = 1
  BY <1>1 DEF Last
<1>3. SameMap(view, view)
  BY DEF SameMap
<1> QED BY <1>1, <1>2, <1>3 DEF LeavesQueue

\* A call whose last write leaves x.
LEMMA WritesIs ==
  ASSUME NEW view, NEW S, NEW views \in Seq(S), views # <<>>, NEW x, NEW answer,
         NEW o, o = Outcome(Append(views, x), answer)
  PROVE  /\ o.reply = answer /\ Last(o.views) = x /\ Len(o.views) > 1
         /\ \A g, r : Tidy(x) /\ SameMap(view, x) /\ QueueIs(x, g, r) => LeavesQueue(view, o, r)
<1>1. o.reply = answer /\ o.views = Append(views, x)
  BY DEF Outcome
<1>2. PICK n \in Nat : n = Len(views) /\ n >= 1
  BY LenProperties, EmptySeq
<1>3. Len(o.views) = n + 1 /\ o.views[n + 1] = x
  <2>1. PICK T : T = S \cup {x}
    OBVIOUS
  <2>2. PICK vs \in Seq(T) : vs = views
    BY <2>1
  <2>3. x \in T
    BY <2>1
  <2>4. Len(Append(vs, x)) = Len(vs) + 1 /\ Append(vs, x)[Len(vs) + 1] = x
    BY <2>2, <2>3, AppendProperties
  <2> QED BY <2>2, <2>4, <1>1, <1>2
<1>4. Last(o.views) = x /\ Len(o.views) > 1
  BY <1>2, <1>3 DEF Last
<1> QED BY <1>1, <1>4 DEF LeavesQueue

\* The bytes a queue has with one value more.
Need(q, v) == BytesOf(q) + v.size + 8

Longer(q, v) == Append(q, v)

\* What try_push does: full, out of numbers, or one value more at the end.
LEMMA PushLeaves ==
  ASSUME NEW view, Tidy(view), NEW h, NEW q, QueueIs(view, h, q), NEW v \in Payload,
         NEW o, o = try_push(view, QueueP, v, Capacity)
  PROVE  \/ Need(q, v) > Capacity /\ o.reply = Reply("full", <<>>) /\ LeavesQueue(view, o, q)
         \/ Need(q, v) <= Capacity /\ q # <<>> /\ o.reply = Reply("exhausted", <<>>)
         \/ Need(q, v) <= Capacity /\ o.reply = Reply("pushed", <<>>) /\ LeavesQueue(view, o, Longer(q, v))
<1>0. PICK need : need = Need(q, v)
  OBVIOUS
<1>1. h \in Nat /\ q \in Seq(Payload) /\ h + Len(q) <= MaxSequence /\ (q = <<>> => h = 0)
  BY DEF QueueIs
<1>2. PICK L \in Nat : L = Len(q)
  BY <1>1, PayloadIs
<1>3. PICK b \in Nat : b = BytesOf(q)
  BY <1>1, BytesCover
<1>4. PICK t \in Nat : t = h + L /\ t = h + Len(q) /\ t <= MaxSequence
  BY <1>1, <1>2
<1>5. PICK found : found = read_metadata(view, QueueP)
  OBVIOUS
<1>6. found.ok /\ found.metadata.head = h /\ found.metadata.tail = t /\ found.metadata.bytes = b
  <2>1. found.ok /\ found.metadata = Metadata(h, t, b)
    BY <1>3, <1>4, <1>5, MetadataRead
  <2> QED BY <2>1 DEF Metadata
<1>7. v.size \in Nat /\ Capacity \in Nat
  BY StoreAssumption
<1>8. need \in Nat /\ need = b + item_bytes(v) /\ need = b + v.size + 8
  BY <1>0, <1>3, <1>7 DEF item_bytes, SequenceBytes, Need
<1>9. h # t => Has(view, QueueP, encode_sequence(t - 1))
  <2> HAVE h # t
  <2>1. L \in 1..Len(q) /\ h + L - 1 = t - 1
    BY <1>1, <1>2, <1>4
  <2>2. QueueAt(encode_sequence(t - 1)) \in DOMAIN view
    BY <2>1, HeldSlot
  <2> QED BY <2>2 DEF Has, QueueAt
<1>10. ~ Has(view, QueueP, encode_sequence(t))
  <2>1. t \in 0..MaxSequence /\ t >= h + Len(q)
    BY <1>4, SequenceKeys
  <2>2. QueueAt(encode_sequence(t)) \notin DOMAIN view
    BY <2>1, FreeSlot
  <2> QED BY <2>2 DEF Has, QueueAt
<1>11. PICK e : e = put(view, QueueP, encode_sequence(t), v)
  OBVIOUS
<1>12. PICK w : w = put(e, QueueP, MetadataKey, stored_metadata(Metadata(h, t + 1, need)))
  OBVIOUS
<1>13. o = IF need > Capacity THEN Unchanged(view, Reply("full", <<>>))
           ELSE IF t = MaxSequence THEN Unchanged(view, Reply("exhausted", <<>>))
           ELSE Outcome(<<view, e, w>>, Reply("pushed", <<>>))
  BY <1>5, <1>6, <1>8, <1>9, <1>10, <1>11, <1>12 DEF try_push
<1>14. CASE need > Capacity
  <2>1. o = Unchanged(view, Reply("full", <<>>))
    BY <1>13, <1>14
  <2> QED BY <2>1, <1>0, <1>14, UnchangedIs
<1>15. CASE ~(need > Capacity) /\ t = MaxSequence
  <2>1. need <= Capacity
    BY <1>7, <1>8, <1>15
  <2>2. q # <<>>
    <3>1. MaxSequence >= 1
      BY SequenceKeys
    <3>2. q = <<>> => L = 0
      BY <1>2
    <3> QED BY <3>1, <3>2, <1>1, <1>4, <1>15
  <2>3. o = Unchanged(view, Reply("exhausted", <<>>))
    BY <1>13, <1>15
  <2> QED BY <2>1, <2>2, <2>3, <1>0, UnchangedIs
<1>16. CASE ~(need > Capacity) /\ t # MaxSequence
  <2>1. need <= Capacity
    BY <1>7, <1>8, <1>16
  <2>2. h + Len(q) # MaxSequence
    BY <1>4, <1>16
  <2>3. e = put(view, QueueP, encode_sequence(h + Len(q)), v)
    BY <1>4, <1>11
  <2>4. w = put(e, QueueP, MetadataKey, stored_metadata(Metadata(h, h + Len(q) + 1, BytesOf(q) + v.size + 8)))
    BY <1>3, <1>4, <1>8, <1>12
  <2>r. PICK r : r = Append(q, v)
    OBVIOUS
  <2>5. Tidy(w) /\ SameMap(view, w) /\ QueueIs(w, h, r)
    BY <2>2, <2>3, <2>4, <2>r, PushWrites
  <2>6. o = Outcome(<<view, e, w>>, Reply("pushed", <<>>))
    BY <1>13, <1>16
  <2>7. PICK S : S = {view, e}
    OBVIOUS
  <2>8. view \in S /\ e \in S
    BY <2>7
  <2>9. <<view, e>> \in Seq(S) /\ <<view, e>> # <<>>
    BY <2>8
  <2>10. PICK vs \in Seq(S) : vs = <<view, e>> /\ vs # <<>>
    BY <2>9
  <2>11. <<view, e, w>> = Append(vs, w)
    BY <2>10
  <2>12. PICK answer : answer = Reply("pushed", <<>>)
    OBVIOUS
  <2>13. o = Outcome(Append(vs, w), answer)
    BY <2>6, <2>11, <2>12
  <2>a. vs \in Seq(S) /\ vs # <<>>
    BY <2>10
  <2>14. o.reply = answer /\ LeavesQueue(view, o, r)
    BY <2>5, <2>a, <2>13, WritesIs
  <2> QED BY <2>1, <2>r, <2>12, <2>14, <1>0 DEF Longer
<1> QED BY <1>14, <1>15, <1>16

\* Reading the first entry under a byte bound.
LEMMA FrontRead ==
  ASSUME NEW view, NEW h, NEW q, QueueIs(view, h, q), q # <<>>, NEW max,
         NEW front, front = get_bounded(view, QueueP, encode_sequence(h), max).reply
  PROVE  /\ Read(view, QueueP, encode_sequence(h)) = q[1] /\ 1 \in 1..Len(q)
         /\ front = Reply("too_large", <<>>) \/ front = Reply("some", q[1].data)
<1>1. h \in Nat /\ q \in Seq(Payload)
  BY DEF QueueIs
<1>2. 1 \in 1..Len(q) /\ h + 1 - 1 = h
  BY <1>1, LenProperties, EmptySeq
<1>3. QueueAt(encode_sequence(h)) \in DOMAIN view /\ view[QueueAt(encode_sequence(h))] = q[1]
  BY <1>2, HeldSlot
<1>4. Has(view, QueueP, encode_sequence(h)) /\ Read(view, QueueP, encode_sequence(h)) = q[1]
  BY <1>3 DEF Has, Read, QueueAt
<1>5. front = IF q[1].size > max THEN Reply("too_large", <<>>) ELSE Reply("some", q[1].data)
  BY <1>4 DEF get_bounded, Unchanged, Outcome
<1> QED BY <1>2, <1>4, <1>5

\* What front_bounded answers.
LEMMA FrontIs ==
  ASSUME NEW view, Tidy(view), NEW h, NEW q, QueueIs(view, h, q), NEW max,
         NEW o, o = front_bounded(view, QueueP, max)
  PROVE  \/ q = <<>> /\ o.reply = Reply("none", <<>>)
         \/ q # <<>> /\ (o.reply = Reply("too_large", <<>>) \/ o.reply = Reply("some", q[1].data))
<1>1. h \in Nat /\ q \in Seq(Payload) /\ Len(q) \in Nat
  BY PayloadIs DEF QueueIs
<1>2. PICK found : found = read_metadata(view, QueueP)
  OBVIOUS
<1>3. found.ok /\ found.metadata.head = h /\ found.metadata.tail = h + Len(q)
  <2>1. found.ok /\ found.metadata = Metadata(h, h + Len(q), BytesOf(q))
    BY <1>2, MetadataRead
  <2> QED BY <2>1 DEF Metadata
<1>4. PICK front : front = get_bounded(view, QueueP, encode_sequence(h), max).reply
  OBVIOUS
<1>5. CASE q = <<>>
  <2>1. Len(q) = 0
    BY <1>5
  <2>2. h = h + Len(q)
    BY <2>1, <1>1
  <2>3. o = Unchanged(view, Reply("none", <<>>))
    BY <2>2, <1>2, <1>3 DEF front_bounded
  <2> QED BY <2>3, <1>5, UnchangedIs
<1>6. CASE q # <<>>
  <2>1. 1 \in 1..Len(q) /\ (front = Reply("too_large", <<>>) \/ front = Reply("some", q[1].data))
    BY <1>4, <1>6, FrontRead
  <2>2. h # h + Len(q)
    BY <2>1, <1>1
  <2>3. front.kind # "none"
    BY <2>1 DEF Reply
  <2>4. o = Unchanged(view, front)
    BY <2>2, <2>3, <1>2, <1>3, <1>4 DEF front_bounded
  <2> QED BY <2>1, <2>4, <1>6, UnchangedIs
<1> QED BY <1>5, <1>6

\* What queued_bytes answers.
LEMMA BytesLeaves ==
  ASSUME NEW view, Tidy(view), NEW h, NEW q, QueueIs(view, h, q), NEW o, o = queued_bytes(view, QueueP)
  PROVE  o.reply = Reply("some", <<BytesOf(q)>>) /\ LeavesQueue(view, o, q)
<1>1. PICK found : found = read_metadata(view, QueueP)
  OBVIOUS
<1>2. found.ok /\ found.metadata.bytes = BytesOf(q)
  <2>1. found.ok /\ found.metadata = Metadata(h, h + Len(q), BytesOf(q))
    BY <1>1, MetadataRead
  <2> QED BY <2>1 DEF Metadata
<1>3. o = Unchanged(view, Reply("some", <<BytesOf(q)>>))
  BY <1>1, <1>2 DEF queued_bytes
<1> QED BY <1>3, UnchangedIs

\* What pop_front_bounded answers and leaves.
LEMMA PopLeaves ==
  ASSUME NEW view, Tidy(view), NEW h, NEW q, QueueIs(view, h, q), NEW max,
         NEW o, o = pop_front_bounded(view, QueueP, max)
  PROVE  \/ q = <<>> /\ o.reply = Reply("none", <<>>) /\ LeavesQueue(view, o, q)
         \/ q # <<>> /\ o.reply = Reply("too_large", <<>>) /\ LeavesQueue(view, o, q)
         \/ /\ q # <<>> /\ o.reply = Reply("some", q[1].data)
            /\ LeavesQueue(view, o, SubSeq(q, 1 + 1, Len(q)))
<1>1. h \in Nat /\ q \in Seq(Payload) /\ Len(q) \in Nat /\ h + Len(q) <= MaxSequence
  BY PayloadIs DEF QueueIs
<1>2. PICK found : found = read_metadata(view, QueueP)
  OBVIOUS
<1>b. PICK b \in Nat : b = BytesOf(q)
  BY <1>1, BytesCover
<1>3. found.ok /\ found.metadata.head = h /\ found.metadata.tail = h + Len(q) /\ found.metadata.bytes = b
  <2>1. found.ok /\ found.metadata = Metadata(h, h + Len(q), BytesOf(q))
    BY <1>2, MetadataRead
  <2> QED BY <2>1, <1>b DEF Metadata
<1>4. PICK front : front = get_bounded(view, QueueP, encode_sequence(h), max).reply
  OBVIOUS
<1>5. CASE q = <<>>
  <2>1. Len(q) = 0
    BY <1>5
  <2>2. h = h + Len(q)
    BY <2>1, <1>1
  <2>3. o = Unchanged(view, Reply("none", <<>>))
    BY <2>2, <1>2, <1>3 DEF pop_front_bounded
  <2> QED BY <2>3, <1>5, UnchangedIs
<1>6. CASE q # <<>>
  <2>1. /\ Read(view, QueueP, encode_sequence(h)) = q[1] /\ 1 \in 1..Len(q)
        /\ front = Reply("too_large", <<>>) \/ front = Reply("some", q[1].data)
    BY <1>4, <1>6, FrontRead
  <2>2. h # h + Len(q)
    BY <2>1, <1>1
  <2>3. front.kind # "none"
    BY <2>1 DEF Reply
  <2>4. PICK f : Sums(q, f)
    BY <1>1, SumsExist
  <2>5. PICK r : r = SubSeq(q, 1 + 1, Len(q))
    OBVIOUS
  <2>n. PICK n \in Nat : n = 1 /\ n + 1 = 1 + 1
    OBVIOUS
  <2>r. Rest(q, n, r) /\ n \in 1..Len(q)
    BY <2>1, <2>5, <2>n DEF Rest
  <2>6. r \in Seq(Payload) /\ BytesOf(r) = f[Len(q)] - f[1]
    <3>1. n \in 0..Len(q)
      BY <2>1, <2>n, <1>1
    <3>2. r \in Seq(Payload) /\ BytesOf(r) = f[Len(q)] - f[n]
      BY <3>1, <2>4, <2>r, <1>1, BytesOfRest
    <3> QED BY <3>2, <2>n
  <2>7. BytesOf(r) \in Nat /\ BytesOf(r) = b - item_bytes(q[1])
    <3>1. f[1] = f[0] + q[1].size + 8 /\ f[0] = 0 /\ b = f[Len(q)]
      <4>1. f[1] = f[1 - 1] + q[1].size + 8 /\ f[0] = 0 /\ b = f[Len(q)]
        BY <2>1, <2>4, <1>b DEF Sums, SequenceBytes
      <4> QED BY <4>1
    <3>2. q[1].size \in Nat
      BY <2>1, <1>1, PayloadIs
    <3>3. BytesOf(r) \in Nat
      BY <2>6, BytesCover
    <3> QED BY <3>1, <3>2, <3>3, <2>6 DEF item_bytes, SequenceBytes
  <2>8. CASE front = Reply("too_large", <<>>)
    <3>1. front.kind = "too_large"
      BY <2>8 DEF Reply
    <3>2. o = Unchanged(view, front)
      BY <3>1, <2>2, <2>3, <1>2, <1>3, <1>4 DEF pop_front_bounded
    <3> QED BY <3>2, <2>8, <1>6, UnchangedIs
  <2>9. CASE front = Reply("some", q[1].data)
    <3>1. front.kind = "some"
      BY <2>9 DEF Reply
    <3>2. PICK w : w = erase(view, QueueP, encode_sequence(h))
      OBVIOUS
    <3>3. PICK m : m = Metadata(h + 1, h + Len(q), BytesOf(r))
      OBVIOUS
    <3>4. ~(BytesOf(r) < 0)
      BY <2>7
    <3>5. o = finish_front_removal(<<view, w>>, QueueP, m, front)
      BY <3>1, <3>2, <3>3, <3>4, <2>1, <2>2, <2>7, <1>2, <1>3, <1>4 DEF pop_front_bounded
    <3>6. PICK views : views = <<view, w>>
      OBVIOUS
    <3>7. w = Last(views)
      BY <3>6 DEF Last
    <3>8. Trimmed(view, w, h, 1)
      <4>1. Trimmed(view, view, h, 0)
        BY DEF Trimmed, SameMap
      <4>2. h + 0 <= MaxSequence /\ h + 0 = h /\ 0 + 1 = 1
        BY <1>1, SequenceKeys
      <4>3. w = erase(view, QueueP, encode_sequence(h + 0))
        BY <3>2, <4>2
      <4>4. Trimmed(view, w, h, 0 + 1)
        BY <4>1, <4>2, <4>3, <1>1, TrimMore
      <4> QED BY <4>2, <4>4
    <3>9. \E x : /\ o = Outcome(Append(views, x), front)
                 /\ Tidy(x) /\ SameMap(view, x) /\ \E g : QueueIs(x, g, r)
      <4>1. o = finish_front_removal(views, QueueP, m, front)
        BY <3>5, <3>6
      <4>2. Trimmed(view, w, h, n)
        BY <2>n, <3>8
      <4>3. m = Metadata(h + n, h + Len(q), BytesOf(r))
        BY <2>n, <3>3
      <4>4. Removal(view, h, q, n, views, r, m)
        BY <4>2, <4>3, <2>r, <3>7 DEF Removal
      <4> QED BY <4>1, <4>4, FinishIs
    <3>10. PICK x : /\ o = Outcome(Append(views, x), front)
                    /\ Tidy(x) /\ SameMap(view, x) /\ \E g : QueueIs(x, g, r)
      BY <3>9
    <3>11. PICK S : S = {view, w}
      OBVIOUS
    <3>12. views \in Seq(S) /\ views # <<>>
      BY <3>6, <3>11
    <3>13. o.reply = front /\ LeavesQueue(view, o, r)
      BY <3>10, <3>12, WritesIs
    <3> QED BY <3>13, <2>5, <2>9, <1>6
  <2> QED BY <2>1, <2>8, <2>9
<1> QED BY <1>5, <1>6

\* What discard_front answers and leaves.
LEMMA DiscardLeaves ==
  ASSUME NEW view, Tidy(view), NEW h, NEW q, QueueIs(view, h, q), NEW n \in Nat,
         NEW o, o = discard_front(view, QueueP, n)
  PROVE  \E k, r :
           /\ k \in 0..Len(q)
           /\ Rest(q, k, r) /\ LeavesQueue(view, o, r)
           /\ o.reply = Reply(IF r = <<>> THEN "empty" ELSE "left", <<>>)
<1> DEFINE found == read_metadata(view, QueueP)
           metadata == found.metadata
           gone == IF n < metadata.tail - metadata.head THEN n ELSE metadata.tail - metadata.head
           key(i) == encode_sequence(metadata.head + i)
           FixV(e) == e = [i \in 0..gone |-> IF i = 0 THEN view ELSE erase(e[i - 1], QueueP, key(i - 1))]
           FixB(e) == e = [i \in 0..gone |->
                             IF i = 0 THEN metadata.bytes
                             ELSE e[i - 1] - item_bytes(Read(view, QueueP, key(i - 1)))]
           V == CHOOSE e : FixV(e)
           B == CHOOSE e : FixB(e)
           missing == {i \in 0..gone - 1 : ~ Has(view, QueueP, key(i)) \/ B[i + 1] < 0}
           rest == Metadata(metadata.head + gone, metadata.tail, B[gone])
<1>1. o = IF found.ok /\ metadata.head = metadata.tail
          THEN Unchanged(view, Reply("empty", <<>>))
          ELSE IF ~ found.ok \/ missing # {}
          THEN Corrupt(<<view>>)
          ELSE IF gone = 0
          THEN Unchanged(view, Reply("left", <<>>))
          ELSE finish_front_removal([i \in 1..gone + 1 |-> V[i - 1]], QueueP, rest,
                          Reply(IF rest.head = rest.tail THEN "empty" ELSE "left", <<>>))
  BY DEF discard_front
<1>2. h \in Nat /\ q \in Seq(Payload) /\ h + Len(q) <= MaxSequence
  BY DEF QueueIs
<1>3. PICK L \in Nat : L = Len(q)
  BY <1>2, PayloadIs
<1>4. PICK b \in Nat : b = BytesOf(q)
  BY <1>2, BytesCover
<1>5. found.ok /\ metadata.head = h /\ metadata.tail = h + L /\ metadata.bytes = b
  <2>1. found.ok /\ metadata = Metadata(h, h + L, b)
    BY <1>3, <1>4, MetadataRead
  <2> HIDE DEF metadata
  <2> QED BY <2>1 DEF Metadata
<1> HIDE DEF found, metadata
<1>6. PICK k \in Nat : k = gone /\ k <= L /\ (k = 0 => n = 0 \/ L = 0)
  BY <1>2, <1>3, <1>5
<1>7. PICK K \in [0..k -> Key] : \A i \in 0..k : K[i] = encode_sequence(h + i)
  <2>1. \A i \in 0..k : h + i \in 0..MaxSequence
    BY <1>2, <1>3, <1>6, SequenceKeys
  <2>2. \A i \in 0..k : encode_sequence(h + i) \in Key
    BY <2>1, SequenceKeys
  <2>3. PICK c : c = [i \in 0..k |-> encode_sequence(h + i)]
    OBVIOUS
  <2> QED BY <2>2, <2>3
<1>8. CASE L = 0
  <2>1. o = Unchanged(view, Reply("empty", <<>>))
    BY <1>1, <1>2, <1>5, <1>8
  <2>2. q = <<>>
    BY <1>2, <1>3, <1>8, EmptySeq
  <2>3. o.reply = Reply("empty", <<>>) /\ LeavesQueue(view, o, q)
    BY <2>1, UnchangedIs
  <2>4. Rest(q, 0, q) /\ 0 \in 0..Len(q)
    BY <2>2 DEF Rest
  <2> QED BY <2>2, <2>3, <2>4
<1> HIDE DEF gone
<1>9. CASE L # 0
  <2>1. h # h + L /\ q # <<>>
    <3>1. q = <<>> => Len(q) = 0
      OBVIOUS
    <3> QED BY <3>1, <1>2, <1>3, <1>9
  <2>2. PICK f : Sums(q, f)
    BY <1>2, SumsExist
  <2>3. f \in [0..L -> Nat] /\ f[0] = 0 /\ (\A i \in 1..L : f[i] = f[i - 1] + q[i].size + 8) /\ b = f[L]
    BY <2>2, <1>3, <1>4 DEF Sums, SequenceBytes
  \* The bytes after each removal.
  <2>4. ASSUME NEW i \in 0..k PROVE f[L] - f[i] \in Nat
    <3>1. i \in 0..Len(q)
      BY <1>3, <1>6
    <3>2. PICK r : Rest(q, i, r)
      BY DEF Rest
    <3>3. r \in Seq(Payload) /\ BytesOf(r) = f[Len(q)] - f[i]
      BY <3>1, <3>2, <2>2, <1>2, BytesOfRest
    <3>4. BytesOf(r) \in Nat
      BY <3>3, BytesCover
    <3> QED BY <3>3, <3>4, <1>3
  <2>5. ASSUME NEW i \in 0..k, i # 0
        PROVE  /\ i \in 1..L /\ i - 1 \in 0..k /\ key(i - 1) = K[i - 1] /\ Has(view, QueueP, key(i - 1))
               /\ Read(view, QueueP, key(i - 1)) = q[i]
    <3>1. i \in 1..L /\ i \in 1..Len(q) /\ i - 1 \in 0..k /\ h + i - 1 = h + (i - 1)
      BY <2>5, <1>2, <1>3, <1>6
    <3>2. key(i - 1) = encode_sequence(h + i - 1) /\ key(i - 1) = K[i - 1]
      BY <3>1, <1>5, <1>7
    <3>3. QueueAt(encode_sequence(h + i - 1)) \in DOMAIN view /\ view[QueueAt(encode_sequence(h + i - 1))] = q[i]
      BY <3>1, HeldSlot
    <3> QED BY <3>1, <3>2, <3>3 DEF Has, Read, QueueAt
  <2>6. ASSUME NEW i \in 0..k PROVE B[i] = f[L] - f[i]
    <3>1. PICK e : e = [j \in 0..k |-> f[L] - f[j]]
      OBVIOUS
    <3>2. ASSUME NEW j \in 0..k
          PROVE e[j] = IF j = 0 THEN metadata.bytes
                       ELSE e[j - 1] - item_bytes(Read(view, QueueP, key(j - 1)))
      <4>1. CASE j = 0
        BY <4>1, <3>1, <2>3, <1>5
      <4>2. CASE j # 0
        <5>1. j \in 1..L /\ j - 1 \in 0..k /\ Read(view, QueueP, key(j - 1)) = q[j]
          BY <4>2, <2>5
        <5>2. PICK s \in Nat : s = q[j].size
          BY <5>1, <1>2, <1>3, PayloadIs
        <5>3. e[j] = f[L] - f[j] /\ e[j - 1] = f[L] - f[j - 1] /\ f[j] = f[j - 1] + s + 8
          BY <5>1, <5>2, <3>1, <2>3
        <5>4. f[L] \in Nat /\ f[j - 1] \in Nat
          BY <5>1, <2>3, <1>6
        <5>a. PICK x \in Nat, y \in Nat : x = f[L] /\ y = f[j - 1]
          BY <5>4
        <5>b. e[j] = x - (y + s + 8) /\ e[j - 1] = x - y
          BY <5>3, <5>a
        <5>c. x - (y + s + 8) = (x - y) - (s + 8)
          OBVIOUS
        <5>5. e[j] = e[j - 1] - (s + 8)
          BY <5>b, <5>c
        <5>6. item_bytes(Read(view, QueueP, key(j - 1))) = s + 8
          BY <5>1, <5>2 DEF item_bytes, SequenceBytes
        <5>7. e[j] = e[j - 1] - item_bytes(Read(view, QueueP, key(j - 1)))
          BY <5>5, <5>6, Zenon
        <5> QED BY <5>7, <4>2, Zenon
      <4> QED BY <4>1, <4>2
    <3>3. FixB(e)
      <4>1. e = [j \in 0..k |-> e[j]]
        BY <3>1
      <4> QED BY <4>1, <3>2, <1>6
    <3>4. FixB(B)
      <4> HIDE DEF FixB
      <4> QED BY <3>3
    <3> HIDE DEF B
    <3>5. \A j \in 0..k : B[j] = IF j = 0 THEN metadata.bytes
                               ELSE B[j - 1] - item_bytes(Read(view, QueueP, key(j - 1)))
      BY <3>4, <1>6
    <3> DEFINE I == {m \in Nat : m <= k => B[m] = f[L] - f[m]}
    <3>6. 0 \in I
      BY <3>5, <2>3, <1>5
    <3>7. ASSUME NEW m \in Nat, m \in I PROVE m + 1 \in I
      <4> SUFFICES ASSUME m + 1 <= k PROVE B[m + 1] = f[L] - f[m + 1]
        OBVIOUS
      <4>1. PICK j \in 0..k : j = m + 1 /\ j - 1 = m /\ j # 0
        OBVIOUS
      <4>2. j \in 1..L /\ j - 1 \in 0..k /\ Read(view, QueueP, key(j - 1)) = q[j]
        BY <4>1, <2>5
      <4>3. PICK s \in Nat : s = q[j].size
        BY <4>2, <1>2, <1>3, PayloadIs
      <4>4. f[j] = f[j - 1] + s + 8
        BY <4>2, <4>3, <2>3
      <4>5. f[L] \in Nat /\ f[j - 1] \in Nat
        BY <4>2, <2>3, <1>6
      <4>6. item_bytes(Read(view, QueueP, key(j - 1))) = s + 8
        BY <4>2, <4>3 DEF item_bytes, SequenceBytes
      <4>7. B[j] = B[j - 1] - item_bytes(Read(view, QueueP, key(j - 1)))
        BY <4>1, <3>5, Zenon
      <4>8. B[j - 1] = f[L] - f[j - 1]
        BY <4>1, <3>7
      <4>a. PICK x \in Nat, y \in Nat : x = f[L] /\ y = f[j - 1]
        BY <4>5
      <4>b. B[j] = (x - y) - (s + 8)
        BY <4>6, <4>7, <4>8, <4>a
      <4>c. f[L] - f[j] = x - (y + s + 8)
        BY <4>4, <4>a
      <4>d. (x - y) - (s + 8) = x - (y + s + 8)
        OBVIOUS
      <4>9. B[j] = f[L] - f[j]
        BY <4>b, <4>c, <4>d
      <4> QED BY <4>1, <4>9
    <3>8. \A m \in Nat : m \in I
      <4> HIDE DEF I
      <4> QED BY <3>6, <3>7, SetInduction
    <3> QED BY <3>8
  <2>7. missing = {}
    <3> SUFFICES ASSUME NEW i \in 0..gone - 1, ~ Has(view, QueueP, key(i)) \/ B[i + 1] < 0 PROVE FALSE
      OBVIOUS
    <3> HIDE DEF B, key
    <3>1. PICK j \in 0..k : j = i + 1 /\ j # 0 /\ i = j - 1
      BY <1>6
    <3>2. Has(view, QueueP, key(j - 1))
      BY <3>1, <2>5
    <3>3. B[j] = f[L] - f[j] /\ f[L] - f[j] \in Nat
      BY <2>4, <2>6
    <3> QED BY <3>1, <3>2, <3>3
  <2> HIDE DEF missing, B
  <2>8. CASE k = 0
    <3>1. o = Unchanged(view, Reply("left", <<>>))
      BY <2>1, <2>7, <2>8, <1>1, <1>5, <1>6
    <3>2. o.reply = Reply("left", <<>>) /\ LeavesQueue(view, o, q)
      BY <3>1, UnchangedIs
    <3>3. Rest(q, 0, q) /\ 0 \in 0..Len(q)
      BY <1>2, <1>3, SubSeqFull DEF Rest
    <3> QED BY <3>2, <3>3, <2>1
  <2>9. CASE k # 0
    <3>1. PICK r : Rest(q, k, r)
      BY DEF Rest
    <3>2. k \in 1..Len(q) /\ k \in 0..Len(q)
      BY <2>9, <1>3, <1>6
    <3>3. r \in Seq(Payload) /\ Len(r) = Len(q) - k /\ BytesOf(r) = f[Len(q)] - f[k]
      BY <3>1, <3>2, <2>2, <1>2, BytesOfRest
    <3>4. B[k] = BytesOf(r)
      <4>1. k \in 0..k
        OBVIOUS
      <4>2. B[k] = f[L] - f[k]
        BY <4>1, <2>6
      <4> QED BY <4>2, <3>3, <1>3
    <3>a. PICK m : m = Metadata(h + k, h + Len(q), BytesOf(r))
      OBVIOUS
    <3>b. m.head = h + k /\ m.tail = h + Len(q)
      BY <3>a DEF Metadata
    <3>c. rest = m
      BY <3>4, <3>a, <1>3, <1>5, <1>6
    <3>5. m = rest /\ m = Metadata(h + k, h + Len(q), BytesOf(r)) /\ m.head = h + k /\ m.tail = h + Len(q)
      BY <3>a, <3>b, <3>c
    <3>6. PICK answer : answer = Reply(IF r = <<>> THEN "empty" ELSE "left", <<>>)
      OBVIOUS
    <3>7. m.head = m.tail <=> r = <<>>
      <4>1. m.head = m.tail <=> Len(r) = 0
        BY <3>2, <3>3, <3>5, <1>2, <1>3
      <4>2. Len(r) = 0 <=> r = <<>>
        BY <3>3, EmptySeq
      <4> QED BY <4>1, <4>2
    <3>8. PICK views : views = [i \in 1..(k + 1) |-> V[i - 1]]
      OBVIOUS
    <3>9. o = finish_front_removal(views, QueueP, m, answer)
      <4>1. o = finish_front_removal([i \in 1..gone + 1 |-> V[i - 1]], QueueP, rest,
                          Reply(IF rest.head = rest.tail THEN "empty" ELSE "left", <<>>))
        <5> HIDE DEF rest, V
        <5> QED BY <2>1, <2>7, <2>9, <1>1, <1>5, <1>6
      <4>2. [i \in 1..gone + 1 |-> V[i - 1]] = views
        <5> HIDE DEF V
        <5> QED BY <3>8, <1>6
      <4>3. Reply(IF rest.head = rest.tail THEN "empty" ELSE "left", <<>>) = answer
        <5> HIDE DEF rest
        <5> QED BY <3>5, <3>6, <3>7
      <4> HIDE DEF rest, V
      <4> QED BY <4>1, <4>2, <4>3, <3>5, Zenon
    \* The views in between.
    <3>10. FixV(V)
      <4>1. PICK S : S = {view} \cup {[x \in D |-> view[x]] : D \in SUBSET DOMAIN view}
        OBVIOUS
      <4>2. PICK base \in S : base = view
        BY <4>1
      <4>3. ASSUME NEW a \in Key, NEW s \in S PROVE erase(s, QueueP, a) \in S
        <5>1. PICK c : c = QueueP \o a
          OBVIOUS
        <5>2. PICK D \in SUBSET DOMAIN view : DOMAIN s = D /\ \A x \in D : s[x] = view[x]
          <6>1. CASE s = view
            BY <6>1
          <6>2. CASE s # view
            <7>1. PICK D \in SUBSET DOMAIN view : s = [x \in D |-> view[x]]
              BY <6>2, <4>1
            <7> QED BY <7>1
          <6> QED BY <6>1, <6>2
        <5>3. erase(s, QueueP, a) = [x \in DOMAIN s \ {c} |-> s[x]]
          BY <5>1 DEF erase
        <5>4. PICK E \in SUBSET DOMAIN view : E = DOMAIN s \ {c} /\ \A x \in E : s[x] = view[x]
          BY <5>2
        <5>5. [x \in E |-> s[x]] = [x \in E |-> view[x]]
          BY <5>4
        <5> QED BY <5>3, <5>4, <5>5, <4>1
      <4>4. PICK G : G = [i \in 1..k |-> [s \in S |-> erase(s, QueueP, K[i - 1])]]
        OBVIOUS
      <4>5. G \in [1..k -> [S -> S]]
        <5>1. \A i \in 1..k : K[i - 1] \in Key
          BY <1>7
        <5>2. ASSUME NEW i \in 1..k PROVE [s \in S |-> erase(s, QueueP, K[i - 1])] \in [S -> S]
          BY <5>1, <4>3
        <5> QED BY <5>2, <4>4
      <4>6. PICK e \in [0..k -> S] : e[0] = base /\ \A i \in 1..k : e[i] = G[i][e[i - 1]]
        <5> HIDE DEF V, FixV, key
        <5>1. k \in Nat /\ base \in S
          BY <4>2
        <5>2. PICK e : Runs(e, S, base, k, G)
          BY <5>1, <4>5, RunExists
        <5> QED BY <5>2 DEF Runs
      <4>7. ASSUME NEW i \in 0..k PROVE e[i] = IF i = 0 THEN view ELSE erase(e[i - 1], QueueP, key(i - 1))
        <5>1. CASE i = 0
          BY <5>1, <4>2, <4>6
        <5>2. CASE i # 0
          <6>a. i \in 1..k
            BY <5>2
          <6>b. i - 1 \in 0..k /\ key(i - 1) = K[i - 1]
            BY <5>2, <2>5
          <6>1. i \in 1..k /\ i - 1 \in 0..k /\ key(i - 1) = K[i - 1]
            BY <6>a, <6>b
          <6>2. e[i - 1] \in S /\ e[i] = G[i][e[i - 1]]
            BY <6>1, <4>6
          <6>3. G[i] = [s \in S |-> erase(s, QueueP, K[i - 1])]
            BY <6>1, <4>4
          <6>4. e[i] = erase(e[i - 1], QueueP, K[i - 1])
            BY <6>2, <6>3
          <6> QED BY <6>1, <6>4, <5>2, Zenon
        <5> QED BY <5>1, <5>2
      <4>8. FixV(e)
        <5>1. e = [i \in 0..k |-> e[i]]
          BY <4>6
        <5> QED BY <5>1, <4>7, <1>6
      <4> HIDE DEF FixV
      <4> QED BY <4>8
    <3> HIDE DEF V
    <3>11. \A i \in 0..k : V[i] = IF i = 0 THEN view ELSE erase(V[i - 1], QueueP, key(i - 1))
      BY <3>10, <1>6
    <3>12. Trimmed(view, V[k], h, k)
      <4> DEFINE I == {i \in Nat : i <= k => Trimmed(view, V[i], h, i)}
      <4>1. 0 \in I
        <5>1. Trimmed(view, view, h, 0)
          BY DEF Trimmed, SameMap
        <5>2. V[0] = view
          BY <3>11
        <5> QED BY <5>1, <5>2
      <4>2. ASSUME NEW i \in Nat, i \in I PROVE i + 1 \in I
        <5> SUFFICES ASSUME i + 1 <= k PROVE Trimmed(view, V[i + 1], h, i + 1)
          OBVIOUS
        <5>1. PICK j \in 0..k : j = i + 1 /\ j - 1 = i /\ j # 0
          OBVIOUS
        <5>2. V[j] = erase(V[j - 1], QueueP, key(j - 1))
          BY <5>1, <3>11, Zenon
        <5>3. key(j - 1) = encode_sequence(h + i)
          BY <5>1, <1>5
        <5>4. PICK v : v = V[i] /\ Trimmed(view, v, h, i)
          BY <4>2
        <5>5. V[j] = erase(v, QueueP, encode_sequence(h + i))
          <6> HIDE DEF key
          <6> QED BY <5>1, <5>2, <5>3, <5>4
        <5>6. h + i <= MaxSequence
          BY <1>2, <1>3, <1>6, SequenceKeys
        <5>7. Trimmed(view, V[j], h, i + 1)
          BY <5>4, <5>5, <5>6, <1>2, TrimMore
        <5> QED BY <5>1, <5>7
      <4>3. \A i \in Nat : i \in I
        <5> HIDE DEF I
        <5> QED BY <4>1, <4>2, SetInduction
      <4> QED BY <4>3
    <3>13. PICK T : T = {V[i] : i \in 0..k}
      OBVIOUS
    <3>14. views \in Seq(T) /\ Len(views) = k + 1 /\ views # <<>>
      <4>1. PICK c \in Nat : c = k + 1 /\ c >= 1
        OBVIOUS
      <4>2. \A i \in 1..c : i - 1 \in 0..k
        BY <4>1
      <4>3. \A i \in 1..c : V[i - 1] \in T
        BY <4>2, <3>13
      <4>4. views = [i \in 1..c |-> V[i - 1]]
        BY <4>1, <3>8
      <4>5. views \in [1..c -> T]
        BY <4>3, <4>4
      <4>6. views \in Seq(T) /\ Len(views) = c
        BY <4>5
      <4>7. views = <<>> => Len(views) = 0
        OBVIOUS
      <4> QED BY <4>1, <4>6, <4>7
    <3>15. Last(views) = V[k]
      <4>1. views[k + 1] = V[k + 1 - 1]
        BY <3>8
      <4> QED BY <4>1, <3>14 DEF Last
    <3>16. Removal(view, h, q, k, views, r, m)
      BY <3>1, <3>2, <3>5, <3>12, <3>15 DEF Removal
    <3>17. PICK x : /\ o = Outcome(Append(views, x), answer)
                    /\ Tidy(x) /\ SameMap(view, x) /\ \E g : QueueIs(x, g, r)
      BY <3>9, <3>16, FinishIs
    <3>18. views \in Seq(T) /\ views # <<>>
      BY <3>14
    <3>19. o.reply = answer /\ LeavesQueue(view, o, r)
      BY <3>17, <3>18, WritesIs
    <3> QED BY <3>1, <3>2, <3>6, <3>19
  <2> QED BY <2>8, <2>9
<1> QED BY <1>3, <1>8, <1>9

-----------------------------------------------------------------------------
(* The contents of a view.                                                 *)

\* The keys the map of a view holds, and their weights.
Held(view) == {pk \in MapKey : MapAt(pk) \in DOMAIN view}

WeightAt(view, pk) == view[MapAt(pk)].data[1]

WeightsOf(view) == {[at |-> pk, weight |-> WeightAt(view, pk)] : pk \in Held(view)}

\* A stored weight is positive, and what is read is the stored weight or zero.
LEMMA WeightRead ==
  ASSUME NEW view, Tidy(view), NEW pk \in MapKey
  PROVE  /\ pk \in Held(view) => /\ WeightAt(view, pk) \in 1..MaxWeight
                                 /\ Read(view, MapP, Encoded[pk]).data[1] = WeightAt(view, pk)
                                 /\ read_weight(view, MapP, Encoded[pk]) = WeightAt(view, pk)
         /\ pk \notin Held(view) => read_weight(view, MapP, Encoded[pk]) = 0
<1>1. Has(view, MapP, Encoded[pk]) <=> pk \in Held(view)
  BY DEF Has, Held, MapAt
<1>2. CASE pk \in Held(view)
  <2>1. PICK w \in 1..MaxWeight : view[MapAt(pk)] = Value(WeightBytes, <<w>>)
    BY <1>2 DEF Held, Tidy, Weighs
  <2>2. WeightAt(view, pk) = w
    BY <2>1 DEF WeightAt, Value
  <2>3. Read(view, MapP, Encoded[pk]) = view[MapAt(pk)]
    BY DEF Read, MapAt
  <2> QED BY <2>2, <2>3, <1>1, <1>2 DEF read_weight, WeightAt
<1>3. CASE pk \notin Held(view)
  BY <1>1, <1>3 DEF read_weight
<1> QED BY <1>2, <1>3

\* The map's own keys are the encoded keys it holds.
LEMMA OwnedMap ==
  ASSUME NEW view, Tidy(view)
  PROVE  /\ \A pk \in Held(view) : Encoded[pk] \in Owned(view, MapP)
         /\ \A k \in Owned(view, MapP) : \E pk \in Held(view) : k = Encoded[pk]
<1>1. Owned(view, MapP) = {a \in Key : MapP \o a \in DOMAIN view}
  BY PrefixesApart, OwnedIs DEF Tidy
<1>2. ASSUME NEW pk \in Held(view) PROVE Encoded[pk] \in Owned(view, MapP)
  <2>1. pk \in MapKey /\ MapAt(pk) \in DOMAIN view
    BY DEF Held
  <2>2. PICK e \in Key : e = Encoded[pk]
    BY <2>1, MapAtIs
  <2>3. MapP \o e \in DOMAIN view
    BY <2>1, <2>2 DEF MapAt
  <2> QED BY <2>2, <2>3, <1>1
<1>3. ASSUME NEW k \in Owned(view, MapP) PROVE \E pk \in Held(view) : k = Encoded[pk]
  <2>1. PICK a \in Key : a = k /\ MapP \o a \in DOMAIN view
    BY <1>1
  <2>2. PICK p : p = MapP \o a
    OBVIOUS
  <2>3. p \in Key /\ IsPrefix(MapP, p) /\ p \in DOMAIN view
    BY <2>1, <2>2, PrefixesApart, CatIs, CatStrips
  <2>4. (\E pk \in MapKey : p = MapAt(pk)) \/ (\E b \in Key : p = QueueAt(b))
    BY <2>3 DEF Tidy
  <2>5. ~ \E b \in Key : p = QueueAt(b)
    BY <2>3, QueueAtIs
  <2>6. PICK pk \in MapKey : p = MapAt(pk)
    BY <2>4, <2>5
  <2>7. PICK e \in Key : e = Encoded[pk]
    BY MapAtIs
  <2>8. MapP \o a = MapP \o e
    BY <2>2, <2>6, <2>7 DEF MapAt
  <2>9. a = e
    BY <2>8, PrefixesApart, CatCancels
  <2> QED BY <2>1, <2>3, <2>6, <2>7, <2>9 DEF Held
<1> QED BY <1>2, <1>3

\* The map's keys as pairs.
LEMMA MapKeysAre ==
  ASSUME NEW view, Tidy(view)
  PROVE  MapKeys(view) = Held(view)
<1>1. ASSUME NEW pk \in MapKey PROVE <<Decoded[Encoded[pk]].partition, Decoded[Encoded[pk]].key>> = pk
  BY MapAtIs
<1>2. ASSUME NEW pk \in Held(view) PROVE pk \in MapKeys(view)
  <2>1. pk \in MapKey
    BY DEF Held
  <2>2. PICK k \in Owned(view, MapP) : k = Encoded[pk]
    BY OwnedMap
  <2>3. <<Decoded[k].partition, Decoded[k].key>> = pk
    BY <2>1, <2>2, <1>1
  <2> QED BY <2>3 DEF MapKeys
<1>3. ASSUME NEW pk \in MapKeys(view) PROVE pk \in Held(view)
  <2>1. PICK k \in Owned(view, MapP) : pk = <<Decoded[k].partition, Decoded[k].key>>
    BY <1>3 DEF MapKeys
  <2>2. PICK other \in Held(view) : k = Encoded[other]
    BY OwnedMap
  <2>3. other \in MapKey
    BY DEF Held
  <2>4. pk = other
    BY <2>1, <2>2, <2>3, <1>1
  <2> QED BY <2>4
<1> QED BY <1>2, <1>3

\* The queue's values are read back in order.
LEMMA FifoIs ==
  ASSUME NEW view, Tidy(view), NEW h, NEW q, QueueIs(view, h, q)
  PROVE  Fifo(view) = q
<1>1. h \in Nat /\ q \in Seq(Payload)
  BY DEF QueueIs
<1>2. PICK L \in Nat : L = Len(q)
  BY <1>1, PayloadIs
<1>3. PICK m : m = read_metadata(view, QueueP).metadata
  OBVIOUS
<1>4. m.head = h /\ m.tail = h + L
  <2>1. m = Metadata(h, h + L, BytesOf(q))
    BY <1>2, <1>3, MetadataRead
  <2> QED BY <2>1 DEF Metadata
<1>5. m.tail - m.head = L
  BY <1>1, <1>4
<1>6. Fifo(view) = [i \in 1..(m.tail - m.head) |->
                      IF Has(view, QueueP, encode_sequence(m.head + i - 1))
                      THEN Read(view, QueueP, encode_sequence(m.head + i - 1))
                      ELSE Value(0, <<>>)]
  BY <1>3 DEF Fifo
<1>7. ASSUME NEW i \in 1..L
      PROVE (IF Has(view, QueueP, encode_sequence(m.head + i - 1))
             THEN Read(view, QueueP, encode_sequence(m.head + i - 1))
             ELSE Value(0, <<>>)) = q[i]
  <2>1. i \in 1..Len(q)
    BY <1>2
  <2>2. QueueAt(encode_sequence(h + i - 1)) \in DOMAIN view /\ view[QueueAt(encode_sequence(h + i - 1))] = q[i]
    BY <2>1, HeldSlot
  <2> QED BY <2>2, <1>4 DEF Has, Read, QueueAt
<1>8. Fifo(view) = [i \in 1..L |-> q[i]]
  BY <1>5, <1>6, <1>7
<1>9. q = [i \in 1..L |-> q[i]]
  BY <1>1, <1>2
<1> QED BY <1>8, <1>9

\* What a view stands for.
LEMMA ContentsAre ==
  ASSUME NEW view, Tidy(view), NEW h, NEW q, QueueIs(view, h, q)
  PROVE  Contents(view) = [fifo |-> q, weights |-> WeightsOf(view)]
<1>1. PICK W : W = {[at |-> <<Decoded[k].partition, Decoded[k].key>>,
                     weight |-> Read(view, MapP, k).data[1]] : k \in Owned(view, MapP)}
  OBVIOUS
<1>2. ASSUME NEW pk \in Held(view)
      PROVE  [at |-> <<Decoded[Encoded[pk]].partition, Decoded[Encoded[pk]].key>>,
              weight |-> Read(view, MapP, Encoded[pk]).data[1]] = [at |-> pk, weight |-> WeightAt(view, pk)]
  <2>1. pk \in MapKey
    BY DEF Held
  <2>2. <<Decoded[Encoded[pk]].partition, Decoded[Encoded[pk]].key>> = pk
    BY <2>1, MapAtIs
  <2>3. Read(view, MapP, Encoded[pk]).data[1] = WeightAt(view, pk)
    BY <2>1, WeightRead
  <2> QED BY <2>2, <2>3
<1>3. ASSUME NEW pk \in Held(view) PROVE [at |-> pk, weight |-> WeightAt(view, pk)] \in W
  <2>1. PICK k \in Owned(view, MapP) : k = Encoded[pk]
    BY OwnedMap
  <2>2. [at |-> <<Decoded[k].partition, Decoded[k].key>>, weight |-> Read(view, MapP, k).data[1]]
          = [at |-> pk, weight |-> WeightAt(view, pk)]
    BY <2>1, <1>2
  <2>3. [at |-> <<Decoded[k].partition, Decoded[k].key>>, weight |-> Read(view, MapP, k).data[1]] \in W
    BY <1>1
  <2> QED BY <2>2, <2>3
<1>4. ASSUME NEW w \in W PROVE w \in WeightsOf(view)
  <2>1. PICK k \in Owned(view, MapP) : w = [at |-> <<Decoded[k].partition, Decoded[k].key>>,
                                            weight |-> Read(view, MapP, k).data[1]]
    BY <1>1, <1>4
  <2>2. PICK pk \in Held(view) : k = Encoded[pk]
    BY OwnedMap
  <2>3. w = [at |-> pk, weight |-> WeightAt(view, pk)]
    BY <2>1, <2>2, <1>2
  <2> QED BY <2>3 DEF WeightsOf
<1>5. WeightsOf(view) = W
  BY <1>3, <1>4 DEF WeightsOf
<1>6. Contents(view) = [fifo |-> Fifo(view), weights |-> W]
  BY <1>1 DEF Contents
<1> QED BY <1>5, <1>6, FifoIs

\* Views with the same map hold the same keys with the same weights.
LEMMA SameWeights ==
  ASSUME NEW v, NEW w, SameMap(v, w)
  PROVE  Held(v) = Held(w) /\ WeightsOf(v) = WeightsOf(w)
<1>1. Held(v) = Held(w)
  BY DEF Held, SameMap
<1>2. \A pk \in Held(v) : WeightAt(v, pk) = WeightAt(w, pk)
  BY DEF Held, SameMap, WeightAt
<1> QED BY <1>1, <1>2 DEF WeightsOf

\* What the contract reads as the weight of a key.
LEMMA ContractWeight ==
  ASSUME NEW view, Tidy(view), NEW pk \in MapKey, NEW c, c.weights = WeightsOf(view)
  PROVE  Contract!WeightOf(c, pk) = read_weight(view, MapP, Encoded[pk])
<1>1. PICK held : held = {w \in c.weights : w.at = pk}
  OBVIOUS
<1>2. Contract!WeightOf(c, pk) = IF held = {} THEN 0 ELSE (CHOOSE w \in held : TRUE).weight
  BY <1>1 DEF Contract!WeightOf
<1>3. CASE pk \in Held(view)
  <2>1. PICK one : one = [at |-> pk, weight |-> WeightAt(view, pk)]
    OBVIOUS
  <2>2. one \in held
    BY <2>1, <1>1, <1>3 DEF WeightsOf
  <2>3. \A w \in held : w = one
    BY <2>1, <1>1 DEF WeightsOf
  <2>4. (CHOOSE w \in held : TRUE) = one
    BY <2>2, <2>3
  <2>5. Contract!WeightOf(c, pk) = one.weight
    BY <2>2, <2>4, <1>2
  <2> QED BY <2>1, <2>5, <1>3, WeightRead
<1>4. CASE pk \notin Held(view)
  <2>1. held = {}
    BY <1>1, <1>4 DEF WeightsOf
  <2> QED BY <2>1, <1>2, <1>4, WeightRead
<1> QED BY <1>3, <1>4

\* The weights after one is set.
WeightSet(W, pk, n) == {w \in W : w.at # pk} \cup (IF n = 0 THEN {} ELSE {[at |-> pk, weight |-> n]})

\* What set_encoded does to the contents.
LEMMA SetLeaves ==
  ASSUME NEW view, Tidy(view), NEW pk \in MapKey, NEW n \in 0..MaxWeight,
         NEW w, w = set_encoded(view, MapP, Encoded[pk], n)
  PROVE  /\ Tidy(w) /\ WeightsOf(w) = WeightSet(WeightsOf(view), pk, n)
         /\ \A h, q : QueueIs(view, h, q) => QueueIs(w, h, q)
<1>1. /\ Tidy(w) /\ SameQueue(view, w)
      /\ MapAt(pk) \in DOMAIN w <=> n # 0
      /\ n # 0 => w[MapAt(pk)] = Value(WeightBytes, <<n>>)
      /\ \A other \in MapKey : other # pk =>
           /\ MapAt(other) \in DOMAIN view <=> MapAt(other) \in DOMAIN w
           /\ MapAt(other) \in DOMAIN view => view[MapAt(other)] = w[MapAt(other)]
  BY SetMap
<1>2. \A other \in MapKey : other # pk =>
        /\ other \in Held(view) <=> other \in Held(w)
        /\ other \in Held(view) => WeightAt(view, other) = WeightAt(w, other)
  BY <1>1 DEF Held, WeightAt
<1>3. pk \in Held(w) <=> n # 0
  BY <1>1 DEF Held
<1>4. n # 0 => WeightAt(w, pk) = n
  BY <1>1 DEF WeightAt, Value
<1>5. ASSUME NEW x \in WeightsOf(w) PROVE x \in WeightSet(WeightsOf(view), pk, n)
  <2>1. PICK other \in Held(w) : x = [at |-> other, weight |-> WeightAt(w, other)]
    BY <1>5 DEF WeightsOf
  <2>2. other \in MapKey /\ x.at = other
    BY <2>1 DEF Held
  <2>3. CASE other = pk
    BY <2>1, <2>3, <1>3, <1>4 DEF WeightSet
  <2>4. CASE other # pk
    <3>1. other \in Held(view) /\ x = [at |-> other, weight |-> WeightAt(view, other)]
      BY <2>1, <2>2, <2>4, <1>2
    <3>2. x \in WeightsOf(view)
      BY <3>1 DEF WeightsOf
    <3> QED BY <3>2, <2>2, <2>4 DEF WeightSet
  <2> QED BY <2>3, <2>4
<1>6. ASSUME NEW x \in WeightSet(WeightsOf(view), pk, n) PROVE x \in WeightsOf(w)
  <2>1. CASE x \in WeightsOf(view) /\ x.at # pk
    <3>1. PICK other \in Held(view) : x = [at |-> other, weight |-> WeightAt(view, other)]
      BY <2>1 DEF WeightsOf
    <3>2. other \in MapKey /\ other # pk
      BY <2>1, <3>1 DEF Held
    <3>3. other \in Held(w) /\ x = [at |-> other, weight |-> WeightAt(w, other)]
      BY <3>1, <3>2, <1>2
    <3> QED BY <3>3 DEF WeightsOf
  <2>2. CASE n # 0 /\ x = [at |-> pk, weight |-> n]
    BY <2>2, <1>3, <1>4 DEF WeightsOf
  <2> QED BY <2>1, <2>2, <1>6 DEF WeightSet
<1>7. WeightsOf(w) = WeightSet(WeightsOf(view), pk, n)
  BY <1>5, <1>6
<1>8. ASSUME NEW h, NEW q, QueueIs(view, h, q) PROVE QueueIs(w, h, q)
  <2>0. q \in Seq(Payload) /\ h \in Nat /\ Len(q) \in Nat
    BY <1>8, PayloadIs DEF QueueIs
  <2>1. \A a \in Key : QueueAt(a) \in DOMAIN w <=> QueueAt(a) \in DOMAIN view
    BY <1>1 DEF SameQueue
  <2>2. q # <<>> => w[QueueAt(MetadataKey)] = view[QueueAt(MetadataKey)]
    <3>1. MetadataKey \in Key
      BY SequenceKeys
    <3>2. q # <<>> => QueueAt(MetadataKey) \in DOMAIN view
      BY <3>1, <1>8 DEF QueueIs
    <3> QED BY <3>1, <3>2, <1>1 DEF SameQueue
  <2>3. ASSUME NEW i \in 1..Len(q) PROVE w[Slot(h + i - 1)] = q[i]
    <3>1. PICK a \in Key : /\ a = encode_sequence(h + i - 1)
                           /\ QueueAt(a) \in DOMAIN view /\ view[QueueAt(a)] = q[i]
      BY <1>8, HeldSlot
    <3>2. w[QueueAt(a)] = q[i]
      BY <3>1, <1>1 DEF SameQueue
    <3> QED BY <3>1, <3>2 DEF Slot
  <2> QED BY <2>1, <2>2, <2>3, <1>8 DEF QueueIs
<1> QED BY <1>1, <1>7, <1>8

\* The call leaves pk with weight n, the other weights and the queue as they were.
LeavesMap(view, o, pk, n) ==
  /\ Tidy(Last(o.views)) /\ WeightsOf(Last(o.views)) = WeightSet(WeightsOf(view), pk, n)
  /\ \A h, q : QueueIs(view, h, q) => QueueIs(Last(o.views), h, q)
  /\ ~(Len(o.views) > 1) => Last(o.views) = view

\* A call whose only write leaves x.
LEMMA OneWrite ==
  ASSUME NEW view, NEW x, NEW answer, NEW o, o = Outcome(<<view, x>>, answer)
  PROVE  o.reply = answer /\ Last(o.views) = x /\ Len(o.views) > 1
<1>1. o.reply = answer /\ o.views = <<view, x>>
  BY DEF Outcome
<1>2. Len(<<view, x>>) = 2 /\ <<view, x>>[2] = x
  OBVIOUS
<1>3. PICK vs : vs = <<view, x>>
  OBVIOUS
<1>4. Len(vs) = 2 /\ vs[2] = x /\ o.views = vs
  BY <1>1, <1>2, <1>3
<1>5. Last(vs) = x /\ Len(vs) > 1
  BY <1>4 DEF Last
<1> QED BY <1>1, <1>4, <1>5

\* What a weight is set to is what the map holds.
LEMMA SetCall ==
  ASSUME NEW view, Tidy(view), NEW pk \in MapKey, NEW n \in 0..MaxWeight, NEW answer,
         NEW o, o = Outcome(<<view, set_encoded(view, MapP, Encoded[pk], n)>>, answer)
  PROVE  o.reply = answer /\ LeavesMap(view, o, pk, n)
<1>1. PICK w : w = set_encoded(view, MapP, Encoded[pk], n)
  OBVIOUS
<1>2. o.reply = answer /\ Last(o.views) = w /\ Len(o.views) > 1
  <2>1. o = Outcome(<<view, w>>, answer)
    BY <1>1
  <2> QED BY <2>1, OneWrite
<1>3. /\ Tidy(w) /\ WeightsOf(w) = WeightSet(WeightsOf(view), pk, n)
      /\ \A h, q : QueueIs(view, h, q) => QueueIs(w, h, q)
  BY <1>1, SetLeaves
<1> QED BY <1>2, <1>3 DEF LeavesMap

\* Setting a weight to what it is changes nothing.
LEMMA SetSame ==
  ASSUME NEW view, Tidy(view), NEW pk \in MapKey
  PROVE  WeightSet(WeightsOf(view), pk, read_weight(view, MapP, Encoded[pk])) = WeightsOf(view)
<1>1. PICK n : n = read_weight(view, MapP, Encoded[pk])
  OBVIOUS
<1>2. CASE pk \in Held(view)
  <2>1. n = WeightAt(view, pk) /\ n \in 1..MaxWeight
    BY <1>1, <1>2, WeightRead
  <2>2. n # 0
    BY <2>1
  <2>3. [at |-> pk, weight |-> n] \in WeightsOf(view)
    BY <2>1, <1>2 DEF WeightsOf
  <2>4. ASSUME NEW x \in WeightsOf(view), x.at = pk PROVE x = [at |-> pk, weight |-> n]
    <3>1. PICK other \in Held(view) : x = [at |-> other, weight |-> WeightAt(view, other)]
      BY <2>4 DEF WeightsOf
    <3>2. other = pk
      BY <2>4, <3>1
    <3> QED BY <3>1, <3>2, <2>1
  <2>5. WeightSet(WeightsOf(view), pk, n) = {w \in WeightsOf(view) : w.at # pk} \cup {[at |-> pk, weight |-> n]}
    BY <2>2 DEF WeightSet
  <2> QED BY <2>3, <2>4, <2>5, <1>1
<1>3. CASE pk \notin Held(view)
  <2>1. n = 0
    BY <1>1, <1>3, WeightRead
  <2>2. \A x \in WeightsOf(view) : x.at # pk
    BY <1>3 DEF WeightsOf
  <2>3. WeightSet(WeightsOf(view), pk, n) = {w \in WeightsOf(view) : w.at # pk}
    BY <2>1 DEF WeightSet
  <2> QED BY <2>2, <2>3, <1>1
<1> QED BY <1>2, <1>3

\* The difference d takes the weight of pk from before to after, if it may.
Adjusts(view, o, pk, d, before, after) ==
  /\ before = read_weight(view, MapP, Encoded[pk]) /\ after = before + d
  /\ \/ after < 0 /\ o.reply = Reply("underflow", <<>>)
     \/ after > MaxWeight /\ o.reply = Reply("overflow", <<>>)
     \/ after \in 0..MaxWeight /\ o.reply = Reply("change", <<before, after>>) /\ LeavesMap(view, o, pk, after)

\* What adjust_encoded answers and leaves.
LEMMA AdjustLeaves ==
  ASSUME NEW view, Tidy(view), NEW pk \in MapKey, NEW d \in Int,
         NEW o, o = adjust_encoded(view, MapP, Encoded[pk], d)
  PROVE  \E before \in 0..MaxWeight, after \in Int : Adjusts(view, o, pk, d, before, after)
<1>0. MaxWeight \in Nat
  BY NamespaceAssumption
<1>1. PICK before \in 0..MaxWeight : before = read_weight(view, MapP, Encoded[pk])
  <2>1. \A n \in 1..MaxWeight : n \in 0..MaxWeight
    BY <1>0
  <2>2. 0 \in 0..MaxWeight
    BY <1>0
  <2> QED BY <2>1, <2>2, WeightRead
<1>2. PICK after \in Int : after = before + d
  BY <1>0
<1>3. PICK answer : answer = Reply("change", <<before, after>>)
  OBVIOUS
<1>4. o = CASE after < 0         -> Unchanged(view, Reply("underflow", <<>>))
            [] after > MaxWeight -> Unchanged(view, Reply("overflow", <<>>))
            [] after = before    -> Unchanged(view, answer)
            [] OTHER -> Outcome(<<view, set_encoded(view, MapP, Encoded[pk], after)>>, answer)
  BY <1>1, <1>2, <1>3 DEF adjust_encoded
<1>5. CASE after < 0
  <2>1. ~(after > MaxWeight) /\ after # before
    BY <1>0, <1>5
  <2>2. o = Unchanged(view, Reply("underflow", <<>>))
    BY <2>1, <1>4, <1>5
  <2> QED BY <2>2, <1>1, <1>2, <1>5, UnchangedIs DEF Adjusts
<1>6. CASE after > MaxWeight
  <2>1. ~(after < 0) /\ after # before
    BY <1>0, <1>6
  <2>2. o = Unchanged(view, Reply("overflow", <<>>))
    BY <2>1, <1>4, <1>6
  <2> QED BY <2>2, <1>1, <1>2, <1>6, UnchangedIs DEF Adjusts
<1>7. CASE ~(after < 0) /\ ~(after > MaxWeight)
  <2>1. after \in 0..MaxWeight
    BY <1>0, <1>7
  <2>2. o.reply = answer /\ LeavesMap(view, o, pk, after)
    <3>1. CASE after = before
      <4>1. o = Unchanged(view, answer)
        BY <3>1, <1>4, <1>7
      <4>2. o.reply = answer /\ Last(o.views) = view
        BY <4>1, UnchangedIs
      <4>3. WeightSet(WeightsOf(view), pk, after) = WeightsOf(view)
        BY <3>1, <1>1, SetSame
      <4> QED BY <4>2, <4>3 DEF LeavesMap
    <3>2. CASE after # before
      <4>1. o = Outcome(<<view, set_encoded(view, MapP, Encoded[pk], after)>>, answer)
        BY <3>2, <1>4, <1>7
      <4> QED BY <4>1, <2>1, SetCall
    <3> QED BY <3>1, <3>2
  <2> QED BY <2>1, <2>2, <1>1, <1>2, <1>3 DEF Adjusts
<1> QED BY <1>5, <1>6, <1>7

\* The keys of a partition are those that begin with its framing.
LEMMA PartitionKeys ==
  ASSUME NEW view, Tidy(view), NEW p \in Key, NEW keys,
         keys = {k \in Owned(view, MapP) : IsPrefix(partition_prefix(p), k)}
  PROVE  /\ \A pk \in Held(view) : pk[1] = p => Encoded[pk] \in keys
         /\ \A k \in keys : k \in Key /\ \E pk \in Held(view) : pk[1] = p /\ k = Encoded[pk]
<1>1. ASSUME NEW pk \in Held(view)
      PROVE  /\ pk \in MapKey /\ Encoded[pk] \in Key
             /\ IsPrefix(partition_prefix(p), Encoded[pk]) <=> pk[1] = p
  <2>1. pk \in MapKey
    BY DEF Held
  <2>2. PICK a \in Key : a = pk[1]
    BY <2>1, MapAtIs
  <2>3. PICK b \in Key : b = pk[2]
    BY <2>1, MapAtIs
  <2>4. Encoded[pk] = encode_key(a, b) /\ Encoded[pk] \in Key
    BY <2>1, <2>2, <2>3, MapAtIs
  <2>5. IsPrefix(partition_prefix(p), encode_key(a, b)) => p = a
    BY EncodedApart
  <2>6. IsPrefix(partition_prefix(a), encode_key(a, b))
    BY EncodedKey
  <2> QED BY <2>1, <2>2, <2>4, <2>5, <2>6
<1> QED BY <1>1, OwnedMap

\* Whether a partition is empty.
LEMMA PartitionEmpty ==
  ASSUME NEW view, Tidy(view), NEW p \in Key
  PROVE  namespace_is_empty(view, MapP, partition_prefix(p), <<>>) <=> \A pk \in Held(view) : pk[1] # p
<1>1. PICK keys : keys = {k \in Owned(view, MapP) : IsPrefix(partition_prefix(p), k)}
  OBVIOUS
<1>2. namespace_is_empty(view, MapP, partition_prefix(p), <<>>)
        <=> keys \ {k \in {j \in keys : \A other \in keys : LexLeq(j, other)} : FALSE /\ k = partition_prefix(p) \o <<>>[1]} = {}
  BY <1>1 DEF namespace_is_empty
<1>3. namespace_is_empty(view, MapP, partition_prefix(p), <<>>) <=> keys = {}
  BY <1>2
<1>4. /\ \A pk \in Held(view) : pk[1] = p => Encoded[pk] \in keys
      /\ \A k \in keys : k \in Key /\ \E pk \in Held(view) : pk[1] = p /\ k = Encoded[pk]
  BY <1>1, PartitionKeys
<1> QED BY <1>3, <1>4

\* Whether a partition holds a key other than pk.
LEMMA PartitionOther ==
  ASSUME NEW view, Tidy(view), NEW pk \in MapKey
  PROVE  namespace_is_empty(view, MapP, partition_prefix(pk[1]), <<pk[2]>>)
           <=> \A other \in Held(view) : other[1] = pk[1] => other = pk
<1>1. PICK p \in Key : p = pk[1]
  BY MapAtIs
<1>2. PICK a \in Key : a = pk[2]
  BY MapAtIs
<1>3. PICK keys : keys = {k \in Owned(view, MapP) : IsPrefix(partition_prefix(p), k)}
  OBVIOUS
<1>4. PICK skip : skip = {k \in {j \in keys : \A other \in keys : LexLeq(j, other)} : k = partition_prefix(p) \o a}
  OBVIOUS
<1>5. namespace_is_empty(view, MapP, partition_prefix(p), <<a>>) <=> keys \ skip = {}
  <2>1. PICK ex : ex = <<a>>
    OBVIOUS
  <2>2. ex # <<>> /\ ex[1] = a
    BY <2>1
  <2>3. namespace_is_empty(view, MapP, partition_prefix(p), ex)
        <=> keys \ {k \in {j \in keys : \A other \in keys : LexLeq(j, other)} :
                      ex # <<>> /\ k = partition_prefix(p) \o ex[1]} = {}
    BY <1>3 DEF namespace_is_empty
  <2>4. {k \in {j \in keys : \A other \in keys : LexLeq(j, other)} : ex # <<>> /\ k = partition_prefix(p) \o ex[1]} = skip
    BY <2>2, <1>4
  <2> QED BY <2>1, <2>3, <2>4
<1>6. PICK e : e = Encoded[pk] /\ e = partition_prefix(p) \o a
  BY <1>1, <1>2, MapAtIs DEF encode_key
<1>7. /\ \A other \in Held(view) : other[1] = p => Encoded[other] \in keys
      /\ \A k \in keys : k \in Key /\ \E other \in Held(view) : other[1] = p /\ k = Encoded[other]
  BY <1>3, PartitionKeys
<1>8. \A other \in Held(view) : Encoded[other] = e => other = pk
  BY <1>6, MapAtApart DEF Held, MapAt
<1>9. ASSUME keys \ skip = {}, NEW other \in Held(view), other[1] = p PROVE other = pk
  <2>1. Encoded[other] \in skip
    BY <1>7, <1>9
  <2>2. Encoded[other] = e
    BY <2>1, <1>4, <1>6
  <2> QED BY <2>2, <1>8
<1>10. ASSUME \A other \in Held(view) : other[1] = p => other = pk PROVE keys \ skip = {}
  <2>1. \A k \in keys : k = e
    BY <1>6, <1>7, <1>10
  <2>2. \A k \in keys : \A other \in keys : LexLeq(k, other)
    BY <2>1 DEF LexLeq
  <2> QED BY <2>1, <2>2, <1>4, <1>6
<1> QED BY <1>1, <1>2, <1>5, <1>9, <1>10

-----------------------------------------------------------------------------
(* Bounds.                                                                 *)

\* A bound as the scans build it.
Bounds(b) == b = <<>> \/ \E k \in Key, i \in BOOLEAN : b = <<[key |-> k, inclusive |-> i]>>

\* What a bound of one key admits.
LEMMA BoundIs ==
  ASSUME NEW k \in Key, NEW i \in BOOLEAN, NEW b, b = <<[key |-> k, inclusive |-> i]>>
  PROVE  /\ b # <<>> /\ b[1].key = k /\ b[1].inclusive = i /\ IsBound(b) /\ Bounds(b) /\ b[1] = [key |-> k, inclusive |-> i]
         /\ \A x : within_lower(x, b) <=> LexLess(k, x) \/ (x = k /\ i)
         /\ \A x : within_upper(x, b) <=> LexLess(x, k) \/ (x = k /\ i)
<1>1. PICK rec : rec = [key |-> k, inclusive |-> i]
  OBVIOUS
<1>2. b = <<rec>>
  BY <1>1
<1>3. b # <<>> /\ b[1] = rec /\ Len(b) = 1
  BY <1>2
<1>4. rec.key = k /\ rec.inclusive = i
  BY <1>1
<1>5. IsBound(b)
  BY <1>3, <1>4 DEF IsBound
<1>6. Bounds(b)
  BY DEF Bounds
<1> QED BY <1>1, <1>3, <1>4, <1>5, <1>6 DEF within_lower, within_upper

\* No bound admits everything.
LEMMA NoBound ==
  /\ IsBound(<<>>) /\ Bounds(<<>>) /\ \A x : within_lower(x, <<>>) /\ within_upper(x, <<>>)
BY DEF IsBound, Bounds, within_lower, within_upper

\* Every bound the scans build is one.
LEMMA BoundsAre ==
  ASSUME NEW b, Bounds(b)
  PROVE  IsBound(b) /\ <<>> \o b = b /\ b \o <<>> = b
<1>1. CASE b = <<>>
  BY <1>1, NoBound
<1>2. CASE b # <<>>
  <2>1. PICK k \in Key, i \in BOOLEAN : b = <<[key |-> k, inclusive |-> i]>>
    BY <1>2 DEF Bounds
  <2>2. PICK rec : rec = [key |-> k, inclusive |-> i]
    OBVIOUS
  <2>3. b = <<rec>>
    BY <2>1, <2>2
  <2>4. <<>> \o <<rec>> = <<rec>> /\ <<rec>> \o <<>> = <<rec>>
    OBVIOUS
  <2> QED BY <2>1, <2>3, <2>4, BoundIs
<1> QED BY <1>1, <1>2

\* The later of two lower bounds admits what both do.
LEMMA LaterIs ==
  ASSUME NEW left, Bounds(left), NEW right, Bounds(right), NEW both, both = later_bound(left, right)
  PROVE  /\ Bounds(both)
         /\ \A x \in Key : within_lower(x, both) <=> within_lower(x, left) /\ within_lower(x, right)
<1>1. CASE left = <<>> \/ right = <<>>
  <2>1. both = left \o right
    BY <1>1 DEF later_bound
  <2>2. CASE left = <<>>
    <3>1. both = right
      BY <2>1, <2>2, BoundsAre
    <3> QED BY <3>1, <2>2, NoBound
  <2>3. CASE right = <<>>
    <3>1. both = left
      BY <2>1, <2>3, BoundsAre
    <3> QED BY <3>1, <2>3, NoBound
  <2> QED BY <1>1, <2>2, <2>3
<1>2. CASE left # <<>> /\ right # <<>>
  <2>1. PICK a \in Key, i \in BOOLEAN : left = <<[key |-> a, inclusive |-> i]>>
    BY <1>2 DEF Bounds
  <2>2. PICK b \in Key, j \in BOOLEAN : right = <<[key |-> b, inclusive |-> j]>>
    BY <1>2 DEF Bounds
  <2>3. /\ left[1] = [key |-> a, inclusive |-> i] /\ left[1].key = a
        /\ \A x : within_lower(x, left) <=> LexLess(a, x) \/ (x = a /\ i)
    BY <2>1, BoundIs
  <2>4. /\ right[1].key = b /\ right[1].inclusive = j
        /\ \A x : within_lower(x, right) <=> LexLess(b, x) \/ (x = b /\ j)
    BY <2>2, BoundIs
  <2>5. CASE a = b
    <3>1. [left[1] EXCEPT !.inclusive = @ /\ right[1].inclusive] = [key |-> a, inclusive |-> i /\ j]
      BY <2>3, <2>4
    <3>2. both = <<[left[1] EXCEPT !.inclusive = @ /\ right[1].inclusive]>>
      BY <1>2, <2>3, <2>4, <2>5 DEF later_bound
    <3>3. PICK n \in BOOLEAN : n = (i /\ j)
      OBVIOUS
    <3>4. both = <<[key |-> a, inclusive |-> n]>>
      BY <3>1, <3>2, <3>3
    <3>5. Bounds(both) /\ \A x : within_lower(x, both) <=> LexLess(a, x) \/ (x = a /\ n)
      BY <3>4, BoundIs
    <3> QED BY <3>3, <3>5, <2>3, <2>4, <2>5
  <2>6. CASE a # b /\ LexLess(a, b)
    <3>1. both = right
      BY <1>2, <2>3, <2>4, <2>6 DEF later_bound
    <3>2. \A x \in Key : LexLess(b, x) => LexLess(a, x)
      BY <2>6, LexTransitive
    <3> QED BY <3>1, <3>2, <2>3, <2>4, <2>6
  <2>7. CASE a # b /\ ~ LexLess(a, b)
    <3>0. LexLess(b, a)
      BY <2>7, LexTotal
    <3>1. both = left
      BY <1>2, <2>3, <2>4, <2>7 DEF later_bound
    <3>2. \A x \in Key : LexLess(a, x) => LexLess(b, x)
      BY <3>0, LexTransitive
    <3> QED BY <3>0, <3>1, <3>2, <2>3, <2>4, <2>7
  <2> QED BY <2>5, <2>6, <2>7
<1> QED BY <1>1, <1>2

\* The earlier of two upper bounds admits what both do.
LEMMA EarlierIs ==
  ASSUME NEW left, Bounds(left), NEW right, Bounds(right), NEW both, both = earlier_bound(left, right)
  PROVE  /\ Bounds(both)
         /\ \A x \in Key : within_upper(x, both) <=> within_upper(x, left) /\ within_upper(x, right)
<1>1. CASE left = <<>> \/ right = <<>>
  <2>1. both = left \o right
    BY <1>1 DEF earlier_bound
  <2>2. CASE left = <<>>
    <3>1. both = right
      BY <2>1, <2>2, BoundsAre
    <3> QED BY <3>1, <2>2, NoBound
  <2>3. CASE right = <<>>
    <3>1. both = left
      BY <2>1, <2>3, BoundsAre
    <3> QED BY <3>1, <2>3, NoBound
  <2> QED BY <1>1, <2>2, <2>3
<1>2. CASE left # <<>> /\ right # <<>>
  <2>1. PICK a \in Key, i \in BOOLEAN : left = <<[key |-> a, inclusive |-> i]>>
    BY <1>2 DEF Bounds
  <2>2. PICK b \in Key, j \in BOOLEAN : right = <<[key |-> b, inclusive |-> j]>>
    BY <1>2 DEF Bounds
  <2>3. /\ left[1] = [key |-> a, inclusive |-> i] /\ left[1].key = a
        /\ \A x : within_upper(x, left) <=> LexLess(x, a) \/ (x = a /\ i)
    BY <2>1, BoundIs
  <2>4. /\ right[1].key = b /\ right[1].inclusive = j
        /\ \A x : within_upper(x, right) <=> LexLess(x, b) \/ (x = b /\ j)
    BY <2>2, BoundIs
  <2>5. CASE a = b
    <3>1. [left[1] EXCEPT !.inclusive = @ /\ right[1].inclusive] = [key |-> a, inclusive |-> i /\ j]
      BY <2>3, <2>4
    <3>2. both = <<[left[1] EXCEPT !.inclusive = @ /\ right[1].inclusive]>>
      BY <1>2, <2>3, <2>4, <2>5 DEF earlier_bound
    <3>3. PICK n \in BOOLEAN : n = (i /\ j)
      OBVIOUS
    <3>4. both = <<[key |-> a, inclusive |-> n]>>
      BY <3>1, <3>2, <3>3
    <3>5. Bounds(both) /\ \A x : within_upper(x, both) <=> LexLess(x, a) \/ (x = a /\ n)
      BY <3>4, BoundIs
    <3> QED BY <3>3, <3>5, <2>3, <2>4, <2>5
  <2>6. CASE a # b /\ LexLess(a, b)
    <3>1. both = left
      BY <1>2, <2>3, <2>4, <2>6 DEF earlier_bound
    <3>2. \A x \in Key : LexLess(x, a) => LexLess(x, b)
      BY <2>6, LexTransitive
    <3> QED BY <3>1, <3>2, <2>3, <2>4, <2>6
  <2>7. CASE a # b /\ ~ LexLess(a, b)
    <3>0. LexLess(b, a)
      BY <2>7, LexTotal
    <3>1. both = right
      BY <1>2, <2>3, <2>4, <2>7 DEF earlier_bound
    <3>2. \A x \in Key : LexLess(x, b) => LexLess(x, a)
      BY <3>0, LexTransitive
    <3> QED BY <3>0, <3>1, <3>2, <2>3, <2>4, <2>7
  <2> QED BY <2>5, <2>6, <2>7
<1> QED BY <1>1, <1>2

\* A framing ends in a zero.
LEMMA FramingEnds ==
  ASSUME NEW p \in Key, NEW f, f = partition_prefix(p)
  PROVE  f \in Key /\ Len(f) >= 1 /\ f[Len(f)] + 1 \in Byte
<1>1. PICK F : Escapes(p, F)
  BY FramingIs
<1>2. PICK n \in Nat : n = Len(p)
  BY DEF Key
<1>3. PICK a \in Key : a = F[Len(p)]
  <2>1. n \in 0..n
    OBVIOUS
  <2> QED BY <1>1, <1>2, <2>1 DEF Escapes
<1>4. PICK z \in Key : z = <<0, 0>>
  BY ShortKeys
<1>5. Len(z) = 2 /\ z[2] = 0
  BY <1>4
<1>6. f = a \o z
  BY <1>1, <1>3, <1>4 DEF Escapes
<1>7. f \in Key /\ Len(f) = Len(a) + 2 /\ f[Len(a) + 2] = 0
  <2>1. a \o z \in Key /\ Len(a \o z) = Len(a) + Len(z) /\ (a \o z)[Len(a) + 2] = z[2]
    <3>1. 2 \in 1..Len(z)
      BY <1>5
    <3> QED BY <3>1, CatIs
  <2> QED BY <2>1, <1>5, <1>6
<1>8. Len(a) \in Nat
  BY DEF Key
<1>9. f[Len(f)] = 0
  BY <1>7
<1>10. 0 + 1 \in Byte
  BY DEF Byte
<1> QED BY <1>7, <1>8, <1>9, <1>10

-----------------------------------------------------------------------------
(* Pages.                                                                  *)

\* The order in which a scan meets partitioned keys.
PairBefore(asc, a, b) == IF asc THEN KeyBefore(a, b) ELSE KeyBefore(b, a)

\* It is the order of the encoded and of the physical keys.
LEMMA PairOrder ==
  ASSUME NEW a \in MapKey, NEW b \in MapKey, NEW asc \in BOOLEAN
  PROVE  /\ KeyBefore(a, b) <=> LexLess(Encoded[a], Encoded[b])
         /\ PairBefore(asc, a, b) <=> Before(asc, Encoded[a], Encoded[b])
         /\ PairBefore(asc, a, b) <=> Before(asc, MapAt(a), MapAt(b))
<1>1. ASSUME NEW x \in MapKey, NEW y \in MapKey
      PROVE  /\ KeyBefore(x, y) <=> LexLess(Encoded[x], Encoded[y])
             /\ LexLess(MapAt(x), MapAt(y)) <=> LexLess(Encoded[x], Encoded[y])
  <2>1. PICK p \in Key : p = x[1]
    BY MapAtIs
  <2>2. PICK k \in Key : k = x[2]
    BY MapAtIs
  <2>3. PICK q \in Key : q = y[1]
    BY MapAtIs
  <2>4. PICK j \in Key : j = y[2]
    BY MapAtIs
  <2>5. x = <<p, k>> /\ y = <<q, j>> /\ Encoded[x] = encode_key(p, k) /\ Encoded[y] = encode_key(q, j)
    BY <2>1, <2>2, <2>3, <2>4, MapAtIs
  <2>6. KeyBefore(<<p, k>>, <<q, j>>) <=> LexLess(encode_key(p, k), encode_key(q, j))
    BY EncodingOrders
  <2>7. PICK c \in Key : c = Encoded[x]
    BY MapAtIs
  <2>8. PICK d \in Key : d = Encoded[y]
    BY MapAtIs
  <2>9. LexLess(MapP \o c, MapP \o d) <=> LexLess(c, d)
    BY PrefixesApart, LexCancels
  <2> QED BY <2>5, <2>6, <2>7, <2>8, <2>9 DEF MapAt
<1> QED BY <1>1 DEF PairBefore, Before

\* The page holds w, the first keys of T; its continuation is the last of them,
\* and is missing only when none is left.
Shows(page, w, T, asc, stripped) ==
  /\ w \in Seq(T) /\ \A i, j \in 1..Len(w) : i < j => PairBefore(asc, w[i], w[j])
  /\ DOMAIN page.entries = 1..Len(w)
  /\ \A i \in 1..Len(w) : page.entries[i].key = StripPrefix(stripped, Encoded[w[i]])
  /\ page.continuation = <<>> => \A pk \in T : \E i \in 1..Len(w) : w[i] = pk
  /\ page.continuation # <<>> =>
       /\ Len(w) >= 1 /\ page.continuation = <<StripPrefix(stripped, Encoded[w[Len(w)]])>>
       /\ \A pk \in T : (\E i \in 1..Len(w) : w[i] = pk) \/ PairBefore(asc, w[Len(w)], pk)

\* The bounds of a scan admit exactly T.
Bounded(view, lower, upper, T) ==
  /\ Bounds(lower) /\ Bounds(upper) /\ T \subseteq Held(view)
  /\ \A pk \in Held(view) : pk \in T <=> within_lower(Encoded[pk], lower) /\ within_upper(Encoded[pk], upper)

\* The physical keys of T, in order.
Lists(view, keys, n, u, T, asc) ==
  /\ DOMAIN keys = 1..n /\ Len(keys) = n /\ keys \in Seq(DOMAIN view)
  /\ \A i \in 1..n : keys[i] = MapAt(u[i])
  /\ \A i, j \in 1..n : i < j => PairBefore(asc, u[i], u[j])
  /\ \A pk \in T : \E i \in 1..n : u[i] = pk

\* The loop admits them.
LEMMA AdmittedMap ==
  ASSUME NEW view, Tidy(view), NEW asc \in BOOLEAN, NEW lower, NEW upper, NEW T, Bounded(view, lower, upper, T),
         NEW keys, keys = Admitted(view, MapP, asc, lower, upper)
  PROVE  \E n \in Nat : \E u \in [1..n -> T] : Lists(view, keys, n, u, T, asc)
<1>0. T \subseteq MapKey
  BY DEF Bounded, Held
<1>1. PICK S : S = {k \in DOMAIN view : Admits(MapP, lower, upper, k)}
  OBVIOUS
<1>2. ASSUME NEW pk \in MapKey
      PROVE  Admits(MapP, lower, upper, MapAt(pk)) <=> within_lower(Encoded[pk], lower) /\ within_upper(Encoded[pk], upper)
  BY MapAtIs DEF Admits
<1>3. ASSUME NEW k \in S PROVE \E pk \in T : k = MapAt(pk)
  <2>1. k \in DOMAIN view /\ Admits(MapP, lower, upper, k)
    BY <1>1
  <2>2. IsPrefix(MapP, k)
    BY <2>1 DEF Admits
  <2>3. (\E pk \in MapKey : k = MapAt(pk)) \/ (\E a \in Key : k = QueueAt(a))
    BY <2>1 DEF Tidy
  <2>4. ~ \E a \in Key : k = QueueAt(a)
    BY <2>2, QueueAtIs
  <2>5. PICK pk \in MapKey : k = MapAt(pk)
    BY <2>3, <2>4
  <2>6. pk \in Held(view)
    BY <2>1, <2>5 DEF Held
  <2>7. pk \in T
    BY <2>1, <2>5, <2>6, <1>2 DEF Bounded
  <2> QED BY <2>5, <2>7
<1>4. ASSUME NEW pk \in T PROVE MapAt(pk) \in S
  <2>1. pk \in Held(view) /\ pk \in MapKey /\ MapAt(pk) \in DOMAIN view
    BY DEF Bounded, Held
  <2>2. Admits(MapP, lower, upper, MapAt(pk))
    BY <2>1, <1>2 DEF Bounded
  <2> QED BY <2>1, <2>2, <1>1
<1>5. S \subseteq Key /\ IsFiniteSet(S) /\ S \subseteq DOMAIN view
  BY <1>1, FS_Subset DEF Tidy
<1>6. keys = InDirection(S, asc)
  <2>1. DOMAIN view \subseteq Key /\ MapId \in DataId
    BY StoreAssumption DEF Tidy
  <2>2. IsBound(lower) /\ IsBound(upper)
    BY BoundsAre DEF Bounded
  <2>3. PICK id \in DataId : id = MapId
    BY <2>1
  <2>4. Admitted(view, data_prefix(id), asc, lower, upper)
           = InDirection({k \in DOMAIN view : Admits(data_prefix(id), lower, upper, k)}, asc)
    BY <2>1, <2>2, AdmittedIs
  <2>5. MapP = data_prefix(id)
    BY <2>3 DEF MapP
  <2> QED BY <2>4, <2>5, <1>1
<1>7. /\ keys \in Seq(S) /\ DOMAIN keys = 1..Len(keys) /\ Len(keys) \in Nat
      /\ \A i \in 1..Len(keys) : keys[i] \in S
      /\ \A k \in S : \E i \in 1..Len(keys) : keys[i] = k
      /\ \A i, j \in 1..Len(keys) : i < j => Before(asc, keys[i], keys[j])
  BY <1>5, <1>6, DirectionLists
<1>8. PICK n \in Nat : n = Len(keys)
  BY <1>7
<1>9. PICK u : u = [i \in 1..n |-> CHOOSE pk \in T : keys[i] = MapAt(pk)]
  OBVIOUS
<1>10. \A i \in 1..n : u[i] \in T /\ keys[i] = MapAt(u[i])
  <2>1. ASSUME NEW i \in 1..n PROVE u[i] \in T /\ keys[i] = MapAt(u[i])
    <3>1. \E pk \in T : keys[i] = MapAt(pk)
      BY <1>3, <1>7, <1>8
    <3>2. u[i] = CHOOSE pk \in T : keys[i] = MapAt(pk)
      BY <1>9
    <3> QED BY <3>1, <3>2
  <2> QED BY <2>1
<1>11. u \in [1..n -> T]
  BY <1>9, <1>10
<1>12. ASSUME NEW i \in 1..n, NEW j \in 1..n, i < j PROVE PairBefore(asc, u[i], u[j])
  <2>1. u[i] \in MapKey /\ u[j] \in MapKey /\ keys[i] = MapAt(u[i]) /\ keys[j] = MapAt(u[j])
    BY <1>0, <1>10
  <2>2. Before(asc, keys[i], keys[j])
    BY <1>7, <1>8, <1>12
  <2> QED BY <2>1, <2>2, PairOrder
<1>13. ASSUME NEW pk \in T PROVE \E i \in 1..n : u[i] = pk
  <2>1. PICK i \in 1..n : keys[i] = MapAt(pk)
    BY <1>4, <1>7, <1>8
  <2>2. u[i] \in MapKey /\ pk \in MapKey /\ MapAt(u[i]) = MapAt(pk)
    BY <2>1, <1>0, <1>10
  <2>3. u[i] = pk
    BY <2>2, MapAtApart
  <2> QED BY <2>3
<1>14. keys \in Seq(DOMAIN view)
  BY <1>5, <1>7
<1>15. Lists(view, keys, n, u, T, asc)
  BY <1>7, <1>8, <1>10, <1>12, <1>13, <1>14 DEF Lists
<1> QED BY <1>11, <1>15

\* A function defined from each number to the next.
Recurs(f, S, b, n, G) == f \in [0..n -> S] /\ f[0] = b /\ \A i \in 1..n : f[i] = G[i][f[i - 1]]

\* There is one.
LEMMA RecursExists ==
  ASSUME NEW S, NEW b \in S, NEW n \in Nat, NEW G, G \in [1..n -> [S -> S]]
  PROVE  \E f : Recurs(f, S, b, n, G)
<1>1. PICK f \in [0..n -> S] : f[0] = b /\ \A i \in 1..n : f[i] = G[i][f[i - 1]]
  BY Recursion
<1> QED BY <1>1 DEF Recurs

\* The totals of the first costs.
Totals(f, c, n) == f \in [0..n -> Nat] /\ f[0] = 0 /\ \A i \in 1..n : f[i] = f[i - 1] + c[i]

\* There are some.
LEMMA TotalsExist ==
  ASSUME NEW n \in Nat, NEW c \in [1..n -> Nat]
  PROVE  \E f : Totals(f, c, n)
<1>3. PICK G : G = [i \in 1..n |-> [x \in Nat |-> x + c[i]]]
  OBVIOUS
<1>4. G \in [1..n -> [Nat -> Nat]]
  <2>1. ASSUME NEW i \in 1..n PROVE [x \in Nat |-> x + c[i]] \in [Nat -> Nat]
    <3>1. PICK s \in Nat : s = c[i]
      OBVIOUS
    <3>2. \A x \in Nat : x + s \in Nat
      OBVIOUS
    <3> QED BY <3>1, <3>2
  <2> QED BY <1>3, <2>1
<1>5. PICK f \in [0..n -> Nat] : f[0] = 0 /\ \A i \in 1..n : f[i] = G[i][f[i - 1]]
  <2>1. PICK S : S = Nat
    OBVIOUS
  <2>2. PICK b \in S : b = 0
    BY <2>1
  <2>3. G \in [1..n -> [S -> S]]
    BY <1>4, <2>1
  <2>4. PICK f : Recurs(f, S, b, n, G)
    BY <2>3, RecursExists
  <2> QED BY <2>1, <2>2, <2>4 DEF Recurs
<1>6. ASSUME NEW i \in 1..n PROVE f[i] = f[i - 1] + c[i]
  <2>1. i - 1 \in 0..n
    OBVIOUS
  <2>2. f[i - 1] \in Nat
    BY <2>1, <1>5
  <2>3. G[i] = [x \in Nat |-> x + c[i]]
    BY <1>3
  <2> QED BY <2>2, <2>3, <1>5
<1> QED BY <1>5, <1>6 DEF Totals

\* What the page of a scan of the map holds.
LEMMA PageShows ==
  ASSUME NEW view, Tidy(view), NEW asc \in BOOLEAN, NEW lower, NEW upper, NEW T, Bounded(view, lower, upper, T),
         NEW limit \in Limit, NEW stripped,
         NEW page, page = scan_data(view, MapP, asc, lower, upper, limit, stripped), ~ page.error
  PROVE  \E w : Shows(page, w, T, asc, stripped)
<1> DEFINE keys == Admitted(view, MapP, asc, lower, upper)
           cost(i) == Len(StripPrefix(MapP, keys[i])) + view[keys[i]].size
           Fix(e) == e = [m \in 0..Len(keys) |-> IF m = 0 THEN 0 ELSE e[m - 1] + cost(m)]
           total == CHOOSE e : Fix(e)
           fits == {m \in 0..Len(keys) : m <= limit.items /\ total[m] <= limit.bytes}
           taken == CHOOSE m \in fits : \A other \in fits : other <= m
           local(i) == StripPrefix(stripped, StripPrefix(MapP, keys[i]))
<1>1. page = [error |-> taken = 0 /\ keys # <<>>,
              entries |-> [i \in 1..taken |-> [key |-> local(i), data |-> view[keys[i]].data]],
              continuation |-> IF taken < Len(keys) /\ taken > 0 THEN <<local(taken)>> ELSE <<>>]
  BY DEF scan_data
<1>a. PICK n \in Nat : \E u \in [1..n -> T] : Lists(view, keys, n, u, T, asc)
  BY AdmittedMap
<1>b. PICK u \in [1..n -> T] : Lists(view, keys, n, u, T, asc)
  BY <1>a
<1>2. /\ DOMAIN keys = 1..n /\ Len(keys) = n /\ keys \in Seq(DOMAIN view)
      /\ \A i \in 1..n : keys[i] = MapAt(u[i])
      /\ \A i, j \in 1..n : i < j => PairBefore(asc, u[i], u[j])
      /\ \A pk \in T : \E i \in 1..n : u[i] = pk
  <2> HIDE DEF keys
  <2> QED BY <1>b DEF Lists
<1>3. \A i \in 1..n : /\ u[i] \in MapKey /\ u[i] \in T /\ keys[i] \in DOMAIN view
                      /\ StripPrefix(MapP, keys[i]) = Encoded[u[i]] /\ Encoded[u[i]] \in Key
  <2>1. ASSUME NEW i \in 1..n PROVE /\ u[i] \in MapKey /\ u[i] \in T /\ keys[i] \in DOMAIN view
                      /\ StripPrefix(MapP, keys[i]) = Encoded[u[i]] /\ Encoded[u[i]] \in Key
    <3>1. u[i] \in T /\ keys[i] = MapAt(u[i])
      BY <1>2
    <3>2. u[i] \in Held(view)
      BY <3>1 DEF Bounded
    <3>3. u[i] \in MapKey /\ MapAt(u[i]) \in DOMAIN view
      BY <3>2 DEF Held
    <3> HIDE DEF keys
    <3> QED BY <3>1, <3>3, MapAtIs
  <2> QED BY <2>1
<1> HIDE DEF keys
<1>4. limit.items \in Nat /\ limit.bytes \in Nat
  BY StoreAssumption
<1>5. total[0] = 0
  <2>1. ASSUME NEW i \in 1..n PROVE cost(i) \in Nat
    <3>1. PICK e \in Key : e = StripPrefix(MapP, keys[i])
      BY <1>3
    <3>2. Len(e) \in Nat
      BY DEF Key
    <3>3. view[keys[i]].size \in Nat
      BY <1>3 DEF Tidy
    <3> QED BY <3>1, <3>2, <3>3
  <2> HIDE DEF cost
  <2>2. PICK c : c = [i \in 1..n |-> cost(i)]
    OBVIOUS
  <2>3. c \in [1..n -> Nat] /\ \A i \in 1..n : c[i] = cost(i)
    BY <2>1, <2>2
  <2>a. PICK f : Totals(f, c, n)
    BY <2>3, TotalsExist
  <2>4. f \in [0..n -> Nat] /\ f[0] = 0 /\ \A i \in 1..n : f[i] = f[i - 1] + cost(i)
    BY <2>3, <2>a DEF Totals
  <2>5. ASSUME NEW i \in 0..n PROVE f[i] = IF i = 0 THEN 0 ELSE f[i - 1] + cost(i)
    <3>1. CASE i = 0
      BY <3>1, <2>4
    <3>2. CASE i # 0
      <4>1. i \in 1..n
        BY <3>2
      <4>2. f[i] = f[i - 1] + cost(i)
        BY <4>1, <2>4
      <4> QED BY <4>2, <3>2, Zenon
    <3> QED BY <3>1, <3>2
  <2>6. Fix(f)
    <3>1. f = [i \in 0..n |-> f[i]]
      BY <2>4
    <3> QED BY <3>1, <2>5, <1>2
  <2>7. Fix(total)
    <3> HIDE DEF Fix
    <3> QED BY <2>6
  <2> HIDE DEF total
  <2>8. total = [m \in 0..n |-> IF m = 0 THEN 0 ELSE total[m - 1] + cost(m)]
    BY <2>7, <1>2
  <2>9. 0 \in 0..n
    OBVIOUS
  <2> QED BY <2>8, <2>9
<1> HIDE DEF total
<1>6. PICK t \in 0..n : t = taken
  <2>1. 0 \in fits
    BY <1>2, <1>4, <1>5
  <2>2. \A m \in fits : m \in Nat /\ m <= n /\ m \in 0..n
    BY <1>2
  <2> HIDE DEF fits
  <2>3. \E m \in fits : \A other \in fits : other <= m
    <3>1. fits \subseteq Nat /\ fits # {} /\ \A m \in fits : m <= n
      BY <2>1, <2>2
    <3> QED BY <3>1, Greatest
  <2>4. taken \in fits
    BY <2>3
  <2> HIDE DEF taken
  <2> QED BY <2>2, <2>4
<1> HIDE DEF taken
<1>7. /\ page.error <=> t = 0 /\ keys # <<>>
      /\ page.entries = [i \in 1..t |-> [key |-> local(i), data |-> view[keys[i]].data]]
      /\ page.continuation = IF t < n /\ t > 0 THEN <<local(t)>> ELSE <<>>
  <2> HIDE DEF local
  <2>1. PICK e \in BOOLEAN : e = (taken = 0 /\ keys # <<>>)
    OBVIOUS
  <2>2. PICK es : es = [i \in 1..taken |-> [key |-> local(i), data |-> view[keys[i]].data]]
    OBVIOUS
  <2>3. PICK c : c = IF taken < Len(keys) /\ taken > 0 THEN <<local(taken)>> ELSE <<>>
    OBVIOUS
  <2>4. page = [error |-> e, entries |-> es, continuation |-> c]
    BY <1>1, <2>1, <2>2, <2>3, Zenon
  <2>5. page.error = e /\ page.entries = es /\ page.continuation = c
    BY <2>4
  <2>6. page.error <=> t = 0 /\ keys # <<>>
    BY <2>1, <2>5, <1>6
  <2>7. page.entries = [i \in 1..t |-> [key |-> local(i), data |-> view[keys[i]].data]]
    BY <2>2, <2>5, <1>6
  <2>8. page.continuation = IF t < n /\ t > 0 THEN <<local(t)>> ELSE <<>>
    BY <2>3, <2>5, <1>2, <1>6
  <2> QED BY <2>6, <2>7, <2>8
<1>8. t = 0 => n = 0
  <2> HAVE t = 0
  <2>1. keys = <<>>
    BY <1>7
  <2>2. Len(keys) = 0
    BY <2>1
  <2> QED BY <2>2, <1>2
<1>9. t \in Nat /\ t <= n /\ \A i \in 1..t : i \in 1..n
  BY <1>6
<1>10. PICK w : w = [i \in 1..t |-> u[i]]
  OBVIOUS
<1>11. w \in Seq(T) /\ Len(w) = t /\ \A i \in 1..t : w[i] = u[i]
  <2>1. \A i \in 1..t : u[i] \in T
    BY <1>3, <1>9
  <2>2. w \in [1..t -> T]
    BY <2>1, <1>10
  <2>3. PICK m \in Nat : m = t
    BY <1>9
  <2>4. w \in [1..m -> T]
    BY <2>2, <2>3
  <2>5. w \in Seq(T) /\ Len(w) = m
    BY <2>4
  <2> QED BY <2>3, <2>5, <1>10
<1>12. \A i \in 1..t : local(i) = StripPrefix(stripped, Encoded[w[i]])
  BY <1>3, <1>9, <1>11
<1>13. DOMAIN page.entries = 1..t /\ \A i \in 1..t : page.entries[i].key = StripPrefix(stripped, Encoded[w[i]])
  <2> HIDE DEF local
  <2> QED BY <1>7, <1>12
<1>14. ASSUME page.continuation = <<>> PROVE \A pk \in T : \E i \in 1..t : w[i] = pk
  <2>1. ~(t < n /\ t > 0)
    <3> HIDE DEF local
    <3>1. <<local(t)>> # <<>>
      OBVIOUS
    <3>2. page.continuation = IF t < n /\ t > 0 THEN <<local(t)>> ELSE <<>>
      BY <1>7
    <3> QED BY <3>1, <3>2, <1>14, Zenon
  <2>2. t = n
    BY <2>1, <1>8, <1>9
  <2> QED BY <2>2, <1>2, <1>11
<1>15. ASSUME page.continuation # <<>>
       PROVE  /\ t >= 1 /\ page.continuation = <<StripPrefix(stripped, Encoded[w[t]])>>
              /\ \A pk \in T : (\E i \in 1..t : w[i] = pk) \/ PairBefore(asc, w[t], pk)
  <2>1. t < n /\ t > 0 /\ page.continuation = <<local(t)>>
    <3> HIDE DEF local
    <3> QED BY <1>7, <1>15
  <2>2. t >= 1 /\ t \in 1..t /\ t \in 1..n
    BY <2>1, <1>9
  <2>3. page.continuation = <<StripPrefix(stripped, Encoded[w[t]])>>
    <3>1. local(t) = StripPrefix(stripped, Encoded[w[t]])
      BY <2>2, <1>12
    <3> HIDE DEF local
    <3> QED BY <2>1, <3>1
  <2>4. ASSUME NEW pk \in T PROVE (\E i \in 1..t : w[i] = pk) \/ PairBefore(asc, w[t], pk)
    <3>1. PICK i \in 1..n : u[i] = pk
      BY <1>2
    <3>2. CASE i <= t
      BY <3>1, <3>2, <1>9, <1>11
    <3>3. CASE ~(i <= t)
      <4>1. t < i
        BY <3>3, <1>9
      <4>2. PairBefore(asc, u[t], u[i])
        BY <4>1, <2>2, <1>2
      <4> QED BY <4>2, <3>1, <2>2, <1>11
    <3> QED BY <3>2, <3>3
  <2> QED BY <2>2, <2>3, <2>4
<1>16. \A i, j \in 1..t : i < j => PairBefore(asc, w[i], w[j])
  BY <1>2, <1>9, <1>11
<1>17. Shows(page, w, T, asc, stripped)
  <2> HIDE DEF local
  <2> QED BY <1>11, <1>13, <1>14, <1>15, <1>16 DEF Shows
<1> QED BY <1>17

\* Where a scan goes on: at the beginning, or after a key it has met.
Resumes(resume, from) ==
  \/ resume = <<>> /\ from = <<>>
  \/ \E last \in MapKey : from = <<last>> /\ resume = <<Encoded[last]>>

\* The keys of P that are left.
Remaining(P, from, asc) == {pk \in P : from = <<>> \/ PairBefore(asc, from[1], pk)}

\* A page within bounds that admit P, resumed.
LEMMA SuffixPage ==
  ASSUME NEW view, Tidy(view), NEW asc \in BOOLEAN, NEW lower, NEW upper, NEW P, Bounded(view, lower, upper, P),
         NEW resume, NEW from, Resumes(resume, from), NEW limit \in Limit, NEW stripped,
         NEW page, page = scan_key_suffix(view, MapP, asc, lower, upper, resume, limit, stripped), ~ page.error
  PROVE  \E w : Shows(page, w, Remaining(P, from, asc), asc, stripped)
<1>1. PICK after : after = IF resume = <<>> THEN Unbounded ELSE Excluded(resume[1])
  OBVIOUS
<1>2. PICK T : T = Remaining(P, from, asc)
  OBVIOUS
<1>3. /\ Bounds(after)
      /\ \A pk \in MapKey : (from = <<>> \/ PairBefore(asc, from[1], pk))
           <=> IF asc THEN within_lower(Encoded[pk], after) ELSE within_upper(Encoded[pk], after)
  <2>1. CASE resume = <<>> /\ from = <<>>
    BY <2>1, <1>1, NoBound DEF Unbounded
  <2>2. CASE \E last \in MapKey : from = <<last>> /\ resume = <<Encoded[last]>>
    <3>1. PICK last \in MapKey : from = <<last>> /\ resume = <<Encoded[last]>>
      BY <2>2
    <3>2. PICK e \in Key : e = Encoded[last]
      BY MapAtIs
    <3>3. resume # <<>> /\ resume[1] = e /\ from # <<>> /\ from[1] = last
      <4>1. resume = <<e>>
        BY <3>1, <3>2
      <4> QED BY <4>1, <3>1
    <3>4. after = Excluded(e)
      BY <3>3, <1>1
    <3>5. /\ Bounds(after)
          /\ \A x : within_lower(x, after) <=> LexLess(e, x)
          /\ \A x : within_upper(x, after) <=> LexLess(x, e)
      <4>1. after = <<[key |-> e, inclusive |-> FALSE]>>
        BY <3>4 DEF Excluded
      <4>2. PICK no \in BOOLEAN : no = FALSE
        OBVIOUS
      <4>3. after = <<[key |-> e, inclusive |-> no]>>
        BY <4>1, <4>2
      <4>4. /\ Bounds(after)
            /\ \A x : within_lower(x, after) <=> LexLess(e, x) \/ (x = e /\ no)
            /\ \A x : within_upper(x, after) <=> LexLess(x, e) \/ (x = e /\ no)
        BY <4>3, BoundIs
      <4> QED BY <4>2, <4>4
    <3>6. ASSUME NEW pk \in MapKey
          PROVE  (from = <<>> \/ PairBefore(asc, from[1], pk))
                   <=> IF asc THEN within_lower(Encoded[pk], after) ELSE within_upper(Encoded[pk], after)
      <4>1. PairBefore(asc, last, pk) <=> Before(asc, e, Encoded[pk])
        BY <3>2, PairOrder
      <4> QED BY <4>1, <3>3, <3>5 DEF Before
    <3> QED BY <3>5, <3>6
  <2> QED BY <2>1, <2>2 DEF Resumes
<1>4. PICK low : low = IF asc THEN later_bound(lower, after) ELSE lower
  OBVIOUS
<1>5. PICK up : up = IF asc THEN upper ELSE earlier_bound(upper, after)
  OBVIOUS
<1>6. page = scan_data(view, MapP, asc, low, up, limit, stripped)
  BY <1>1, <1>4, <1>5 DEF scan_key_suffix
<1>7. Bounded(view, low, up, T)
  <2>0. Bounds(lower) /\ Bounds(upper)
    BY DEF Bounded
  <2>1. ASSUME NEW pk \in Held(view)
        PROVE  pk \in T <=> within_lower(Encoded[pk], low) /\ within_upper(Encoded[pk], up)
    <3>1. pk \in MapKey
      BY DEF Held
    <3>2. PICK e \in Key : e = Encoded[pk]
      BY <3>1, MapAtIs
    <3>3. pk \in T <=> pk \in P /\ (from = <<>> \/ PairBefore(asc, from[1], pk))
      BY <1>2 DEF Remaining
    <3>4. pk \in P <=> within_lower(e, lower) /\ within_upper(e, upper)
      BY <3>2 DEF Bounded
    <3>5. CASE asc
      <4>1. low = later_bound(lower, after) /\ up = upper
        BY <3>5, <1>4, <1>5
      <4>2. within_lower(e, low) <=> within_lower(e, lower) /\ within_lower(e, after)
        BY <4>1, <2>0, <1>3, LaterIs
      <4>3. (from = <<>> \/ PairBefore(asc, from[1], pk)) <=> within_lower(e, after)
        BY <3>1, <3>2, <3>5, <1>3
      <4> QED BY <4>1, <4>2, <4>3, <3>2, <3>3, <3>4
    <3>6. CASE ~ asc
      <4>1. low = lower /\ up = earlier_bound(upper, after)
        BY <3>6, <1>4, <1>5
      <4>2. within_upper(e, up) <=> within_upper(e, upper) /\ within_upper(e, after)
        BY <4>1, <2>0, <1>3, EarlierIs
      <4>3. (from = <<>> \/ PairBefore(asc, from[1], pk)) <=> within_upper(e, after)
        BY <3>1, <3>2, <3>6, <1>3
      <4> QED BY <4>1, <4>2, <4>3, <3>2, <3>3, <3>4
    <3> QED BY <3>5, <3>6
  <2>2. Bounds(low) /\ Bounds(up)
    <3>1. CASE asc
      BY <3>1, <2>0, <1>3, <1>4, <1>5, LaterIs
    <3>2. CASE ~ asc
      BY <3>2, <2>0, <1>3, <1>4, <1>5, EarlierIs
    <3> QED BY <3>1, <3>2
  <2>3. T \subseteq Held(view)
    BY <1>2 DEF Remaining, Bounded
  <2> QED BY <2>1, <2>2, <2>3 DEF Bounded
<1>8. \E w : Shows(page, w, T, asc, stripped)
  BY <1>6, <1>7, PageShows
<1> QED BY <1>2, <1>8

\* A page of the whole map.
LEMMA MapPage ==
  ASSUME NEW view, Tidy(view), NEW asc \in BOOLEAN, NEW resume, NEW from, Resumes(resume, from), NEW limit \in Limit,
         NEW page, page = scan_map(view, MapP, asc, Unbounded, Unbounded, resume, limit), ~ page.error
  PROVE  \E w : Shows(page, w, Remaining(Held(view), from, asc), asc, <<>>)
<1>1. PICK none : none = <<>>
  OBVIOUS
<1>2. page = scan_key_suffix(view, MapP, asc, none, none, resume, limit, none)
  BY <1>1 DEF scan_map, Unbounded
<1>3. PICK P : P = Held(view)
  OBVIOUS
<1>4. Bounded(view, none, none, P)
  BY <1>1, <1>3, NoBound DEF Bounded
<1>5. \E w : Shows(page, w, Remaining(P, from, asc), asc, none)
  BY <1>2, <1>4, SuffixPage
<1> QED BY <1>1, <1>3, <1>5

\* A page of one partition.
LEMMA PartPage ==
  ASSUME NEW view, Tidy(view), NEW asc \in BOOLEAN, NEW p \in Key, NEW resume, NEW from,
         \/ resume = <<>> /\ from = <<>>
         \/ \E last \in MapKey : last[1] = p /\ from = <<last>> /\ resume = <<last[2]>>,
         NEW limit \in Limit,
         NEW page, page = scan_partition(view, MapP, p, asc, resume, limit), ~ page.error
  PROVE  \E w : Shows(page, w, Remaining({pk \in Held(view) : pk[1] = p}, from, asc), asc, partition_prefix(p))
<1>1. PICK f : f = partition_prefix(p)
  OBVIOUS
<1>2. f \in Key /\ Len(f) >= 1 /\ f[Len(f)] + 1 \in Byte
  BY <1>1, FramingEnds
<1>3. PICK g : g = [f EXCEPT ![Len(f)] = @ + 1]
  OBVIOUS
<1>4. g \in Key /\ \A k \in Key : IsPrefix(f, k) <=> LexLeq(f, k) /\ LexLess(k, g)
  <2>1. g \in Key
    <3>1. PICK k \in Key : k = f
      BY <1>2
    <3> QED BY <3>1, <1>2, <1>3, GrownRange
  <2>2. \A k \in Key : IsPrefix(f, k) <=> LexLeq(f, k) /\ LexLess(k, g)
    BY <1>2, <1>3, GrownRange
  <2> QED BY <2>1, <2>2
<1>5. PICK back : back = IF resume = <<>> THEN <<>> ELSE <<f \o resume[1]>>
  OBVIOUS
<1>6. PICK lower : lower = Included(f)
  OBVIOUS
<1>7. PICK upper : upper = Excluded(g)
  OBVIOUS
<1>8. page = scan_key_suffix(view, MapP, asc, lower, upper, back, limit, f)
  BY <1>1, <1>3, <1>5, <1>6, <1>7 DEF scan_partition
<1>9. PICK P : P = {pk \in Held(view) : pk[1] = p}
  OBVIOUS
<1>10. /\ Bounds(lower) /\ Bounds(upper)
       /\ \A x : within_lower(x, lower) <=> LexLess(f, x) \/ x = f
       /\ \A x : within_upper(x, upper) <=> LexLess(x, g)
  <2>1. PICK yes \in BOOLEAN : yes = TRUE
    OBVIOUS
  <2>2. PICK no \in BOOLEAN : no = FALSE
    OBVIOUS
  <2>3. lower = <<[key |-> f, inclusive |-> yes]>>
    BY <1>6, <2>1 DEF Included
  <2>4. upper = <<[key |-> g, inclusive |-> no]>>
    BY <1>7, <2>2 DEF Excluded
  <2>5. Bounds(lower) /\ \A x : within_lower(x, lower) <=> LexLess(f, x) \/ (x = f /\ yes)
    BY <2>3, <1>2, BoundIs
  <2>6. Bounds(upper) /\ \A x : within_upper(x, upper) <=> LexLess(x, g) \/ (x = g /\ no)
    BY <2>4, <1>4, BoundIs
  <2> QED BY <2>1, <2>2, <2>5, <2>6
<1>11. ASSUME NEW pk \in Held(view)
       PROVE  pk \in P <=> within_lower(Encoded[pk], lower) /\ within_upper(Encoded[pk], upper)
  <2>1. pk \in MapKey
    BY DEF Held
  <2>2. PICK a \in Key : a = pk[1]
    BY <2>1, MapAtIs
  <2>3. PICK b \in Key : b = pk[2]
    BY <2>1, MapAtIs
  <2>4. PICK e \in Key : e = Encoded[pk] /\ e = encode_key(a, b)
    BY <2>1, <2>2, <2>3, MapAtIs
  <2>5. IsPrefix(f, e) <=> a = p
    BY <2>4, <1>1, EncodedApart, EncodedKey
  <2>6. IsPrefix(f, e) <=> LexLeq(f, e) /\ LexLess(e, g)
    BY <1>4
  <2> QED BY <2>2, <2>4, <2>5, <2>6, <1>9, <1>10 DEF LexLeq
<1>12. Bounded(view, lower, upper, P)
  BY <1>9, <1>10, <1>11 DEF Bounded
<1>13. Resumes(back, from)
  <2>1. CASE resume = <<>> /\ from = <<>>
    BY <2>1, <1>5 DEF Resumes
  <2>2. CASE \E last \in MapKey : last[1] = p /\ from = <<last>> /\ resume = <<last[2]>>
    <3>1. PICK last \in MapKey : last[1] = p /\ from = <<last>> /\ resume = <<last[2]>>
      BY <2>2
    <3>2. PICK b \in Key : b = last[2]
      BY MapAtIs
    <3>3. resume = <<b>>
      BY <3>1, <3>2
    <3>4. resume # <<>> /\ resume[1] = b
      BY <3>3
    <3>5. Encoded[last] = f \o b
      <4>1. Encoded[last] = encode_key(p, b)
        BY <3>1, <3>2, MapAtIs
      <4> QED BY <4>1, <1>1 DEF encode_key
    <3>6. back = <<Encoded[last]>>
      BY <3>4, <3>5, <1>5
    <3> QED BY <3>1, <3>6 DEF Resumes
  <2> QED BY <2>1, <2>2
<1>14. \E w : Shows(page, w, Remaining(P, from, asc), asc, f)
  BY <1>8, <1>12, <1>13, SuffixPage
<1> QED BY <1>1, <1>9, <1>14

\* A key of the part a scan covers, and what a scan is resumed with after it.
InPart(part, pk) == part = <<>> \/ part = <<pk[1]>>

ResumeOf(part, pk) == IF part = <<>> THEN Encoded[pk] ELSE pk[2]

\* The keys of a part that a scan has before it.
Ahead(view, part, asc, from) ==
  {pk \in Held(view) : InPart(part, pk) /\ (from = <<>> \/ PairBefore(asc, from[1], pk))}

\* A scan begins, or goes on after a key of its part.
GoesOn(part, resume, from) ==
  \/ resume = <<>> /\ from = <<>>
  \/ \E last \in MapKey : InPart(part, last) /\ from = <<last>> /\ resume = <<ResumeOf(part, last)>>

\* The page adds the keys w, the first of T.
Adds(page, w, T, part, asc) ==
  /\ w \in Seq(T) /\ \A i, j \in 1..Len(w) : i < j => PairBefore(asc, w[i], w[j])
  /\ page.continuation = <<>> => \A pk \in T : \E i \in 1..Len(w) : w[i] = pk
  /\ page.continuation # <<>> =>
       /\ Len(w) >= 1 /\ page.continuation = <<ResumeOf(part, w[Len(w)])>>
       /\ \A pk \in T : (\E i \in 1..Len(w) : w[i] = pk) \/ PairBefore(asc, w[Len(w)], pk)

\* Without a prefix to strip a key stays.
LEMMA StripNone ==
  ASSUME NEW e \in Key
  PROVE  StripPrefix(<<>>, e) = e
<1>1. PICK none \in Key : none = <<>>
  BY ShortKeys
<1>2. Len(none) = 0
  BY <1>1
<1>3. Len(e) \in Nat
  BY DEF Key
<1>4. PICK x : x = StripPrefix(none, e)
  OBVIOUS
<1>5. x \in Key /\ Len(x) = Len(e) - Len(none) /\ \A i \in 1..(Len(e) - Len(none)) : x[i] = e[Len(none) + i]
  BY <1>2, <1>3, <1>4, StripIs
<1>6. Len(x) = Len(e)
  BY <1>2, <1>3, <1>5
<1>7. \A i \in 1..Len(x) : x[i] = e[i]
  <2>1. ASSUME NEW i \in 1..Len(x) PROVE x[i] = e[i]
    <3>1. i \in 1..(Len(e) - Len(none)) /\ Len(none) + i = i
      BY <1>2, <1>3, <1>6
    <3> QED BY <3>1, <1>5
  <2> QED BY <2>1
<1>8. x = e
  BY <1>5, <1>6, <1>7, KeyEqual
<1> QED BY <1>1, <1>4, <1>8

\* The whole map or one partition.
IsPart(part) == part = <<>> \/ \E p \in Key : part = <<p>>

\* The keys of a page's entries.
EntryKeys(page) == [i \in DOMAIN page.entries |-> EntryKey(page.entries[i])]

\* The next page of the scan adds the first of the keys that are ahead.
LEMMA PageAdds ==
  ASSUME Tidy(tx.view), NEW asc \in BOOLEAN, scan.ascending = asc, NEW part, scan.part = part,
         IsPart(part),
         NEW from, GoesOn(part, scan.resume, from),
         NEW limit \in Limit, NEW page, page = PageOf(limit), ~ page.error
  PROVE  \E w : /\ Adds(page, w, Ahead(tx.view, part, asc, from), part, asc)
                /\ EntryKeys(page) = w
<1>1. PICK view : view = tx.view
  OBVIOUS
<1>2. PICK T : T = Ahead(view, part, asc, from)
  OBVIOUS
<1>3. T \subseteq MapKey
  BY <1>2 DEF Ahead, Held
<1>4. CASE part = <<>>
  <2>1. page = scan_map(view, MapP, asc, Unbounded, Unbounded, scan.resume, limit)
    BY <1>1, <1>4 DEF PageOf
  <2>2. PICK resume : resume = scan.resume /\ Resumes(resume, from)
    BY <1>4 DEF GoesOn, Resumes, ResumeOf
  <2>3. PICK none : none = <<>>
    OBVIOUS
  <2>4. \E w : Shows(page, w, Remaining(Held(view), from, asc), asc, none)
    BY <1>1, <2>1, <2>2, <2>3, MapPage
  <2>5. Remaining(Held(view), from, asc) = T
    BY <1>2, <1>4 DEF Remaining, Ahead, InPart
  <2>6. PICK w : Shows(page, w, T, asc, none)
    BY <2>4, <2>5
  <2>7. w \in Seq(T) /\ Len(w) \in Nat /\ \A i \in 1..Len(w) : w[i] \in T /\ w[i] \in MapKey
    <3>1. w \in Seq(T)
      BY <2>6 DEF Shows
    <3> QED BY <3>1, <1>3, LenProperties, ElementOfSeq
  <2>8. \A i \in 1..Len(w) : /\ StripPrefix(none, Encoded[w[i]]) = Encoded[w[i]]
                             /\ ResumeOf(part, w[i]) = Encoded[w[i]]
    <3>1. ASSUME NEW i \in 1..Len(w) PROVE StripPrefix(none, Encoded[w[i]]) = Encoded[w[i]]
      <4>1. PICK e \in Key : e = Encoded[w[i]]
        BY <2>7, MapAtIs
      <4> QED BY <4>1, <2>3, StripNone
    <3> QED BY <3>1, <1>4 DEF ResumeOf
  <2>9. Adds(page, w, T, part, asc)
    <3>1. page.continuation # <<>> => page.continuation = <<ResumeOf(part, w[Len(w)])>>
      <4> HAVE page.continuation # <<>>
      <4>1. Len(w) >= 1 /\ page.continuation = <<StripPrefix(none, Encoded[w[Len(w)]])>>
        BY <2>6 DEF Shows
      <4>2. Len(w) \in 1..Len(w)
        BY <4>1, <2>7
      <4> QED BY <4>1, <4>2, <2>8
    <3> QED BY <3>1, <2>6 DEF Shows, Adds
  <2>10. ASSUME NEW i \in 1..Len(w) PROVE EntryKey(page.entries[i]) = w[i]
    <3>1. page.entries[i].key = Encoded[w[i]]
      BY <2>6, <2>8 DEF Shows
    <3>2. w[i] \in MapKey
      BY <2>7
    <3>3. PICK p \in Key : p = w[i][1]
      BY <3>2, MapAtIs
    <3>4. PICK k \in Key : k = w[i][2]
      BY <3>2, MapAtIs
    <3>5. w[i] = <<p, k>> /\ Encoded[w[i]] = encode_key(p, k)
      BY <3>2, <3>3, <3>4, MapAtIs
    <3>6. PICK d : d = decode_key(encode_key(p, k)) /\ d.partition = p /\ d.key = k
      BY DecodesEncoded
    <3>7. decode_key(page.entries[i].key) = d
      BY <3>1, <3>5, <3>6
    <3>8. EntryKey(page.entries[i]) = <<d.partition, d.key>>
      BY <3>7, <1>4 DEF EntryKey
    <3> QED BY <3>5, <3>6, <3>8
  <2>11. EntryKeys(page) = w
    <3>1. DOMAIN page.entries = 1..Len(w)
      BY <2>6 DEF Shows
    <3>2. w = [i \in 1..Len(w) |-> w[i]]
      BY <2>7
    <3> QED BY <3>1, <3>2, <2>10 DEF EntryKeys
  <2> QED BY <2>9, <2>11, <1>1, <1>2
<1>5. CASE part # <<>>
  <2>0. PICK p \in Key : part = <<p>>
    BY <1>5 DEF IsPart
  <2>a. part[1] = p /\ \A pk : InPart(part, pk) <=> pk[1] = p
    <3>1. part[1] = p
      BY <2>0
    <3>2. ASSUME NEW pk PROVE InPart(part, pk) <=> pk[1] = p
      <4>1. PICK c : c = pk[1]
        OBVIOUS
      <4>2. <<p>> = <<c>> <=> c = p
        OBVIOUS
      <4> QED BY <4>1, <4>2, <2>0, <1>5 DEF InPart
    <3> QED BY <3>1, <3>2
  <2>1. page = scan_partition(view, MapP, p, asc, scan.resume, limit)
    BY <1>1, <1>5, <2>a DEF PageOf
  <2>2. PICK resume : /\ resume = scan.resume
                      /\ \/ resume = <<>> /\ from = <<>>
                         \/ \E last \in MapKey : last[1] = p /\ from = <<last>> /\ resume = <<last[2]>>
    BY <1>5, <2>a DEF GoesOn, ResumeOf
  <2>3. PICK f : f = partition_prefix(p)
    OBVIOUS
  <2>b. PICK P : P = {pk \in Held(view) : pk[1] = p}
    OBVIOUS
  <2>4. \E w : Shows(page, w, Remaining({pk \in Held(view) : pk[1] = p}, from, asc), asc, partition_prefix(p))
    BY <1>1, <2>1, <2>2, PartPage
  <2>5. Remaining(P, from, asc) = T
    BY <1>2, <2>a, <2>b DEF Remaining, Ahead
  <2>6. PICK w : Shows(page, w, T, asc, f)
    BY <2>3, <2>4, <2>5, <2>b
  <2>7. w \in Seq(T) /\ Len(w) \in Nat /\ \A i \in 1..Len(w) : w[i] \in T /\ w[i] \in MapKey /\ w[i][1] = p
    <3>1. w \in Seq(T)
      BY <2>6 DEF Shows
    <3>2. Len(w) \in Nat /\ \A i \in 1..Len(w) : w[i] \in T /\ w[i] \in MapKey
      BY <3>1, <1>3, LenProperties, ElementOfSeq
    <3>3. \A pk \in T : pk[1] = p
      BY <1>2, <2>a DEF Ahead
    <3> QED BY <3>1, <3>2, <3>3
  <2>8. \A i \in 1..Len(w) : StripPrefix(f, Encoded[w[i]]) = w[i][2] /\ ResumeOf(part, w[i]) = w[i][2]
    <3>1. ASSUME NEW i \in 1..Len(w) PROVE StripPrefix(f, Encoded[w[i]]) = w[i][2]
      <4>1. PICK k \in Key : k = w[i][2]
        BY <2>7, MapAtIs
      <4>2. Encoded[w[i]] = encode_key(p, k)
        BY <4>1, <2>7, MapAtIs
      <4>3. StripPrefix(f, encode_key(p, k)) = k
        BY <2>3, EncodedKey
      <4> QED BY <4>1, <4>2, <4>3
    <3> QED BY <3>1, <1>5 DEF ResumeOf
  <2>9. Adds(page, w, T, part, asc)
    <3>1. page.continuation # <<>> => page.continuation = <<ResumeOf(part, w[Len(w)])>>
      <4> HAVE page.continuation # <<>>
      <4>1. Len(w) >= 1 /\ page.continuation = <<StripPrefix(f, Encoded[w[Len(w)]])>>
        BY <2>6 DEF Shows
      <4>2. Len(w) \in 1..Len(w)
        BY <4>1, <2>7
      <4> QED BY <4>1, <4>2, <2>8
    <3> QED BY <3>1, <2>6 DEF Shows, Adds
  <2>10. ASSUME NEW i \in 1..Len(w) PROVE EntryKey(page.entries[i]) = w[i]
    <3>1. page.entries[i].key = w[i][2]
      BY <2>6, <2>8 DEF Shows
    <3>2. EntryKey(page.entries[i]) = <<p, w[i][2]>>
      BY <3>1, <2>a, <1>5 DEF EntryKey
    <3>3. w[i] = <<w[i][1], w[i][2]>> /\ w[i][1] = p
      BY <2>7, MapAtIs
    <3> QED BY <3>2, <3>3
  <2>11. EntryKeys(page) = w
    <3>1. DOMAIN page.entries = 1..Len(w)
      BY <2>6 DEF Shows
    <3>2. w = [i \in 1..Len(w) |-> w[i]]
      BY <2>7
    <3> QED BY <3>1, <3>2, <2>10 DEF EntryKeys
  <2> QED BY <2>9, <2>11, <1>1, <1>2
<1> QED BY <1>4, <1>5
-----------------------------------------------------------------------------
(* Scans.                                                                  *)

\* The order of partitioned keys is transitive.
LEMMA PairTransitive ==
  ASSUME NEW asc \in BOOLEAN, NEW a \in MapKey, NEW b \in MapKey, NEW c \in MapKey,
         PairBefore(asc, a, b), PairBefore(asc, b, c)
  PROVE  PairBefore(asc, a, c)
<1>1. MapAt(a) \in Key /\ MapAt(b) \in Key /\ MapAt(c) \in Key
  BY MapAtIs
<1>2. Before(asc, MapAt(a), MapAt(b)) /\ Before(asc, MapAt(b), MapAt(c))
  BY PairOrder
<1>3. Before(asc, MapAt(a), MapAt(c))
  BY <1>1, <1>2, BeforeOrders
<1> QED BY <1>3, PairOrder

\* The keys met so far, in order and within the part.
Met(seen, pk) == \E i \in 1..Len(seen) : seen[i] = pk

InOrder(seen, part, asc) ==
  /\ seen \in Seq(MapKey)
  /\ \A i, j \in 1..Len(seen) : i < j => PairBefore(asc, seen[i], seen[j])
  /\ \A i \in 1..Len(seen) : InPart(part, seen[i])

\* Where a scan that has met seen goes on.
FromLast(seen, from) ==
  (seen = <<>> /\ from = <<>>) \/ (Len(seen) >= 1 /\ from = <<seen[Len(seen)]>>)

\* What is left of a scan: the keys that stayed have been met or are ahead.
Leads(part, asc, resume, seen, stable, from) ==
  /\ GoesOn(part, resume, from) /\ FromLast(seen, from)
  /\ \A pk \in stable : InPart(part, pk) /\ (Met(seen, pk) \/ from = <<>> \/ PairBefore(asc, from[1], pk))

\* A scan that will be complete.
ScanOk(live, part, asc, resume, seen, stable) ==
  /\ live \in BOOLEAN /\ asc \in BOOLEAN /\ IsPart(part)
  /\ InOrder(seen, part, asc) /\ stable \subseteq MapKey
  /\ ~ live => \A pk \in stable : Met(seen, pk)
  /\ live => \E from : Leads(part, asc, resume, seen, stable, from)

\* Fewer keys to count on.
LEMMA ScanKeeps ==
  ASSUME NEW live, NEW part, NEW asc, NEW resume, NEW seen, NEW stable,
         ScanOk(live, part, asc, resume, seen, stable), NEW S, S \subseteq stable
  PROVE  ScanOk(live, part, asc, resume, seen, S)
<1>1. live => \E from : Leads(part, asc, resume, seen, S, from)
  <2> HAVE live
  <2>1. PICK from : Leads(part, asc, resume, seen, stable, from)
    BY DEF ScanOk
  <2>2. Leads(part, asc, resume, seen, S, from)
    BY <2>1 DEF Leads
  <2> QED BY <2>2
<1> QED BY <1>1 DEF ScanOk

\* The keys met with those of a page.
Joined(s, seen, w) == s = seen \o w

\* Keys after the ones already met.
LEMMA OrderGrows ==
  ASSUME NEW asc \in BOOLEAN, NEW part, NEW seen, InOrder(seen, part, asc),
         NEW w, InOrder(w, part, asc), NEW from, FromLast(seen, from),
         \A i \in 1..Len(w) : from = <<>> \/ PairBefore(asc, from[1], w[i]),
         NEW s, Joined(s, seen, w)
  PROVE  /\ InOrder(s, part, asc) /\ Len(s) = Len(seen) + Len(w)
         /\ \A pk : Met(s, pk) <=> Met(seen, pk) \/ Met(w, pk)
         /\ Len(w) >= 1 => s[Len(s)] = w[Len(w)]
         /\ Len(w) = 0 => s = seen
<1>1. PICK m \in Nat, n \in Nat : m = Len(seen) /\ n = Len(w)
  BY LenProperties DEF InOrder
<1>2. seen \in Seq(MapKey) /\ w \in Seq(MapKey) /\ s \in Seq(MapKey) /\ Len(s) = m + n
  BY <1>1 DEF InOrder, Joined
<1>3. /\ \A i \in 1..m : seen[i] \in MapKey /\ InPart(part, seen[i])
      /\ \A i \in 1..n : w[i] \in MapKey /\ InPart(part, w[i])
  BY <1>1, <1>2, ElementOfSeq DEF InOrder
<1>4. \A i \in 1..m : s[i] = seen[i]
  BY <1>1, <1>2 DEF Joined
<1>5. \A i \in 1..n : s[m + i] = w[i]
  BY <1>1, <1>2 DEF Joined
<1>6. ASSUME NEW i \in 1..m, NEW j \in 1..n PROVE PairBefore(asc, seen[i], w[j])
  <2>1. seen # <<>>
    BY <1>1
  <2>2. m >= 1 /\ from = <<seen[m]>>
    BY <2>1, <1>1 DEF FromLast
  <2>3. from # <<>> /\ from[1] = seen[m]
    BY <2>2
  <2>4. PairBefore(asc, seen[m], w[j])
    BY <2>3, <1>1
  <2>5. CASE i = m
    BY <2>4, <2>5
  <2>6. CASE i # m
    <3>1. m \in 1..m /\ i < m
      BY <2>6
    <3>2. PairBefore(asc, seen[i], seen[m])
      BY <3>1, <1>1 DEF InOrder
    <3> QED BY <3>1, <3>2, <2>4, <1>3, PairTransitive
  <2> QED BY <2>5, <2>6
<1>7. ASSUME NEW i \in 1..(m + n), NEW j \in 1..(m + n), i < j PROVE PairBefore(asc, s[i], s[j])
  <2>1. CASE j <= m
    <3>1. i \in 1..m /\ j \in 1..m
      BY <2>1, <1>7
    <3> QED BY <3>1, <1>4, <1>7, <1>1 DEF InOrder
  <2>2. CASE i <= m /\ j > m
    <3>1. PICK b \in 1..n : j = m + b
      <4>1. j - m \in 1..n /\ j = m + (j - m)
        BY <2>2
      <4> QED BY <4>1
    <3>2. i \in 1..m
      BY <2>2
    <3> QED BY <3>1, <3>2, <1>4, <1>5, <1>6
  <2>3. CASE i > m
    <3>1. PICK a \in 1..n : i = m + a
      <4>1. i - m \in 1..n /\ i = m + (i - m)
        BY <2>3
      <4> QED BY <4>1
    <3>2. PICK b \in 1..n : j = m + b
      <4>1. j - m \in 1..n /\ j = m + (j - m)
        BY <2>3, <1>7
      <4> QED BY <4>1
    <3>3. a < b
      BY <3>1, <3>2, <1>7
    <3>4. PairBefore(asc, w[a], w[b])
      BY <3>3, <1>1 DEF InOrder
    <3> QED BY <3>1, <3>2, <3>4, <1>5
  <2> QED BY <2>1, <2>2, <2>3
<1>8. ASSUME NEW i \in 1..(m + n) PROVE \/ i \in 1..m /\ s[i] = seen[i]
                                        \/ \E a \in 1..n : i = m + a /\ s[i] = w[a]
  <2>1. CASE i <= m
    BY <2>1, <1>4
  <2>2. CASE i > m
    <3>1. i - m \in 1..n /\ i = m + (i - m)
      BY <2>2
    <3>2. PICK a \in 1..n : i = m + a
      BY <3>1
    <3> QED BY <3>2, <1>5
  <2> QED BY <2>1, <2>2
<1>9. ASSUME NEW i \in 1..(m + n) PROVE InPart(part, s[i])
  BY <1>8, <1>3
<1>10. InOrder(s, part, asc)
  BY <1>2, <1>7, <1>9 DEF InOrder
<1>11. ASSUME NEW pk PROVE Met(s, pk) <=> Met(seen, pk) \/ Met(w, pk)
  <2>1. ASSUME Met(s, pk) PROVE Met(seen, pk) \/ Met(w, pk)
    <3>1. PICK i \in 1..(m + n) : s[i] = pk
      BY <2>1, <1>2 DEF Met
    <3> QED BY <3>1, <1>8, <1>1 DEF Met
  <2>2. ASSUME Met(seen, pk) PROVE Met(s, pk)
    <3>1. PICK i \in 1..m : seen[i] = pk
      BY <2>2, <1>1 DEF Met
    <3>2. i \in 1..(m + n) /\ s[i] = pk
      BY <3>1, <1>4
    <3> QED BY <3>2, <1>2 DEF Met
  <2>3. ASSUME Met(w, pk) PROVE Met(s, pk)
    <3>1. PICK i \in 1..n : w[i] = pk
      BY <2>3, <1>1 DEF Met
    <3>2. m + i \in 1..(m + n) /\ s[m + i] = pk
      BY <3>1, <1>5
    <3> QED BY <3>2, <1>2 DEF Met
  <2> QED BY <2>1, <2>2, <2>3
<1>12. n >= 1 => s[m + n] = w[n]
  BY <1>5
<1>13. n = 0 => s = seen
  <2> HAVE n = 0
  <2>1. w = <<>>
    BY <1>1, <1>2
  <2> QED BY <2>1, <1>2 DEF Joined
<1> QED BY <1>1, <1>2, <1>10, <1>11, <1>12, <1>13

\* A page keeps a scan on its way to being complete.
LEMMA PageStep ==
  ASSUME NEW part, NEW asc, NEW resume, NEW seen, NEW stable, NEW live, live = TRUE,
         ScanOk(live, part, asc, resume, seen, stable),
         NEW from, Leads(part, asc, resume, seen, stable, from),
         NEW view, Tidy(view), stable \subseteq Held(view),
         NEW page, NEW w, Adds(page, w, Ahead(view, part, asc, from), part, asc),
         NEW more \in BOOLEAN, more <=> page.continuation # <<>>,
         NEW s, Joined(s, seen, w)
  PROVE  ScanOk(more, part, asc, page.continuation, s, stable)
<1>1. PICK T : T = Ahead(view, part, asc, from)
  OBVIOUS
<1>2. T \subseteq MapKey /\ \A pk \in T : InPart(part, pk) /\ (from = <<>> \/ PairBefore(asc, from[1], pk))
  BY <1>1 DEF Ahead, Held
<1>3. w \in Seq(T) /\ Len(w) \in Nat /\ \A i \in 1..Len(w) : w[i] \in T
  <2>1. w \in Seq(T)
    BY <1>1 DEF Adds
  <2> QED BY <2>1, LenProperties, ElementOfSeq
<1>4. InOrder(w, part, asc)
  <2>1. w \in Seq(MapKey)
    BY <1>2, <1>3
  <2>2. \A i, j \in 1..Len(w) : i < j => PairBefore(asc, w[i], w[j])
    BY DEF Adds
  <2> QED BY <2>1, <2>2, <1>2, <1>3 DEF InOrder
<1>5. asc \in BOOLEAN /\ InOrder(seen, part, asc) /\ FromLast(seen, from) /\ Len(seen) \in Nat
  BY LenProperties DEF ScanOk, Leads, InOrder
<1>6. /\ InOrder(s, part, asc) /\ Len(s) = Len(seen) + Len(w)
      /\ \A pk : Met(s, pk) <=> Met(seen, pk) \/ Met(w, pk)
      /\ Len(w) >= 1 => s[Len(s)] = w[Len(w)]
  BY <1>2, <1>3, <1>4, <1>5, OrderGrows
<1>7. ASSUME NEW pk \in stable PROVE InPart(part, pk) /\ pk \in MapKey /\ (Met(seen, pk) \/ pk \in T)
  BY <1>1 DEF Leads, Ahead, Held
<1>8. ASSUME ~ more, NEW pk \in stable PROVE Met(s, pk)
  <2>1. \A x \in T : Met(w, x)
    BY <1>1, <1>8 DEF Adds, Met
  <2> QED BY <2>1, <1>6, <1>7
<1>9. ASSUME more PROVE \E g : Leads(part, asc, page.continuation, s, stable, g)
  <2>1. /\ Len(w) >= 1 /\ page.continuation = <<ResumeOf(part, w[Len(w)])>>
        /\ \A x \in T : Met(w, x) \/ PairBefore(asc, w[Len(w)], x)
    BY <1>1, <1>9 DEF Adds, Met
  <2>2. PICK last : last = w[Len(w)]
    OBVIOUS
  <2>3. last \in MapKey /\ InPart(part, last) /\ last = s[Len(s)] /\ Len(s) >= 1
    <3>1. Len(w) \in 1..Len(w)
      BY <2>1, <1>3
    <3> QED BY <3>1, <2>1, <2>2, <1>2, <1>3, <1>5, <1>6
  <2>4. PICK g : g = <<last>>
    OBVIOUS
  <2>5. g # <<>> /\ g[1] = last
    BY <2>4
  <2>6. GoesOn(part, page.continuation, g)
    BY <2>1, <2>2, <2>3, <2>4 DEF GoesOn
  <2>7. FromLast(s, g)
    BY <2>3, <2>4 DEF FromLast
  <2>8. ASSUME NEW pk \in stable PROVE InPart(part, pk) /\ (Met(s, pk) \/ PairBefore(asc, g[1], pk))
    BY <2>1, <2>2, <2>5, <1>6, <1>7
  <2>9. Leads(part, asc, page.continuation, s, stable, g)
    BY <2>6, <2>7, <2>8 DEF Leads
  <2> QED BY <2>9
<1> QED BY <1>5, <1>6, <1>8, <1>9 DEF ScanOk
-----------------------------------------------------------------------------
(* The invariant.                                                          *)

\* A view with a map and a queue in it.
Good(view) == Tidy(view) /\ \E h, q : QueueIs(view, h, q)

\* States a crash may recover.
IsLog(l) == (\E S : l \in Seq(S)) /\ Len(l) >= 1 /\ \A i \in 1..Len(l) : Good(l[i])

\* The fields of the transaction and of the scan.
TxOf(open, sync, view, poisoned, writes, calls) ==
  [open |-> open, sync |-> sync, view |-> view, poisoned |-> poisoned, writes |-> writes,
   calls |-> calls]

ScanOf(live, part, ascending, resume, seen, stable) ==
  [live |-> live, part |-> part, ascending |-> ascending, resume |-> resume, seen |-> seen,
   stable |-> stable]

\* The flags, the states and the transaction: one that is closed shows what is
\* visible, one that has written nothing too; only an unsynchronized batch and a
\* failed commit leave more than one state to recover.
Ties(l, b, p, f, open, sync, view, poisoned, writes) ==
  /\ b \in BOOLEAN /\ p \in BOOLEAN /\ f \in BOOLEAN
  /\ open \in BOOLEAN /\ sync \in BOOLEAN /\ poisoned \in BOOLEAN /\ writes \in BOOLEAN
  /\ IsLog(l)
  /\ ~ open => view = Last(l) /\ ~ poisoned
  /\ ~ poisoned => Good(view) /\ (~ writes => view = Last(l))
  /\ open => ~ f /\ (sync <=> ~ b)
  /\ ~ b /\ ~ f => Len(l) = 1
  /\ b /\ ~ p => Len(l) = 1

\* The scan, and what it counts on in the transaction.
Scans(open, poisoned, view, live, part, asc, resume, seen, stable) ==
  /\ ScanOk(live, part, asc, resume, seen, stable)
  /\ live => open
  /\ live /\ ~ poisoned => stable \subseteq Held(view)

\* t is a transaction with these fields, and s a scan.
TxHas(t, open, sync, view, poisoned, writes, calls) ==
  /\ t = TxOf(open, sync, view, poisoned, writes, calls)
  /\ t.open = open /\ t.sync = sync /\ t.view = view /\ t.poisoned = poisoned
  /\ t.writes = writes /\ t.calls = calls

ScanHas(s, live, part, asc, resume, seen, stable) ==
  /\ s = ScanOf(live, part, asc, resume, seen, stable)
  /\ s.live = live /\ s.part = part /\ s.ascending = asc /\ s.resume = resume
  /\ s.seen = seen /\ s.stable = stable

\* The inductive invariant.
Inv ==
  \E open, sync, view, poisoned, writes, calls :
    /\ TxHas(tx, open, sync, view, poisoned, writes, calls)
    /\ Ties(log, batch, pending, failed, open, sync, view, poisoned, writes)
    /\ \E live, part, asc, resume, seen, stable :
         /\ ScanHas(scan, live, part, asc, resume, seen, stable)
         /\ Scans(open, poisoned, view, live, part, asc, resume, seen, stable)

\* A transaction has its fields.
LEMMA TxFields ==
  ASSUME NEW open, NEW sync, NEW view, NEW poisoned, NEW writes, NEW calls,
         NEW t, t = TxOf(open, sync, view, poisoned, writes, calls)
  PROVE  TxHas(t, open, sync, view, poisoned, writes, calls)
<1>1. /\ t.open = open /\ t.sync = sync /\ t.view = view /\ t.poisoned = poisoned
      /\ t.writes = writes /\ t.calls = calls
  BY DEF TxOf
<1> QED BY <1>1, Zenon DEF TxHas

\* The updates of a transaction and of a scan.
Ended(t, v, x, y, c) == [t EXCEPT !.view = v, !.writes = x, !.poisoned = y, !.calls = c]
Stopped(t, v, x, y) == [t EXCEPT !.view = v, !.writes = x, !.poisoned = y]
Poisoned(t, y) == [t EXCEPT !.poisoned = y]
Opened(t, x, y) == [t EXCEPT !.open = x, !.sync = y]
Watched(s, x) == [s EXCEPT !.stable = x]
Paged(s, x, y, z) == [s EXCEPT !.live = x, !.resume = y, !.seen = z]

\* What an update makes of them.
LEMMA TxUpdates ==
  ASSUME NEW open, NEW sync, NEW view, NEW poisoned, NEW writes, NEW calls,
         NEW t, t = TxOf(open, sync, view, poisoned, writes, calls)
  PROVE  /\ \A v, x, y, c : Ended(t, v, x, y, c) = TxOf(open, sync, v, y, x, c)
         /\ \A v, x, y : Stopped(t, v, x, y) = TxOf(open, sync, v, y, x, calls)
         /\ \A y : Poisoned(t, y) = TxOf(open, sync, view, y, writes, calls)
         /\ \A x, y : Opened(t, x, y) = TxOf(x, y, view, poisoned, writes, calls)
<1>4. ASSUME NEW v, NEW x, NEW y, NEW c
      PROVE  Ended(t, v, x, y, c) = TxOf(open, sync, v, y, x, c)
  <2>1. [t EXCEPT !.view = v, !.writes = x, !.poisoned = y, !.calls = c]
          = [[[[t EXCEPT !.view = v] EXCEPT !.writes = x] EXCEPT !.poisoned = y] EXCEPT !.calls = c]
    BY Zenon
  <2>2. [t EXCEPT !.view = v] = TxOf(open, sync, v, poisoned, writes, calls)
    BY DEF TxOf
  <2>3. [TxOf(open, sync, v, poisoned, writes, calls) EXCEPT !.writes = x] = TxOf(open, sync, v, poisoned, x, calls)
    BY DEF TxOf
  <2>4. [TxOf(open, sync, v, poisoned, x, calls) EXCEPT !.poisoned = y] = TxOf(open, sync, v, y, x, calls)
    BY DEF TxOf
  <2>5. [TxOf(open, sync, v, y, x, calls) EXCEPT !.calls = c] = TxOf(open, sync, v, y, x, c)
    BY DEF TxOf
  <2> QED BY <2>1, <2>2, <2>3, <2>4, <2>5, Zenon DEF Ended
<1>5. ASSUME NEW v, NEW x, NEW y
      PROVE  Stopped(t, v, x, y) = TxOf(open, sync, v, y, x, calls)
  <2>1. [t EXCEPT !.view = v, !.writes = x, !.poisoned = y]
          = [[[t EXCEPT !.view = v] EXCEPT !.writes = x] EXCEPT !.poisoned = y]
    BY Zenon
  <2>2. [t EXCEPT !.view = v] = TxOf(open, sync, v, poisoned, writes, calls)
    BY DEF TxOf
  <2>3. [TxOf(open, sync, v, poisoned, writes, calls) EXCEPT !.writes = x] = TxOf(open, sync, v, poisoned, x, calls)
    BY DEF TxOf
  <2>4. [TxOf(open, sync, v, poisoned, x, calls) EXCEPT !.poisoned = y] = TxOf(open, sync, v, y, x, calls)
    BY DEF TxOf
  <2> QED BY <2>1, <2>2, <2>3, <2>4, Zenon DEF Stopped
<1>6. ASSUME NEW y PROVE Poisoned(t, y) = TxOf(open, sync, view, y, writes, calls)
  BY DEF TxOf, Poisoned
<1>7. ASSUME NEW x, NEW y
      PROVE  Opened(t, x, y) = TxOf(x, y, view, poisoned, writes, calls)
  <2>1. [t EXCEPT !.open = x, !.sync = y] = [[t EXCEPT !.open = x] EXCEPT !.sync = y]
    BY Zenon
  <2>2. [t EXCEPT !.open = x] = TxOf(x, sync, view, poisoned, writes, calls)
    BY DEF TxOf
  <2>3. [TxOf(x, sync, view, poisoned, writes, calls) EXCEPT !.sync = y] = TxOf(x, y, view, poisoned, writes, calls)
    BY DEF TxOf
  <2> QED BY <2>1, <2>2, <2>3, Zenon DEF Opened
<1> QED BY <1>4, <1>5, <1>6, <1>7, Zenon

\* A scan has its fields.
LEMMA ScanFields ==
  ASSUME NEW live, NEW part, NEW asc, NEW resume, NEW seen, NEW stable,
         NEW s, s = ScanOf(live, part, asc, resume, seen, stable)
  PROVE  ScanHas(s, live, part, asc, resume, seen, stable)
<1>1. /\ s.live = live /\ s.part = part /\ s.ascending = asc /\ s.resume = resume
      /\ s.seen = seen /\ s.stable = stable
  BY DEF ScanOf
<1> QED BY <1>1, Zenon DEF ScanHas

\* What an update makes of them.
LEMMA ScanUpdates ==
  ASSUME NEW live, NEW part, NEW asc, NEW resume, NEW seen, NEW stable,
         NEW s, s = ScanOf(live, part, asc, resume, seen, stable)
  PROVE  /\ \A x : Watched(s, x) = ScanOf(live, part, asc, resume, seen, x)
         /\ \A x, y, z : Paged(s, x, y, z) = ScanOf(x, part, asc, y, z, stable)
<1>3. ASSUME NEW x PROVE Watched(s, x) = ScanOf(live, part, asc, resume, seen, x)
  BY DEF ScanOf, Watched
<1>4. ASSUME NEW x, NEW y, NEW z
      PROVE  Paged(s, x, y, z) = ScanOf(x, part, asc, y, z, stable)
  <2>1. [s EXCEPT !.live = x, !.resume = y, !.seen = z]
          = [[[s EXCEPT !.live = x] EXCEPT !.resume = y] EXCEPT !.seen = z]
    BY Zenon
  <2>2. [s EXCEPT !.live = x] = ScanOf(x, part, asc, resume, seen, stable)
    BY DEF ScanOf
  <2>3. [ScanOf(x, part, asc, resume, seen, stable) EXCEPT !.resume = y]
          = ScanOf(x, part, asc, y, seen, stable)
    BY DEF ScanOf
  <2>4. [ScanOf(x, part, asc, y, seen, stable) EXCEPT !.seen = z]
          = ScanOf(x, part, asc, y, z, stable)
    BY DEF ScanOf
  <2> QED BY <2>1, <2>2, <2>3, <2>4, Zenon DEF Paged
<1> QED BY <1>3, <1>4, Zenon

\* A log with one state.
LEMMA LogOne ==
  ASSUME NEW v, Good(v), NEW l, l = <<v>>
  PROVE  IsLog(l) /\ Len(l) = 1 /\ Last(l) = v
<1>1. l \in Seq({v}) /\ Len(l) = 1 /\ l[1] = v
  OBVIOUS
<1>2. Last(l) = v
  BY <1>1 DEF Last
<1>3. \A i \in 1..Len(l) : Good(l[i])
  BY <1>1
<1>4. Len(l) >= 1
  BY <1>1
<1> QED BY <1>1, <1>2, <1>3, <1>4, Zenon DEF IsLog

\* A log with one state more.
LEMMA LogMore ==
  ASSUME NEW l, IsLog(l), NEW v, Good(v), NEW m, m = Append(l, v)
  PROVE  IsLog(m) /\ Last(m) = v /\ Len(m) = Len(l) + 1 /\ Len(l) \in Nat
         /\ DOMAIN m = 1..(Len(l) + 1) /\ m[Len(l) + 1] = v /\ \A i \in 1..Len(l) : m[i] = l[i]
<1>1. PICK S : l \in Seq(S)
  BY DEF IsLog
<1>2. PICK T : T = S \cup {v}
  OBVIOUS
<1>3. l \in Seq(T) /\ v \in T
  BY <1>1, <1>2
<1>4. PICK n \in Nat : n = Len(l)
  BY <1>3, LenProperties
<1>5. m \in Seq(T) /\ Len(m) = n + 1 /\ m[n + 1] = v /\ \A i \in 1..n : m[i] = l[i]
  BY <1>3, <1>4, AppendProperties
<1>6. Last(m) = v
  BY <1>5 DEF Last
<1>7. ASSUME NEW i \in 1..(n + 1) PROVE Good(m[i])
  <2>1. CASE i = n + 1
    BY <2>1, <1>5
  <2>2. CASE i # n + 1
    <3>1. i \in 1..n
      BY <2>2
    <3>2. Good(l[i])
      BY <3>1, <1>4 DEF IsLog
    <3> QED BY <3>1, <3>2, <1>5
  <2> QED BY <2>1, <2>2
<1>8. DOMAIN m = 1..(n + 1)
  BY <1>5, LenProperties
<1>9. IsLog(m)
  BY <1>5, <1>7 DEF IsLog
<1> QED BY <1>4, <1>5, <1>6, <1>8, <1>9

\* The states of a log.
LEMMA LogIs ==
  ASSUME NEW l, IsLog(l)
  PROVE  /\ Len(l) \in Nat /\ Len(l) >= 1 /\ DOMAIN l = 1..Len(l) /\ Len(l) \in 1..Len(l)
         /\ Last(l) = l[Len(l)] /\ Good(Last(l))
<1>1. PICK S : l \in Seq(S)
  BY DEF IsLog
<1>2. Len(l) \in Nat /\ DOMAIN l = 1..Len(l)
  BY <1>1, LenProperties
<1>3. Len(l) >= 1
  BY DEF IsLog
<1>4. Len(l) \in 1..Len(l)
  BY <1>2, <1>3
<1>5. Last(l) = l[Len(l)]
  BY DEF Last
<1> QED BY <1>2, <1>3, <1>4, <1>5 DEF IsLog

\* The empty view.
LEMMA EmptyGood ==
  ASSUME NEW v, v = <<>>
  PROVE  Good(v) /\ QueueIs(v, 0, <<>>)
<1>1. DOMAIN v = {}
  OBVIOUS
<1>2. Tidy(v)
  BY <1>1, FS_EmptySet DEF Tidy
<1>3. QueueIs(v, 0, <<>>)
  <2>1. PICK q : q = <<>>
    OBVIOUS
  <2>2. q \in Seq(Payload) /\ Len(q) = 0
    BY <2>1
  <2>3. 0 + Len(q) <= MaxSequence
    BY <2>2, SequenceKeys
  <2>4. \A i \in 1..Len(q) : v[Slot(0 + i - 1)] = q[i]
    BY <2>2
  <2>5. QueueIs(v, 0, q)
    BY <2>1, <2>2, <2>3, <2>4, <1>1 DEF QueueIs
  <2> QED BY <2>1, <2>5
<1> QED BY <1>2, <1>3 DEF Good
-----------------------------------------------------------------------------
(* What calls leave behind.                                                *)

\* A call that does not fail leaves a good view, and without writes the same one.
Sound(view, o) ==
  o.reply.kind \notin HardErrors =>
    Good(Last(o.views)) /\ (~(Len(o.views) > 1) => Last(o.views) = view)

\* A failed call leaves nothing to look at.
LEMMA HardSound ==
  ASSUME NEW view, NEW o, NEW kind \in HardErrors, NEW data, o.reply = Reply(kind, data)
  PROVE  Sound(view, o) /\ o.reply.kind = kind
BY DEF Sound, Reply

\* The kind of an answer.
LEMMA KindIs ==
  ASSUME NEW kind, NEW data, NEW r, r = Reply(kind, data)
  PROVE  r.kind = kind /\ r.data = data
BY DEF Reply

\* A call on the queue.
LEMMA QueueSound ==
  ASSUME NEW view, NEW o, NEW r, LeavesQueue(view, o, r)
  PROVE  Sound(view, o)
BY DEF LeavesQueue, Sound, Good

\* A call on the map.
LEMMA MapSound ==
  ASSUME NEW view, Good(view), NEW o, NEW pk, NEW n, LeavesMap(view, o, pk, n)
  PROVE  Sound(view, o)
<1>1. PICK h, q : QueueIs(view, h, q)
  BY DEF Good
<1>2. QueueIs(Last(o.views), h, q)
  BY <1>1 DEF LeavesMap
<1> QED BY <1>2 DEF LeavesMap, Sound, Good

\* A call without writes.
LEMMA UnchangedSound ==
  ASSUME NEW view, Good(view), NEW answer, NEW o, o = Unchanged(view, answer)
  PROVE  Sound(view, o)
<1>1. PICK h, q : Tidy(view) /\ QueueIs(view, h, q)
  BY DEF Good
<1>2. LeavesQueue(view, o, q)
  BY <1>1, UnchangedIs
<1> QED BY <1>2, QueueSound

\* Every call on the queue.
LEMMA QueueCalls ==
  ASSUME NEW view, Good(view)
  PROVE  /\ \A v \in Payload : Sound(view, try_push(view, QueueP, v, Capacity))
         /\ \A max \in ReadBound : Sound(view, pop_front_bounded(view, QueueP, max))
         /\ \A n \in 0..2 : Sound(view, discard_front(view, QueueP, n))
         /\ Sound(view, queued_bytes(view, QueueP))
<1>1. PICK h, q : Tidy(view) /\ QueueIs(view, h, q)
  BY DEF Good
<1>2. ASSUME NEW v \in Payload PROVE Sound(view, try_push(view, QueueP, v, Capacity))
  <2>1. PICK o : o = try_push(view, QueueP, v, Capacity)
    OBVIOUS
  <2>2. PICK r : r = Longer(q, v)
    OBVIOUS
  <2>3. \/ LeavesQueue(view, o, q) \/ LeavesQueue(view, o, r)
        \/ o.reply = Reply("exhausted", <<>>)
    BY <1>1, <2>1, <2>2, PushLeaves
  <2>4. "exhausted" \in HardErrors
    BY DEF HardErrors
  <2>5. Sound(view, o)
    BY <2>3, <2>4, QueueSound, HardSound
  <2> QED BY <2>1, <2>5
<1>3. ASSUME NEW max \in ReadBound PROVE Sound(view, pop_front_bounded(view, QueueP, max))
  <2>1. PICK o : o = pop_front_bounded(view, QueueP, max)
    OBVIOUS
  <2>2. PICK r : r = SubSeq(q, 1 + 1, Len(q))
    OBVIOUS
  <2>3. LeavesQueue(view, o, q) \/ LeavesQueue(view, o, r)
    BY <1>1, <2>1, <2>2, PopLeaves
  <2>4. Sound(view, o)
    BY <2>3, QueueSound
  <2> QED BY <2>1, <2>4
<1>4. ASSUME NEW n \in 0..2 PROVE Sound(view, discard_front(view, QueueP, n))
  <2>1. PICK o : o = discard_front(view, QueueP, n)
    OBVIOUS
  <2>2. n \in Nat
    OBVIOUS
  <2>3. \E r : LeavesQueue(view, o, r)
    BY <1>1, <2>1, <2>2, DiscardLeaves
  <2>4. Sound(view, o)
    BY <2>3, QueueSound
  <2> QED BY <2>1, <2>4
<1>5. Sound(view, queued_bytes(view, QueueP))
  <2>1. PICK o : o = queued_bytes(view, QueueP)
    OBVIOUS
  <2>2. LeavesQueue(view, o, q)
    BY <1>1, <2>1, BytesLeaves
  <2>3. Sound(view, o)
    BY <2>2, QueueSound
  <2> QED BY <2>1, <2>3
<1> QED BY <1>2, <1>3, <1>4, <1>5

\* Every call that writes to the map.
LEMMA MapCalls ==
  ASSUME NEW view, Good(view), NEW pk \in MapKey
  PROVE  /\ \A d \in Difference : Sound(view, adjust_encoded(view, MapP, Encoded[pk], d))
         /\ \A w \in 0..MaxWeight :
              Sound(view, Outcome(<<view, set_encoded(view, MapP, Encoded[pk], w)>>, Reply("set", <<>>)))
<1>1. Tidy(view)
  BY DEF Good
<1>2. ASSUME NEW d \in Difference PROVE Sound(view, adjust_encoded(view, MapP, Encoded[pk], d))
  <2>1. PICK o : o = adjust_encoded(view, MapP, Encoded[pk], d)
    OBVIOUS
  <2>2. d \in Int
    BY StoreAssumption
  <2>3. \/ o.reply = Reply("underflow", <<>>) \/ o.reply = Reply("overflow", <<>>)
        \/ \E n : LeavesMap(view, o, pk, n)
    BY <1>1, <2>1, <2>2, AdjustLeaves DEF Adjusts
  <2>4. "underflow" \in HardErrors /\ "overflow" \in HardErrors
    BY DEF HardErrors
  <2>5. Sound(view, o)
    BY <2>3, <2>4, HardSound, MapSound
  <2> QED BY <2>1, <2>5
<1>3. ASSUME NEW w \in 0..MaxWeight
      PROVE  Sound(view, Outcome(<<view, set_encoded(view, MapP, Encoded[pk], w)>>, Reply("set", <<>>)))
  <2>1. PICK answer : answer = Reply("set", <<>>)
    OBVIOUS
  <2>2. PICK o : o = Outcome(<<view, set_encoded(view, MapP, Encoded[pk], w)>>, answer)
    OBVIOUS
  <2>3. LeavesMap(view, o, pk, w)
    BY <1>1, <2>2, SetCall
  <2>4. Sound(view, o)
    BY <2>3, MapSound
  <2> QED BY <2>1, <2>2, <2>4, Zenon
<1> QED BY <1>2, <1>3, Zenon
-----------------------------------------------------------------------------
(* Every step keeps the invariant.                                         *)

\* The invariant, from the fields after a step.
LEMMA InvFrom ==
  ASSUME NEW open, NEW sync, NEW view, NEW poisoned, NEW writes, NEW calls,
         tx' = TxOf(open, sync, view, poisoned, writes, calls),
         NEW live, NEW part, NEW asc, NEW resume, NEW seen, NEW stable,
         scan' = ScanOf(live, part, asc, resume, seen, stable),
         Ties(log', batch', pending', failed', open, sync, view, poisoned, writes),
         Scans(open, poisoned, view, live, part, asc, resume, seen, stable)
  PROVE  Inv'
<1>1. PICK t : t = tx'
  OBVIOUS
<1>2. PICK s : s = scan'
  OBVIOUS
<1>3. TxHas(t, open, sync, view, poisoned, writes, calls)
  BY <1>1, TxFields, Zenon
<1>4. ScanHas(s, live, part, asc, resume, seen, stable)
  BY <1>2, ScanFields, Zenon
<1>5. TxHas(tx', open, sync, view, poisoned, writes, calls)
  BY <1>1, <1>3, Zenon
<1>6. ScanHas(scan', live, part, asc, resume, seen, stable)
  BY <1>2, <1>4, Zenon
<1> QED BY <1>5, <1>6, Zenon DEF Inv

\* There is no scan.
LEMMA NoScanIs ==
  ASSUME NEW open, NEW poisoned, NEW view
  PROVE  \E live, part, asc, resume, seen, stable :
           /\ NoScan = ScanOf(live, part, asc, resume, seen, stable)
           /\ Scans(open, poisoned, view, live, part, asc, resume, seen, stable)
<1>1. PICK live \in BOOLEAN : live = FALSE
  OBVIOUS
<1>2. PICK asc \in BOOLEAN : asc = TRUE
  OBVIOUS
<1>3. PICK e, stable : e = <<>> /\ stable = {}
  OBVIOUS
<1>4. NoScan = ScanOf(live, e, asc, e, e, stable)
  BY <1>1, <1>2, <1>3, Zenon DEF NoScan, ScanOf
<1>5. InOrder(e, e, asc)
  <2>1. e \in Seq(MapKey) /\ Len(e) = 0
    BY <1>3
  <2>2. \A i \in 1..Len(e) : FALSE
    BY <2>1
  <2> QED BY <2>1, <2>2 DEF InOrder
<1>6. ScanOk(live, e, asc, e, e, stable)
  <2>1. \A pk \in stable : FALSE
    BY <1>3
  <2>2. stable \subseteq MapKey
    BY <1>3
  <2> QED BY <1>1, <1>2, <1>3, <1>5, <2>1, <2>2 DEF ScanOk, IsPart
<1>7. Scans(open, poisoned, view, live, e, asc, e, e, stable)
  BY <1>1, <1>6 DEF Scans
<1> QED BY <1>4, <1>7

\* A step that does not touch the transaction and the scan.
LEMMA InvStays ==
  ASSUME Inv, UNCHANGED <<log, batch, pending, tx, scan, failed>>
  PROVE  Inv'
BY DEF Inv

\* A step that changes nothing.
LEMMA InvStutters ==
  ASSUME Inv, UNCHANGED vars
  PROVE  Inv'
BY InvStays DEF vars
\* What a scan counts on after a call.
LEMMA WatchingIs ==
  ASSUME NEW open, NEW poisoned, NEW view, NEW live, NEW part, NEW asc, NEW resume, NEW seen, NEW stable,
         ScanHas(scan, live, part, asc, resume, seen, stable),
         Scans(open, poisoned, view, live, part, asc, resume, seen, stable),
         NEW v, NEW y, ~ y => Tidy(v)
  PROVE  \E l, p, a, r, s, b : /\ Watching(v) = ScanOf(l, p, a, r, s, b)
                               /\ Scans(open, y, v, l, p, a, r, s, b)
<1>1. CASE live
  <2>1. PICK b : b = stable \cap MapKeys(v)
    OBVIOUS
  <2>2. scan = ScanOf(live, part, asc, resume, seen, stable) /\ scan.live = live /\ scan.stable = stable
    BY DEF ScanHas
  <2>3. Watching(v) = Watched(scan, b)
    BY <1>1, <2>1, <2>2 DEF Watching, Watched
  <2>4. Watched(scan, b) = ScanOf(live, part, asc, resume, seen, b)
    <3>1. PICK s : s = scan
      OBVIOUS
    <3>2. s = ScanOf(live, part, asc, resume, seen, stable)
      BY <3>1, <2>2
    <3>3. Watched(s, b) = ScanOf(live, part, asc, resume, seen, b)
      BY <3>2, ScanUpdates
    <3> QED BY <3>1, <3>3
  <2>5. ScanOk(live, part, asc, resume, seen, stable) /\ b \subseteq stable
    BY <2>1 DEF Scans
  <2>6. ScanOk(live, part, asc, resume, seen, b)
    BY <2>5, ScanKeeps
  <2>7. ~ y => b \subseteq Held(v)
    BY <2>1, MapKeysAre
  <2>8. Scans(open, y, v, live, part, asc, resume, seen, b)
    BY <2>6, <2>7 DEF Scans
  <2> QED BY <2>3, <2>4, <2>8
<1>2. CASE ~ live
  <2>1. Watching(v) = NoScan
    BY <1>2 DEF Watching, ScanHas
  <2> QED BY <2>1, NoScanIs
<1> QED BY <1>1, <1>2

\* A call keeps the invariant, whether it runs to its end or not.
LEMMA CallKeeps ==
  ASSUME Inv, tx.open, ~ tx.poisoned, NEW o, Sound(tx.view, o), Call(o)
  PROVE  Inv'
<1>1. PICK open, sync, view, poisoned, writes, calls :
        /\ TxHas(tx, open, sync, view, poisoned, writes, calls)
        /\ Ties(log, batch, pending, failed, open, sync, view, poisoned, writes)
        /\ \E live, part, asc, resume, seen, stable :
             /\ ScanHas(scan, live, part, asc, resume, seen, stable)
             /\ Scans(open, poisoned, view, live, part, asc, resume, seen, stable)
  BY Zenon DEF Inv
<1>2. PICK live, part, asc, resume, seen, stable :
        /\ ScanHas(scan, live, part, asc, resume, seen, stable)
        /\ Scans(open, poisoned, view, live, part, asc, resume, seen, stable)
  BY <1>1, Zenon
<1>3. tx = TxOf(open, sync, view, poisoned, writes, calls)
  BY <1>1, Zenon DEF TxHas
<1>4. open /\ ~ poisoned /\ Sound(view, o) /\ tx.view = view
  BY <1>1, Zenon DEF TxHas
<1>5. log' = log /\ batch' = batch /\ pending' = pending /\ failed' = failed
  BY DEF Call
<1>6. CASE Completes(o)
  <2>1. PICK v : v = Last(o.views)
    OBVIOUS
  <2>2. PICK x \in BOOLEAN : x = (tx.writes \/ Len(o.views) > 1)
    OBVIOUS
  <2>3. PICK y \in BOOLEAN : y = (o.reply.kind \in HardErrors)
    <3>1. (o.reply.kind \in HardErrors) \in BOOLEAN
      OBVIOUS
    <3> QED BY <3>1, Zenon
  <2>4. PICK c : c = tx.calls + 1
    OBVIOUS
  <2>5. tx' = Ended(tx, v, x, y, c) /\ scan' = Watching(v)
    BY <1>6, <2>1, <2>2, <2>3, <2>4, Zenon DEF Completes, Ended
  <2>6. tx' = TxOf(open, sync, v, y, x, c)
    <3>1. PICK t : t = tx
      OBVIOUS
    <3>2. t = TxOf(open, sync, view, poisoned, writes, calls)
      BY <3>1, <1>3
    <3>3. Ended(t, v, x, y, c) = TxOf(open, sync, v, y, x, c)
      BY <3>2, TxUpdates
    <3> QED BY <3>1, <3>3, <2>5, Zenon
  <2>7. ~ y => Good(v) /\ (~ x => v = view /\ ~ writes)
    BY <2>1, <2>2, <2>3, <1>1, <1>4 DEF Sound, TxHas
  <2>8. Ties(log', batch', pending', failed', open, sync, v, y, x)
    BY <2>2, <2>3, <2>7, <1>1, <1>4, <1>5 DEF Ties
  <2>9. ~ y => Tidy(v)
    BY <2>7 DEF Good
  <2>10. PICK l, p, a, r, s, b : Watching(v) = ScanOf(l, p, a, r, s, b) /\ Scans(open, y, v, l, p, a, r, s, b)
    BY <2>9, <1>2, WatchingIs
  <2>11. scan' = ScanOf(l, p, a, r, s, b)
    BY <2>5, <2>10
  <2> QED BY <2>6, <2>8, <2>10, <2>11, InvFrom
<1>7. CASE StorageFails(o)
  <2>1. PICK n \in DOMAIN o.views :
          /\ tx' = [tx EXCEPT !.view = o.views[n], !.writes = @ \/ n > 1, !.poisoned = TRUE]
          /\ scan' = NoScan
    BY <1>7 DEF StorageFails
  <2>2. PICK v : v = o.views[n]
    OBVIOUS
  <2>3. PICK x \in BOOLEAN : x = (tx.writes \/ n > 1)
    OBVIOUS
  <2>4. PICK y \in BOOLEAN : y = TRUE
    OBVIOUS
  <2>5. tx' = Stopped(tx, v, x, y)
    BY <2>1, <2>2, <2>3, <2>4, Zenon DEF Stopped
  <2>6. tx' = TxOf(open, sync, v, y, x, calls)
    <3>1. PICK t : t = tx
      OBVIOUS
    <3>2. t = TxOf(open, sync, view, poisoned, writes, calls)
      BY <3>1, <1>3
    <3>3. Stopped(t, v, x, y) = TxOf(open, sync, v, y, x, calls)
      BY <3>2, TxUpdates
    <3> QED BY <3>1, <3>3, <2>5, Zenon
  <2>7. Ties(log', batch', pending', failed', open, sync, v, y, x)
    BY <2>3, <2>4, <1>1, <1>4, <1>5 DEF Ties
  <2>8. PICK l, p, a, r, s, b : NoScan = ScanOf(l, p, a, r, s, b) /\ Scans(open, y, v, l, p, a, r, s, b)
    BY NoScanIs
  <2>9. scan' = ScanOf(l, p, a, r, s, b)
    BY <2>1, <2>8
  <2> QED BY <2>6, <2>7, <2>8, <2>9, InvFrom
<1> QED BY <1>6, <1>7 DEF Call

\* A step that closes the transaction keeps the invariant when the states it leaves
\* do.
LEMMA ClosingKeeps ==
  ASSUME Closing, IsLog(log'), batch' \in BOOLEAN, pending' \in BOOLEAN, failed' \in BOOLEAN,
         ~ batch' /\ ~ failed' => Len(log') = 1, batch' /\ ~ pending' => Len(log') = 1
  PROVE  Inv'
<1>1. PICK no \in BOOLEAN : no = FALSE
  OBVIOUS
<1>2. PICK l : l = log'
  OBVIOUS
<1>3. PICK v, z : v = Last(l) /\ z = 0
  OBVIOUS
<1>4. tx' = TxOf(no, no, v, no, no, z) /\ scan' = NoScan
  BY <1>1, <1>2, <1>3, Zenon DEF Closing, NoTx, TxOf
<1>5. Good(v)
  BY <1>2, <1>3, LogIs
<1>6. Ties(log', batch', pending', failed', no, no, v, no, no)
  BY <1>1, <1>2, <1>3, <1>5 DEF Ties
<1>7. PICK x, p, a, r, s, b : NoScan = ScanOf(x, p, a, r, s, b) /\ Scans(no, no, v, x, p, a, r, s, b)
  BY NoScanIs
<1> QED BY <1>4, <1>6, <1>7, InvFrom
\* The invariant, in the fields of the transaction.
LEMMA InvTies ==
  ASSUME Inv
  PROVE  /\ Ties(log, batch, pending, failed, tx.open, tx.sync, tx.view, tx.poisoned, tx.writes)
         /\ tx.open => ~ failed
         /\ ~ tx.poisoned => Good(tx.view)
         /\ IsLog(log)
<1>1. PICK open, sync, view, poisoned, writes, calls :
        /\ TxHas(tx, open, sync, view, poisoned, writes, calls)
        /\ Ties(log, batch, pending, failed, open, sync, view, poisoned, writes)
  BY Zenon DEF Inv
<1>2. Ties(log, batch, pending, failed, tx.open, tx.sync, tx.view, tx.poisoned, tx.writes)
  BY <1>1, Zenon DEF TxHas
<1> QED BY <1>2 DEF Ties

\* A batch begins.
LEMMA StartBatchKeeps ==
  ASSUME Inv, StartBatch
  PROVE  Inv'
<1>1. PICK open, sync, view, poisoned, writes, calls :
        /\ TxHas(tx, open, sync, view, poisoned, writes, calls)
        /\ Ties(log, batch, pending, failed, open, sync, view, poisoned, writes)
        /\ \E live, part, asc, resume, seen, stable :
             /\ ScanHas(scan, live, part, asc, resume, seen, stable)
             /\ Scans(open, poisoned, view, live, part, asc, resume, seen, stable)
  BY Zenon DEF Inv
<1>2. ~ open /\ ~ failed /\ ~ batch /\ batch' = TRUE /\ pending' = FALSE /\ log' = log /\ failed' = failed
      /\ tx' = tx /\ scan' = scan
  BY <1>1 DEF StartBatch, TxHas
<1>3. Ties(log', batch', pending', failed', open, sync, view, poisoned, writes)
  BY <1>1, <1>2 DEF Ties
<1>4. TxHas(tx', open, sync, view, poisoned, writes, calls)
  BY <1>1, <1>2
<1>5. \E live, part, asc, resume, seen, stable :
        /\ ScanHas(scan', live, part, asc, resume, seen, stable)
        /\ Scans(open, poisoned, view, live, part, asc, resume, seen, stable)
  BY <1>1, <1>2
<1> QED BY <1>3, <1>4, <1>5, Zenon DEF Inv

\* The barrier.
LEMMA SyncKeeps ==
  ASSUME Inv, NEW ends \in BOOLEAN, Sync(ends)
  PROVE  Inv'
<1>1. PICK open, sync, view, poisoned, writes, calls :
        /\ TxHas(tx, open, sync, view, poisoned, writes, calls)
        /\ Ties(log, batch, pending, failed, open, sync, view, poisoned, writes)
        /\ \E live, part, asc, resume, seen, stable :
             /\ ScanHas(scan, live, part, asc, resume, seen, stable)
             /\ Scans(open, poisoned, view, live, part, asc, resume, seen, stable)
  BY Zenon DEF Inv
<1>2. /\ ~ open /\ batch /\ failed' = failed /\ tx' = tx /\ scan' = scan
      /\ pending' = FALSE /\ batch' \in BOOLEAN
  BY <1>1 DEF Sync, TxHas
<1>3. PICK l : l = log'
  OBVIOUS
<1>4. PICK v : v = Last(log)
  OBVIOUS
<1>5. Good(v) /\ IsLog(log)
  BY <1>1, <1>4, LogIs DEF Ties
<1>6. l = IF pending THEN <<v>> ELSE log
  BY <1>3, <1>4 DEF Sync, db
<1>7. IsLog(l) /\ Last(l) = v /\ Len(l) = 1
  <2>1. CASE pending
    BY <2>1, <1>5, <1>6, LogOne
  <2>2. CASE ~ pending
    BY <2>2, <1>1, <1>2, <1>4, <1>5, <1>6 DEF Ties
  <2> QED BY <2>1, <2>2
<1>8. Ties(l, batch', pending', failed', open, sync, view, poisoned, writes)
  BY <1>1, <1>2, <1>4, <1>7 DEF Ties
<1>9. Ties(log', batch', pending', failed', open, sync, view, poisoned, writes)
  BY <1>3, <1>8
<1>10. TxHas(tx', open, sync, view, poisoned, writes, calls)
  BY <1>1, <1>2
<1>11. \E live, part, asc, resume, seen, stable :
        /\ ScanHas(scan', live, part, asc, resume, seen, stable)
        /\ Scans(open, poisoned, view, live, part, asc, resume, seen, stable)
  BY <1>1, <1>2
<1> QED BY <1>9, <1>10, <1>11, Zenon DEF Inv

\* A transaction begins.
LEMMA BeginKeeps ==
  ASSUME Inv, Begin
  PROVE  Inv'
<1>1. PICK open, sync, view, poisoned, writes, calls :
        /\ TxHas(tx, open, sync, view, poisoned, writes, calls)
        /\ Ties(log, batch, pending, failed, open, sync, view, poisoned, writes)
        /\ \E live, part, asc, resume, seen, stable :
             /\ ScanHas(scan, live, part, asc, resume, seen, stable)
             /\ Scans(open, poisoned, view, live, part, asc, resume, seen, stable)
  BY Zenon DEF Inv
<1>2. PICK live, part, asc, resume, seen, stable :
        /\ ScanHas(scan, live, part, asc, resume, seen, stable)
        /\ Scans(open, poisoned, view, live, part, asc, resume, seen, stable)
  BY <1>1, Zenon
<1>3. ~ open /\ ~ failed /\ UNCHANGED <<log, batch, pending, scan, failed>>
  BY <1>1 DEF Begin, TxHas
<1>4. PICK no \in BOOLEAN, yes \in BOOLEAN : no = FALSE /\ yes = TRUE
  OBVIOUS
<1>5. PICK s \in BOOLEAN : s = ~ batch
  OBVIOUS
<1>6. PICK v, z : v = Last(log) /\ z = 0
  OBVIOUS
<1>7. PICK t : t = NoTx(v)
  OBVIOUS
<1>8. t = TxOf(no, no, v, no, no, z)
  BY <1>4, <1>6, <1>7, Zenon DEF NoTx, TxOf
<1>9. tx' = Opened(t, yes, s)
  BY <1>4, <1>5, <1>6, <1>7, Zenon DEF Begin, db, Opened
<1>10. Opened(t, yes, s) = TxOf(yes, s, v, no, no, z)
  BY <1>8, TxUpdates
<1>11. tx' = TxOf(yes, s, v, no, no, z)
  BY <1>9, <1>10, Zenon
<1>12. Good(v) /\ IsLog(log)
  BY <1>1, <1>6, LogIs DEF Ties
<1>13. Ties(log', batch', pending', failed', yes, s, v, no, no)
  BY <1>1, <1>3, <1>4, <1>5, <1>6, <1>12 DEF Ties
<1>14. ScanOf(live, part, asc, resume, seen, stable) = scan'
  BY <1>2, <1>3 DEF ScanHas
<1>15. Scans(yes, no, v, live, part, asc, resume, seen, stable)
  BY <1>2, <1>3 DEF Scans
<1> QED BY <1>11, <1>13, <1>14, <1>15, InvFrom
\* A commit.
LEMMA CommitKeeps ==
  ASSUME Inv, Commit
  PROVE  Inv'
<1>1. PICK open, sync, view, poisoned, writes, calls :
        /\ TxHas(tx, open, sync, view, poisoned, writes, calls)
        /\ Ties(log, batch, pending, failed, open, sync, view, poisoned, writes)
  BY Zenon DEF Inv
<1>2. /\ tx.open = open /\ tx.sync = sync /\ tx.view = view /\ tx.poisoned = poisoned /\ tx.writes = writes
  BY <1>1, Zenon DEF TxHas
<1>3. /\ open /\ Closing /\ batch' = batch /\ failed' = failed
      /\ pending' = (pending \/ (~ sync /\ writes))
      /\ log' = IF poisoned \/ ~ writes THEN log ELSE IF sync THEN <<view>> ELSE Append(log, view)
  BY <1>2, Zenon DEF Commit, Arms
<1>4. /\ ~ failed /\ (sync <=> ~ batch) /\ IsLog(log) /\ batch \in BOOLEAN /\ failed \in BOOLEAN
      /\ (~ poisoned => Good(view))
      /\ (~ batch /\ ~ failed => Len(log) = 1) /\ (batch /\ ~ pending => Len(log) = 1)
  BY <1>1, <1>3 DEF Ties
<1>5. PICK l : l = log'
  OBVIOUS
<1>6. IsLog(l) /\ (~ batch /\ ~ failed => Len(l) = 1)
      /\ (batch /\ ~(pending \/ (~ sync /\ writes)) => Len(l) = 1)
  <2>1. CASE poisoned \/ ~ writes
    BY <2>1, <1>3, <1>4, <1>5
  <2>2. CASE ~ poisoned /\ writes /\ sync
    <3>1. l = <<view>>
      BY <2>2, <1>3, <1>5
    <3> QED BY <3>1, <2>2, <1>4, LogOne
  <2>3. CASE ~ poisoned /\ writes /\ ~ sync
    <3>1. l = Append(log, view)
      BY <2>3, <1>3, <1>5
    <3>2. PICK k : k = log
      OBVIOUS
    <3>3. IsLog(k) /\ l = Append(k, view) /\ Good(view)
      BY <3>1, <3>2, <2>3, <1>4
    <3>4. IsLog(l)
      BY <3>3, LogMore
    <3> QED BY <3>4, <2>3, <1>4
  <2> QED BY <2>1, <2>2, <2>3
<1>7. pending' \in BOOLEAN /\ batch' \in BOOLEAN /\ failed' \in BOOLEAN
  BY <1>3, <1>4
<1>8. IsLog(log') /\ (~ batch' /\ ~ failed' => Len(log') = 1) /\ (batch' /\ ~ pending' => Len(log') = 1)
  BY <1>3, <1>5, <1>6
<1> QED BY <1>3, <1>7, <1>8, ClosingKeeps

\* A commit that RocksDB reports as failed.
LEMMA CommitFailsKeeps ==
  ASSUME Inv, CommitFails
  PROVE  Inv'
<1>1. PICK open, sync, view, poisoned, writes, calls :
        /\ TxHas(tx, open, sync, view, poisoned, writes, calls)
        /\ Ties(log, batch, pending, failed, open, sync, view, poisoned, writes)
  BY Zenon DEF Inv
<1>2. /\ tx.open = open /\ tx.sync = sync /\ tx.view = view /\ tx.poisoned = poisoned /\ tx.writes = writes
  BY <1>1, Zenon DEF TxHas
<1>3. /\ open /\ ~ poisoned /\ writes /\ Closing /\ batch' = batch /\ failed' = TRUE
      /\ pending' = (pending \/ (~ sync /\ writes))
      /\ log' \in {log, Append(log, view)}
  BY <1>2, Zenon DEF CommitFails, Arms
<1>4. (sync <=> ~ batch) /\ IsLog(log) /\ batch \in BOOLEAN /\ Good(view)
  BY <1>1, <1>3 DEF Ties
<1>5. PICK l, k : l = log' /\ k = log
  OBVIOUS
<1>6. IsLog(k) /\ (l = k \/ l = Append(k, view))
  BY <1>3, <1>4, <1>5
<1>7. IsLog(l)
  BY <1>4, <1>6, LogMore
<1>8. pending' \in BOOLEAN /\ batch' \in BOOLEAN /\ failed' \in BOOLEAN
  BY <1>3, <1>4
<1>9. IsLog(log') /\ (~ batch' /\ ~ failed' => Len(log') = 1) /\ (batch' /\ ~ pending' => Len(log') = 1)
  BY <1>3, <1>4, <1>5, <1>7
<1> QED BY <1>3, <1>8, <1>9, ClosingKeeps

\* The transaction is dropped.
LEMMA DropKeeps ==
  ASSUME Inv, Drop
  PROVE  Inv'
<1>1. Closing /\ log' = log /\ batch' = batch /\ pending' = pending /\ failed' = failed
  BY DEF Drop
<1>2. /\ IsLog(log) /\ batch \in BOOLEAN /\ failed \in BOOLEAN /\ pending \in BOOLEAN
      /\ (~ batch /\ ~ failed => Len(log) = 1) /\ (batch /\ ~ pending => Len(log) = 1)
  BY InvTies DEF Ties
<1> QED BY <1>1, <1>2, ClosingKeeps

\* The store is opened again.
LEMMA RestartKeeps ==
  ASSUME Inv, Restart
  PROVE  Inv'
<1>1. PICK i \in DOMAIN log : log' = <<log[i]>>
  BY DEF Restart
<1>2. PICK k, v, l : k = log /\ v = log[i] /\ l = log'
  OBVIOUS
<1>3. IsLog(k)
  BY <1>2, InvTies
<1>4. i \in 1..Len(k)
  BY <1>1, <1>2, <1>3, LogIs
<1>5. Good(v) /\ l = <<v>>
  BY <1>1, <1>2, <1>3, <1>4 DEF IsLog
<1>6. IsLog(l) /\ Len(l) = 1
  BY <1>5, LogOne
<1>7. Closing /\ batch' = FALSE /\ pending' = FALSE /\ failed' = FALSE
  BY DEF Restart
<1>8. IsLog(log') /\ Len(log') = 1
  BY <1>2, <1>6
<1> QED BY <1>7, <1>8, ClosingKeeps

\* A call that poisons: a handle of another store, or a page that fails.
LEMMA PoisonsKeeps ==
  ASSUME Inv, NEW kind, Poisons(kind)
  PROVE  Inv'
<1>1. PICK open, sync, view, poisoned, writes, calls :
        /\ TxHas(tx, open, sync, view, poisoned, writes, calls)
        /\ Ties(log, batch, pending, failed, open, sync, view, poisoned, writes)
  BY Zenon DEF Inv
<1>2. PICK y \in BOOLEAN : y = TRUE
  OBVIOUS
<1>3. PICK t : t = tx
  OBVIOUS
<1>4. t = TxOf(open, sync, view, poisoned, writes, calls) /\ tx.open = open
  BY <1>1, <1>3, Zenon DEF TxHas
<1>5. /\ tx' = Poisoned(t, y) /\ scan' = NoScan /\ open
      /\ log' = log /\ batch' = batch /\ pending' = pending /\ failed' = failed
  BY <1>2, <1>3, <1>4, Zenon DEF Poisons, Poisoned
<1>6. Poisoned(t, y) = TxOf(open, sync, view, y, writes, calls)
  BY <1>4, TxUpdates
<1>7. tx' = TxOf(open, sync, view, y, writes, calls)
  BY <1>5, <1>6, Zenon
<1>8. Ties(log', batch', pending', failed', open, sync, view, y, writes)
  BY <1>1, <1>2, <1>5 DEF Ties
<1>9. PICK l, p, a, r, s, b : NoScan = ScanOf(l, p, a, r, s, b) /\ Scans(open, y, view, l, p, a, r, s, b)
  BY NoScanIs
<1>10. scan' = ScanOf(l, p, a, r, s, b)
  BY <1>5, <1>9
<1> QED BY <1>7, <1>8, <1>9, <1>10, InvFrom
\* A scan begins.
LEMMA StartScanKeeps ==
  ASSUME Inv, StartScan
  PROVE  Inv'
<1>1. PICK open, sync, view, poisoned, writes, calls :
        /\ TxHas(tx, open, sync, view, poisoned, writes, calls)
        /\ Ties(log, batch, pending, failed, open, sync, view, poisoned, writes)
  BY Zenon DEF Inv
<1>2. tx = TxOf(open, sync, view, poisoned, writes, calls) /\ open /\ ~ poisoned /\ tx.view = view
  BY <1>1, Zenon DEF TxHas, StartScan
<1>3. PICK part \in {<<>>} \cup {<<p>> : p \in Partition}, asc \in BOOLEAN :
        scan' = [live |-> TRUE, part |-> part, ascending |-> asc, resume |-> <<>>, seen |-> <<>>,
                 stable |-> {pk \in MapKeys(tx.view) : part = <<>> \/ part = <<pk[1]>>}]
  BY DEF StartScan
<1>4. PICK live \in BOOLEAN : live = TRUE
  OBVIOUS
<1>5. PICK e, stable : e = <<>> /\ stable = {pk \in MapKeys(tx.view) : part = <<>> \/ part = <<pk[1]>>}
  OBVIOUS
<1>6. scan' = ScanOf(live, part, asc, e, e, stable)
  BY <1>3, <1>4, <1>5, Zenon DEF ScanOf
<1>7. IsPart(part)
  <2>1. \A p \in Partition : p \in Key
    BY MapAtIs DEF Partition
  <2> QED BY <1>3, <2>1 DEF IsPart
<1>8. Tidy(view)
  BY <1>1, <1>2 DEF Ties, Good
<1>9. MapKeys(tx.view) = Held(view)
  BY <1>2, <1>8, MapKeysAre
<1>10. stable \subseteq Held(view) /\ Held(view) \subseteq MapKey /\ \A pk \in stable : InPart(part, pk)
  BY <1>5, <1>9 DEF InPart, Held
<1>11. InOrder(e, part, asc)
  <2>1. e \in Seq(MapKey) /\ Len(e) = 0
    BY <1>5
  <2>2. \A i \in 1..Len(e) : FALSE
    BY <2>1
  <2> QED BY <2>1, <2>2 DEF InOrder
<1>12. Leads(part, asc, e, e, stable, e)
  <2>1. GoesOn(part, e, e)
    BY <1>5 DEF GoesOn
  <2>2. FromLast(e, e)
    BY <1>5 DEF FromLast
  <2> QED BY <2>1, <2>2, <1>5, <1>10 DEF Leads
<1>13. ScanOk(live, part, asc, e, e, stable)
  BY <1>4, <1>7, <1>10, <1>11, <1>12 DEF ScanOk
<1>14. Scans(open, poisoned, view, live, part, asc, e, e, stable)
  BY <1>2, <1>10, <1>13 DEF Scans
<1>15. tx' = tx /\ log' = log /\ batch' = batch /\ pending' = pending /\ failed' = failed
  BY DEF StartScan
<1>16. Ties(log', batch', pending', failed', open, sync, view, poisoned, writes)
  BY <1>1, <1>15
<1>17. tx' = TxOf(open, sync, view, poisoned, writes, calls)
  BY <1>2, <1>15
<1> QED BY <1>6, <1>14, <1>16, <1>17, InvFrom

\* The next page.
LEMMA NextPageKeeps ==
  ASSUME Inv, NextPage
  PROVE  Inv'
<1>1. PICK open, sync, view, poisoned, writes, calls :
        /\ TxHas(tx, open, sync, view, poisoned, writes, calls)
        /\ Ties(log, batch, pending, failed, open, sync, view, poisoned, writes)
        /\ \E live, part, asc, resume, seen, stable :
             /\ ScanHas(scan, live, part, asc, resume, seen, stable)
             /\ Scans(open, poisoned, view, live, part, asc, resume, seen, stable)
  BY Zenon DEF Inv
<1>2. PICK live, part, asc, resume, seen, stable :
        /\ ScanHas(scan, live, part, asc, resume, seen, stable)
        /\ Scans(open, poisoned, view, live, part, asc, resume, seen, stable)
  BY <1>1, Zenon
<1>3. tx = TxOf(open, sync, view, poisoned, writes, calls) /\ open /\ ~ poisoned /\ tx.view = view
  BY <1>1, Zenon DEF TxHas, NextPage
<1>4. /\ scan = ScanOf(live, part, asc, resume, seen, stable) /\ live
      /\ scan.part = part /\ scan.ascending = asc /\ scan.resume = resume /\ scan.seen = seen
  BY <1>2, Zenon DEF ScanHas, NextPage
<1>5. tx' = tx /\ log' = log /\ batch' = batch /\ pending' = pending /\ failed' = failed
  BY DEF NextPage
<1>6. PICK limit \in Limit :
        LET page == PageOf(limit)
        IN IF page.error
           THEN reply' = Reply("too_large", <<>>) /\ UNCHANGED scan
           ELSE /\ reply' = Reply("page", <<>>)
                /\ scan' = [scan EXCEPT !.live = page.continuation # <<>>,
                                        !.resume = page.continuation,
                                        !.seen = @ \o [i \in DOMAIN page.entries |->
                                                         EntryKey(page.entries[i])]]
  BY DEF NextPage
<1>7. PICK page : page = PageOf(limit)
  OBVIOUS
<1>8. CASE page.error
  <2>1. scan' = scan
    BY <1>6, <1>7, <1>8
  <2> QED BY <2>1, <1>5, InvStays
<1>9. CASE ~ page.error
  <2>1. Tidy(view) /\ Tidy(tx.view)
    BY <1>1, <1>3 DEF Ties, Good
  <2>2. asc \in BOOLEAN /\ IsPart(part)
    BY <1>2 DEF Scans, ScanOk
  <2>3. PICK from : Leads(part, asc, resume, seen, stable, from)
    BY <1>2, <1>4 DEF Scans, ScanOk
  <2>4. GoesOn(part, scan.resume, from)
    BY <2>3, <1>4 DEF Leads
  <2>5. PICK w : /\ Adds(page, w, Ahead(tx.view, part, asc, from), part, asc)
                 /\ EntryKeys(page) = w
    <3>1. scan.ascending = asc /\ scan.part = part
      BY <1>4
    <3> QED BY <2>1, <2>2, <2>4, <3>1, <1>7, <1>9, PageAdds
  <2>6. PICK more \in BOOLEAN : more = (page.continuation # <<>>)
    OBVIOUS
  <2>7. PICK s, next : s = seen \o w /\ next = page.continuation
    OBVIOUS
  <2>8. PICK sc : sc = scan
    OBVIOUS
  <2>9. scan' = Paged(sc, more, next, s)
    <3>1. scan' = [scan EXCEPT !.live = page.continuation # <<>>,
                                        !.resume = page.continuation,
                                        !.seen = @ \o [i \in DOMAIN page.entries |->
                                                         EntryKey(page.entries[i])]]
      BY <1>6, <1>7, <1>9, Zenon
    <3> QED BY <3>1, <2>5, <2>6, <2>7, <2>8, <1>4, Zenon DEF Paged, EntryKeys
  <2>10. Paged(sc, more, next, s) = ScanOf(more, part, asc, next, s, stable)
    <3>1. sc = ScanOf(live, part, asc, resume, seen, stable)
      BY <2>8, <1>4
    <3> QED BY <3>1, ScanUpdates
  <2>11. scan' = ScanOf(more, part, asc, next, s, stable)
    BY <2>9, <2>10, Zenon
  <2>12. stable \subseteq Held(view)
    BY <1>2, <1>3, <1>4 DEF Scans
  <2>13. ScanOk(live, part, asc, resume, seen, stable) /\ live \in BOOLEAN
    BY <1>2 DEF Scans, ScanOk
  <2>14. Adds(page, w, Ahead(view, part, asc, from), part, asc)
    BY <2>5, <1>3
  <2>15. Joined(s, seen, w) /\ (more <=> page.continuation # <<>>) /\ live = TRUE
    BY <2>6, <2>7, <2>13, <1>4 DEF Joined
  <2>16. ScanOk(more, part, asc, page.continuation, s, stable)
    BY <2>1, <2>3, <2>12, <2>13, <2>14, <2>15, PageStep
  <2>17. Scans(open, poisoned, view, more, part, asc, next, s, stable)
    BY <2>7, <2>12, <2>16, <1>3 DEF Scans
  <2>18. Ties(log', batch', pending', failed', open, sync, view, poisoned, writes)
    BY <1>1, <1>5
  <2>19. tx' = TxOf(open, sync, view, poisoned, writes, calls)
    BY <1>3, <1>5
  <2> QED BY <2>11, <2>17, <2>18, <2>19, InvFrom
<1> QED BY <1>8, <1>9

\* A call is sound.
Calls == tx.open /\ ~ tx.poisoned /\ \E o : Sound(tx.view, o) /\ Call(o)

\* Every operation is a sound call.
LEMMA CallsAre ==
  ASSUME Inv,
         \/ TryPush \/ PopFront \/ DiscardFront \/ QueuedBytes
         \/ Adjust \/ SetMultiplicity \/ Multiplicity \/ PartitionIsEmpty \/ HasOtherKey
  PROVE  Calls
<1>1. tx.open /\ ~ tx.poisoned
  BY DEF TryPush, PopFront, DiscardFront, QueuedBytes, Adjust, SetMultiplicity, Multiplicity,
         PartitionIsEmpty, HasOtherKey, Healthy
<1>2. PICK view : view = tx.view
  OBVIOUS
<1>3. Good(view)
  BY <1>1, <1>2, InvTies
<1>4. CASE TryPush
  BY <1>1, <1>2, <1>3, <1>4, QueueCalls DEF TryPush, Calls
<1>5. CASE PopFront
  BY <1>1, <1>2, <1>3, <1>5, QueueCalls DEF PopFront, Calls
<1>6. CASE DiscardFront
  BY <1>1, <1>2, <1>3, <1>6, QueueCalls DEF DiscardFront, Calls
<1>7. CASE QueuedBytes
  BY <1>1, <1>2, <1>3, <1>7, QueueCalls DEF QueuedBytes, Calls
<1>8. CASE Adjust
  BY <1>1, <1>2, <1>3, <1>8, MapCalls DEF Adjust, Calls
<1>9. CASE SetMultiplicity
  <2>1. PICK pk \in MapKey, w \in 0..MaxWeight :
          Call(Outcome(<<tx.view, set_encoded(tx.view, MapP, Encoded[pk], w)>>, Reply("set", <<>>)))
    BY <1>9 DEF SetMultiplicity
  <2>2. PICK o : o = Outcome(<<view, set_encoded(view, MapP, Encoded[pk], w)>>, Reply("set", <<>>))
    OBVIOUS
  <2>3. Sound(view, o)
    BY <2>2, <1>3, MapCalls, Zenon
  <2>4. Call(o) /\ Sound(tx.view, o)
    BY <2>1, <2>2, <2>3, <1>2, Zenon
  <2> QED BY <2>4, <1>1 DEF Calls
<1>10. ASSUME NEW answer, Call(Unchanged(tx.view, answer)) PROVE Calls
  <2>1. PICK o : o = Unchanged(view, answer)
    OBVIOUS
  <2>2. Sound(view, o)
    BY <2>1, <1>3, UnchangedSound
  <2>3. Call(o) /\ Sound(tx.view, o)
    BY <1>10, <2>1, <2>2, <1>2
  <2> QED BY <2>3, <1>1 DEF Calls
<1>11. CASE Multiplicity
  BY <1>10, <1>11 DEF Multiplicity
<1>12. CASE PartitionIsEmpty
  BY <1>10, <1>12 DEF PartitionIsEmpty
<1>13. CASE HasOtherKey
  BY <1>10, <1>13 DEF HasOtherKey
<1> QED BY <1>4, <1>5, <1>6, <1>7, <1>8, <1>9, <1>11, <1>12, <1>13
\* Every step keeps the invariant.
LEMMA NextKeeps ==
  ASSUME Inv, Next
  PROVE  Inv'
<1>1. CASE StartBatch
  BY <1>1, StartBatchKeeps
<1>2. CASE Begin
  BY <1>2, BeginKeeps
<1>3. CASE Commit
  BY <1>3, CommitKeeps
<1>4. CASE CommitFails
  BY <1>4, CommitFailsKeeps
<1>5. CASE Drop
  BY <1>5, DropKeeps
<1>6. CASE \E ends \in BOOLEAN : Sync(ends)
  BY <1>6, SyncKeeps
<1>7. CASE SyncFails
  <2>1. failed' = TRUE /\ UNCHANGED <<log, batch, pending, tx, scan>> /\ ~ tx.open
    BY <1>7 DEF SyncFails
  <2>2. PICK open, sync, view, poisoned, writes, calls :
          /\ TxHas(tx, open, sync, view, poisoned, writes, calls)
          /\ Ties(log, batch, pending, failed, open, sync, view, poisoned, writes)
          /\ \E live, part, asc, resume, seen, stable :
               /\ ScanHas(scan, live, part, asc, resume, seen, stable)
               /\ Scans(open, poisoned, view, live, part, asc, resume, seen, stable)
    BY Zenon DEF Inv
  <2>3. ~ open
    BY <2>1, <2>2 DEF TxHas
  <2>4. Ties(log', batch', pending', failed', open, sync, view, poisoned, writes)
    BY <2>1, <2>2, <2>3 DEF Ties
  <2>5. TxHas(tx', open, sync, view, poisoned, writes, calls)
    BY <2>1, <2>2
  <2>6. \E live, part, asc, resume, seen, stable :
          /\ ScanHas(scan', live, part, asc, resume, seen, stable)
          /\ Scans(open, poisoned, view, live, part, asc, resume, seen, stable)
    BY <2>1, <2>2
  <2> QED BY <2>4, <2>5, <2>6, Zenon DEF Inv
<1>8. CASE Restart
  BY <1>8, RestartKeeps
<1>9. CASE CallPoisoned
  BY <1>9, InvStays DEF CallPoisoned
<1>10. CASE CallForeign
  BY <1>10, PoisonsKeeps DEF CallForeign
<1>11. CASE \/ TryPush \/ PopFront \/ DiscardFront \/ QueuedBytes
            \/ Adjust \/ SetMultiplicity \/ Multiplicity \/ PartitionIsEmpty \/ HasOtherKey
  <2>1. Calls
    BY <1>11, CallsAre
  <2> QED BY <2>1, CallKeeps DEF Calls
<1>12. CASE SnapshotFront
  BY <1>12, InvStays DEF SnapshotFront
<1>13. CASE StartScan
  BY <1>13, StartScanKeeps
<1>14. CASE NextPage
  BY <1>14, NextPageKeeps
<1>15. CASE PageFails
  BY <1>15, PoisonsKeeps DEF PageFails
<1> QED BY <1>1, <1>2, <1>3, <1>4, <1>5, <1>6, <1>7, <1>8, <1>9, <1>10, <1>11, <1>12, <1>13, <1>14, <1>15 DEF Next

\* It holds at first.
LEMMA InvInit ==
  ASSUME Init
  PROVE  Inv
<1>1. PICK v, z, l : v = <<>> /\ z = 0 /\ l = <<v>>
  OBVIOUS
<1>2. PICK no \in BOOLEAN : no = FALSE
  OBVIOUS
<1>3. Good(v)
  BY <1>1, EmptyGood
<1>4. IsLog(l) /\ Len(l) = 1 /\ Last(l) = v
  BY <1>1, <1>3, LogOne
<1>5. log = l /\ batch = no /\ pending = no /\ failed = no
  BY <1>1, <1>2 DEF Init
<1>6. tx = TxOf(no, no, v, no, no, z)
  BY <1>1, <1>2, Zenon DEF Init, NoTx, TxOf
<1>7. TxHas(tx, no, no, v, no, no, z)
  <2>1. PICK t : t = tx
    OBVIOUS
  <2>2. TxHas(t, no, no, v, no, no, z)
    BY <2>1, <1>6, TxFields, Zenon
  <2> QED BY <2>1, <2>2, Zenon
<1>8. Ties(log, batch, pending, failed, no, no, v, no, no)
  BY <1>2, <1>3, <1>4, <1>5 DEF Ties
<1>9. PICK x, p, a, r, s, b : NoScan = ScanOf(x, p, a, r, s, b) /\ Scans(no, no, v, x, p, a, r, s, b)
  BY NoScanIs
<1>10. ScanHas(scan, x, p, a, r, s, b)
  <2>1. PICK sc : sc = scan
    OBVIOUS
  <2>2. sc = ScanOf(x, p, a, r, s, b)
    BY <2>1, <1>9 DEF Init
  <2>3. ScanHas(sc, x, p, a, r, s, b)
    BY <2>2, ScanFields
  <2> QED BY <2>1, <2>3
<1> QED BY <1>7, <1>8, <1>9, <1>10, Zenon DEF Inv

\* The invariant holds in every state.
LEMMA InvHolds == Spec => []Inv
<1>1. Init => Inv
  BY InvInit
<1>2. Inv /\ [Next]_vars => Inv'
  BY NextKeeps, InvStutters
<1> QED BY <1>1, <1>2, PTL DEF Spec

\* What the invariant says of scans.
LEMMA InvScans ==
  ASSUME Inv
  PROVE  ScanIsComplete
<1>1. PICK open, poisoned, view, live, part, asc, resume, seen, stable :
        /\ ScanHas(scan, live, part, asc, resume, seen, stable)
        /\ Scans(open, poisoned, view, live, part, asc, resume, seen, stable)
  BY Zenon DEF Inv
<1>2. ScanOk(live, part, asc, resume, seen, stable) /\ live \in BOOLEAN /\ asc \in BOOLEAN
      /\ InOrder(seen, part, asc)
  BY <1>1 DEF Scans, ScanOk
<1>3. scan.live = live /\ scan.part = part /\ scan.ascending = asc /\ scan.seen = seen /\ scan.stable = stable
  BY <1>1, Zenon DEF ScanHas
<1>4. Len(seen) \in Nat /\ DOMAIN seen = 1..Len(seen)
  BY <1>2, LenProperties DEF InOrder
<1>5. ASSUME NEW i \in 1..Len(seen) - 1
      PROVE  IF asc THEN KeyBefore(seen[i], seen[i + 1]) ELSE KeyBefore(seen[i + 1], seen[i])
  <2>1. i \in 1..Len(seen) /\ i + 1 \in 1..Len(seen) /\ i < i + 1
    BY <1>4
  <2>2. PairBefore(asc, seen[i], seen[i + 1])
    BY <2>1, <1>2 DEF InOrder
  <2> QED BY <2>2 DEF PairBefore
<1>6. ASSUME NEW i \in 1..Len(seen), part # <<>> PROVE seen[i][1] = part[1]
  <2>1. PICK c : c = seen[i][1]
    OBVIOUS
  <2>2. part = <<c>>
    BY <2>1, <1>2, <1>6 DEF InOrder, InPart
  <2> QED BY <2>1, <2>2
<1>7. ~ live => stable \subseteq ToSet(seen)
  <2> HAVE ~ live
  <2>1. \A pk \in stable : \E i \in 1..Len(seen) : seen[i] = pk
    BY <1>2 DEF ScanOk, Met
  <2> QED BY <2>1, <1>4 DEF ToSet
<1> QED BY <1>3, <1>4, <1>5, <1>6, <1>7 DEF ScanIsComplete

\* A scan in pages meets its keys in strict order and never one twice, whatever is
\* written between its pages, and when it ends it has met every key of its range
\* that was there all along (DataNamespace::scan, PartitionedMap::scan_partition).
THEOREM ScansAreComplete == Spec => []ScanIsComplete
<1>1. Inv => ScanIsComplete
  BY InvScans
<1> QED BY <1>1, InvHolds, PTL
-----------------------------------------------------------------------------
(* The contract.                                                           *)

\* What the states of a log stand for.
Picture(l) == [i \in DOMAIN l |-> Contents(l[i])]

\* One state.
LEMMA PictureOne ==
  ASSUME NEW v, NEW l, l = <<v>>
  PROVE  Picture(l) = <<Contents(v)>>
<1>1. PICK c : c = Contents(v)
  OBVIOUS
<1>2. DOMAIN l = 1..1 /\ l[1] = v
  OBVIOUS
<1>3. Picture(l) = [i \in 1..1 |-> c]
  <2>1. \A i \in 1..1 : Contents(l[i]) = c
    <3> TAKE i \in 1..1
    <3>1. i = 1
      OBVIOUS
    <3> QED BY <3>1, <1>1, <1>2
  <2> QED BY <2>1, <1>2, Zenon DEF Picture
<1>4. [i \in 1..1 |-> c] = <<c>>
  OBVIOUS
<1> QED BY <1>1, <1>3, <1>4

\* The last state, and any other.
LEMMA PictureIs ==
  ASSUME NEW l, IsLog(l), NEW k, k = Picture(l)
  PROVE  /\ Last(k) = Contents(Last(l)) /\ DOMAIN k = DOMAIN l /\ Len(k) = Len(l)
         /\ k \in Seq({Contents(l[i]) : i \in DOMAIN l})
         /\ \A i \in DOMAIN l : k[i] = Contents(l[i])
<1>1. PICK n \in Nat : n = Len(l) /\ DOMAIN l = 1..n /\ n \in 1..n /\ Last(l) = l[n]
  BY LogIs
<1>2. DOMAIN k = 1..n /\ \A i \in 1..n : k[i] = Contents(l[i])
  BY <1>1 DEF Picture
<1>3. PICK S : S = {Contents(l[i]) : i \in DOMAIN l}
  OBVIOUS
<1>4. k \in Seq(S) /\ Len(k) = n
  <2>1. k \in [1..n -> S]
    <3>1. k = [i \in 1..n |-> Contents(l[i])]
      BY <1>1 DEF Picture
    <3>2. \A i \in 1..n : Contents(l[i]) \in S
      BY <1>1, <1>3
    <3> QED BY <3>1, <3>2
  <2> QED BY <2>1, <1>2
<1>5. Last(k) = k[n]
  BY <1>4 DEF Last
<1> QED BY <1>1, <1>2, <1>3, <1>4, <1>5

\* One state more.
LEMMA PictureMore ==
  ASSUME NEW l, IsLog(l), NEW v, Good(v), NEW m, m = Append(l, v)
  PROVE  Picture(m) = Append(Picture(l), Contents(v))
<1>1. PICK n \in Nat : n = Len(l)
  BY LogMore
<1>2. DOMAIN m = 1..(n + 1) /\ m[n + 1] = v /\ \A i \in 1..n : m[i] = l[i]
  BY <1>1, LogMore
<1>3. PICK k, c : k = Picture(l) /\ c = Contents(v)
  OBVIOUS
<1>4. PICK S : k \in Seq(S)
  BY <1>3, PictureIs
<1>5. Len(k) = n /\ DOMAIN l = 1..n /\ \A i \in 1..n : k[i] = Contents(l[i])
  <2>1. DOMAIN l = 1..n
    BY <1>1, LogIs
  <2>2. Len(k) = n /\ \A i \in DOMAIN l : k[i] = Contents(l[i])
    BY <1>1, <1>3, PictureIs
  <2> QED BY <2>1, <2>2
<1>6. PICK T : T = S \cup {c}
  OBVIOUS
<1>7. k \in Seq(T) /\ c \in T
  BY <1>4, <1>6
<1>8. PICK a : a = Append(k, c)
  OBVIOUS
<1>9. a \in Seq(T) /\ Len(a) = n + 1 /\ a[n + 1] = c /\ \A i \in 1..n : a[i] = k[i]
  BY <1>5, <1>7, <1>8, AppendProperties
<1>10. a = [i \in 1..(n + 1) |-> a[i]]
  BY <1>9
<1>11. ASSUME NEW i \in 1..(n + 1) PROVE a[i] = Contents(m[i])
  <2>1. CASE i = n + 1
    BY <2>1, <1>2, <1>3, <1>9
  <2>2. CASE i # n + 1
    <3>1. i \in 1..n
      BY <2>2
    <3> QED BY <3>1, <1>2, <1>5, <1>9
  <2> QED BY <2>1, <2>2
<1>12. Picture(m) = [i \in 1..(n + 1) |-> a[i]]
  BY <1>2, <1>11, Zenon DEF Picture
<1> QED BY <1>3, <1>8, <1>10, <1>12

\* A queue and weights.
ContentOf(q, W) == [fifo |-> q, weights |-> W]

\* What can be read from them.
LEMMA ContentIs ==
  ASSUME NEW q, NEW W, NEW c, c = ContentOf(q, W)
  PROVE  /\ c.fifo = q /\ c.weights = W
         /\ \A r : [c EXCEPT !.fifo = r] = ContentOf(r, W)
         /\ \A V : [c EXCEPT !.weights = V] = ContentOf(q, V)
<1>1. c.fifo = q /\ c.weights = W
  BY DEF ContentOf
<1>2. ASSUME NEW r PROVE [c EXCEPT !.fifo = r] = ContentOf(r, W)
  BY DEF ContentOf
<1>3. ASSUME NEW V PROVE [c EXCEPT !.weights = V] = ContentOf(q, V)
  BY DEF ContentOf
<1> QED BY <1>1, <1>2, <1>3, Zenon

\* The contents of a good view.
LEMMA GoodContents ==
  ASSUME NEW view, NEW h, NEW q, Tidy(view), QueueIs(view, h, q)
  PROVE  Contents(view) = ContentOf(q, WeightsOf(view))
BY ContentsAre DEF ContentOf

\* What a call on the queue makes of the contents.
LEMMA QueueContents ==
  ASSUME NEW view, NEW o, NEW r, LeavesQueue(view, o, r)
  PROVE  Contents(Last(o.views)) = ContentOf(r, WeightsOf(view))
<1>1. PICK x : x = Last(o.views)
  OBVIOUS
<1>2. PICK g : Tidy(x) /\ SameMap(view, x) /\ QueueIs(x, g, r)
  BY <1>1 DEF LeavesQueue
<1>3. WeightsOf(view) = WeightsOf(x)
  BY <1>2, SameWeights
<1>4. Contents(x) = ContentOf(r, WeightsOf(x))
  BY <1>2, GoodContents
<1> QED BY <1>1, <1>3, <1>4

\* What a call on the map makes of the contents.
LEMMA MapContents ==
  ASSUME NEW view, NEW h, NEW q, QueueIs(view, h, q), NEW o, NEW pk, NEW n, LeavesMap(view, o, pk, n)
  PROVE  Contents(Last(o.views)) = ContentOf(q, WeightSet(WeightsOf(view), pk, n))
<1>1. PICK x : x = Last(o.views)
  OBVIOUS
<1>2. Tidy(x) /\ QueueIs(x, h, q) /\ WeightsOf(x) = WeightSet(WeightsOf(view), pk, n)
  BY <1>1 DEF LeavesMap
<1>3. Contents(x) = ContentOf(q, WeightsOf(x))
  BY <1>2, GoodContents
<1> QED BY <1>1, <1>2, <1>3
\* The contract's variables show what the bytes stand for.
Stands ==
  /\ keptContents = Picture(log)
  /\ draftContents = IF tx.poisoned THEN Last(keptContents) ELSE Contents(tx.view)

\* They do after every step.
LEMMA StandsAfter ==
  ASSUME MCNext
  PROVE  Stands'
BY DEF MCNext, Stands, Picture

\* The transaction after a call.
LEMMA CompletesGives ==
  ASSUME Inv, NEW o, Completes(o)
  PROVE  /\ tx'.open = tx.open /\ tx'.view = Last(o.views) /\ reply' = o.reply
         /\ tx'.poisoned <=> o.reply.kind \in HardErrors
<1>1. PICK open, sync, view, poisoned, writes, calls :
        TxHas(tx, open, sync, view, poisoned, writes, calls)
  BY Zenon DEF Inv
<1>2. PICK t : t = tx /\ t = TxOf(open, sync, view, poisoned, writes, calls) /\ t.open = open
  BY <1>1, Zenon DEF TxHas
<1>3. PICK v : v = Last(o.views)
  OBVIOUS
<1>4. PICK x \in BOOLEAN : x = (tx.writes \/ Len(o.views) > 1)
  OBVIOUS
<1>5. PICK y \in BOOLEAN : y = (o.reply.kind \in HardErrors)
  <2>1. (o.reply.kind \in HardErrors) \in BOOLEAN
    OBVIOUS
  <2> QED BY <2>1, Zenon
<1>6. PICK c : c = tx.calls + 1
  OBVIOUS
<1>7. tx' = Ended(t, v, x, y, c) /\ reply' = o.reply
  BY <1>2, <1>3, <1>4, <1>5, <1>6, Zenon DEF Completes, Ended
<1>8. Ended(t, v, x, y, c) = TxOf(open, sync, v, y, x, c)
  BY <1>2, TxUpdates
<1>9. PICK u : u = tx' /\ u = TxOf(open, sync, v, y, x, c)
  BY <1>7, <1>8, Zenon
<1>10. u.open = open /\ u.view = v /\ u.poisoned = y
  <2>1. TxHas(u, open, sync, v, y, x, c)
    BY <1>9, TxFields, Zenon
  <2> QED BY <2>1, Zenon DEF TxHas
<1>11. tx'.poisoned = y
  BY <1>9, <1>10, Zenon
<1>12. tx'.open = tx.open /\ tx'.view = v
  BY <1>2, <1>9, <1>10, Zenon
<1> QED BY <1>3, <1>5, <1>7, <1>11, <1>12, Zenon

\* The transaction after a storage error.
LEMMA StorageGives ==
  ASSUME Inv, NEW o, StorageFails(o)
  PROVE  tx'.open = tx.open /\ tx'.poisoned /\ reply' = Reply("storage", <<>>)
<1>1. PICK open, sync, view, poisoned, writes, calls :
        TxHas(tx, open, sync, view, poisoned, writes, calls)
  BY Zenon DEF Inv
<1>2. PICK t : t = tx /\ t = TxOf(open, sync, view, poisoned, writes, calls) /\ t.open = open
  BY <1>1, Zenon DEF TxHas
<1>3. PICK n \in DOMAIN o.views :
        tx' = [tx EXCEPT !.view = o.views[n], !.writes = @ \/ n > 1, !.poisoned = TRUE]
  BY DEF StorageFails
<1>4. PICK v : v = o.views[n]
  OBVIOUS
<1>5. PICK x \in BOOLEAN : x = (tx.writes \/ n > 1)
  OBVIOUS
<1>6. PICK y \in BOOLEAN : y = TRUE
  OBVIOUS
<1>7. tx' = Stopped(t, v, x, y)
  BY <1>2, <1>3, <1>4, <1>5, <1>6, Zenon DEF Stopped
<1>8. Stopped(t, v, x, y) = TxOf(open, sync, v, y, x, calls)
  BY <1>2, TxUpdates
<1>9. PICK u : u = tx' /\ u = TxOf(open, sync, v, y, x, calls)
  BY <1>7, <1>8, Zenon
<1>10. u.open = open /\ u.poisoned = y
  <2>1. TxHas(u, open, sync, v, y, x, calls)
    BY <1>9, TxFields, Zenon
  <2> QED BY <2>1, Zenon DEF TxHas
<1>11. tx'.open = tx.open /\ tx'.poisoned = y
  BY <1>2, <1>9, <1>10, Zenon
<1>12. reply' = Reply("storage", <<>>)
  BY DEF StorageFails
<1> QED BY <1>6, <1>11, <1>12

\* A call that fails hard.
LEMMA FailsIs ==
  ASSUME Stands, Stands', log' = log, tx.open, ~ tx.poisoned, tx'.open = tx.open, tx'.poisoned,
         NEW kind, reply' = Reply(kind, <<>>)
  PROVE  Contract!Fails(kind)
<1>1. keptContents' = keptContents
  BY DEF Stands
<1>2. draftContents' = Last(keptContents)
  BY <1>1 DEF Stands
<1>3. Contract!Says(kind, <<>>)
  BY DEF Contract!Says, Reply
<1> QED BY <1>1, <1>2, <1>3 DEF Contract!Fails, Contract!Visible, Contract!Last, Last

\* A call that is answered.
LEMMA AnswersIs ==
  ASSUME Stands, Stands', log' = log, tx.open, ~ tx.poisoned, tx'.open = tx.open, ~ tx'.poisoned,
         NEW kind, NEW data, reply' = Reply(kind, data), NEW next, Contents(tx'.view) = next
  PROVE  Contract!Answers(kind, data, next)
<1>1. keptContents' = keptContents
  BY DEF Stands
<1>2. draftContents' = next
  BY DEF Stands
<1> QED BY <1>1, <1>2 DEF Contract!Answers, Contract!Says, Reply
\* The draft of a healthy transaction.
LEMMA DraftIs ==
  ASSUME Inv, Stands, tx.open, ~ tx.poisoned
  PROVE  \E view, h, q, W : /\ view = tx.view /\ Tidy(view) /\ QueueIs(view, h, q) /\ W = WeightsOf(view)
                            /\ Contents(view) = ContentOf(q, W) /\ draftContents = ContentOf(q, W)
                            /\ q \in Seq(Payload)
<1>1. PICK view : view = tx.view
  OBVIOUS
<1>2. Good(view)
  BY <1>1, InvTies
<1>3. PICK h, q : Tidy(view) /\ QueueIs(view, h, q)
  BY <1>2 DEF Good
<1>4. PICK W : W = WeightsOf(view)
  OBVIOUS
<1>5. Contents(view) = ContentOf(q, W)
  BY <1>3, <1>4, GoodContents
<1>6. draftContents = ContentOf(q, W)
  BY <1>1, <1>5 DEF Stands
<1>7. q \in Seq(Payload)
  BY <1>3 DEF QueueIs
<1> QED BY <1>1, <1>3, <1>4, <1>5, <1>6, <1>7

\* A call that has run to its end, and was answered.
LEMMA EndsWell ==
  ASSUME Inv, Stands, Stands', log' = log, tx.open, ~ tx.poisoned, NEW o, Completes(o),
         NEW kind, kind \notin HardErrors, NEW data, o.reply = Reply(kind, data),
         NEW next, Contents(Last(o.views)) = next
  PROVE  Contract!Answers(kind, data, next) /\ reply' = Reply(kind, data) /\ reply'.kind = kind
<1>1. o.reply.kind = kind
  BY KindIs
<1>2. tx'.open = tx.open /\ tx'.view = Last(o.views) /\ reply' = o.reply /\ ~ tx'.poisoned
  BY <1>1, CompletesGives
<1>3. Contents(tx'.view) = next
  BY <1>2
<1>4. reply' = Reply(kind, data)
  BY <1>2
<1>5. Contract!Answers(kind, data, next)
  BY <1>2, <1>3, <1>4, AnswersIs
<1> QED BY <1>1, <1>2, <1>4, <1>5

\* A call that has run to its end, and failed.
LEMMA EndsBadly ==
  ASSUME Inv, Stands, Stands', log' = log, tx.open, ~ tx.poisoned, NEW o, Completes(o),
         NEW kind \in HardErrors, o.reply = Reply(kind, <<>>)
  PROVE  Contract!Fails(kind) /\ reply'.kind = kind
<1>1. o.reply.kind = kind
  BY KindIs
<1>2. tx'.open = tx.open /\ reply' = o.reply /\ tx'.poisoned
  BY <1>1, CompletesGives
<1>3. reply' = Reply(kind, <<>>)
  BY <1>2
<1>4. Contract!Fails(kind)
  BY <1>2, <1>3, FailsIs
<1> QED BY <1>1, <1>2, <1>4

\* The kinds of answers that leave a transaction healthy.
LEMMA SoftKinds ==
  \A kind \in {"full", "pushed", "none", "too_large", "some", "empty", "left", "change", "set",
               "held", "only", "other"} : kind \notin HardErrors
BY DEF HardErrors

\* A push.
LEMMA PushMaps ==
  ASSUME Inv, Stands, Stands', log' = log, tx.open, ~ tx.poisoned, NEW v \in Payload,
         NEW o, o = try_push(tx.view, QueueP, v, Capacity), Completes(o)
  PROVE  Contract!TryPush
<1>1. PICK view, h, q, W : /\ view = tx.view /\ Tidy(view) /\ QueueIs(view, h, q) /\ W = WeightsOf(view)
                           /\ Contents(view) = ContentOf(q, W) /\ draftContents = ContentOf(q, W)
                           /\ q \in Seq(Payload)
  BY DraftIs
<1>2. PICK d : d = draftContents
  OBVIOUS
<1>3. d.fifo = q /\ d = ContentOf(q, W) /\ \A r : [d EXCEPT !.fifo = r] = ContentOf(r, W)
  BY <1>1, <1>2, ContentIs
<1>4. Contract!QueuedBytes(d) + v.size + SequenceBytes = Need(q, v)
  <2>1. Contract!QueuedBytes(d) = BytesOf(q)
    BY <1>3, ContractBytes
  <2> QED BY <2>1 DEF Need, SequenceBytes
<1>5. o = try_push(view, QueueP, v, Capacity)
  BY <1>1
<1>6. PICK r : r = Longer(q, v) /\ [d EXCEPT !.fifo = Append(@, v)] = ContentOf(r, W)
  <2>1. PICK r : r = Append(q, v)
    OBVIOUS
  <2>2. [d EXCEPT !.fifo = Append(@, v)] = [d EXCEPT !.fifo = r]
    BY <2>1, <1>3
  <2> QED BY <2>1, <2>2, <1>3 DEF Longer
<1>7. CASE Need(q, v) > Capacity /\ o.reply = Reply("full", <<>>) /\ LeavesQueue(view, o, q)
  <2>1. Contents(Last(o.views)) = d
    BY <1>1, <1>3, <1>7, QueueContents
  <2>2. Contract!Answers("full", <<>>, d)
    BY <2>1, <1>7, EndsWell, SoftKinds
  <2> QED BY <2>2, <1>2, <1>4, <1>7 DEF Contract!TryPush
<1>8. CASE Need(q, v) <= Capacity /\ q # <<>> /\ o.reply = Reply("exhausted", <<>>)
  <2>1. Contract!Fails("exhausted")
    <3>1. "exhausted" \in HardErrors
      BY DEF HardErrors
    <3> QED BY <3>1, <1>8, EndsBadly
  <2> QED BY <2>1, <1>2, <1>3, <1>4, <1>8 DEF Contract!TryPush
<1>9. CASE Need(q, v) <= Capacity /\ o.reply = Reply("pushed", <<>>) /\ LeavesQueue(view, o, Longer(q, v))
  <2>1. PICK next : next = ContentOf(r, W)
    OBVIOUS
  <2>2. Contents(Last(o.views)) = next
    BY <2>1, <1>1, <1>6, <1>9, QueueContents
  <2>3. Contract!Answers("pushed", <<>>, next)
    BY <2>2, <1>9, EndsWell, SoftKinds
  <2>4. next = [d EXCEPT !.fifo = Append(@, v)]
    BY <2>1, <1>6
  <2> QED BY <2>3, <2>4, <1>2, <1>4, <1>9 DEF Contract!TryPush
<1> QED BY <1>1, <1>5, <1>7, <1>8, <1>9, PushLeaves

\* A pop.
LEMMA PopMaps ==
  ASSUME Inv, Stands, Stands', log' = log, tx.open, ~ tx.poisoned, NEW max,
         NEW o, o = pop_front_bounded(tx.view, QueueP, max), Completes(o)
  PROVE  Contract!PopFront
<1>1. PICK view, h, q, W : /\ view = tx.view /\ Tidy(view) /\ QueueIs(view, h, q) /\ W = WeightsOf(view)
                           /\ Contents(view) = ContentOf(q, W) /\ draftContents = ContentOf(q, W)
                           /\ q \in Seq(Payload)
  BY DraftIs
<1>2. PICK d : d = draftContents
  OBVIOUS
<1>3. d.fifo = q /\ d = ContentOf(q, W) /\ \A r : [d EXCEPT !.fifo = r] = ContentOf(r, W)
  BY <1>1, <1>2, ContentIs
<1>4. o = pop_front_bounded(view, QueueP, max)
  BY <1>1
<1>5. PICK r : r = SubSeq(q, 1 + 1, Len(q))
  OBVIOUS
<1>6. CASE q = <<>> /\ o.reply = Reply("none", <<>>) /\ LeavesQueue(view, o, q)
  <2>1. Contents(Last(o.views)) = d
    BY <1>1, <1>3, <1>6, QueueContents
  <2>2. Contract!Answers("none", <<>>, d)
    BY <2>1, <1>6, EndsWell, SoftKinds
  <2> QED BY <2>2, <1>2, <1>3, <1>6 DEF Contract!PopFront
<1>7. CASE q # <<>> /\ o.reply = Reply("too_large", <<>>) /\ LeavesQueue(view, o, q)
  <2>1. Contents(Last(o.views)) = d
    BY <1>1, <1>3, <1>7, QueueContents
  <2>2. Contract!Answers("too_large", <<>>, d)
    BY <2>1, <1>7, EndsWell, SoftKinds
  <2> QED BY <2>2, <1>2, <1>3, <1>7 DEF Contract!PopFront
<1>8. CASE q # <<>> /\ o.reply = Reply("some", q[1].data) /\ LeavesQueue(view, o, r)
  <2>1. PICK next, data : next = ContentOf(r, W) /\ data = q[1].data
    OBVIOUS
  <2>2. Contents(Last(o.views)) = next
    BY <2>1, <1>1, <1>8, QueueContents
  <2>3. Contract!Answers("some", data, next) /\ reply'.kind = "some"
    BY <2>1, <2>2, <1>8, EndsWell, SoftKinds
  <2>4. Head(q) = q[1] /\ Tail(q) = r
    BY <1>1, <1>5, <1>8
  <2>5. next = [d EXCEPT !.fifo = Tail(@)] /\ data = Head(d.fifo).data
    BY <2>1, <2>4, <1>3
  <2> QED BY <2>3, <2>5, <1>2, <1>3, <1>8 DEF Contract!PopFront
<1> QED BY <1>1, <1>4, <1>5, <1>6, <1>7, <1>8, PopLeaves

\* A discard.
LEMMA DiscardMaps ==
  ASSUME Inv, Stands, Stands', log' = log, tx.open, ~ tx.poisoned, NEW n \in 0..2,
         NEW o, o = discard_front(tx.view, QueueP, n), Completes(o)
  PROVE  Contract!DiscardFront
<1>1. PICK view, h, q, W : /\ view = tx.view /\ Tidy(view) /\ QueueIs(view, h, q) /\ W = WeightsOf(view)
                           /\ Contents(view) = ContentOf(q, W) /\ draftContents = ContentOf(q, W)
                           /\ q \in Seq(Payload)
  BY DraftIs
<1>2. PICK d : d = draftContents
  OBVIOUS
<1>3. d.fifo = q /\ d = ContentOf(q, W) /\ \A r : [d EXCEPT !.fifo = r] = ContentOf(r, W)
  BY <1>1, <1>2, ContentIs
<1>4. o = discard_front(view, QueueP, n) /\ n \in Nat
  BY <1>1
<1>5. PICK k, r :
        /\ k \in 0..Len(q)
        /\ Rest(q, k, r) /\ LeavesQueue(view, o, r)
        /\ o.reply = Reply(IF r = <<>> THEN "empty" ELSE "left", <<>>)
  BY <1>1, <1>4, DiscardLeaves
<1>6. PICK next, kind : next = ContentOf(r, W) /\ kind = IF r = <<>> THEN "empty" ELSE "left"
  OBVIOUS
<1>7. Contents(Last(o.views)) = next
  BY <1>1, <1>5, <1>6, QueueContents
<1>8. kind \in {"empty", "left"} /\ kind \notin HardErrors /\ o.reply = Reply(kind, <<>>)
  BY <1>5, <1>6, SoftKinds
<1>9. Contract!Answers(kind, <<>>, next) /\ reply'.kind = kind
  BY <1>7, <1>8, EndsWell
<1>10. PICK left : left = SubSeq(d.fifo, k + 1, Len(d.fifo)) /\ left = r /\ k \in 0..Len(d.fifo)
  BY <1>3, <1>5 DEF Rest
<1>11. next = [d EXCEPT !.fifo = left] /\ kind = IF left = <<>> THEN "empty" ELSE "left"
  BY <1>3, <1>6, <1>10
<1> QED BY <1>2, <1>8, <1>9, <1>10, <1>11, Zenon DEF Contract!DiscardFront

\* A count.
LEMMA CountMaps ==
  ASSUME Inv, Stands, Stands', log' = log, tx.open, ~ tx.poisoned,
         NEW o, o = queued_bytes(tx.view, QueueP), Completes(o)
  PROVE  Contract!CountBytes
<1>1. PICK view, h, q, W : /\ view = tx.view /\ Tidy(view) /\ QueueIs(view, h, q) /\ W = WeightsOf(view)
                           /\ Contents(view) = ContentOf(q, W) /\ draftContents = ContentOf(q, W)
                           /\ q \in Seq(Payload)
  BY DraftIs
<1>2. PICK d : d = draftContents /\ d.fifo = q /\ d = ContentOf(q, W)
  BY <1>1, ContentIs
<1>3. PICK data : data = <<BytesOf(q)>>
  OBVIOUS
<1>4. o.reply = Reply("some", data) /\ LeavesQueue(view, o, q)
  BY <1>1, <1>3, BytesLeaves
<1>5. Contents(Last(o.views)) = d
  BY <1>1, <1>2, <1>4, QueueContents
<1>6. Contract!Answers("some", data, d)
  BY <1>4, <1>5, EndsWell, SoftKinds
<1>7. data = <<Contract!QueuedBytes(d)>>
  BY <1>2, <1>3, ContractBytes
<1> QED BY <1>2, <1>6, <1>7 DEF Contract!CountBytes
\* The contract sets a weight.
LEMMA ContractSets ==
  ASSUME NEW q, NEW W, NEW c, c = ContentOf(q, W), NEW pk, NEW n
  PROVE  Contract!WithWeight(c, pk, n) = ContentOf(q, WeightSet(W, pk, n))
<1>1. PICK V : V = WeightSet(W, pk, n)
  OBVIOUS
<1>2. c.weights = W /\ [c EXCEPT !.weights = V] = ContentOf(q, V)
  BY ContentIs
<1>3. V = {w \in c.weights : w.at # pk} \cup (IF n = 0 THEN {} ELSE {[at |-> pk, weight |-> n]})
  BY <1>1, <1>2 DEF WeightSet
<1>4. Contract!WithWeight(c, pk, n) = [c EXCEPT !.weights = V]
  BY <1>3, Zenon DEF Contract!WithWeight
<1> QED BY <1>1, <1>2, <1>4

\* A difference is added.
LEMMA AdjustMaps ==
  ASSUME Inv, Stands, Stands', log' = log, tx.open, ~ tx.poisoned, NEW pk \in MapKey, NEW e \in Difference,
         NEW o, o = adjust_encoded(tx.view, MapP, Encoded[pk], e), Completes(o)
  PROVE  Contract!Adjust
<1>1. PICK view, h, q, W : /\ view = tx.view /\ Tidy(view) /\ QueueIs(view, h, q) /\ W = WeightsOf(view)
                           /\ Contents(view) = ContentOf(q, W) /\ draftContents = ContentOf(q, W)
                           /\ q \in Seq(Payload)
  BY DraftIs
<1>2. PICK d : d = draftContents /\ d.weights = W /\ d = ContentOf(q, W)
  BY <1>1, ContentIs
<1>3. o = adjust_encoded(view, MapP, Encoded[pk], e) /\ e \in Int
  BY <1>1, StoreAssumption
<1>4. PICK before \in 0..MaxWeight, after \in Int :
        /\ before = read_weight(view, MapP, Encoded[pk]) /\ after = before + e
        /\ \/ after < 0 /\ o.reply = Reply("underflow", <<>>)
           \/ after > MaxWeight /\ o.reply = Reply("overflow", <<>>)
           \/ /\ after \in 0..MaxWeight /\ o.reply = Reply("change", <<before, after>>)
              /\ LeavesMap(view, o, pk, after)
  <2>1. PICK before \in 0..MaxWeight, after \in Int : Adjusts(view, o, pk, e, before, after)
    BY <1>1, <1>3, AdjustLeaves
  <2> QED BY <2>1, Zenon DEF Adjusts
<1>5. Contract!WeightOf(d, pk) = before
  BY <1>1, <1>2, <1>4, ContractWeight
<1>6. CASE after < 0 /\ o.reply = Reply("underflow", <<>>)
  <2>1. "underflow" \in HardErrors
    BY DEF HardErrors
  <2>2. Contract!Fails("underflow") /\ reply'.kind = "underflow"
    BY <2>1, <1>6, EndsBadly
  <2> QED BY <2>2, <1>2, <1>4, <1>5, <1>6 DEF Contract!Adjust
<1>7. CASE after > MaxWeight /\ o.reply = Reply("overflow", <<>>)
  <2>1. "overflow" \in HardErrors
    BY DEF HardErrors
  <2>2. Contract!Fails("overflow") /\ reply'.kind = "overflow"
    BY <2>1, <1>7, EndsBadly
  <2> QED BY <2>2, <1>2, <1>4, <1>5, <1>7 DEF Contract!Adjust
<1>8. CASE /\ after \in 0..MaxWeight /\ o.reply = Reply("change", <<before, after>>)
           /\ LeavesMap(view, o, pk, after)
  <2>1. PICK next, data : next = ContentOf(q, WeightSet(W, pk, after)) /\ data = <<before, after>>
    OBVIOUS
  <2>2. Contents(Last(o.views)) = next
    BY <2>1, <1>1, <1>8, MapContents
  <2>3. Contract!Answers("change", data, next) /\ reply'.kind = "change"
    BY <2>1, <2>2, <1>8, EndsWell, SoftKinds
  <2>4. next = Contract!WithWeight(d, pk, after)
    BY <2>1, <1>2, ContractSets
  <2>5. Contract!Answers("change", <<before, after>>, Contract!WithWeight(d, pk, after))
    BY <2>1, <2>3, <2>4
  <2> QED BY <2>3, <2>5, <1>2, <1>4, <1>5, <1>8 DEF Contract!Adjust
<1> QED BY <1>4, <1>6, <1>7, <1>8

\* A weight is set.
LEMMA SetMaps ==
  ASSUME Inv, Stands, Stands', log' = log, tx.open, ~ tx.poisoned, NEW pk \in MapKey, NEW n \in 0..MaxWeight,
         NEW answer, answer = Reply("set", <<>>),
         NEW o, o = Outcome(<<tx.view, set_encoded(tx.view, MapP, Encoded[pk], n)>>, answer), Completes(o)
  PROVE  Contract!SetWeight
<1>1. PICK view, h, q, W : /\ view = tx.view /\ Tidy(view) /\ QueueIs(view, h, q) /\ W = WeightsOf(view)
                           /\ Contents(view) = ContentOf(q, W) /\ draftContents = ContentOf(q, W)
                           /\ q \in Seq(Payload)
  BY DraftIs
<1>2. PICK d : d = draftContents /\ d = ContentOf(q, W)
  BY <1>1
<1>3. o = Outcome(<<view, set_encoded(view, MapP, Encoded[pk], n)>>, answer)
  BY <1>1
<1>4. o.reply = answer /\ LeavesMap(view, o, pk, n)
  BY <1>1, <1>3, SetCall
<1>5. PICK next : next = ContentOf(q, WeightSet(W, pk, n))
  OBVIOUS
<1>6. Contents(Last(o.views)) = next
  BY <1>1, <1>4, <1>5, MapContents
<1>7. Contract!Answers("set", <<>>, next) /\ reply'.kind = "set"
  BY <1>4, <1>6, EndsWell, SoftKinds
<1>8. next = Contract!WithWeight(d, pk, n)
  BY <1>2, <1>5, ContractSets
<1> QED BY <1>2, <1>7, <1>8 DEF Contract!SetWeight

\* The weights of a partition are those of the keys it holds.
LEMMA WeightsHeld ==
  ASSUME NEW view, NEW W, W = WeightsOf(view)
  PROVE  /\ \A w \in W : w.at \in Held(view)
         /\ \A pk \in Held(view) : \E w \in W : w.at = pk
<1>1. ASSUME NEW w \in W PROVE w.at \in Held(view)
  <2>1. PICK pk \in Held(view) : w = [at |-> pk, weight |-> WeightAt(view, pk)]
    BY DEF WeightsOf
  <2> QED BY <2>1
<1>2. ASSUME NEW pk \in Held(view) PROVE \E w \in W : w.at = pk
  <2>1. PICK w : w = [at |-> pk, weight |-> WeightAt(view, pk)]
    OBVIOUS
  <2>2. w \in W /\ w.at = pk
    BY <2>1 DEF WeightsOf
  <2> QED BY <2>2
<1> QED BY <1>1, <1>2

\* A question that changes nothing.
LEMMA AskMaps ==
  ASSUME Inv, Stands, Stands', log' = log, tx.open, ~ tx.poisoned, NEW kind, kind \notin HardErrors, NEW data,
         NEW answer, answer = Reply(kind, data),
         NEW o, o = Unchanged(tx.view, answer), Completes(o)
  PROVE  Contract!Answers(kind, data, draftContents) /\ reply'.kind = kind
<1>1. PICK view, h, q, W : /\ view = tx.view /\ Tidy(view) /\ QueueIs(view, h, q) /\ W = WeightsOf(view)
                           /\ Contents(view) = ContentOf(q, W) /\ draftContents = ContentOf(q, W)
                           /\ q \in Seq(Payload)
  BY DraftIs
<1>2. PICK d : d = draftContents
  OBVIOUS
<1>3. o = Unchanged(view, answer)
  BY <1>1
<1>4. o.reply = answer /\ Last(o.views) = view
  BY <1>3, UnchangedIs
<1>5. Contents(Last(o.views)) = d
  BY <1>1, <1>2, <1>4
<1>6. Contract!Answers(kind, data, d) /\ reply'.kind = kind
  BY <1>4, <1>5, EndsWell
<1> QED BY <1>2, <1>6

\* A weight is read.
LEMMA ReadMaps ==
  ASSUME Inv, Stands, Stands', log' = log, tx.open, ~ tx.poisoned, NEW pk \in MapKey,
         NEW o, o = Unchanged(tx.view, Reply("some", <<read_weight(tx.view, MapP, Encoded[pk])>>)), Completes(o)
  PROVE  Contract!AskPartition
<1>1. PICK view, h, q, W : /\ view = tx.view /\ Tidy(view) /\ QueueIs(view, h, q) /\ W = WeightsOf(view)
                           /\ Contents(view) = ContentOf(q, W) /\ draftContents = ContentOf(q, W)
                           /\ q \in Seq(Payload)
  BY DraftIs
<1>2. PICK d : d = draftContents /\ d.weights = W
  BY <1>1, ContentIs
<1>3. PICK data : data = <<read_weight(view, MapP, Encoded[pk])>>
  OBVIOUS
<1>4. PICK answer : answer = Reply("some", data) /\ o = Unchanged(tx.view, answer)
  BY <1>1, <1>3
<1>5. Contract!Answers("some", data, d) /\ reply'.kind = "some"
  BY <1>2, <1>4, AskMaps, SoftKinds
<1>6. data = <<Contract!WeightOf(d, pk)>>
  BY <1>1, <1>2, <1>3, ContractWeight
<1> QED BY <1>2, <1>5, <1>6 DEF Contract!AskPartition

\* A partition is asked whether it is empty.
LEMMA EmptyMaps ==
  ASSUME Inv, Stands, Stands', log' = log, tx.open, ~ tx.poisoned, NEW p \in Partition,
         NEW kind, kind = IF namespace_is_empty(tx.view, MapP, partition_prefix(p), <<>>) THEN "none" ELSE "held",
         NEW o, o = Unchanged(tx.view, Reply(kind, <<>>)), Completes(o)
  PROVE  Contract!AskPartition
<1>1. PICK view, h, q, W : /\ view = tx.view /\ Tidy(view) /\ QueueIs(view, h, q) /\ W = WeightsOf(view)
                           /\ Contents(view) = ContentOf(q, W) /\ draftContents = ContentOf(q, W)
                           /\ q \in Seq(Payload)
  BY DraftIs
<1>2. PICK d : d = draftContents /\ d.weights = W
  BY <1>1, ContentIs
<1>3. PICK pk \in MapKey : pk[1] = p
  BY DEF Partition
<1>4. p \in Key
  BY <1>3, MapAtIs
<1>5. PICK held : held = {w \in d.weights : w.at[1] = pk[1]}
  OBVIOUS
<1>6. namespace_is_empty(view, MapP, partition_prefix(p), <<>>) <=> held = {}
  <2>1. namespace_is_empty(view, MapP, partition_prefix(p), <<>>) <=> \A x \in Held(view) : x[1] # p
    BY <1>1, <1>4, PartitionEmpty
  <2>2. (\A w \in W : w.at \in Held(view)) /\ (\A x \in Held(view) : \E w \in W : w.at = x)
    BY <1>1, WeightsHeld
  <2> QED BY <2>1, <2>2, <1>2, <1>3, <1>5
<1>7. kind = IF held = {} THEN "none" ELSE "held"
  BY <1>1, <1>6
<1>8. kind \in {"none", "held"} /\ kind \notin HardErrors
  BY <1>7, SoftKinds
<1>9. PICK answer : answer = Reply(kind, <<>>) /\ o = Unchanged(tx.view, answer)
  OBVIOUS
<1>10. Contract!Answers(kind, <<>>, d) /\ reply'.kind = kind
  BY <1>2, <1>8, <1>9, AskMaps
<1> QED BY <1>2, <1>5, <1>7, <1>8, <1>10, Zenon DEF Contract!AskPartition

\* A partition is asked for another key.
LEMMA OtherMaps ==
  ASSUME Inv, Stands, Stands', log' = log, tx.open, ~ tx.poisoned, NEW pk \in MapKey,
         NEW kind, kind = IF namespace_is_empty(tx.view, MapP, partition_prefix(pk[1]), <<pk[2]>>)
                          THEN "only" ELSE "other",
         NEW o, o = Unchanged(tx.view, Reply(kind, <<>>)), Completes(o)
  PROVE  Contract!AskPartition
<1>1. PICK view, h, q, W : /\ view = tx.view /\ Tidy(view) /\ QueueIs(view, h, q) /\ W = WeightsOf(view)
                           /\ Contents(view) = ContentOf(q, W) /\ draftContents = ContentOf(q, W)
                           /\ q \in Seq(Payload)
  BY DraftIs
<1>2. PICK d : d = draftContents /\ d.weights = W
  BY <1>1, ContentIs
<1>5. PICK held : held = {w \in d.weights : w.at[1] = pk[1]}
  OBVIOUS
<1>6. namespace_is_empty(view, MapP, partition_prefix(pk[1]), <<pk[2]>>) <=> {w \in held : w.at # pk} = {}
  <2>1. namespace_is_empty(view, MapP, partition_prefix(pk[1]), <<pk[2]>>)
          <=> \A other \in Held(view) : other[1] = pk[1] => other = pk
    BY <1>1, PartitionOther
  <2>2. (\A w \in W : w.at \in Held(view)) /\ (\A x \in Held(view) : \E w \in W : w.at = x)
    BY <1>1, WeightsHeld
  <2> QED BY <2>1, <2>2, <1>2, <1>5
<1>7. kind = IF {w \in held : w.at # pk} = {} THEN "only" ELSE "other"
  BY <1>1, <1>6
<1>8. kind \in {"only", "other"} /\ kind \notin HardErrors
  BY <1>7, SoftKinds
<1>9. PICK answer : answer = Reply(kind, <<>>) /\ o = Unchanged(tx.view, answer)
  OBVIOUS
<1>10. Contract!Answers(kind, <<>>, d) /\ reply'.kind = kind
  BY <1>2, <1>8, <1>9, AskMaps
<1> QED BY <1>2, <1>5, <1>7, <1>8, <1>10, Zenon DEF Contract!AskPartition
\* A step that leaves the states and the transaction alone.
LEMMA StandsStill ==
  ASSUME Stands, Stands', log' = log, tx' = tx
  PROVE  keptContents' = keptContents /\ draftContents' = draftContents
<1>1. keptContents' = keptContents
  BY DEF Stands
<1> QED BY <1>1 DEF Stands

\* The visible contents.
LEMMA VisibleIs ==
  ASSUME Inv, Stands
  PROVE  /\ Contract!Visible = Contents(Last(log)) /\ Contract!Visible = Last(keptContents)
         /\ DOMAIN keptContents = DOMAIN log /\ \A i \in DOMAIN log : keptContents[i] = Contents(log[i])
         /\ Len(keptContents) = Len(log)
<1>1. PICK l, k : l = log /\ k = keptContents
  OBVIOUS
<1>2. IsLog(l) /\ k = Picture(l)
  BY <1>1, InvTies DEF Stands
<1>3. /\ Last(k) = Contents(Last(l)) /\ DOMAIN k = DOMAIN l /\ Len(k) = Len(l)
      /\ \A i \in DOMAIN l : k[i] = Contents(l[i])
  BY <1>2, PictureIs
<1>4. Contract!Visible = Last(k)
  BY <1>1 DEF Contract!Visible, Contract!Last, Last
<1> QED BY <1>1, <1>3, <1>4

\* A closed transaction shows what is visible.
LEMMA ClosesIs ==
  ASSUME Inv', Stands', Closing
  PROVE  Contract!Closes
<1>1. PICK l, k, v : l = log' /\ k = keptContents' /\ v = Last(l)
  OBVIOUS
<1>2. PICK no \in BOOLEAN : no = FALSE
  OBVIOUS
<1>3. PICK z : z = 0
  OBVIOUS
<1>4. PICK t : t = tx' /\ t = TxOf(no, no, v, no, no, z)
  BY <1>1, <1>2, <1>3, Zenon DEF Closing, NoTx, TxOf
<1>5. TxHas(t, no, no, v, no, no, z)
  BY <1>4, TxFields, Zenon
<1>6. tx'.open = no /\ tx'.poisoned = no /\ tx'.view = v
  BY <1>4, <1>5, Zenon DEF TxHas
<1>7. IsLog(l)
  <2>1. IsLog(log')
    BY DEF Inv, Ties
  <2> QED BY <2>1, <1>1
<1>8. k = Picture(l) /\ draftContents' = Contents(v)
  BY <1>1, <1>2, <1>6 DEF Stands
<1>9. Last(k) = Contents(v)
  BY <1>1, <1>7, <1>8, PictureIs
<1>10. draftContents' = Contract!Last(keptContents')
  BY <1>1, <1>8, <1>9 DEF Contract!Last, Last
<1> QED BY <1>2, <1>6, <1>10 DEF Contract!Closes

\* The answer of a step.
LEMMA SaysIs ==
  ASSUME NEW kind, NEW data, reply' = Reply(kind, data)
  PROVE  Contract!Says(kind, data)
BY DEF Contract!Says, Reply

\* A transaction begins.
LEMMA BeginMaps ==
  ASSUME Inv, Stands, Stands', Begin
  PROVE  Contract!Begin
<1>1. PICK v, z : v = Last(log) /\ z = 0
  OBVIOUS
<1>2. PICK no \in BOOLEAN, yes \in BOOLEAN : no = FALSE /\ yes = TRUE
  OBVIOUS
<1>3. PICK s \in BOOLEAN : s = ~ batch
  OBVIOUS
<1>4. PICK t : t = NoTx(v)
  OBVIOUS
<1>5. t = TxOf(no, no, v, no, no, z)
  BY <1>1, <1>2, <1>4, Zenon DEF NoTx, TxOf
<1>6. tx' = Opened(t, yes, s) /\ log' = log /\ ~ tx.open /\ reply' = Reply("none", <<>>)
  BY <1>1, <1>2, <1>3, <1>4, Zenon DEF Begin, db, Opened
<1>7. Opened(t, yes, s) = TxOf(yes, s, v, no, no, z)
  BY <1>5, TxUpdates
<1>8. PICK u : u = tx' /\ u = TxOf(yes, s, v, no, no, z)
  BY <1>6, <1>7, Zenon
<1>9. TxHas(u, yes, s, v, no, no, z)
  BY <1>8, TxFields, Zenon
<1>10. tx'.open = yes /\ tx'.poisoned = no /\ tx'.view = v
  BY <1>8, <1>9, Zenon DEF TxHas
<1>11. ~ tx.poisoned
  BY <1>6, InvTies DEF Ties
<1>12. keptContents' = keptContents /\ draftContents' = Contents(v)
  BY <1>2, <1>6, <1>10 DEF Stands
<1>13. draftContents' = Contract!Visible
  BY <1>1, <1>12, VisibleIs
<1>14. Contract!Says("none", <<>>)
  BY <1>6, SaysIs
<1> QED BY <1>2, <1>6, <1>10, <1>11, <1>12, <1>13, <1>14 DEF Contract!Begin

\* A commit.
LEMMA CommitMaps ==
  ASSUME Inv, Inv', Stands, Stands', Commit
  PROVE  Contract!Commit
<1>1. PICK open, sync, view, poisoned, writes, calls :
        /\ TxHas(tx, open, sync, view, poisoned, writes, calls)
        /\ Ties(log, batch, pending, failed, open, sync, view, poisoned, writes)
  BY Zenon DEF Inv
<1>2. /\ tx.open = open /\ tx.sync = sync /\ tx.view = view /\ tx.poisoned = poisoned /\ tx.writes = writes
  BY <1>1, Zenon DEF TxHas
<1>3. /\ open /\ Closing
      /\ log' = IF poisoned \/ ~ writes THEN log ELSE IF sync THEN <<view>> ELSE Append(log, view)
      /\ reply' = Reply(CASE poisoned               -> "poisoned"
                          [] ~ poisoned /\ sync  -> "durable"
                          [] OTHER                     -> "committed", <<>>)
  BY <1>2, Zenon DEF Commit
<1>4. /\ ~ failed /\ (sync <=> ~ batch) /\ IsLog(log) /\ (~ poisoned => Good(view))
      /\ (~ poisoned /\ ~ writes => view = Last(log))
      /\ (~ batch /\ ~ failed => Len(log) = 1)
  BY <1>1, <1>3 DEF Ties
<1>5. Contract!Closes
  BY <1>3, ClosesIs
<1>6. PICK l, m, k : l = log /\ m = log' /\ k = keptContents
  OBVIOUS
<1>7. IsLog(l) /\ k = Picture(l) /\ keptContents' = Picture(m)
  BY <1>4, <1>6 DEF Stands
<1>8. ~ poisoned => draftContents = Contents(view)
  BY <1>2 DEF Stands
<1>9. CASE poisoned
  <2>1. reply' = Reply("poisoned", <<>>) /\ log' = log
    BY <1>3, <1>9
  <2>2. keptContents' = keptContents
    BY <2>1 DEF Stands
  <2>3. Contract!Says("poisoned", <<>>)
    BY <2>1, SaysIs
  <2> QED BY <2>2, <2>3, <1>2, <1>3, <1>5, <1>9 DEF Contract!Commit
<1>10. CASE ~ poisoned /\ sync
  <2>1. Contract!Says("durable", <<>>)
    <3>1. reply' = Reply("durable", <<>>)
      BY <1>3, <1>10
    <3> QED BY <3>1, SaysIs
  <2>2. keptContents' = <<Contents(view)>>
    <3>1. CASE writes
      <4>1. m = <<view>>
        BY <3>1, <1>3, <1>6, <1>10
      <4> QED BY <4>1, <1>7, PictureOne
    <3>2. CASE ~ writes
      <4>1. m = l /\ Len(l) = 1 /\ view = Last(l)
        BY <3>2, <1>3, <1>4, <1>6, <1>10
      <4>2. Last(l) = l[1]
        BY <4>1 DEF Last
      <4>3. l = <<view>>
        <5>1. PICK S : l \in Seq(S)
          BY <1>7 DEF IsLog
        <5> QED BY <5>1, <4>1, <4>2
      <4>4. m = <<view>>
        BY <4>1, <4>3
      <4> QED BY <4>4, <1>7, PictureOne
    <3> QED BY <3>1, <3>2
  <2>3. keptContents' = <<draftContents>>
    BY <2>2, <1>8, <1>10
  <2> QED BY <2>1, <2>3, <1>2, <1>3, <1>5, <1>10 DEF Contract!Commit
<1>11. CASE ~ poisoned /\ ~ sync
  <2>1. Contract!Says("committed", <<>>)
    <3>1. reply' = Reply("committed", <<>>)
      BY <1>3, <1>11
    <3> QED BY <3>1, SaysIs
  <2>2. CASE writes
    <3>1. m = Append(l, view) /\ Good(view)
      BY <2>2, <1>3, <1>4, <1>6, <1>11
    <3>2. Picture(m) = Append(Picture(l), Contents(view))
      BY <3>1, <1>7, PictureMore
    <3>3. keptContents' = Append(keptContents, draftContents)
      BY <3>2, <1>6, <1>7, <1>8, <1>11
    <3> QED BY <2>1, <3>3, <1>2, <1>3, <1>5, <1>11 DEF Contract!Commit
  <2>3. CASE ~ writes
    <3>1. log' = log /\ view = Last(log)
      BY <2>3, <1>3, <1>4, <1>11
    <3>2. keptContents' = keptContents
      BY <3>1 DEF Stands
    <3>3. draftContents = Contract!Visible
      BY <3>1, <1>8, <1>11, VisibleIs
    <3> QED BY <2>1, <3>2, <3>3, <1>2, <1>3, <1>5, <1>11 DEF Contract!Commit
  <2> QED BY <2>2, <2>3
<1> QED BY <1>9, <1>10, <1>11

\* A commit that RocksDB reports as failed.
LEMMA CommitFailsMaps ==
  ASSUME Inv, Inv', Stands, Stands', CommitFails
  PROVE  Contract!Commit
<1>1. PICK view, l, m : view = tx.view /\ l = log /\ m = log'
  OBVIOUS
<1>2. /\ tx.open /\ ~ tx.poisoned /\ Closing /\ reply' = Reply("commit_error", <<>>)
      /\ (m = l \/ m = Append(l, view))
  BY <1>1 DEF CommitFails
<1>3. Contract!Closes
  BY <1>2, ClosesIs
<1>4. IsLog(l) /\ Good(view)
  BY <1>1, <1>2, InvTies
<1>5. keptContents = Picture(l) /\ keptContents' = Picture(m) /\ draftContents = Contents(view)
  BY <1>1, <1>2 DEF Stands
<1>6. keptContents' = keptContents \/ keptContents' = Append(keptContents, draftContents)
  <2>1. CASE m = l
    BY <2>1, <1>5
  <2>2. CASE m = Append(l, view)
    <3>1. Picture(m) = Append(Picture(l), Contents(view))
      BY <2>2, <1>4, PictureMore
    <3> QED BY <3>1, <1>5
  <2> QED BY <2>1, <2>2, <1>2
<1>7. Contract!Says("commit_error", <<>>)
  BY <1>2, SaysIs
<1> QED BY <1>2, <1>3, <1>6, <1>7 DEF Contract!Commit

\* The transaction is dropped.
LEMMA DropMaps ==
  ASSUME Inv', Stands, Stands', Drop
  PROVE  Contract!Drop
<1>1. tx.open /\ Closing /\ log' = log /\ reply' = Reply("none", <<>>)
  BY DEF Drop
<1>2. Contract!Closes /\ Contract!Says("none", <<>>)
  BY <1>1, ClosesIs, SaysIs
<1>3. keptContents' = keptContents
  BY <1>1 DEF Stands
<1> QED BY <1>1, <1>2, <1>3 DEF Contract!Drop

\* The barrier.
LEMMA SyncMaps ==
  ASSUME Inv, Stands, Stands', NEW ends \in BOOLEAN, Sync(ends)
  PROVE  Contract!Barrier
<1>1. PICK l, m, v : l = log /\ m = log' /\ v = Last(log)
  OBVIOUS
<1>2. ~ tx.open /\ tx' = tx /\ batch /\ reply' = Reply("synced", <<>>) /\ m = IF pending THEN <<v>> ELSE l
  BY <1>1 DEF Sync, db
<1>3. IsLog(l) /\ (~ pending => Len(l) = 1) /\ ~ tx.poisoned
  BY <1>1, <1>2, InvTies DEF Ties
<1>4. m = <<v>>
  <2>1. CASE pending
    BY <2>1, <1>2
  <2>2. CASE ~ pending
    <3>1. PICK S : l \in Seq(S)
      BY <1>3 DEF IsLog
    <3>2. Len(l) = 1 /\ v = l[1]
      BY <2>2, <1>1, <1>3 DEF Last
    <3> QED BY <3>1, <3>2, <2>2, <1>2
  <2> QED BY <2>1, <2>2
<1>5. keptContents' = <<Contents(v)>>
  <2>1. Picture(m) = <<Contents(v)>>
    BY <1>4, PictureOne
  <2> QED BY <2>1, <1>1 DEF Stands
<1>6. keptContents' = <<Contract!Visible>>
  BY <1>1, <1>5, VisibleIs
<1>7. draftContents' = draftContents
  BY <1>2, <1>3 DEF Stands
<1>8. Contract!Says("synced", <<>>)
  BY <1>2, SaysIs
<1> QED BY <1>2, <1>6, <1>7, <1>8 DEF Contract!Barrier

\* The barrier fails.
LEMMA SyncFailsMaps ==
  ASSUME Inv, Stands, Stands', SyncFails
  PROVE  Contract!Barrier
<1>1. ~ tx.open /\ tx' = tx /\ log' = log /\ reply' = Reply("sync_error", <<>>)
  BY DEF SyncFails
<1>2. keptContents' = keptContents /\ draftContents' = draftContents
  BY <1>1, StandsStill
<1>3. Contract!Says("sync_error", <<>>)
  BY <1>1, SaysIs
<1> QED BY <1>1, <1>2, <1>3 DEF Contract!Barrier

\* The store is opened again.
LEMMA RestartMaps ==
  ASSUME Inv, Inv', Stands, Stands', Restart
  PROVE  Contract!Crash
<1>1. PICK i \in DOMAIN log : log' = <<log[i]>>
  BY DEF Restart
<1>2. PICK v, m : v = log[i] /\ m = log' /\ m = <<v>>
  BY <1>1
<1>3. keptContents' = <<Contents(v)>>
  <2>1. Picture(m) = <<Contents(v)>>
    BY <1>2, PictureOne
  <2> QED BY <2>1, <1>2 DEF Stands
<1>4. i \in DOMAIN keptContents /\ keptContents[i] = Contents(v)
  BY <1>1, <1>2, VisibleIs
<1>5. Closing /\ reply' = Reply("none", <<>>)
  BY DEF Restart
<1>6. Contract!Closes /\ Contract!Says("none", <<>>)
  BY <1>5, ClosesIs, SaysIs
<1> QED BY <1>3, <1>4, <1>6 DEF Contract!Crash
\* A page.
LEMMA PageMaps ==
  ASSUME Inv, Stands, Stands', NextPage
  PROVE  Contract!Page
<1>1. tx.open /\ ~ tx.poisoned /\ tx' = tx /\ log' = log
  BY DEF NextPage
<1>2. PICK limit \in Limit : LET page == PageOf(limit)
                             IN IF page.error THEN reply' = Reply("too_large", <<>>)
                                ELSE reply' = Reply("page", <<>>)
  BY Zenon DEF NextPage
<1>3. PICK d : d = draftContents /\ d = Contents(tx.view)
  BY <1>1 DEF Stands
<1>4. Contents(tx'.view) = d /\ tx'.open = tx.open /\ ~ tx'.poisoned
  BY <1>1, <1>3
<1>5. CASE reply' = Reply("too_large", <<>>)
  <2>1. Contract!Answers("too_large", <<>>, d)
    BY <1>1, <1>4, <1>5, AnswersIs
  <2> QED BY <2>1, <1>3 DEF Contract!Page
<1>6. CASE reply' = Reply("page", <<>>)
  <2>1. Contract!Answers("page", <<>>, d)
    BY <1>1, <1>4, <1>6, AnswersIs
  <2> QED BY <2>1, <1>3 DEF Contract!Page
<1> QED BY <1>2, <1>5, <1>6

\* A snapshot is read.
LEMMA SnapshotMaps ==
  ASSUME Inv, Stands, Stands', SnapshotFront
  PROVE  Contract!SnapshotFront
<1>1. PICK view : view = Last(log)
  OBVIOUS
<1>2. PICK max \in ReadBound : reply' = front_bounded(view, QueueP, max).reply
  BY <1>1 DEF SnapshotFront, db
<1>3. tx' = tx /\ log' = log
  BY DEF SnapshotFront
<1>4. Good(view)
  BY <1>1, InvTies, LogIs
<1>5. PICK h, q : Tidy(view) /\ QueueIs(view, h, q)
  BY <1>4 DEF Good
<1>6. PICK W, c : W = WeightsOf(view) /\ c = ContentOf(q, W) /\ c = Contents(view)
  BY <1>5, GoodContents
<1>7. c = Contract!Visible /\ c.fifo = q
  <2>1. Contract!Visible = Contents(view)
    BY <1>1, VisibleIs
  <2>2. c.fifo = q
    BY <1>6, ContentIs
  <2> QED BY <2>1, <2>2, <1>6
<1>8. PICK o : o = front_bounded(view, QueueP, max)
  OBVIOUS
<1>9. \/ q = <<>> /\ o.reply = Reply("none", <<>>)
      \/ q # <<>> /\ (o.reply = Reply("too_large", <<>>) \/ o.reply = Reply("some", q[1].data))
  BY <1>5, <1>8, FrontIs
<1>10. keptContents' = keptContents /\ draftContents' = draftContents
  BY <1>3, StandsStill
<1>11. UNCHANGED <<keptContents, tx.open, ~ tx.poisoned, draftContents>>
  BY <1>3, <1>10
<1>12. CASE q = <<>> /\ o.reply = Reply("none", <<>>)
  <2>1. Contract!Says("none", <<>>)
    BY <1>2, <1>8, <1>12, SaysIs
  <2> QED BY <2>1, <1>7, <1>11, <1>12 DEF Contract!SnapshotFront
<1>13. CASE q # <<>> /\ o.reply = Reply("too_large", <<>>)
  <2>1. Contract!Says("too_large", <<>>)
    BY <1>2, <1>8, <1>13, SaysIs
  <2> QED BY <2>1, <1>7, <1>11, <1>13 DEF Contract!SnapshotFront
<1>14. CASE q # <<>> /\ o.reply = Reply("some", q[1].data)
  <2>1. PICK data : data = q[1].data
    OBVIOUS
  <2>2. reply' = Reply("some", data)
    BY <2>1, <1>2, <1>8, <1>14
  <2>3. Contract!Says("some", data) /\ reply'.kind = "some"
    BY <2>2, SaysIs, KindIs
  <2>4. q \in Seq(Payload)
    BY <1>5 DEF QueueIs
  <2>5. data = Head(c.fifo).data
    BY <2>1, <2>4, <1>7, <1>14
  <2> QED BY <2>3, <2>5, <1>7, <1>11, <1>14 DEF Contract!SnapshotFront
<1> QED BY <1>9, <1>12, <1>13, <1>14

\* A call that storage stops.
LEMMA StorageMaps ==
  ASSUME Inv, Stands, Stands', log' = log, tx.open, ~ tx.poisoned, NEW o, StorageFails(o)
  PROVE  Contract!Fails("storage")
<1>1. tx'.open = tx.open /\ tx'.poisoned /\ reply' = Reply("storage", <<>>)
  BY StorageGives
<1> QED BY <1>1, FailsIs

\* Every call.
LEMMA CallsMap ==
  ASSUME Inv, Stands, Stands',
         \/ TryPush \/ PopFront \/ DiscardFront \/ QueuedBytes
         \/ Adjust \/ SetMultiplicity \/ Multiplicity \/ PartitionIsEmpty \/ HasOtherKey
  PROVE  Contract!Next
<1>1. tx.open /\ ~ tx.poisoned
  BY DEF TryPush, PopFront, DiscardFront, QueuedBytes, Adjust, SetMultiplicity, Multiplicity,
         PartitionIsEmpty, HasOtherKey, Healthy
<1>2. ASSUME NEW o, Call(o) PROVE log' = log /\ (Completes(o) \/ Contract!Next)
  <2>1. log' = log /\ (Completes(o) \/ StorageFails(o))
    BY <1>2 DEF Call
  <2>2. StorageFails(o) => Contract!Fails("storage")
    BY <2>1, <1>1, StorageMaps
  <2> QED BY <2>1, <2>2 DEF Contract!Next
<1>3. CASE TryPush
  <2>1. PICK v \in Payload : Call(try_push(tx.view, QueueP, v, Capacity))
    BY <1>3 DEF TryPush
  <2>2. PICK o : o = try_push(tx.view, QueueP, v, Capacity)
    OBVIOUS
  <2>3. Completes(o) => Contract!TryPush
    BY <2>1, <2>2, <1>1, <1>2, PushMaps
  <2> QED BY <2>1, <2>2, <2>3, <1>2 DEF Contract!Next
<1>4. CASE PopFront
  <2>1. PICK max \in ReadBound : Call(pop_front_bounded(tx.view, QueueP, max))
    BY <1>4 DEF PopFront
  <2>2. PICK o : o = pop_front_bounded(tx.view, QueueP, max)
    OBVIOUS
  <2>3. Completes(o) => Contract!PopFront
    BY <2>1, <2>2, <1>1, <1>2, PopMaps
  <2> QED BY <2>1, <2>2, <2>3, <1>2 DEF Contract!Next
<1>5. CASE DiscardFront
  <2>1. PICK n \in 0..2 : Call(discard_front(tx.view, QueueP, n))
    BY <1>5 DEF DiscardFront
  <2>2. PICK o : o = discard_front(tx.view, QueueP, n)
    OBVIOUS
  <2>3. Completes(o) => Contract!DiscardFront
    BY <2>1, <2>2, <1>1, <1>2, DiscardMaps
  <2> QED BY <2>1, <2>2, <2>3, <1>2 DEF Contract!Next
<1>6. CASE QueuedBytes
  <2>1. PICK o : o = queued_bytes(tx.view, QueueP) /\ Call(o)
    BY <1>6 DEF QueuedBytes
  <2>2. Completes(o) => Contract!CountBytes
    BY <2>1, <1>1, <1>2, CountMaps
  <2> QED BY <2>1, <2>2, <1>2 DEF Contract!Next
<1>7. CASE Adjust
  <2>1. PICK pk \in MapKey, e \in Difference : Call(adjust_encoded(tx.view, MapP, Encoded[pk], e))
    BY <1>7 DEF Adjust
  <2>2. PICK o : o = adjust_encoded(tx.view, MapP, Encoded[pk], e)
    OBVIOUS
  <2>3. Completes(o) => Contract!Adjust
    BY <2>1, <2>2, <1>1, <1>2, AdjustMaps
  <2> QED BY <2>1, <2>2, <2>3, <1>2 DEF Contract!Next
<1>8. CASE SetMultiplicity
  <2>1. PICK pk \in MapKey, n \in 0..MaxWeight :
          Call(Outcome(<<tx.view, set_encoded(tx.view, MapP, Encoded[pk], n)>>, Reply("set", <<>>)))
    BY <1>8 DEF SetMultiplicity
  <2>2. PICK answer : answer = Reply("set", <<>>)
    OBVIOUS
  <2>3. PICK o : o = Outcome(<<tx.view, set_encoded(tx.view, MapP, Encoded[pk], n)>>, answer)
    OBVIOUS
  <2>4. Call(o)
    BY <2>1, <2>2, <2>3, Zenon
  <2>5. Completes(o) => Contract!SetWeight
    BY <2>2, <2>3, <2>4, <1>1, <1>2, SetMaps
  <2> QED BY <2>4, <2>5, <1>2 DEF Contract!Next
<1>9. CASE Multiplicity
  <2>1. PICK pk \in MapKey :
          Call(Unchanged(tx.view, Reply("some", <<read_weight(tx.view, MapP, Encoded[pk])>>)))
    BY <1>9 DEF Multiplicity
  <2>2. PICK o : o = Unchanged(tx.view, Reply("some", <<read_weight(tx.view, MapP, Encoded[pk])>>))
    OBVIOUS
  <2>3. Call(o)
    BY <2>1, <2>2
  <2>4. Completes(o) => Contract!AskPartition
    BY <2>2, <2>3, <1>1, <1>2, ReadMaps
  <2> QED BY <2>3, <2>4, <1>2 DEF Contract!Next
<1>10. CASE PartitionIsEmpty
  <2>1. PICK p \in Partition :
          Call(Unchanged(tx.view,
                 Reply(IF namespace_is_empty(tx.view, MapP, partition_prefix(p), <<>>)
                       THEN "none" ELSE "held", <<>>)))
    BY <1>10 DEF PartitionIsEmpty
  <2>2. PICK kind : kind = IF namespace_is_empty(tx.view, MapP, partition_prefix(p), <<>>)
                           THEN "none" ELSE "held"
    OBVIOUS
  <2>3. PICK o : o = Unchanged(tx.view, Reply(kind, <<>>))
    OBVIOUS
  <2>4. Call(o)
    BY <2>1, <2>2, <2>3, Zenon
  <2>5. Completes(o) => Contract!AskPartition
    BY <2>2, <2>3, <2>4, <1>1, <1>2, EmptyMaps
  <2> QED BY <2>4, <2>5, <1>2 DEF Contract!Next
<1>11. CASE HasOtherKey
  <2>1. PICK pk \in MapKey :
          Call(Unchanged(tx.view,
                 Reply(IF namespace_is_empty(tx.view, MapP, partition_prefix(pk[1]), <<pk[2]>>)
                       THEN "only" ELSE "other", <<>>)))
    BY <1>11 DEF HasOtherKey
  <2>2. PICK kind : kind = IF namespace_is_empty(tx.view, MapP, partition_prefix(pk[1]), <<pk[2]>>)
                           THEN "only" ELSE "other"
    OBVIOUS
  <2>3. PICK o : o = Unchanged(tx.view, Reply(kind, <<>>))
    OBVIOUS
  <2>4. Call(o)
    BY <2>1, <2>2, <2>3, Zenon
  <2>5. Completes(o) => Contract!AskPartition
    BY <2>2, <2>3, <2>4, <1>1, <1>2, OtherMaps
  <2> QED BY <2>4, <2>5, <1>2 DEF Contract!Next
<1> QED BY <1>3, <1>4, <1>5, <1>6, <1>7, <1>8, <1>9, <1>10, <1>11

\* A call that poisons: a handle of another store, or a page that fails.
LEMMA PoisonsMaps ==
  ASSUME Inv, Stands, Stands', NEW kind, Poisons(kind)
  PROVE  Contract!Fails(kind)
<1>1. PICK open, sync, view, poisoned, writes, calls :
        TxHas(tx, open, sync, view, poisoned, writes, calls)
  BY Zenon DEF Inv
<1>2. PICK y \in BOOLEAN : y = TRUE
  OBVIOUS
<1>3. PICK t : t = tx
  OBVIOUS
<1>4. t = TxOf(open, sync, view, poisoned, writes, calls) /\ tx.open = open
  BY <1>1, <1>3, Zenon DEF TxHas
<1>5. /\ tx' = Poisoned(t, y) /\ log' = log /\ reply' = Reply(kind, <<>>)
      /\ tx.open /\ ~ tx.poisoned
  BY <1>2, <1>3, <1>4, Zenon DEF Poisons, Poisoned
<1>6. Poisoned(t, y) = TxOf(open, sync, view, y, writes, calls)
  BY <1>4, TxUpdates
<1>7. PICK u : u = tx' /\ u = TxOf(open, sync, view, y, writes, calls)
  BY <1>5, <1>6, Zenon
<1>8. TxHas(u, open, sync, view, y, writes, calls)
  BY <1>7, TxFields, Zenon
<1>9. tx'.open = tx.open /\ tx'.poisoned = y
  BY <1>4, <1>7, <1>8, Zenon DEF TxHas
<1> QED BY <1>2, <1>5, <1>9, FailsIs

\* A call on a poisoned transaction.
LEMMA PoisonedMaps ==
  ASSUME Stands, Stands', CallPoisoned
  PROVE  Contract!Refused
<1>1. tx.open /\ tx.poisoned /\ tx' = tx /\ log' = log /\ reply' = Reply("poisoned", <<>>)
  BY DEF CallPoisoned
<1>2. keptContents' = keptContents /\ draftContents' = draftContents
  BY <1>1, StandsStill
<1>3. Contract!Says("poisoned", <<>>)
  BY <1>1, SaysIs
<1> QED BY <1>1, <1>2, <1>3 DEF Contract!Refused

\* Every step of the store is a step of the contract, or none.
LEMMA StepMaps ==
  ASSUME Inv, Inv', Stands, Stands', Next
  PROVE  Contract!Next \/ UNCHANGED <<keptContents, tx.open, ~ tx.poisoned, draftContents, reply>>
<1>1. CASE StartBatch
  <2>1. log' = log /\ tx' = tx /\ reply' = reply
    BY <1>1 DEF StartBatch
  <2> QED BY <2>1, StandsStill
<1>2. CASE Begin
  BY <1>2, BeginMaps DEF Contract!Next
<1>3. CASE Commit
  BY <1>3, CommitMaps DEF Contract!Next
<1>4. CASE CommitFails
  BY <1>4, CommitFailsMaps DEF Contract!Next
<1>5. CASE Drop
  BY <1>5, DropMaps DEF Contract!Next
<1>6. CASE \E ends \in BOOLEAN : Sync(ends)
  BY <1>6, SyncMaps DEF Contract!Next
<1>7. CASE SyncFails
  BY <1>7, SyncFailsMaps DEF Contract!Next
<1>8. CASE Restart
  BY <1>8, RestartMaps DEF Contract!Next
<1>9. CASE CallPoisoned
  BY <1>9, PoisonedMaps DEF Contract!Next
<1>10. CASE CallForeign
  BY <1>10, PoisonsMaps DEF CallForeign, Contract!Next
<1>11. CASE \/ TryPush \/ PopFront \/ DiscardFront \/ QueuedBytes
            \/ Adjust \/ SetMultiplicity \/ Multiplicity \/ PartitionIsEmpty \/ HasOtherKey
  BY <1>11, CallsMap
<1>12. CASE SnapshotFront
  BY <1>12, SnapshotMaps DEF Contract!Next
<1>13. CASE StartScan
  <2>1. log' = log /\ tx' = tx /\ reply' = reply
    BY <1>13 DEF StartScan
  <2> QED BY <2>1, StandsStill
<1>14. CASE NextPage
  BY <1>14, PageMaps DEF Contract!Next
<1>15. CASE PageFails
  BY <1>15, PoisonsMaps DEF PageFails, Contract!Next
<1> QED BY <1>1, <1>2, <1>3, <1>4, <1>5, <1>6, <1>7, <1>8, <1>9, <1>10, <1>11, <1>12, <1>13, <1>14, <1>15 DEF Next

\* A new store holds nothing.
LEMMA InitMaps ==
  ASSUME MCInit
  PROVE  Inv /\ Stands /\ Contract!Init
<1>1. PICK v, l, z : v = <<>> /\ l = <<v>> /\ z = 0
  OBVIOUS
<1>2. PICK no \in BOOLEAN : no = FALSE
  OBVIOUS
<1>3. PICK t : t = tx /\ t = TxOf(no, no, v, no, no, z)
  BY <1>1, <1>2, Zenon DEF MCInit, Init, NoTx, TxOf
<1>4. TxHas(t, no, no, v, no, no, z)
  BY <1>3, TxFields, Zenon
<1>5. tx.open = no /\ tx.poisoned = no /\ tx.view = v
  BY <1>3, <1>4, Zenon DEF TxHas
<1>6. log = l /\ reply = Reply("none", <<>>)
  BY <1>1 DEF MCInit, Init
<1>7. Inv
  BY InvInit DEF MCInit
<1>8. PICK c : c = Contents(v)
  OBVIOUS
<1>9. keptContents = Picture(l) /\ draftContents = c
  BY <1>5, <1>6, <1>8 DEF MCInit, Picture
<1>10. Stands
  BY <1>2, <1>5, <1>6, <1>8, <1>9 DEF Stands
<1>11. c = Contract!Empty
  <2>1. PICK q : q = <<>>
    OBVIOUS
  <2>2. Tidy(v) /\ QueueIs(v, z, q)
    BY <1>1, <2>1, EmptyGood DEF Good
  <2>3. c = ContentOf(q, WeightsOf(v))
    BY <2>2, <1>8, GoodContents
  <2>4. WeightsOf(v) = {}
    <3>1. DOMAIN v = {}
      BY <1>1
    <3>2. Held(v) = {}
      BY <3>1 DEF Held
    <3> QED BY <3>2 DEF WeightsOf
  <2> QED BY <2>1, <2>3, <2>4 DEF ContentOf, Contract!Empty
<1>12. keptContents = <<c>>
  BY <1>1, <1>8, <1>9, PictureOne
<1>13. Contract!Init
  BY <1>2, <1>5, <1>6, <1>9, <1>11, <1>12 DEF Contract!Init, Reply
<1> QED BY <1>7, <1>10, <1>13

\* The bytes in RocksDB implement the contract: every commit, barrier, crash and call on
\* the queue or the map is what StoreContract allows, whatever the keys, the payloads and
\* the bounds (DurabilityBatch, Transaction, Queue, PartitionedMap).
THEOREM StoreImplementsContract == MCSpec => ImplementsContract
<1>1. MCInit => Inv /\ Stands /\ Contract!Init
  BY InitMaps
<1>2. Inv /\ Stands /\ [MCNext]_<<vars, keptContents, draftContents>> => Inv' /\ Stands'
  <2> SUFFICES ASSUME Inv, Stands, [MCNext]_<<vars, keptContents, draftContents>>
               PROVE  Inv' /\ Stands'
    OBVIOUS
  <2>1. CASE MCNext
    <3>1. Stands'
      BY <2>1, StandsAfter
    <3>2. Inv'
      BY <2>1, NextKeeps DEF MCNext
    <3> QED BY <3>1, <3>2
  <2>2. CASE UNCHANGED <<vars, keptContents, draftContents>>
    <3>1. Inv'
      BY <2>2, InvStutters
    <3>2. Stands'
      BY <2>2 DEF Stands, vars, Picture
    <3> QED BY <3>1, <3>2
  <2> QED BY <2>1, <2>2
<1>3. Inv /\ Stands /\ Inv' /\ Stands' /\ [MCNext]_<<vars, keptContents, draftContents>>
      => [Contract!Next]_<<keptContents, tx.open, ~ tx.poisoned, draftContents, reply>>
  <2> SUFFICES ASSUME Inv, Stands, Inv', Stands', [MCNext]_<<vars, keptContents, draftContents>>
               PROVE  [Contract!Next]_<<keptContents, tx.open, ~ tx.poisoned, draftContents, reply>>
    OBVIOUS
  <2>1. CASE MCNext
    <3>1. Next
      BY <2>1 DEF MCNext
    <3> QED BY <3>1, StepMaps
  <2>2. CASE UNCHANGED <<vars, keptContents, draftContents>>
    BY <2>2 DEF vars
  <2> QED BY <2>1, <2>2
<1> QED BY <1>1, <1>2, <1>3, PTL DEF MCSpec, ImplementsContract, Contract!Spec
=============================================================================
