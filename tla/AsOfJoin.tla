------------------------------ MODULE AsOfJoin ------------------------------
(***************************************************************************)
(* The incremental ASOF join (transform/asof_join): each left row is       *)
(* paired with the right row of its partition whose order value is nearest *)
(* in one direction, or with NULL.  The index key of a row is its          *)
(* partition, its order value and the row, so numbers order the rows of a  *)
(* partition by order value first.                                         *)
(*                                                                         *)
(* A left event looks its winner up.  A right event that adds or removes a *)
(* right row corrects the left rows in its influence interval, page by     *)
(* page.  Two right rows at the order value that wins are an error.        *)
(***************************************************************************)
EXTENDS Paging

CONSTANTS
  AsOfLeft, AsOfRight,  \* rows of port 0 and of port 1, disjoint
  Part,                 \* [rows -> the values of the equality expressions]
  NullPart,             \* an equality value with a NULL part
  OrderOf,              \* [rows -> order values], NullOrder for a NULL
  NullOrder

AsOfRow == AsOfLeft \cup AsOfRight

ASSUME AsOfAssumption ==
  /\ AsOfLeft \subseteq Nat \ {0} /\ AsOfRight \subseteq Nat \ {0}
  /\ AsOfLeft \cap AsOfRight = {}
  /\ NullOrder < 0 /\ \A r \in AsOfRow : OrderOf[r] \in Nat \/ OrderOf[r] = NullOrder
  /\ \A S \in {AsOfLeft, AsOfRight} : \A a, b \in S :
       Part[a] = Part[b] /\ OrderOf[a] \in Nat /\ OrderOf[a] < OrderOf[b] => a < b

AsOfState == [r \in AsOfRow |-> 0]

AsOfStart == [after |-> None]

AsOfMatchable(row) == Part[row] # NullPart /\ OrderOf[row] # NullOrder

\* The rows of one side that a row's partition has, without those of NULL order.
Peers(s, side, row) ==
  {r \in side : s[r] > 0 /\ Part[r] = Part[row] /\ AsOfMatchable(r)}

\* A right order value that a left order value may be paired with.
Eligible(cfg, left, right) ==
  \/ cfg.exact /\ left = right
  \/ IF cfg.forward THEN left < right ELSE right < left

\* The order value nearest to the given one on the chosen side, if there is one.
Nearest(orders, forward) ==
  IF forward THEN CHOOSE o \in orders : \A p \in orders : o <= p
  ELSE CHOOSE o \in orders : \A p \in orders : p <= o

\* bucket: the right rows at one order value; select: the winning bucket.
Bucket(s, row, order) == {r \in Peers(s, AsOfRight, row) : OrderOf[r] = order}

Select(cfg, s, left) ==
  LET orders == {OrderOf[r] : r \in {p \in Peers(s, AsOfRight, left) :
                                       Eligible(cfg, OrderOf[left], OrderOf[p])}}
  IN IF ~AsOfMatchable(left) \/ orders = {} THEN {}
     ELSE Bucket(s, left, Nearest(orders, cfg.forward))

\* Candidates::checked
Ambiguous(bucket) == Cardinality(bucket) > 1

Winner(bucket) == IF bucket = {} THEN None ELSE CHOOSE r \in bucket : TRUE

\* neighbor: the adjacent right order values, in the direction given.
NeighborOrders(s, right, forward) ==
  LET orders == {OrderOf[r] : r \in Peers(s, AsOfRight, right)}
      beyond == {o \in orders : IF forward THEN OrderOf[right] < o ELSE o < OrderOf[right]}
  IN IF beyond = {} THEN {} ELSE {Nearest(beyond, forward)}

\* Mutant: the interval reaches to the neighbour's own order value.
AffectedTooFar(cfg, s, right) ==
  {l \in Peers(s, AsOfLeft, right) :
     /\ Eligible(cfg, OrderOf[l], OrderOf[right])
     /\ \A o \in NeighborOrders(s, right, ~cfg.forward) :
          IF cfg.forward THEN o <= OrderOf[l] ELSE OrderOf[l] <= o}

\* affected_range: the left rows the right row may win, which a nearer right
\* order value does not.
Affected(cfg, s, right) ==
  {l \in Peers(s, AsOfLeft, right) :
     /\ Eligible(cfg, OrderOf[l], OrderOf[right])
     /\ \A o \in NeighborOrders(s, right, ~cfg.forward) : ~Eligible(cfg, OrderOf[l], o)}

\* The bucket that wins when this one is empty.
Replacement(cfg, s, right, old, new) ==
  IF old # {} /\ new # {} THEN {}
  ELSE UNION {Bucket(s, right, o) : o \in NeighborOrders(s, right, cfg.forward)}

OrElse(bucket, replacement) == IF bucket = {} THEN replacement ELSE bucket

CorrectionOutput(s, entries, old, new) ==
  When(old # new,
       FlattenSeq([i \in DOMAIN entries |->
                     <<Event(<<entries[i], old>>, -s[entries[i]]),
                       Event(<<entries[i], new>>, s[entries[i]])>>]))

\* right_page for an event that adds or removes the right row.
RightPage(cfg, s, e, weight, ordinal, page) ==
  LET old         == Bucket(s, e.row, OrderOf[e.row])
      new         == IF weight > 0 THEN old \cup {e.row} ELSE old \ {e.row}
      replacement == Replacement(cfg, s, e.row, old, new)
      output      == CorrectionOutput(s, page.entries, Winner(OrElse(old, replacement)),
                                      Winner(OrElse(new, replacement)))
  IN IF page.entries # <<>> /\ (Ambiguous(replacement) \/ Ambiguous(old) \/ Ambiguous(new))
     THEN Failed("ambiguous")
     ELSE IF page.continuation = None
     THEN Stepped([s EXCEPT ![e.row] = weight], output, ordinal + 1, AsOfStart)
     ELSE Stepped(s, output, ordinal, [after |-> page.continuation])

RightSteps(cfg, s, e, weight, ordinal, after) ==
  LET affected == Affected(cfg, s, e.row)
      presence == AsOfMatchable(e.row) /\ (s[e.row] = 0) # (weight = 0)
  IN CASE ~presence /\ after # None -> {Failed("event without presence has a cursor")}
       [] ~presence ->
            {Stepped([s EXCEPT ![e.row] = weight], <<>>, ordinal + 1, AsOfStart)}
       [] presence /\ after # None /\ after \notin affected ->
            {Failed("cursor outside the influence interval")}
       [] OTHER -> {RightPage(cfg, s, e, weight, ordinal, page) : page \in ScanPages(affected, after)}

LeftStep(cfg, s, e, weight, ordinal) ==
  LET bucket == Select(cfg, s, e.row)
  IN IF Ambiguous(bucket) THEN Failed("ambiguous")
     ELSE Stepped([s EXCEPT ![e.row] = weight], <<Event(<<e.row, Winner(bucket)>>, e.diff)>>,
                  ordinal + 1, AsOfStart)

AsOfSteps(cfg, s, change, resume) ==
  LET e        == change[resume.ordinal + 1]
      adjusted == Adjusted(s[e.row], e.diff)
  IN CASE ~adjusted.ok -> {Failed(adjusted.failure)}
       [] e.row \in AsOfLeft -> {LeftStep(cfg, s, e, adjusted.weight, resume.ordinal)}
       [] OTHER -> RightSteps(cfg, s, e, adjusted.weight, resume.ordinal, resume.cursor.after)

\* validate_resume: what can be checked without the store.
AsOfResumable(cfg, change, resume) ==
  LET row   == change[resume.ordinal + 1].row
      after == resume.cursor.after
  IN /\ resume.ordinal < Len(change)
     /\ after # None =>
          /\ row \in AsOfRight /\ AsOfMatchable(row)
          /\ after \in AsOfLeft /\ AsOfMatchable(after) /\ Part[after] = Part[row]
          /\ Eligible(cfg, OrderOf[after], OrderOf[row])

(***************************************************************************)
(* Reference: every left row with all the right rows that win it.  Two of  *)
(* them would give the left row twice, which no output ever does.          *)
(***************************************************************************)
Wins(cfg, relation, l, r) ==
  LET fits(x) == /\ relation[x] > 0 /\ Part[x] = Part[l] /\ Part[l] # NullPart
                 /\ OrderOf[x] # NullOrder /\ OrderOf[l] # NullOrder
                 /\ Eligible(cfg, OrderOf[l], OrderOf[x])
  IN /\ fits(r)
     /\ \A x \in AsOfRight : fits(x) =>
          IF cfg.forward THEN OrderOf[r] <= OrderOf[x] ELSE OrderOf[x] <= OrderOf[r]

AsOfReference(cfg, relation) ==
  [o \in AsOfLeft \X (AsOfRight \cup {None}) |->
     IF IF o[2] = None THEN \A r \in AsOfRight : ~Wins(cfg, relation, o[1], r)
        ELSE Wins(cfg, relation, o[1], o[2])
     THEN relation[o[1]] ELSE 0]
=============================================================================
