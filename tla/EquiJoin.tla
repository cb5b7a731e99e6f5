------------------------------ MODULE EquiJoin ------------------------------
(***************************************************************************)
(* The incremental equality join (transform/equi_join).  Each side is a    *)
(* map of weights, partitioned by the join key.  An event of one side      *)
(* scans the partition of its key on the other side, over as many pages as *)
(* it needs, and changes the weight of its own row at the end.             *)
(*                                                                         *)
(* Outer, semi and anti joins must know when a row gets its first match    *)
(* and loses its last one.  Without a residual predicate that is when the  *)
(* partition of the key becomes nonempty or empty.  With one, the number   *)
(* of qualifying rows of the other side is stored for each row             *)
(* (match_counts), and updated while the scan proceeds.                    *)
(***************************************************************************)
EXTENDS Paging

CONSTANTS
  LeftRow, RightRow,  \* rows of port 0 and of port 1, disjoint
  Key,                \* [LeftRow \cup RightRow -> keys]
  NullKey,            \* a key with a NULL part matches nothing
  Qualifying          \* pairs <<left, right>> for which the residual is true

JoinRow == LeftRow \cup RightRow

ASSUME JoinAssumption ==
  /\ LeftRow \subseteq Nat \ {0} /\ RightRow \subseteq Nat \ {0}
  /\ LeftRow \cap RightRow = {} /\ DOMAIN Key = JoinRow
  /\ Qualifying \subseteq LeftRow \X RightRow

JoinKind == {"Inner", "LeftSemi", "LeftAnti", "LeftOuter", "FullOuter"}

JoinState == [rows |-> [r \in JoinRow |-> 0], counts |-> [r \in JoinRow |-> 0]]

\* initial_resume
JoinStart == [found |-> FALSE, after |-> None]

LeftOnly(kind) == kind \in {"LeftSemi", "LeftAnti"}

Preserves(kind, port) == kind = "FullOuter" \/ (kind = "LeftOuter" /\ port = 0)

TracksMatchCount(kind, port) ==
  kind = "FullOuter" \/ (kind \in {"LeftSemi", "LeftAnti", "LeftOuter"} /\ port = 0)

Port(row) == IF row \in LeftRow THEN 0 ELSE 1

Matchable(row) == Key[row] # NullKey

\* The rows one side has under the key of a row.
Partition(s, port, row) ==
  {r \in JoinRow : Port(r) = port /\ Key[r] = Key[row] /\ s.rows[r] > 0}

Candidates(s, row) == Partition(s, 1 - Port(row), row)

\* The output row of a pair, whichever side is given first.
Pair(row, other) == IF Port(row) = 0 THEN <<row, other>> ELSE <<other, row>>

Padded(row) == IF Port(row) = 0 THEN <<row, None>> ELSE <<None, row>>

Qualifies(row, other) == Pair(row, other) \in Qualifying

\* Presence of the row (with a residual) or of its key (without one) before and
\* after the event.
Transition(cfg, s, row, after) ==
  LET before == s.rows[row]
      others == Partition(s, Port(row), row) \ {row}
  IN CASE cfg.residual /\ before = 0 /\ after > 0 -> "First"
       [] cfg.residual /\ before > 0 /\ after = 0 -> "Last"
       [] ~cfg.residual /\ cfg.kind # "Inner" /\ Matchable(row)
            /\ before = 0 /\ after > 0 /\ others = {} -> "First"
       [] ~cfg.residual /\ cfg.kind # "Inner" /\ Matchable(row)
            /\ before > 0 /\ after = 0 /\ others = {} -> "Last"
       [] OTHER -> "None"

(***************************************************************************)
(* Without a residual.                                                     *)
(***************************************************************************)

\* scan_matches: whether the key has candidates, and the pages a scan may give.
Matched(cfg, s, row) ==
  Matchable(row) /\ (cfg.kind = "Inner" \/ Candidates(s, row) # {})

MatchPages(cfg, s, row, transition, after) ==
  IF \/ ~Matched(cfg, s, row)
     \/ LeftOnly(cfg.kind) /\ (Port(row) = 0 \/ transition = "None")
  THEN {[entries |-> <<>>, continuation |-> None]}
  ELSE ScanPages(Candidates(s, row), after)

\* append_output_page: a pair, and the padding of the other row that the first
\* match removes and the last one brings back.
PairOutput(cfg, s, e, transition, other) ==
  LET w        == s.rows[other]
      restores == Preserves(cfg.kind, Port(other))
  IN When(restores /\ transition = "First", <<Event(Padded(other), -w)>>)
     \o <<Event(Pair(e.row, other), e.diff * w)>>
     \o When(restores /\ transition = "Last", <<Event(Padded(other), w)>>)

\* append_existence_output for an event of the right side.
ExistenceOutput(cfg, s, transition, other) ==
  LET sign == IF (transition = "First") = (cfg.kind = "LeftSemi") THEN 1 ELSE -1
  IN When(transition # "None", <<Event(Padded(other), sign * s.rows[other])>>)

MatchOutput(cfg, s, e, transition, entries) ==
  CASE LeftOnly(cfg.kind) /\ Port(e.row) = 0 ->
         When(Matched(cfg, s, e.row) = (cfg.kind = "LeftSemi"),
              <<Event(Padded(e.row), e.diff)>>)
    [] LeftOnly(cfg.kind) /\ Port(e.row) = 1 ->
         FlattenSeq([i \in DOMAIN entries |->
                       ExistenceOutput(cfg, s, transition, entries[i])])
    [] ~LeftOnly(cfg.kind) /\ entries = <<>> ->
         When(~Matched(cfg, s, e.row) /\ Preserves(cfg.kind, Port(e.row)),
              <<Event(Padded(e.row), e.diff)>>)
    [] OTHER ->
         FlattenSeq([i \in DOMAIN entries |-> PairOutput(cfg, s, e, transition, entries[i])])

(***************************************************************************)
(* With a residual.                                                        *)
(***************************************************************************)

\* scan_residual_matches
ResidualPages(cfg, s, row, transition, after) ==
  IF ~Matchable(row) \/ (LeftOnly(cfg.kind) /\ transition = "None")
  THEN {[entries |-> <<>>, continuation |-> None]}
  ELSE ScanPages(Candidates(s, row), after)

\* Mutant: every page of a row counts all its candidates so far as new.
AdjustCountsDoubly(cfg, s, row, transition, page) ==
  LET sign       == CASE transition = "First" -> 1 [] transition = "Last" -> -1 [] OTHER -> 0
      qualifying == {o \in Candidates(s, row) : Qualifies(row, o)}
      own        == IF TracksMatchCount(cfg.kind, Port(row)) THEN Cardinality(qualifying) ELSE 0
  IN [r \in JoinRow |->
        CASE r = row -> s.counts[r] + sign * own
          [] r \in qualifying /\ r \in ToSet(page.entries)
                              /\ TracksMatchCount(cfg.kind, 1 - Port(row)) -> s.counts[r] + sign
          [] OTHER -> s.counts[r]]

\* emit_residual_page: the support of the row and of the candidates on the page.
AdjustCounts(cfg, s, row, transition, page) ==
  LET sign       == CASE transition = "First" -> 1 [] transition = "Last" -> -1 [] OTHER -> 0
      qualifying == {o \in ToSet(page.entries) : Qualifies(row, o)}
      own        == IF TracksMatchCount(cfg.kind, Port(row)) THEN Cardinality(qualifying) ELSE 0
  IN [r \in JoinRow |->
        CASE r = row -> s.counts[r] + sign * own
          [] r \in qualifying /\ TracksMatchCount(cfg.kind, 1 - Port(row)) -> s.counts[r] + sign
          [] OTHER -> s.counts[r]]

\* What a candidate's support change does to its own output row.
Correction(cfg, other, weight) ==
  Event(Padded(other),
        IF ~Preserves(cfg.kind, Port(other)) /\ cfg.kind = "LeftSemi" THEN weight ELSE -weight)

Reversed(event) == [event EXCEPT !.diff = -event.diff]

\* append_residual_page, for one qualifying candidate.
ResidualPairOutput(cfg, s, counts, e, other) ==
  LET w == s.rows[other]
  IN When(s.counts[other] = 0 /\ counts[other] > 0, <<Correction(cfg, other, w)>>)
     \o When(~LeftOnly(cfg.kind), <<Event(Pair(e.row, other), e.diff * w)>>)
     \o When(s.counts[other] > 0 /\ counts[other] = 0, <<Reversed(Correction(cfg, other, w))>>)

\* The row itself, once its last page is done.
CurrentOutput(cfg, e, found) ==
  IF LeftOnly(cfg.kind) /\ Port(e.row) = 0
  THEN When(found = (cfg.kind = "LeftSemi"), <<Event(Padded(e.row), e.diff)>>)
  ELSE When(Preserves(cfg.kind, Port(e.row)) /\ ~found, <<Event(Padded(e.row), e.diff)>>)

ResidualOutput(cfg, s, counts, e, found, page) ==
  LET listed == IF LeftOnly(cfg.kind) /\ Port(e.row) = 0 THEN <<>>
                ELSE SelectSeq(page.entries, LAMBDA o : Qualifies(e.row, o))
  IN FlattenSeq([i \in DOMAIN listed |->
                   ResidualPairOutput(cfg, s, counts, e, listed[i])])
     \o When(page.continuation = None, CurrentOutput(cfg, e, found))

\* validate_current_match_count
CountAgrees(cfg, counts, row, transition, found) ==
  TracksMatchCount(cfg.kind, Port(row)) =>
    IF transition = "Last" THEN counts[row] = 0 ELSE (counts[row] > 0) = found

\* stable_left_only_found_match, or what earlier pages found.
FoundBefore(cfg, s, row, transition, cursor) ==
  IF LeftOnly(cfg.kind) /\ transition = "None"
  THEN Port(row) = 0 /\ Matchable(row) /\ s.counts[row] > 0
  ELSE cursor.found

(***************************************************************************)
(* One scan page of one event.                                             *)
(***************************************************************************)
\* Mutant: the cursor of a finished event is left for the next one.
JoinAdvanceKeepsCursor(s, e, after, output, ordinal, found, page) ==
  IF page.continuation = None
  THEN Stepped([s EXCEPT !.rows[e.row] = after], output, ordinal + 1,
               [found |-> found, after |-> IF page.entries = <<>> THEN None ELSE Last(page.entries)])
  ELSE Stepped(s, output, ordinal, [found |-> found, after |-> page.continuation])

\* The end of the loop in compute_window: the next page of the same event, or
\* the final weight and the next event.
JoinAdvance(s, e, after, output, ordinal, found, page) ==
  IF page.continuation = None
  THEN Stepped([s EXCEPT !.rows[e.row] = after], output, ordinal + 1, JoinStart)
  ELSE Stepped(s, output, ordinal, [found |-> found, after |-> page.continuation])

ResidualStep(cfg, s, e, after, ordinal, cursor, page) ==
  LET transition == Transition(cfg, s, e.row, after)
      counts     == AdjustCounts(cfg, s, e.row, transition, page)
      found      == \/ FoundBefore(cfg, s, e.row, transition, cursor)
                    \/ \E o \in ToSet(page.entries) : Qualifies(e.row, o)
  IN CASE LeftOnly(cfg.kind) /\ transition = "None" /\ cursor.after # None ->
            Failed("stable row has candidate cursor")
       [] \E r \in JoinRow : counts[r] < 0 -> Failed("match count underflow")
       [] page.continuation = None /\ ~CountAgrees(cfg, counts, e.row, transition, found) ->
            Failed("match count disagrees")
       [] OTHER ->
            JoinAdvance([s EXCEPT !.counts = counts], e, after,
                        ResidualOutput(cfg, s, counts, e, found, page), ordinal, found, page)

\* compute_window: the outcomes of the next step at a position.
JoinSteps(cfg, s, change, resume) ==
  LET e        == change[resume.ordinal + 1]
      adjusted == Adjusted(s.rows[e.row], e.diff)
      t        == Transition(cfg, s, e.row, adjusted.weight)
  IN CASE ~adjusted.ok -> {Failed(adjusted.failure)}
       [] cfg.residual ->
            {ResidualStep(cfg, s, e, adjusted.weight, resume.ordinal, resume.cursor, page) :
               page \in ResidualPages(cfg, s, e.row, t, resume.cursor.after)}
       [] OTHER ->
            {JoinAdvance(s, e, adjusted.weight, MatchOutput(cfg, s, e, t, page.entries),
                         resume.ordinal, FALSE, page) :
               page \in MatchPages(cfg, s, e.row, t, resume.cursor.after)}

\* validate_resume and validate_cursor_binding.
JoinResumable(cfg, change, resume) ==
  LET row == change[resume.ordinal + 1].row
      c   == resume.cursor
  IN /\ resume.ordinal < Len(change)
     /\ c.found => c.after # None /\ cfg.residual
     /\ c.after # None =>
          /\ Matchable(row) /\ ~(~cfg.residual /\ LeftOnly(cfg.kind) /\ Port(row) = 0)
          /\ Port(c.after) = 1 - Port(row) /\ Key[c.after] = Key[row]

(***************************************************************************)
(* Reference: the relation the join stands for.                            *)
(***************************************************************************)
Joins(cfg, l, r) ==
  /\ Key[l] = Key[r] /\ Key[l] # NullKey
  /\ cfg.residual => <<l, r>> \in Qualifying

JoinOutputRow == (LeftRow \X RightRow) \cup (LeftRow \X {None}) \cup ({None} \X RightRow)

\* How often an output row is in the join of two weighted relations.
JoinReference(cfg, relation) ==
  [o \in JoinOutputRow |->
     LET l == o[1]  r == o[2]
         lonely == IF r = None
                   THEN ~\E x \in RightRow : relation[x] > 0 /\ Joins(cfg, l, x)
                   ELSE ~\E x \in LeftRow : relation[x] > 0 /\ Joins(cfg, x, r)
     IN CASE l # None /\ r # None ->
               IF ~LeftOnly(cfg.kind) /\ Joins(cfg, l, r) THEN relation[l] * relation[r] ELSE 0
          [] r = None ->
               IF \/ cfg.kind = "LeftSemi" /\ ~lonely
                  \/ cfg.kind \in {"LeftAnti", "LeftOuter", "FullOuter"} /\ lonely
               THEN relation[l] ELSE 0
          [] OTHER -> IF cfg.kind = "FullOuter" /\ lonely THEN relation[r] ELSE 0]

\* The support stored for a row is the number of its qualifying partners.
JoinSupport(cfg, s) ==
  \A r \in JoinRow :
    s.counts[r] =
      IF cfg.residual /\ TracksMatchCount(cfg.kind, Port(r)) /\ s.rows[r] > 0
      THEN Cardinality({o \in JoinRow : /\ Port(o) # Port(r) /\ s.rows[o] > 0
                                        /\ Joins(cfg, Pair(r, o)[1], Pair(r, o)[2])})
      ELSE 0
=============================================================================
