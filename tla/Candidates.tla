----------------------------- MODULE Candidates -----------------------------
(***************************************************************************)
(* CandidateValue of hints/candidates.rs: a description of the values a    *)
(* property may have in a query, narrowed by intersecting it with other    *)
(* descriptions and by excluding single values.                            *)
(*                                                                         *)
(* The property is a nullable integer.  The list of a Multiple is a        *)
(* function from the places of the list to values: dropping elements       *)
(* (Vec::retain) leaves the other elements at the places they had, which   *)
(* keeps their order and their number.                                     *)
(***************************************************************************)
EXTENDS Integers, Functions

CONSTANTS Number,   \* the integers a property may have
          Null,     \* FieldValue::Null
          Place     \* the places of a list

ASSUME NumbersAreInts == Number \subseteq Int
ASSUME NullIsNoNumber == Null \notin Number
ASSUME PairsFit == {1, 2} \subseteq Place

Value == Number \cup {Null}

\* Vec<FieldValue>
List == UNION {[places -> Value] : places \in SUBSET Place}

\* std::ops::Bound
Bound == [kind : {"unbounded"}] \cup [kind : {"included", "excluded"}, at : Number]

Unbounded == [kind |-> "unbounded"]
Included(n) == [kind |-> "included", at |-> n]
ExcludedBound(n) == [kind |-> "excluded", at |-> n]

RangeCandidate == [kind : {"range"}, start : Bound, end : Bound, null : BOOLEAN]
Candidate ==
  [kind : {"impossible", "all"}] \cup [kind : {"single"}, value : Value]
    \cup [kind : {"multiple"}, values : List] \cup RangeCandidate

Impossible == [kind |-> "impossible"]
All == [kind |-> "all"]
Single(v) == [kind |-> "single", value |-> v]
Multiple(list) == [kind |-> "multiple", values |-> list]
Between(start, end, null) ==
  [kind |-> "range", start |-> start, end |-> end, null |-> null]

Full == Between(Unbounded, Unbounded, TRUE)
FullNonNull == Between(Unbounded, Unbounded, FALSE)

\* The two halves of Range::contains.
Above(bound, n) == \/ bound.kind = "unbounded"
                   \/ bound.kind = "included" /\ bound.at =< n
                   \/ bound.kind = "excluded" /\ bound.at < n
Below(bound, n) == \/ bound.kind = "unbounded"
                   \/ bound.kind = "included" /\ n =< bound.at
                   \/ bound.kind = "excluded" /\ n < bound.at

\* Range::contains
RangeContains(range, v) ==
  IF v = Null THEN range.null ELSE Above(range.start, v) /\ Below(range.end, v)

\* The values a candidate leaves possible: what the variants' docs promise, and
\* how intersect() asks whether one value is among the other side's.
Admits(c, v) ==
  \/ c.kind = "all"
  \/ c.kind = "single" /\ v = c.value
  \/ c.kind = "multiple" /\ \E p \in DOMAIN c.values : c.values[p] = v
  \/ c.kind = "range" /\ RangeContains(c, v)

Denotation(c) == {v \in Value : Admits(c, v)}

-----------------------------------------------------------------------------

\* Mutant of Degenerate: a range of one number counts as empty.
DegenerateAtOne(range) ==
  /\ range.start.kind # "unbounded"
  /\ range.end.kind # "unbounded"
  /\ range.start.at >= range.end.at

\* Range::degenerate: no number is in the range.
Degenerate(range) ==
  /\ range.start.kind # "unbounded"
  /\ range.end.kind # "unbounded"
  /\ IF range.start.kind = "included" /\ range.end.kind = "included"
       THEN range.start.at > range.end.at
       ELSE range.start.at >= range.end.at

\* The two cases of CandidateValue::normalize.
NormalizeRange(c) ==
  IF Degenerate(c) THEN IF c.null THEN Single(Null) ELSE Impossible
  ELSE IF c = Full THEN All
  ELSE IF c.start = c.end /\ c.start.kind = "included"
         THEN IF c.null THEN Multiple([p \in {1, 2} |-> IF p = 1 THEN Null ELSE c.start.at])
                        ELSE Single(c.start.at)
         ELSE c

NormalizeMultiple(c) ==
  IF DOMAIN c.values = {} THEN Impossible
  ELSE IF \E p \in DOMAIN c.values : DOMAIN c.values = {p}
         THEN Single(c.values[CHOOSE p \in DOMAIN c.values : TRUE])
         ELSE c

\* CandidateValue::normalize
Normalize(c) == IF c.kind = "range" THEN NormalizeRange(c)
                ELSE IF c.kind = "multiple" THEN NormalizeMultiple(c)
                ELSE c

-----------------------------------------------------------------------------

\* The halves of Range::intersect: the tighter of two bounds.
HigherStart(mine, other) ==
  IF mine.kind = "unbounded" THEN other
  ELSE IF other.kind = "unbounded" THEN mine
  ELSE IF \/ mine.at < other.at
          \/ mine.kind = "included" /\ other.kind = "excluded" /\ mine.at = other.at
         THEN other ELSE mine

LowerEnd(mine, other) ==
  IF mine.kind = "unbounded" THEN other
  ELSE IF other.kind = "unbounded" THEN mine
  ELSE IF \/ mine.at > other.at
          \/ mine.kind = "included" /\ other.kind = "excluded" /\ mine.at = other.at
         THEN other ELSE mine

\* Mutant of IntersectRanges: one of the ranges is enough to admit null.
IntersectRangesEitherNull(mine, other) ==
  Between(HigherStart(mine.start, other.start), LowerEnd(mine.end, other.end),
          mine.null \/ other.null)

\* Range::intersect
IntersectRanges(mine, other) ==
  Between(HigherStart(mine.start, other.start), LowerEnd(mine.end, other.end),
          mine.null /\ other.null)

\* Vec::retain of the values another candidate admits.
Retain(list, c) == Restrict(list, {p \in DOMAIN list : Admits(c, list[p])})

\* The arms of CandidateValue::intersect for a left side that is no range.
Narrow(c, other) ==
  CASE c.kind = "impossible" -> c
    [] c.kind = "all" -> other
    [] c.kind = "single" -> IF Admits(other, c.value) THEN c ELSE Impossible
    [] c.kind = "multiple" /\ other.kind = "single" ->
         IF Admits(c, other.value) THEN other ELSE Impossible
    [] c.kind = "multiple" /\ other.kind \in {"impossible", "all"} ->
         IF other.kind = "all" THEN c ELSE other
    [] c.kind = "multiple" /\ other.kind \in {"multiple", "range"} ->
         Multiple(Retain(c.values, other))

\* CandidateValue::intersect: a range on the left alone is handled with the
\* operands reversed.
Intersect(c, other) ==
  IF c.kind # "range" THEN Normalize(Narrow(c, other))
  ELSE IF other.kind = "range" THEN Normalize(IntersectRanges(c, other))
  ELSE Normalize(Normalize(Narrow(other, c)))

\* A bound that no longer includes v.
Opened(bound, v) == IF bound = Included(v) THEN ExcludedBound(v) ELSE bound

\* Mutant of ExcludeSingle: a list that loses a value is not normalized.
ExcludeWithoutNormalize(c, v) ==
  CASE c.kind = "impossible" -> c
    [] c.kind = "all" -> IF v = Null THEN FullNonNull ELSE c
    [] c.kind = "single" -> IF c.value = v THEN Impossible ELSE c
    [] c.kind = "multiple" -> Multiple(Restrict(c.values, {p \in DOMAIN c.values : c.values[p] # v}))
    [] c.kind = "range" /\ v = Null -> Normalize(Between(c.start, c.end, FALSE))
    [] c.kind = "range" /\ v # Null ->
         Normalize(Between(Opened(c.start, v), Opened(c.end, v), c.null))

\* CandidateValue::exclude_single_value
ExcludeSingle(c, v) ==
  CASE c.kind = "impossible" -> c
    [] c.kind = "all" -> IF v = Null THEN FullNonNull ELSE c
    [] c.kind = "single" -> IF c.value = v THEN Impossible ELSE c
    [] c.kind = "multiple" ->
         Normalize(Multiple(Restrict(c.values, {p \in DOMAIN c.values : c.values[p] # v})))
    [] c.kind = "range" /\ v = Null -> Normalize(Between(c.start, c.end, FALSE))
    [] c.kind = "range" /\ v # Null ->
         Normalize(Between(Opened(c.start, v), Opened(c.end, v), c.null))
=============================================================================
