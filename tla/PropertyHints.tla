--------------------------- MODULE PropertyHints ---------------------------
(***************************************************************************)
(* What an adapter is told about the values of one property before it      *)
(* resolves a vertex: statically_required_property and                     *)
(* dynamically_required_property of hints/vertex_info.rs, with             *)
(* candidate_from_statically_evaluated_filters of hints/filters.rs and     *)
(* DynamicallyResolvedValue::resolve of hints/dynamic.rs.                  *)
(*                                                                         *)
(* The filters whose operand is a query variable are folded into a         *)
(* candidate, those that can produce one first and those that only exclude *)
(* values after them.  When an adapter asks for the dynamic hint, one of   *)
(* the filters whose operand is a tag narrows that candidate further, with *)
(* the value the tag has in each context.                                  *)
(***************************************************************************)
EXTENDS Candidates, Sequences

CONSTANTS Nonexistent,  \* TaggedValue::NonexistentOptional
          StaticFilters,\* the filters with a query variable, or no operand
          TagFilters,   \* the filters with a tag and the tag's value
          Queries       \* the sequences of filters to process

Orderings == {"<", "<=", ">", ">="}

StaticFilter ==
  [op : {"is_null", "is_not_null", "other"}]
    \cup [op : {"=", "!="}, value : Value] \cup [op : Orderings, value : Number]
    \cup [op : {"one_of", "not_one_of"}, values : List]

\* A tag of a nullable list may be null, and a nullable tag may be ordered with.
TagFilter ==
  [op : {"=", "!="} \cup Orderings, value : Value \cup {Nonexistent}, count : BOOLEAN]
    \cup [op : {"one_of"}, values : List \cup {Null, Nonexistent}, count : BOOLEAN]

ASSUME NonexistentIsNoValue ==
  Nonexistent \notin Value /\ Nonexistent \notin List /\ Null \notin List
ASSUME FiltersAreFilters ==
  StaticFilters \subseteq StaticFilter /\ TagFilters \subseteq TagFilter
ASSUME QueriesAreFilters ==
  Queries \subseteq [static : Seq(StaticFilters), tagged : Seq(TagFilters), nullable : BOOLEAN]

VARIABLES query,      \* the filters of the property, in the order of the query
          phase,      \* how far the hint has been computed
          at,         \* the next static filter to look at
          place,      \* the next operand element of that filter to exclude
          candidate   \* the candidate so far

vars == <<query, phase, at, place, candidate>>

-----------------------------------------------------------------------------

\* The comparison of filtering.rs an ordering filter makes; null is never ordered.
Ordered(op, v, bound) ==
  /\ v # Null
  /\ bound # Null
  /\ CASE op = "<" -> v < bound [] op = "<=" -> v =< bound
       [] op = ">" -> v > bound [] op = ">=" -> v >= bound

In(v, list) == \E p \in DOMAIN list : list[p] = v

\* Whether apply_filter keeps a row whose property is v.  Nothing is known of
\* the string operations, so they are taken to keep every row.
Satisfies(v, f) ==
  CASE f.op = "is_null" -> v = Null
    [] f.op = "is_not_null" -> v # Null
    [] f.op = "=" -> v = f.value
    [] f.op = "!=" -> v # f.value
    [] f.op \in Orderings -> Ordered(f.op, v, f.value)
    [] f.op = "one_of" -> In(v, f.values)
    [] f.op = "not_one_of" -> ~ In(v, f.values)
    [] f.op = "other" -> TRUE

\* The same for a tag: a tag of a missing @optional lets every row pass, and
\* no value is one of a null list.
SatisfiesTag(v, f) ==
  IF f.op = "one_of" THEN f.values = Nonexistent \/ (f.values # Null /\ In(v, f.values))
  ELSE f.value = Nonexistent \/ Satisfies(v, f)

\* The schema says whether the property may be null.
Possible(v) == v \in Value /\ (v = Null => query.nullable)

-----------------------------------------------------------------------------

\* The filters that produce a candidate; the rest are only excluded from it.
Produces(f) == \/ f.op \in {"is_null", "is_not_null", "=", "one_of"} \cup Orderings
               \/ f.op = "!=" /\ f.value = Null

\* The bound an ordering puts on a property: RangeOf keeps null when told to.
RangeOf(op, n, null) ==
  CASE op = "<" -> Between(Unbounded, ExcludedBound(n), null)
    [] op = "<=" -> Between(Unbounded, Included(n), null)
    [] op = ">" -> Between(ExcludedBound(n), Unbounded, null)
    [] op = ">=" -> Between(Included(n), Unbounded, null)

Produced(f) ==
  CASE f.op = "is_null" -> Single(Null)
    [] f.op = "is_not_null" \/ f.op = "!=" -> FullNonNull
    [] f.op = "=" -> Single(f.value)
    [] f.op \in Orderings -> RangeOf(f.op, f.value, TRUE)
    [] f.op = "one_of" -> Multiple(f.values)

\* The values a `!=` or a `not_one_of` disallows, as a list.
Disallowed(f) == CASE f.op = "!=" -> [p \in {1} |-> f.value]
                   [] f.op = "not_one_of" -> f.values
                   [] OTHER -> << >>

InitialCandidate(nullable) == IF nullable THEN All ELSE FullNonNull

Init ==
  /\ query \in Queries
  /\ phase = IF query.static = << >> THEN "none" ELSE "intersect"
  /\ at = 1
  /\ place = 1
  /\ candidate = InitialCandidate(query.nullable)

\* The fold over the candidates, in the order of the filters.
IntersectFilter ==
  /\ phase = "intersect"
  /\ at \in DOMAIN query.static
  /\ candidate' = IF Produces(query.static[at])
                    THEN Intersect(candidate, Produced(query.static[at]))
                    ELSE candidate
  /\ at' = at + 1
  /\ UNCHANGED <<query, phase, place>>

\* "No valid candidate-producing filters found": the static hint is None, and
\* a dynamic one starts from the same initial candidate.
NoCandidate ==
  /\ phase = "intersect"
  /\ at \notin DOMAIN query.static
  /\ \A i \in DOMAIN query.static : ~ Produces(query.static[i])
  /\ phase' = "none"
  /\ UNCHANGED <<query, at, place, candidate>>

\* The candidate is normalized before values are excluded from it.
StartExcluding ==
  /\ phase = "intersect"
  /\ at \notin DOMAIN query.static
  /\ \E i \in DOMAIN query.static : Produces(query.static[i])
  /\ candidate' = Normalize(candidate)
  /\ phase' = "exclude"
  /\ at' = 1
  /\ UNCHANGED <<query, place>>

\* The next value of a filter that disallows values; `!= null` is not among
\* them, for it produced a candidate.
ExcludeValue ==
  /\ phase = "exclude"
  /\ at \in DOMAIN query.static
  /\ ~ Produces(query.static[at])
  /\ place \in DOMAIN Disallowed(query.static[at])
  /\ candidate' = ExcludeSingle(candidate, Disallowed(query.static[at])[place])
  /\ place' = place + 1
  /\ UNCHANGED <<query, phase, at>>

NextExclusion ==
  /\ phase = "exclude"
  /\ at \in DOMAIN query.static
  /\ Produces(query.static[at]) \/ place \notin DOMAIN Disallowed(query.static[at])
  /\ at' = at + 1
  /\ place' = 1
  /\ UNCHANGED <<query, phase, candidate>>

\* statically_required_property returns the candidate.
ReturnStatic ==
  /\ phase = "exclude"
  /\ at \notin DOMAIN query.static
  /\ phase' = "static"
  /\ UNCHANGED <<query, at, place, candidate>>

-----------------------------------------------------------------------------

\* The dynamic hint uses one tag only: an `=` before a `one_of`, that before an
\* ordering, that before a `!=`, and the first of its kind.
Uses(ops) == \E i \in DOMAIN query.tagged : query.tagged[i].op \in ops

Preferred == IF Uses({"="}) THEN {"="}
             ELSE IF Uses({"one_of"}) THEN {"one_of"}
             ELSE IF Uses(Orderings) THEN Orderings
             ELSE {"!="}

IsToUse(i) ==
  /\ query.tagged[i].op \in Preferred
  /\ \A j \in DOMAIN query.tagged : j < i => query.tagged[j].op \notin Preferred

IsMissing(f) == IF f.op = "one_of" THEN f.values = Nonexistent ELSE f.value = Nonexistent

\* Range::with_start and with_end assert that the bound is not null, and the
\* value of a `one_of` tag is unwrapped as a list.
Panics(f) == \/ f.op \in Orderings /\ f.value = Null
             \/ f.op = "one_of" /\ f.values = Null

\* Mutant of TagRange: "<=" leaves its bound out.
TagRangeStrict(op, n, null) ==
  IF op \in {"<", "<="} THEN Between(Unbounded, ExcludedBound(n), null) ELSE RangeOf(op, n, null)

\* Both match arms of GreaterThanOrEqual bound the end of the range.
TagRange(op, n, null) == IF op = ">=" THEN Between(Unbounded, Included(n), null)
                                      ELSE RangeOf(op, n, null)

\* compute_candidate_from_operation, and resolve_fold_specific_field, whose
\* ranges leave null out.
WithTag(c, f) ==
  CASE IsMissing(f) -> c
    [] ~ IsMissing(f) /\ f.op = "=" -> Intersect(c, Single(f.value))
    [] ~ IsMissing(f) /\ f.op = "!=" -> ExcludeSingle(c, f.value)
    [] ~ IsMissing(f) /\ f.op = "one_of" -> Intersect(c, Multiple(f.values))
    [] ~ IsMissing(f) /\ f.op \in Orderings ->
         Intersect(c, TagRange(f.op, f.value, ~ f.count))

\* An adapter resolves the dynamic hint for a context.
ResolveTag ==
  /\ phase \in {"none", "static"}
  /\ \E i \in DOMAIN query.tagged :
       /\ IsToUse(i)
       /\ IF Panics(query.tagged[i])
            THEN phase' = "panicked" /\ UNCHANGED candidate
            ELSE phase' = "resolved" /\ candidate' = WithTag(candidate, query.tagged[i])
  /\ UNCHANGED <<query, at, place>>

\* No tag to resolve, or nothing left to do.
Done ==
  /\ \/ phase \in {"resolved", "panicked"}
     \/ phase \in {"none", "static"} /\ query.tagged = << >>
  /\ UNCHANGED vars

Next == \/ IntersectFilter \/ NoCandidate \/ StartExcluding \/ ExcludeValue
        \/ NextExclusion \/ ReturnStatic \/ ResolveTag \/ Done

Spec == Init /\ [][Next]_vars

-----------------------------------------------------------------------------

\* Mutant of AtLeastOne: zero elements are enough.
AtLeastNone(v) == v # Null /\ v >= 0

\* as_u64().unwrap_or_default() >= 1
AtLeastOne(v) == v # Null /\ v >= 1

\* fold_requires_at_least_one_element, of the candidate for the @fold's count.
RequiresElement ==
  /\ phase = "static"
  /\ \/ candidate.kind = "single" /\ AtLeastOne(candidate.value)
     \/ /\ candidate.kind = "multiple"
        /\ \A p \in DOMAIN candidate.values : AtLeastOne(candidate.values[p])
     \/ /\ candidate.kind = "range"
        /\ \/ candidate.start.kind = "included" /\ AtLeastOne(candidate.start.at)
           \/ candidate.start.kind = "excluded" /\ candidate.start.at >= 0

-----------------------------------------------------------------------------

\* Every variable holds what its field in the code may hold.
TypeOK ==
  /\ query \in Queries
  /\ phase \in {"intersect", "exclude", "none", "static", "resolved", "panicked"}
  /\ at \in Nat \ {0}
  /\ place \in Nat \ {0}
  /\ candidate \in Candidate

Passes(v) == \A i \in DOMAIN query.static : Satisfies(v, query.static[i])
PassesTags(v) == \A i \in DOMAIN query.tagged : SatisfiesTag(v, query.tagged[i])

\* A static hint never leaves out a value with which the row would be kept: an
\* adapter that resolves only the vertices the candidate of
\* candidate_from_statically_evaluated_filters admits loses no row, whatever
\* filters were folded into it, in whatever order.
StaticSound ==
  phase \notin {"resolved", "panicked"} =>
    \A v \in Value : Possible(v) /\ Passes(v) => Admits(candidate, v)

\* The same for the dynamic hint, with the values the tags have in the context.
DynamicSound ==
  phase = "resolved" =>
    \A v \in Value : Possible(v) /\ Passes(v) /\ PassesTags(v) => Admits(candidate, v)

\* intersect and exclude_single_value leave every candidate in the form adapters
\* match on: no empty or one-element Multiple, no empty, point-like or full Range.
\* (vertex_info.rs asserts the last of these before it returns the hint.)
Canonical == Normalize(candidate) = candidate

\* When fold_requires_at_least_one_element says the @fold needs an element, a
\* fold with none fails the filters on its count: edges marked mandatory by it
\* may be resolved as if the fold could not be empty.
RequiredElementIsNeeded ==
  RequiresElement => ~ Passes(0)

\* Each step narrows: a value once ruled out stays ruled out, so the hint does
\* not get worse for the filters processed later.
NeverWidens == [][\A v \in Value : Admits(candidate', v) => Admits(candidate, v)]_vars

\* "cannot bound range with null value": computing a hint never panics.
NoPanic == phase # "panicked"
=============================================================================
