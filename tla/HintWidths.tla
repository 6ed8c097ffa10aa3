----------------------------- MODULE HintWidths -----------------------------
(***************************************************************************)
(* PropertyHints takes integers for what they are.  Here they are values   *)
(* of either width: filters compare them with the functions of             *)
(* filtering.rs, adapters that follow a hint with those of value.rs.       *)
(***************************************************************************)
EXTENDS PropertyHints, FieldValues

ASSUME NumbersHaveForms == Number \subseteq Int64 \cup Uint64

\* A filter keeps a value, whichever form its operand has.
Keeps(f, v) ==
  CASE f.op = "is_null" -> FALSE
    [] f.op = "=" -> f.value # Null /\ \E w \in Forms(f.value) : Equals(v, w)
    [] f.op = "!=" -> f.value # Null => \E w \in Forms(f.value) : ~ Equals(v, w)
    [] f.op \in Orderings -> \E w \in Forms(f.value) : Compares(f.op, v, w)
    [] f.op = "one_of" ->
         \E p \in DOMAIN f.values : f.values[p] # Null /\ \E w \in Forms(f.values[p]) : Same(v, w)
    [] f.op = "not_one_of" ->
         \A p \in DOMAIN f.values : f.values[p] # Null => \E w \in Forms(f.values[p]) : ~ Same(v, w)
    [] f.op \in {"is_not_null", "other"} -> TRUE

\* Range::contains, in all forms of the bounds
StartsBelow(bound, v) ==
  CASE bound.kind = "unbounded" -> TRUE
    [] bound.kind = "included" -> \A w \in Forms(bound.at) : AtMost(w, v)
    [] bound.kind = "excluded" -> \A w \in Forms(bound.at) : Less(w, v)
EndsAbove(bound, v) ==
  CASE bound.kind = "unbounded" -> TRUE
    [] bound.kind = "included" -> \A w \in Forms(bound.at) : AtMost(v, w)
    [] bound.kind = "excluded" -> \A w \in Forms(bound.at) : Less(v, w)

\* A candidate has a value in it, in all forms of what it is made of.
Offers(c, v) ==
  CASE c.kind = "all" -> TRUE
    [] c.kind = "impossible" -> FALSE
    [] c.kind = "single" -> c.value # Null /\ \A w \in Forms(c.value) : Same(v, w)
    [] c.kind = "multiple" ->
         \E p \in DOMAIN c.values : c.values[p] # Null /\ \A w \in Forms(c.values[p]) : Same(v, w)
    [] c.kind = "range" -> StartsBelow(c.start, v) /\ EndsAbove(c.end, v)

\* A static hint leaves out no integer that the filters keep, also where the
\* property, the query's arguments and the hint have it in different widths, and
\* though filters and hints are compared by different functions.
SoundInAnyWidth ==
  phase \notin {"resolved", "panicked"} =>
    \A n \in Number : \A v \in Forms(n) :
      (\A i \in DOMAIN query.static : Keeps(query.static[i], v)) => Offers(candidate, v)
=============================================================================
