----------------------------- MODULE FieldValues -----------------------------
(***************************************************************************)
(* The two ways in which trustfall_core compares integers, which are       *)
(* FieldValue::Int64 or FieldValue::Uint64: the functions that filters use *)
(* (interpreter/filtering.rs), and PartialEq and PartialOrd of FieldValue  *)
(* (ir/value.rs), which hints and one_of use.  A conversion, try_from or   *)
(* try_into, succeeds if the number is one of the other type.              *)
(***************************************************************************)
EXTENDS Integers

CONSTANT MaxInt  \* i64::MAX

ASSUME MaxIntIsNat == MaxInt \in Nat

Int64 == -(MaxInt + 1)..MaxInt
Uint64 == 0..(2 * MaxInt + 1)

FieldValue == [kind : {"Int64"}, n : Int64] \cup [kind : {"Uint64"}, n : Uint64]

\* The values that are a number.
Forms(n) == {v \in {[kind |-> "Int64", n |-> n], [kind |-> "Uint64", n |-> n]} : v \in FieldValue}

\* Comparing integers of one type.
Holds(op, m, n) == CASE op = "<" -> m < n [] op = "<=" -> m <= n
                     [] op = ">" -> m > n [] op = ">=" -> m >= n

Ordering(m, n) == IF m < n THEN "less" ELSE IF m = n THEN "equal" ELSE "greater"
Flipped(ordering) == CASE ordering = "less" -> "greater" [] ordering = "equal" -> "equal"
                       [] ordering = "greater" -> "less"

-----------------------------------------------------------------------------
(* filtering.rs                                                            *)

\* equals(): neither conversion may succeed.
Equals(l, r) ==
  IF l.kind = r.kind THEN l.n = r.n
  ELSE (l.n \in Int64 \cap Uint64 \/ r.n \in Int64 \cap Uint64) /\ l.n = r.n

\* Mutant of Compares: values of different types are cast to u64.
ComparesByCast(op, l, r) ==
  LET AsU64(v) == v.n % (2 * MaxInt + 2)
  IN  IF l.kind = r.kind THEN Holds(op, l.n, r.n) ELSE Holds(op, AsU64(l), AsU64(r))

\* less_than() and the others, with their slow paths: an Int64 that is no Uint64 is
\* negative, and less than a Uint64 that is no Int64.
Compares(op, l, r) ==
  IF l.kind = r.kind \/ l.n \in Int64 \cap Uint64 \/ r.n \in Int64 \cap Uint64 THEN Holds(op, l.n, r.n)
  ELSE IF l.kind = "Int64" THEN op \in {"<", "<="}
  ELSE op \in {">", ">="}

-----------------------------------------------------------------------------
(* value.rs                                                                *)

\* compare_i64_to_u64()
CompareMixed(signed, unsigned) ==
  IF unsigned \in Int64 \/ signed \in Uint64 THEN Ordering(signed, unsigned) ELSE "less"

\* PartialOrd::partial_cmp
PartialCmp(l, r) ==
  CASE l.kind = r.kind -> Ordering(l.n, r.n)
    [] l.kind = "Int64" /\ r.kind = "Uint64" -> CompareMixed(l.n, r.n)
    [] l.kind = "Uint64" /\ r.kind = "Int64" -> Flipped(CompareMixed(r.n, l.n))

\* PartialEq::eq, and structural_eq() for values of one kind
Same(l, r) ==
  CASE l.kind = r.kind -> l.n = r.n
    [] l.kind = "Int64" /\ r.kind = "Uint64" -> CompareMixed(l.n, r.n) = "equal"
    [] l.kind = "Uint64" /\ r.kind = "Int64" -> CompareMixed(r.n, l.n) = "equal"

AtMost(l, r) == PartialCmp(l, r) \in {"less", "equal"}
Less(l, r) == PartialCmp(l, r) = "less"
=============================================================================
