-------------------------------- MODULE Types --------------------------------
(***************************************************************************)
(* Types and values, as trustfall_core/src/ir/types.rs relates them.       *)
(*                                                                         *)
(* A type is the scalar or vertex type at its core and the nullability of  *)
(* each layer, outermost first: [String!] is base "String", nullable       *)
(* <<TRUE, FALSE>>.  A value is the set of the kinds it has at each depth: *)
(* [1, null] has a list at 1, and an integer and a null at 2.              *)
(***************************************************************************)
EXTENDS Naturals, Sequences

Base == {"Int", "Float", "String", "Boolean", "DateTime", "ID"}
Type == [base : Base, nullable : Seq(BOOLEAN) \ {<<>>}]

Kind == {"null", "list", "int", "float", "regex", "text", "boolean", "date"}
Part == [depth : Nat \ {0}, kind : Kind]
Value == {v \in SUBSET Part : \E part \in v : part.depth = 1}

IsList(t) == Len(t.nullable) > 1
Inner(t) == [t EXCEPT !.nullable = Tail(@)]
NonNull(t) == [t EXCEPT !.nullable[1] = FALSE]
NonNullListOf(t) == [t EXCEPT !.nullable = <<FALSE>> \o @]
NonNullScalar(base) == [base |-> base, nullable |-> <<FALSE>>]

\* are_base_types_equal_ignoring_nullability
Compatible(t, u) == t.base = u.base /\ Len(t.nullable) = Len(u.nullable)

Orderable(t) == t.base \in {"Int", "Float", "String", "DateTime"}

\* Mutant of Intersection: only the outermost layer is narrowed.
OuterIntersection(t, u) == [t EXCEPT !.nullable[1] = @ /\ u.nullable[1]]

\* intersect_types, of compatible types
Intersection(t, u) ==
  [base |-> t.base, nullable |-> [l \in DOMAIN t.nullable |-> t.nullable[l] /\ u.nullable[l]]]

\* Mutant of IsScalarOnlySubtype: only the outermost layer is looked at.
OuterSubtype(parent, sub) == Compatible(parent, sub) /\ (sub.nullable[1] => parent.nullable[1])

\* is_scalar_only_subtype
IsScalarOnlySubtype(parent, sub) ==
  /\ Compatible(parent, sub)
  /\ \A l \in DOMAIN sub.nullable : sub.nullable[l] => parent.nullable[l]

BaseOf(kind) == CASE kind = "int" -> "Int" [] kind = "float" -> "Float"
                  [] kind \in {"regex", "text"} -> "String"
                  [] kind = "boolean" -> "Boolean" [] kind = "date" -> "DateTime"

\* May a type's value have this kind at this depth?
Fits(t, part) ==
  /\ part.depth \in DOMAIN t.nullable
  /\ CASE part.kind = "null" -> t.nullable[part.depth]
       [] part.kind = "list" -> part.depth < Len(t.nullable)
       [] OTHER -> part.depth = Len(t.nullable) /\ BaseOf(part.kind) = t.base

\* is_argument_type_valid
Valid(t, v) == \A part \in v : Fits(t, part)
=============================================================================
