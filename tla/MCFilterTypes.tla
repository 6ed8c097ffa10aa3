--------------------------- MODULE MCFilterTypes ----------------------------
(***************************************************************************)
(* Single filters of every operator, type of up to two layers and operand, *)
(* and queries of two and three filters that share variables, of types up  *)
(* to three layers, with arguments of up to three.                         *)
(***************************************************************************)
EXTENDS FilterTypes

CONSTANTS x, y

TypesOf(bases, layers) ==
  [base : bases, nullable : UNION {[1..n -> BOOLEAN] : n \in 1..layers}]

Filters(types, ops, operands) == [type : types, op : ops, right : operands]

VariableRef(n) == [kind |-> "variable", name |-> n]
TagRefs(types) == [kind : {"tag"}, type : types]
Number == [kind |-> "number"]

Single ==
  LET types == TypesOf({"Int", "String", "Boolean"}, 2)
  IN Filters(types, {"is_null"}, {[kind |-> "none"]})
       \cup Filters(types, Operator \ {"is_null"}, TagRefs(types) \cup {VariableRef(x), Number})

\* Filters with variables, of which some pairs do not fit.
Shared ==
  Filters(TypesOf({"Int"}, 2), {"equality", "order", "one_of"}, {VariableRef(x)})
    \cup Filters(TypesOf({"String"}, 1), {"equality", "regex", "one_of"}, {VariableRef(x), VariableRef(y)})
    \cup Filters([base : {"String"}, nullable : {<<TRUE, TRUE>>, <<FALSE, TRUE>>}], {"contains"},
                 {VariableRef(x)})

Nested == Filters(TypesOf({"Int"}, 3), {"equality"}, {VariableRef(x)})

MCQueries == {<<f>> : f \in Single} \cup (Shared \X Shared) \cup (Nested \X Nested \X Nested)

\* Values of the scalars, and lists of up to two levels with nulls anywhere.
Is(d, k) == [depth |-> d, kind |-> k]
Flat == {{Is(1, k)} : k \in Kind \ {"list", "date", "float"}}
MCValues ==
  Flat
    \cup {{Is(1, "list")} \cup inner : inner \in SUBSET {Is(2, "int"), Is(2, "null"), Is(2, "text")}}
    \cup {{Is(1, "list"), Is(2, "list")} \cup inner :
            inner \in SUBSET {Is(2, "null"), Is(3, "int"), Is(3, "null")}}

MCArguments == UNION {[{n} -> MCValues] : n \in {x, y}}
                 \cup [{x, y} -> Flat] \cup {<<>>}
=============================================================================
