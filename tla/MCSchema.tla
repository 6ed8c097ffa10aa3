------------------------------- MODULE MCSchema -------------------------------
(***************************************************************************)
(* Documents for TLC: every way in which three types may implement one     *)
(* another and have a field; a type and its interface with fields of every *)
(* type and parameter; documents with one other defect; and edges between  *)
(* a type, its interface and one in between, to recurse along.             *)
(***************************************************************************)
EXTENDS QueryTypes

MCName == {"Root", "A", "B", "C", "X", "__T"} \cup Base
MCFieldName == {"start", "f", "__f"}
MCReserved == {"__T", "__f", Typename}

Named(base) == [base |-> base, nullable |-> <<TRUE>>]
Property(n, type) == [name |-> n, type |-> type, params |-> << >>]
Edge(n, type, params) == [name |-> n, type |-> type, params |-> params]

Definition(kind, name, implements, fields) ==
  [kind |-> kind, name |-> name, extend |-> FALSE, implements |-> implements, fields |-> fields]
Other(kind, name) == [kind |-> kind, name |-> name, extend |-> FALSE]

SchemaOf(query) == [kind |-> "schema", query |-> query, extend |-> FALSE]
Root(fields) == Definition("object", "Root", << >>, fields)
Start == <<Edge("start", Named("A"), << >>)>>

\* Three types that implement any of each other, of themselves and of what is
\* not defined, each with or without the field.
Listed(names) == CHOOSE s \in [1..Cardinality(names) -> names] : {s[i] : i \in DOMAIN s} = names
FieldIf(has) == IF has THEN <<Property("f", Named("Int"))>> ELSE << >>

Hierarchies ==
  { <<SchemaOf("Root"), Root(Start)>>
      \o [i \in 1..3 |-> Definition("interface", <<"A", "B", "C">>[i], Listed(h[i]), FieldIf(g[i]))] :
      h \in {h \in [1..3 -> SUBSET {"A", "B", "C", "X"}] :
               /\ Cardinality(h[1]) + Cardinality(h[2]) + Cardinality(h[3]) <= 4
               /\ "X" \notin h[1] \cup h[2]},
      g \in {g \in [1..3 -> BOOLEAN] : g[3]} }

\* B implements A, and C both.  A's field and B's are of any type.
Nested(bases) == [base : bases, nullable : {<<n>> : n \in BOOLEAN} \cup (BOOLEAN \X BOOLEAN)]
Family(a, b, c) ==
  <<SchemaOf("Root"), Root(Start), Definition("interface", "A", << >>, a),
    Definition("interface", "B", <<"A">>, b), Definition("object", "C", <<"B", "A">>, c)>>

FieldTypes ==
  { Family(<<Property("f", t)>>, <<Property("f", u)>>, <<Property("f", u)>>) :
      t \in Nested({"Int", "A", "B"}), u \in Nested({"Int", "String", "A", "B", "C"}) }

\* Values, as the set of their kinds at each depth.
Int(d) == [depth |-> d, kind |-> "int"]
List(d) == [depth |-> d, kind |-> "list"]
Null(d) == [depth |-> d, kind |-> "null"]

\* The parameters of an edge in A and in B, some with a default.
WithDefault ==
  {[type |-> [base |-> "Int", nullable |-> <<FALSE>>], default |-> {Int(1)}],
   [type |-> Named("Int"), default |-> {Int(1)}], [type |-> Named("Int"), default |-> {Null(1)}],
   [type |-> [base |-> "Int", nullable |-> <<FALSE, TRUE>>], default |-> {List(1), Null(2)}]}
Params == {<< >>} \cup { [p \in {"p"} |-> [type |-> t, default |-> None]] : t \in Nested({"Int"}) }
            \cup { [p \in {"p", "q"} |-> [type |-> t, default |-> None]] : t \in Nested({"String"}) }
            \cup { [p \in {"p"} |-> d] : d \in WithDefault }
Widest == [p \in {"p"} |-> [type |-> Named("Int"), default |-> None]]
FieldParams ==
  { Family(<<Edge("f", Named("A"), p)>>, <<Edge("f", Named("A"), q)>>, <<Edge("f", Named("A"), IF same THEN q ELSE Widest)>>) :
      p, q \in Params, same \in BOOLEAN }

\* Defaults, lists of lists, parameters of properties, edges to the root,
\* properties of the root, and reserved names.
Defaults == {None, {Null(1)}, {Int(1)}, {List(1), Int(2)}, {List(1), Null(2), Int(2)}, {List(1)}}
Defects ==
  { <<SchemaOf("Root"), Root(Start \o root), Definition("object", name, << >>, <<field>>),
      Definition("object", "A", << >>, << >>), Other("scalar", "X")>> :
      root \in {<< >>, <<Property("f", Named("Int"))>>},
      name \in {"B", "__T"},
      field \in {Edge("f", Named(base), << >>) : base \in {"Root", "String", "DateTime", "X"}}
                  \cup {Edge("__f", Named("A"), << >>), Edge("f", Named("Root"), [p \in {"p"} |->
                              [type |-> Named("Int"), default |-> {List(1)}]])}
                  \cup {Edge("f", [base |-> b, nullable |-> n], [p \in {"p"} |-> [type |-> t, default |-> d]]) :
                          b \in {"A", "Int"}, n \in {<<TRUE, TRUE>>, <<TRUE, TRUE, TRUE>>},
                          t \in Nested({"Int"}), d \in Defaults} }

\* A definition too many, of any kind, anywhere.
Plain == <<SchemaOf("Root"), Root(Start), Definition("object", "A", << >>, FieldIf(TRUE))>>
Extra ==
  { SchemaOf("A"), Other("directive", "A"), Other("scalar", "X"), Other("scalar", "Int"), Other("enum", "X"),
    Root(Start), Definition("interface", "X", << >>, << >>), Definition("object", "Int", << >>, << >>),
    Definition("object", "X", << >>, FieldIf(TRUE) \o FieldIf(TRUE)),
    [Definition("object", "X", << >>, << >>) EXCEPT !.extend = TRUE] }
Malformed ==
  { SubSeq(Plain, 1, k) \o <<x, y>> \o SubSeq(Plain, l, 3) :
      k \in {0, 3}, x \in Extra, y \in Extra \cup {Other("directive", "X")}, l \in {1, 2, 4} }

\* S implements D, and perhaps X, which perhaps implements D.  Each has the edge or not.
EdgeIf(to) == IF to = None THEN << >> ELSE <<Edge("f", Named(to), << >>)>>
Recursions ==
  { <<SchemaOf("Root"), Root(<<Edge("start", Named("A"), << >>)>>),
      Definition("interface", "A", << >>, EdgeIf(e[1])), Definition("interface", "X", x, EdgeIf(e[2])),
      Definition("object", "B", b, EdgeIf(e[3]))>> :
      e \in [1..3 -> {None, "A", "X", "B"}],
      x \in {<< >>, <<"A">>}, b \in {<<"A">>, <<"A", "X">>, <<"X", "A">>} }

MCArguments == {<< >>, [p \in {"p"} |-> {Int(1)}], [p \in {"p"} |-> {Null(1)}],
                [p \in {"p"} |-> {List(1), Null(2)}]}

MCDocs == Recursions \cup Hierarchies \cup FieldTypes \cup FieldParams \cup Defects \cup Malformed
=============================================================================
