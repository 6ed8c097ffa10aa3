---------------------------- MODULE MCQueryParsing ----------------------------
(***************************************************************************)
(* Documents for TLC: every list of up to four directives on an edge; one  *)
(* directive with all kinds of arguments; documents with selections of all *)
(* kinds at each place; roots with one defect.                             *)
(***************************************************************************)
EXTENDS QueryParsing, TLC

Text(t) == [kind |-> "string", prefix |-> "", rest |-> "name", text |-> t]
Operand(p, r) == [kind |-> "string", prefix |-> p, rest |-> r]
ListOf(s) == [kind |-> "list", list |-> s]
NumberOf(n) == [kind |-> "number", number |-> n]
Arg(n, v) == [name |-> n, value |-> v]
Directive(n, args) == [name |-> n, args |-> args]

FieldWith(args, directives, items) ==
  [kind |-> "field", args |-> args, directives |-> directives, items |-> items]
Leaf == FieldWith(<< >>, << >>, << >>)
Spread == [kind |-> "spread"]
Inline(on, directives, items) == [kind |-> "inline", on |-> on, directives |-> directives, items |-> items]

Query(field) ==
  [fragments |-> FALSE, operations |-> "single", type |-> "query", variables |-> FALSE,
   directives |-> << >>, items |-> <<field>>]
Below1(field) == Query(FieldWith(<< >>, << >>, <<field>>))

Equals == <<Arg("op", Text("=")), Arg("value", ListOf(<<Operand("$", "name")>>))>>
Plain(n) ==
  Directive(n, CASE n = "filter" -> Equals
                 [] n = "transform" -> <<Arg("op", Text("count"))>>
                 [] n = "recurse" -> <<Arg("depth", NumberOf(2))>>
                 [] OTHER -> << >>)
DirectiveName == {"filter", "output", "tag", "transform", "optional", "recurse", "fold"}
Lists ==
  { Below1(FieldWith(<< >>, [i \in DOMAIN ns |-> Plain(ns[i])], <<Leaf>>)) :
      ns \in UNION {[1..n -> DirectiveName] : n \in 0..4} }

\* Arguments of directives, right and wrong.
Operands == {Operand(p, r) : p \in {"$", "%", "!", "#"}, r \in {"empty", "number", "digits", "name", "symbols"}}
Values ==
  {Text("="), Text("is_null"), Text("count"), Text("~"), Operand("", "symbols") @@ [text |-> "a-b"],
   NumberOf(2), NumberOf(0), NumberOf(-1), ListOf(<< >>), ListOf(<<NumberOf(2)>>)}
  \cup {ListOf(<<v>>) : v \in Operands} \cup {ListOf(<<Operand("$", "name"), v>>) : v \in Operands}
ArgumentLists ==
  {<< >>} \cup {<<Arg(n, v)>> : n \in {"op", "name", "depth", "x"}, v \in Values}
    \cup {<<Arg("op", v), Arg("value", w)>> : v \in {Text("="), Text("is_null"), Text("~"), NumberOf(2)}, w \in Values}
    \cup {<<Arg(n, v), Arg(m, v)>> : n, m \in {"op", "name", "depth", "x"},
                                     v \in {Text("count"), NumberOf(2)}}
Malformed ==
  { Below1(FieldWith(<< >>, <<Plain("output"), Directive(n, args)>>, << >>)) :
      n \in DirectiveName \cup {"unknown"}, args \in ArgumentLists }

\* Selections at the first and second level, and below a coercion.
Items == {<< >>, <<Leaf>>, <<Spread>>, <<Leaf, Spread>>, <<Leaf, Leaf>>}
Filter == Plain("filter")
Inner == Items \cup {<<Inline(on, ds, items)>> : on \in {None, "T"}, ds \in {<< >>, <<Filter>>}, items \in Items}
           \cup {<<Inline("T", << >>, <<Leaf>>), Leaf>>, <<Leaf, Inline("T", << >>, << >>)>>,
                 <<Inline("T", << >>, <<Inline("T", << >>, <<Leaf>>)>>)>>}
EdgeArguments ==
  {<< >>, <<Arg("x", NumberOf(1)), Arg("y", NumberOf(1))>>, <<Arg("x", NumberOf(1)), Arg("x", NumberOf(1))>>,
   <<Arg("x", [kind |-> "variable"])>>, <<Arg("x", NumberOf(1)), Arg("x", [kind |-> "variable"])>>}
Shapes ==
  { Query(FieldWith(<< >>, << >>, outer \o <<FieldWith(args, << >>, inner)>>)) :
      outer \in Items, args \in EdgeArguments, inner \in Inner }
  \cup { Query(FieldWith(<< >>, << >>, <<Inline("T", << >>, <<FieldWith(<< >>, <<Plain("fold")>>, inner)>>)>>)) :
           inner \in Inner }

Roots ==
  { [Query(Leaf) EXCEPT !.fragments = TRUE], [Query(Leaf) EXCEPT !.operations = "multiple"],
    [Query(Leaf) EXCEPT !.type = "mutation"], [Query(Leaf) EXCEPT !.variables = TRUE],
    [Query(Leaf) EXCEPT !.directives = <<Filter>>], [Query(Leaf) EXCEPT !.items = <<Leaf, Leaf>>],
    Query(Spread), Query(Inline(None, << >>, <<Leaf>>)), Query(FieldWith(<< >>, <<Filter>>, << >>)) }

MCDocuments == Lists \cup Malformed \cup Shapes \cup Roots
=============================================================================
