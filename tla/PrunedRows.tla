----------------------------- MODULE PrunedRows -----------------------------
(***************************************************************************)
(* The rows of a query of module EdgeHints when the adapter leaves out     *)
(* vertices at one of its resolver calls because a hint seems to allow it. *)
(* Rows are sets: a row has the vertex, None for a missing one, of each    *)
(* Vid, and for each fold the rows of its elements.                        *)
(*                                                                         *)
(* A graph is a record with                                                *)
(*   starting  the starting vertices                                       *)
(*   next      the neighbors of each vertex                                *)
(*   good      the vertices with the value demanded                        *)
(*   typed     the vertices of the type coerced to                         *)
(*   value     what is compared with a tag or a count                      *)
(*   label     what a tag on the vertex is                                 *)
(* A plan says what the adapter leaves out: at resolver call `op` for Vid  *)
(* `vid` those vertices from which no walk along `path` meets `needs`, the *)
(* vertex itself being at path[1].                                         *)
(***************************************************************************)
EXTENDS Naturals, FiniteSets, Sequences, TLC

CONSTANT None

NoPlan == [op |-> "none", vid |-> 0, path |-> << >>, needs |-> << >>]

Meets(graph, row, need, x) ==
  CASE need.by = "nothing" -> TRUE
    [] need.by = "value"   -> x \in graph.good
    [] need.by = "type"    -> x \in graph.typed
    [] need.by = "tag"     -> row[need.of] # None =>
                                graph.label[row[need.of]] = graph.value[x]
    [] need.by = "count"   -> row[need.of] # None =>
                                Cardinality(row[need.of]) = graph.value[x]

\* The vertices that a query's edge leads to, when Cut(op, y) says which are
\* left out by the calls that it takes.
Ends(query, graph, v, x, Cut(_, _)) ==
  LET edge == query[v]
      Continues(y) == edge.coerces => y \in graph.typed /\ ~Cut("deepen", y)
      Step(from) == {y \in UNION {graph.next[f] : f \in from} : ~Cut("expand", y)}
      Level[d \in 0..edge.depth] ==
        IF d = 0 THEN {x}
        ELSE Step({y \in Level[d - 1] : d = 1 \/ Continues(y)})
  IN  IF edge.kind = "recurse" THEN UNION {Level[d] : d \in 0..edge.depth} ELSE Level[1]

\* Is there a walk from x along the plan's path that meets its needs?
Walks(query, graph, row, x, plan) ==
  LET Meeting(ys, i) == {y \in ys : Meets(graph, row, plan.needs[i], y)}
      AtStep[i \in 1..Len(plan.path)] ==
        Meeting(IF i = 1 THEN {x}
                ELSE UNION {Ends(query, graph, plan.path[i], y, LAMBDA op, z : FALSE) :
                              y \in AtStep[i - 1]},
                i)
  IN  AtStep[Len(plan.path)] # {}

LeftOut(query, graph, row, plan, op, v, x) ==
  op = plan.op /\ v = plan.vid /\ ~Walks(query, graph, row, x, plan)

RECURSIVE ComponentRows(_, _, _, _, _, _)

\* The rows of the component of root, around those that `outer` is part of.
ComponentRows(query, graph, plan, root, outer, vertices) ==
  LET RootOf[v \in DOMAIN query] ==
        IF v = 1 \/ query[v].kind = "fold" THEN v ELSE RootOf[query[v].from]
      Cut(op, v, row, x) == LeftOut(query, graph, row, plan, op, v, x)
      Enters(v, row, x) ==
        IF query[v].need.by = "type"
          THEN x \in graph.typed /\ ~Cut("coerce", v, row, x)
          ELSE Meets(graph, row @@ (v :> x), query[v].need, x)
      Present(v, row, ys) == {row @@ (v :> y) : y \in {z \in ys : Enters(v, row, z)}}
      Missing(v, row) == {row @@ (v :> None)}
      Extend(row, v) ==
        LET x == row[query[v].from]
            ends == Ends(query, graph, v, x, LAMBDA op, y : Cut(op, v, row, y))
            elements == ComponentRows(query, graph, plan, v, row, ends)
        IN  CASE x = None -> Missing(v, row)
              [] x # None /\ query[v].kind = "fold" ->
                   IF query[v].required /\ elements = {} THEN {}
                   ELSE {row @@ (v :> elements)}
              [] x # None /\ query[v].kind = "optional" /\ ends = {} -> Missing(v, row)
              [] OTHER -> Present(v, row, ends)
      Upto[v \in root..Len(query)] ==
        IF v = root THEN Present(root, outer, vertices)
        ELSE IF RootOf[query[v].from] = root
             THEN UNION {Extend(row, v) : row \in Upto[v - 1]}
             ELSE Upto[v - 1]
  IN  Upto[Len(query)]

Rows(query, graph, plan) ==
  ComponentRows(query, graph, plan, 1, << >>,
                {x \in graph.starting : ~LeftOut(query, graph, << >>, plan, "start", 1, x)})
=============================================================================
