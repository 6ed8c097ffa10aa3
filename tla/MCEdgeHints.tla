---------------------------- MODULE MCEdgeHints ----------------------------
(***************************************************************************)
(* Queries of four vertices, in a chain or with a branch, each edge of any *)
(* kind, and one or two vertices with a need: known from the start, or     *)
(* that of an earlier tag or @fold.                                        *)
(***************************************************************************)
EXTENDS EdgePruning, FiniteSets

Shapes == {<<0, 1, 2, 3>>, <<0, 1, 2, 1>>, <<0, 1, 1, 3>>}

Edge(kind, depth, coerces, required) ==
  [kind |-> kind, depth |-> depth, coerces |-> coerces, required |-> required]

RootEdge == Edge("root", 1, FALSE, FALSE)

Edges == {Edge("plain", 1, FALSE, FALSE), Edge("optional", 1, FALSE, FALSE),
          Edge("fold", 1, FALSE, FALSE), Edge("fold", 1, FALSE, TRUE),
          Edge("recurse", 1, FALSE, FALSE), Edge("recurse", 2, FALSE, FALSE),
          Edge("recurse", 2, TRUE, FALSE)}

By(by, of) == [by |-> by, of |-> of]

Vertex4(from, edge, need) ==
  [from |-> from, kind |-> edge.kind, depth |-> edge.depth, coerces |-> edge.coerces,
   required |-> edge.required, need |-> need]

MCQuery(shape, edges, needs) ==
  <<Vertex4(0, RootEdge, needs[1]), Vertex4(shape[2], edges[1], needs[2]),
    Vertex4(shape[3], edges[2], needs[3]), Vertex4(shape[4], edges[3], needs[4])>>

Needs == [by : {"nothing", "value", "type"}, of : {0}] \cup [by : {"tag", "count"}, of : 1..4]

\* A recursion that coerces starts at vertices of the type it coerces to, as the
\* starting vertices of MCGraphs are.
StartsTyped(q) ==
  \A v \in 1..4 : q[v].coerces => q[v].from = 1 \/ q[q[v].from].need.by = "type"

\* Without a need, or with one or two: a value and something else.
NeedSets ==
  {[v \in 1..4 |-> IF v = u THEN need ELSE IF v = w THEN By("value", 0) ELSE Nothing] :
     u \in 2..4, need \in Needs, w \in {0, 1, 4}}

MCQueries ==
  {q \in {MCQuery(shape, edges, needs) :
            shape \in Shapes, edges \in [1..3 -> Edges], needs \in NeedSets} :
     IsQuery(q) /\ StartsTyped(q)}

\* A vertex reached twice and one without neighbors; cycles.
MCGraphs ==
  {[starting |-> {1, 2}, next |-> <<{2, 3}, {3}, {}>>, good |-> {2, 3}, typed |-> {1, 2},
    value |-> <<1, 2, 0>>, label |-> <<2, 0, 1>>],
   [starting |-> {1, 2}, next |-> <<{1, 2}, {3}, {1}>>, good |-> {1}, typed |-> {1, 2},
    value |-> <<1, 0, 1>>, label |-> <<1, 1, 0>>]}
=============================================================================
