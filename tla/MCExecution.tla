----------------------------- MODULE MCExecution -----------------------------
(***************************************************************************)
(* Small components over three vertices for TLC: every depth-first tree of *)
(* at most two edges of every kind, and some of three edges.               *)
(***************************************************************************)
EXTENDS Execution

CONSTANTS a, b, c

\* b has two neighbors, one of them itself reached twice; c has none.
MCGraphs ==
  { [v \in {a, b, c} |-> CASE v = a -> <<b, c>> [] v = b -> <<c>> [] v = c -> <<>>],
    [v \in {a, b, c} |-> CASE v = a -> <<b>> [] v = b -> <<a, b>> [] v = c -> <<>>] }

MCStarting == { <<a, c>> }

\* The vertices of the type that an implicit coercion coerces to, and checks.
Coercible == {a, b}
IsCoercible == <<Coercible>>
NullOrB == <<{None, b}>>

Edge(from, optional, depth, coerceTo, checks) ==
  [from |-> from, optional |-> optional, depth |-> depth,
   coerceTo |-> coerceTo, checks |-> checks]

Plain(from, checks) == Edge(from, FALSE, 0, None, checks)
Optional(from, checks) == Edge(from, TRUE, 0, None, checks)
Recurse(from, depth, coerceTo) == Edge(from, FALSE, depth, coerceTo, <<>>)

\* Edges of every kind: plain, optional, recursive with and without implicit
\* coercion, with a filter that null passes and with a coercion and a filter.
AllKinds(from) ==
  { Plain(from, <<>>), Plain(from, <<Coercible, {b}>>),
    Optional(from, NullOrB),
    Recurse(from, 2, None), Recurse(from, 2, Coercible) }

FewKinds(from) == { Plain(from, <<>>), Optional(from, <<>>), Recurse(from, 2, None) }

Trees(n, Kinds(_)) ==
  { edges \in [1..n -> UNION {Kinds(from) : from \in 1..n}] :
      /\ \A e \in 1..n : edges[e].from <= e
      /\ Semantics!DepthFirst(edges) }

\* Deeper trees, where missing vertices, recursions and what lies beside them
\* meet on the stack of suspended vertices: a plain, an optional and a recursive
\* edge in every order and shape, and recursions of up to four levels.
DeepTrees == { edges \in Trees(3, FewKinds) :
                 \A i, j \in 1..3 : i # j => \/ edges[i].optional # edges[j].optional
                                           \/ edges[i].depth # edges[j].depth }

\* Every depth-first tree of one or two edges of every kind, and some deeper ones.
MCPlans ==
  { p \in [checks : {<<>>, IsCoercible}, edges : Trees(1, AllKinds) \cup Trees(2, AllKinds)]
           \cup [checks : {<<>>}, edges : DeepTrees]
           \cup [checks : {IsCoercible},
                 edges : { <<Recurse(1, 3, Coercible)>>, <<Recurse(1, 4, None)>> }] :
      Semantics!CoercesToSupertype(p) }
=============================================================================
