------------------------------- MODULE MCReplay -------------------------------
(***************************************************************************)
(* Small components over three vertices for TLC: edges of each kind, two   *)
(* resolvers or more in each chain, and an adapter that may hold two       *)
(* contexts in any of them.                                                *)
(***************************************************************************)
EXTENDS Replay

CONSTANTS a, b, c

\* c is reached twice and has no neighbors; a and b are each other's neighbors.
MCGraphs ==
  { [v \in {a, b, c} |-> CASE v = a -> <<b, c>> [] v = b -> <<c>> [] v = c -> << >>],
    [v \in {a, b, c} |-> CASE v = a -> <<b>> [] v = b -> <<a, c>> [] v = c -> << >>] }

MCStarting == { << >>, <<a, c>> }

Edge(from, optional, depth, coerceTo, checks) ==
  [from |-> from, optional |-> optional, depth |-> depth, coerceTo |-> coerceTo, checks |-> checks]

MCPlans ==
  { [checks |-> cs, edges |-> <<e>>] :
      cs \in {<< >>, <<{a, b}>>},
      e \in { Edge(1, FALSE, 0, None, << >>), Edge(1, FALSE, 0, None, <<{a, b}, {b}>>),
              Edge(1, TRUE, 0, None, <<{None, b}>>), Edge(1, FALSE, 2, None, << >>) } }
  \cup { [checks |-> <<{a, b}>>, edges |-> <<Edge(1, FALSE, 2, {a, b}, << >>)>>],
         [checks |-> << >>, edges |-> <<Edge(1, TRUE, 0, None, << >>), Edge(2, FALSE, 0, None, << >>)>>] }
=============================================================================
