---------------------------- MODULE RowSemantics ----------------------------
(***************************************************************************)
(* What a query component without folds means, stated without iterators,   *)
(* batches or suspended vertices: its rows are those of nested loops over  *)
(* its edges in Eid order.  A row gives each Vid a vertex or None.         *)
(*                                                                         *)
(* A plan is a record with                                                 *)
(*   checks   the type coercion and the filters of the root vertex         *)
(*   edges    the edges in Eid order; edge e leads to Vid e + 1            *)
(* and an edge is a record with                                            *)
(*   from     the Vid it starts at                                         *)
(*   optional TRUE when marked @optional                                   *)
(*   depth    0 for a plain edge, the depth of @recurse otherwise          *)
(*   coerceTo None, or the vertices of the type that the recursion has to  *)
(*            coerce to before it goes deeper                              *)
(*   checks   the coercion and the filters of the vertex it leads to       *)
(* where a check is the set of active vertices that pass it.  None is in   *)
(* it when a missing vertex passes, as null passes is_null.                *)
(***************************************************************************)
EXTENDS Integers, SequencesExt

CONSTANTS Vertex, None

RootVid == 1

EdgeVid(e) == e + 1

\* The frontend numbers Vids depth first: an edge starts at the Vid that was
\* numbered last or at one of the Vids on the way to it.  Whatever was numbered
\* after the Vid it starts at was reached from there.
DepthFirst(edges) ==
  \A e \in DOMAIN edges :
    \A vid \in edges[e].from + 1..e : edges[vid - 1].from >= edges[e].from

\* A recursion with an implicit coercion starts at vertices of a subtype of
\* the type it coerces to: the checks at its start admit no others.
CoercesToSupertype(plan) ==
  \A e \in DOMAIN plan.edges :
    LET edge == plan.edges[e]
        startChecks == IF edge.from = RootVid THEN plan.checks
                       ELSE plan.edges[edge.from - 1].checks
    IN  edge.coerceTo # None =>
          \E i \in DOMAIN startChecks : startChecks[i] \subseteq edge.coerceTo

Passes(vertex, checks) == \A i \in DOMAIN checks : vertex \in checks[i]

MapFlat(seq, Op(_)) == FlattenSeq([i \in DOMAIN seq |-> Op(seq[i])])

\* The vertices that pass the checks.
Passing(vertices, checks) ==
  MapFlat(vertices, LAMBDA v : IF Passes(v, checks) THEN <<v>> ELSE <<>>)

\* The ends of all walks of at most d edges from each vertex, every vertex
\* before the vertices reached through it.  Vertices outside coerceTo end
\* their walks, except the vertex the recursion starts at.
Walks(neighbors, coerceTo, depth) ==
  LET Deeper(v) == coerceTo = None \/ v \in coerceTo
      Ends[d \in 0..depth] ==
        [v \in Vertex |->
           IF d = 0 THEN <<v>>
           ELSE <<v>> \o MapFlat(neighbors[v],
                                 LAMBDA n : IF Deeper(n) THEN Ends[d - 1][n]
                                                         ELSE <<n>>)]
  IN  Ends[depth]

\* The vertices that edge leads to from a vertex.
Reached(edge, neighbors, vertex) ==
  IF vertex = None THEN <<None>>
  ELSE IF edge.depth > 0
       THEN Walks(neighbors, edge.coerceTo, edge.depth)[vertex]
       ELSE IF neighbors[vertex] = <<>> /\ edge.optional
            THEN <<None>>
            ELSE neighbors[vertex]

ExtendRow(row, edge, neighbors) ==
  LET targets == Passing(Reached(edge, neighbors, row[edge.from]), edge.checks)
  IN  [i \in DOMAIN targets |-> Append(row, targets[i])]

Rows(plan, neighbors, starting) ==
  LET roots == Passing(starting, plan.checks)
      RowsAfter[e \in 0..Len(plan.edges)] ==
        IF e = 0 THEN [i \in DOMAIN roots |-> <<roots[i]>>]
        ELSE MapFlat(RowsAfter[e - 1],
                     LAMBDA row : ExtendRow(row, plan.edges[e], neighbors))
  IN  RowsAfter[Len(plan.edges)]
=============================================================================
