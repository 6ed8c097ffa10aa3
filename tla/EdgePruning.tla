----------------------------- MODULE EdgePruning -----------------------------
(***************************************************************************)
(* What the hints of EdgeHints are for: an adapter leaves out vertices     *)
(* that a hint says cannot be part of a result.  It may when resolving     *)
(* starting vertices, neighbors and coercions.                             *)
(***************************************************************************)
EXTENDS EdgeHints

CONSTANT Graphs

Semantics == INSTANCE PrunedRows

Path == [i \in DOMAIN infos |-> infos[i].vid]

\* The adapter leaves out what has no walk along the edges it followed that
\* meets these needs.
LosesNoRow(needs) ==
  LET plan == [op |-> call.op, vid |-> call.vid, path |-> Path, needs |-> needs]
  IN  \A graph \in Graphs :
        Semantics!Rows(ir, graph, plan) = Semantics!Rows(ir, graph, Semantics!NoPlan)

Hints == [i \in DOMAIN infos |-> Hinted(infos[i])]

PrunesAt(ops) == call # None /\ call.op \in ops

Followed(i, EdgesOf(_)) == infos[i].vid \in EdgesOf(infos[i - 1])

\* Did the adapter pass an @optional edge that is not the first from a vertex
\* it resolves?
NestedOptional == \E i \in 2..Len(infos) : infos[i - 1].neighbor /\ ir[infos[i].vid].kind = "optional"

Prunable == {"start", "expand", "coerce"}

\* "this vertex must contain the edge, or its result set will be discarded":
\* leaving out vertices without the edges that mandatory_edges_with_name() gives,
\* one after the other, changes no row, whatever surrounds them in the query.
MandatoryLosesNoRow ==
  PrunesAt(Prunable) /\ (\A i \in 2..Len(infos) : Followed(i, MandatoryEdges)) =>
    LosesNoRow([i \in DOMAIN infos |-> Nothing])

Binds == (\A i \in DOMAIN infos : ~NonBinding(infos[i])) /\ Hints[Len(infos)] # Nothing

\* A value that a hint says is demanded of a vertex some edges away, by a filter,
\* a coercion, a tag or a count, is demanded: leaving out vertices from which no
\* such vertex is reached changes no row.  Recursions, folds that may be empty and
\* a first @optional edge are in between.
BindingLosesNoRow ==
  PrunesAt(Prunable) /\ Binds /\ ~NestedOptional => LosesNoRow(Hints)

\* "Filtering operations (filters, required edges, etc.) don't bind inside an
\* @optional scope": the same with @optional edges anywhere.
OptionalScopeDoesNotBind == PrunesAt(Prunable) /\ Binds => LosesNoRow(Hints)

\* "We are *at* the vertex itself. Filters always bind here": the same when the
\* vertices of a recursion are coerced before it goes deeper.
BindsWhereItIs == PrunesAt({"deepen"}) /\ Binds /\ ~NestedOptional => LosesNoRow(Hints)
=============================================================================
