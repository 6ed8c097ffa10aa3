------------------------------ MODULE EdgeHints ------------------------------
(***************************************************************************)
(* What an adapter is told about the rest of the query while it resolves:  *)
(* ResolveInfo, ResolveEdgeInfo, NeighborInfo and EdgeInfo of              *)
(* interpreter/hints/mod.rs, with the methods of vertex_info.rs, at every  *)
(* resolver call that compute_component, expand_edge, compute_fold and the *)
(* construction of outputs make, in their order.                           *)
(*                                                                         *)
(* A query is a sequence of vertices in the order of their Vids, which is  *)
(* depth first.  An edge is named by the Vid it leads to.                  *)
(*   from      the vertex its edge starts at                               *)
(*   kind      how its edge is marked                                      *)
(*   depth     of @recurse, otherwise 1                                    *)
(*   coerces   whether the recursion coerces before it goes deeper         *)
(*   required  whether filters on the @fold's count need an element        *)
(*   need      what the query demands of the vertex: a value known at the  *)
(*             start, a type, the value of a tag, or the number of a       *)
(*             fold's elements, of being the vertex or fold of the tag     *)
(***************************************************************************)
EXTENDS Naturals, Sequences

CONSTANTS IRQueries, None

VARIABLES ir,        \* the query
          here,      \* the vertex being entered or the edge being expanded
          stage,     \* what is next for it
          level,     \* how often the edges of a recursion were expanded
          contexts,  \* what contexts hold, for each component being computed
          call,      \* the resolver call under way, or None
          infos      \* where the adapter has followed hints to

edgeVars == <<ir, here, stage, level, contexts, call, infos>>

Nothing == [by |-> "nothing", of |-> 0]
Need == [by : {"nothing", "value", "type", "tag", "count"}, of : Nat]

Vertex == [from : Nat, kind : {"root", "plain", "optional", "recurse", "fold"},
           depth : Nat, coerces : BOOLEAN, required : BOOLEAN, need : Need]

RootVid == 1

\* The root of each vertex's component: itself, or that of where its edge starts.
RootsIn(q) ==
  LET RootOf[v \in DOMAIN q] ==
        IF v = RootVid \/ q[v].kind = "fold" THEN v ELSE RootOf[q[v].from]
  IN  RootOf

\* The roots of the components around the one with this root, it included.
AroundIn(q, root) ==
  LET AroundOf[r \in DOMAIN q] ==
        IF r = RootVid THEN {r}
        ELSE {r} \cup AroundOf[RootsIn(q)[q[r].from]]
  IN  AroundOf[root]

\* Where a tag is: the root of the component of its vertex or its fold.
DefinedInQuery(q, tag) == RootsIn(q)[IF tag.by = "tag" THEN tag.of ELSE q[tag.of].from]

\* A tag is before its use, in the same component or one around it; so is a fold
\* whose elements are counted, and it has ended.
IsInScope(q, v) ==
  LET tag == q[v].need
      around == AroundIn(q, RootsIn(q)[v])
  IN  /\ tag.of \in 1..v
      /\ tag.by = "count" =>
           tag.of # v /\ q[tag.of].kind = "fold" /\ tag.of \notin around
      /\ DefinedInQuery(q, tag) \in around

\* What the frontend makes: depth first, an edge starts in a component around that
\* of the vertex before.
IsQuery(q) ==
  /\ q \in Seq(Vertex) /\ q # << >>
  /\ \A v \in DOMAIN q :
       /\ v = RootVid <=> q[v].kind = "root"
       /\ v # RootVid => /\ q[v].from \in 1..v - 1
                         /\ RootsIn(q)[q[v].from] \in AroundIn(q, RootsIn(q)[v - 1])
       /\ q[v].need.by \in {"tag", "count"} => IsInScope(q, v)

ASSUME QueriesAreQueries == \A q \in IRQueries : IsQuery(q)

Vid == DOMAIN ir
FoldAt(v) == ir[v].kind = "fold"
Recurses(v) == ir[v].kind = "recurse"

ComponentRoots == RootsIn(ir)
Around(root) == AroundIn(ir, root)

-----------------------------------------------------------------------------
\* Infos.  `frontier` is the last Vid with data that is said to be available:
\* Bound::Included(v) is v and Bound::Excluded(v) is v - 1.

\* ResolveInfo::new
AtVertex(v, completed) ==
  [neighbor |-> FALSE, start |-> v, vid |-> v,
   frontier |-> IF completed THEN v ELSE v - 1,
   withinOptional |-> FALSE, locallyNonBinding |-> FALSE]

\* Mutant of NonBindingBeyond: off by one.
NonBindingBeyondTwo(v) == Recurses(v) /\ ir[v].depth > 2

\* check_locally_non_binding_filters_for_edge
NonBindingBeyond(v) == Recurses(v) /\ ir[v].depth >= 2

\* ResolveEdgeInfo::edge().destination
Destination(v) ==
  [neighbor |-> TRUE, start |-> ir[v].from, vid |-> v,
   frontier |-> v - 1,
   withinOptional |-> ir[v].kind = "optional",
   locallyNonBinding |-> NonBindingBeyond(v)]

\* make_non_folded_edge_info and make_folded_edge_info: those of ResolveInfo
\* look at an edge's @optional, those of NeighborInfo do not.
NeighborOf(info, v) ==
  [neighbor |-> TRUE, start |-> info.start, vid |-> v,
   frontier |-> info.frontier,
   withinOptional |-> \/ info.withinOptional
                      \/ FoldAt(v) /\ ~ir[v].required
                      \/ ir[v].kind = "optional" /\ ~info.neighbor,
   locallyNonBinding |-> NonBindingBeyond(v)]

NonBinding(info) == info.withinOptional \/ info.locallyNonBinding

\* edges_with_name, for every name
EdgesFrom(info) == {v \in Vid \ {RootVid} : ir[v].from = info.vid}

\* Mutant of MandatoryEdges: whatever is around the vertex.
MandatoryAnywhere(info) == {v \in EdgesFrom(info) : ir[v].kind = "plain"}

\* mandatory_edges_with_name
MandatoryEdges(info) ==
  IF NonBinding(info) THEN {} ELSE {v \in EdgesFrom(info) : ir[v].kind = "plain"}

\* statically_required_property, dynamically_required_property and
\* coerced_to_type: what the info tells of its vertex's need.  Only the type is
\* told where filters do not bind, too.
Hinted(info) ==
  LET need == ir[info.vid].need
  IN  IF \/ need.by # "type" /\ NonBinding(info)
         \/ need.by \in {"tag", "count"} /\ need.of > info.frontier
      THEN Nothing ELSE need

-----------------------------------------------------------------------------
\* Execution, one resolver call at a time.

Innermost == contexts[Len(contexts)]

WithInnermost(context) == [contexts EXCEPT ![Len(contexts)] = context]

NewContext(root, imported) ==
  [root |-> root, vertices |-> {}, counts |-> {}, imported |-> imported]

DefinedIn(tag) == DefinedInQuery(ir, tag)

\* Mutant of ImportedTags: the folds inside a fold are forgotten.
ImportedForItself(fold) ==
  {tag \in {ir[v].need : v \in {u \in Vid : ComponentRoots[u] = fold}} :
     /\ tag.by \in {"tag", "count"}
     /\ DefinedIn(tag) = ComponentRoots[ir[fold].from]}

\* IRFold::imported_tags: what is needed inside from the component around it.
ImportedTags(fold) ==
  LET inside == {v \in Vid : fold \in Around(ComponentRoots[v])}
  IN  {tag \in {ir[v].need : v \in inside} :
         /\ tag.by \in {"tag", "count"}
         /\ DefinedIn(tag) = ComponentRoots[ir[fold].from]}

Calls(op, v, info) ==
  /\ call' = [op |-> op, vid |-> v]
  /\ infos' = <<info>>

NoCall == UNCHANGED <<call, infos>>

ResolveStartingVertices ==
  /\ stage = "start"
  /\ Calls("start", here, AtVertex(here, FALSE))
  /\ stage' = "entry"
  /\ UNCHANGED <<ir, here, level, contexts>>

\* perform_entry_into_new_vertex, and the same for a component's root: the
\* type, then the filter with its argument, then record_vertex.
Coerce ==
  /\ stage = "entry" /\ ir[here].need.by = "type"
  /\ Calls("coerce", here, AtVertex(here, FALSE))
  /\ stage' = "record"
  /\ UNCHANGED <<ir, here, level, contexts>>

FilterProperty ==
  /\ stage = "entry" /\ ir[here].need.by \in {"value", "tag", "count"}
  /\ Calls("filter", here, AtVertex(here, TRUE))
  /\ stage' = IF ir[here].need.by = "tag" THEN "argument" ELSE "record"
  /\ UNCHANGED <<ir, here, level, contexts>>

\* A tag on the vertex itself is resolved as a local field, one on another
\* vertex of the component by moving to it; others have been imported.
TagArgument ==
  LET of == ir[here].need.of
  IN  /\ stage = "argument"
      /\ IF ComponentRoots[of] = Innermost.root
           THEN Calls(IF of = here THEN "filter" ELSE "tag", of, AtVertex(of, TRUE))
           ELSE NoCall
      /\ stage' = "record"
      /\ UNCHANGED <<ir, here, level, contexts>>

RecordVertex ==
  /\ stage = "record" \/ (stage = "entry" /\ ir[here].need = Nothing)
  /\ contexts' = WithInnermost([Innermost EXCEPT !.vertices = @ \cup {here}])
  /\ stage' = "next"
  /\ UNCHANGED <<ir, here, level>> /\ NoCall

\* The loop of compute_component, over edges and folds by Eid.
IsNext(v) == v \in Vid /\ ComponentRoots[ir[v].from] = Innermost.root

NextEdge ==
  /\ stage = "next" /\ IsNext(here + 1)
  /\ here' = here + 1
  /\ stage' = IF FoldAt(here + 1) THEN "import" ELSE "expand"
  /\ level' = 1
  /\ UNCHANGED <<ir, contexts>> /\ NoCall

NoMoreEdges ==
  /\ stage = "next" /\ ~IsNext(here + 1)
  /\ stage' = "outputs"
  /\ UNCHANGED <<ir, here, level, contexts>> /\ NoCall

\* expand_non_recursive_edge and perform_one_recursive_edge_expansion.
ExpandEdge ==
  /\ stage = "expand"
  /\ Calls("expand", here, Destination(here))
  /\ stage' = IF level = ir[here].depth THEN "entry"
              ELSE IF ir[here].coerces THEN "deepen" ELSE "expand"
  /\ level' = IF level = ir[here].depth THEN level ELSE level + 1
  /\ UNCHANGED <<ir, here, contexts>>

CoerceBeforeDeeper ==
  /\ stage = "deepen"
  /\ Calls("deepen", here, AtVertex(ir[here].from, FALSE))
  /\ stage' = "expand"
  /\ UNCHANGED <<ir, here, level, contexts>>

\* compute_fold
ImportTag(tag) ==
  /\ stage = "import" /\ tag \in ImportedTags(here) \ Innermost.imported
  /\ contexts' = WithInnermost([Innermost EXCEPT !.imported = @ \cup {tag}])
  /\ IF tag.by = "tag" THEN Calls("tag", tag.of, AtVertex(tag.of, TRUE)) ELSE NoCall
  /\ UNCHANGED <<ir, here, stage, level>>

ExpandFold ==
  /\ stage = "import" /\ ImportedTags(here) \subseteq Innermost.imported
  /\ Calls("expand", here, Destination(here))
  /\ stage' = "fold"
  /\ UNCHANGED <<ir, here, level, contexts>>

EnterFold ==
  /\ stage = "fold"
  /\ contexts' = Append(contexts, NewContext(here, Innermost.imported))
  /\ stage' = "entry"
  /\ UNCHANGED <<ir, here, level>> /\ NoCall

Output(v) ==
  /\ stage = "outputs" /\ v \in Innermost.vertices
  /\ Calls("output", v, AtVertex(v, TRUE))
  /\ UNCHANGED <<ir, here, stage, level, contexts>>

LeaveFold ==
  LET fold == Innermost.root
      outer == contexts[Len(contexts) - 1]
  IN  /\ stage = "outputs" /\ fold # RootVid
      /\ contexts' = Append(SubSeq(contexts, 1, Len(contexts) - 2),
                            [outer EXCEPT !.counts = @ \cup {fold},
                                          !.imported = @ \ ImportedTags(fold)])
      /\ stage' = "next"
      /\ UNCHANGED <<ir, here, level>> /\ NoCall

Finish ==
  /\ stage = "outputs" /\ Innermost.root = RootVid
  /\ stage' = "finished"
  /\ UNCHANGED <<ir, here, level, contexts>> /\ NoCall

Execute ==
  /\ call = None
  /\ \/ ResolveStartingVertices
     \/ Coerce
     \/ FilterProperty
     \/ TagArgument
     \/ RecordVertex
     \/ NextEdge
     \/ NoMoreEdges
     \/ ExpandEdge
     \/ CoerceBeforeDeeper
     \/ \E v \in Vid : ImportTag(ir[v].need)
     \/ ExpandFold
     \/ EnterFold
     \/ \E v \in Vid : Output(v)
     \/ LeaveFold
     \/ Finish

\* edges_with_name(): on to a neighbor of where the adapter has got to.
FollowEdge(v) ==
  /\ call # None
  /\ v \in EdgesFrom(infos[Len(infos)])
  /\ infos' = Append(infos, NeighborOf(infos[Len(infos)], v))
  /\ UNCHANGED <<ir, here, stage, level, contexts, call>>

\* The resolver returns; the query goes back to the carrier.
Return ==
  /\ call # None
  /\ call' = None
  /\ infos' = << >>
  /\ UNCHANGED <<ir, here, stage, level, contexts>>

EdgeNext == Execute \/ (\E v \in Vid : FollowEdge(v)) \/ Return

EdgeInit ==
  /\ ir \in IRQueries
  /\ here = RootVid /\ stage = "start" /\ level = 1
  /\ contexts = <<NewContext(RootVid, {})>>
  /\ call = None /\ infos = << >>

EdgeSpec == EdgeInit /\ [][EdgeNext]_edgeVars

-----------------------------------------------------------------------------
\* DynamicallyResolvedValue::resolve() finds the tag in the contexts of the call:
\* imported if it is before the component where the adapter started, otherwise
\* computed from the vertex or fold that the context holds.
Resolvable(tag, root) ==
  IF tag.of < root THEN tag \in Innermost.imported
  ELSE IF tag.by = "count" THEN tag.of \in Innermost.counts
  ELSE IF ComponentRoots[tag.of] = root THEN tag.of \in Innermost.vertices
  ELSE tag \in Innermost.imported

TagsResolvableAt(ops) ==
  call # None /\ call.op \in ops =>
    LET info == infos[Len(infos)]
        tag == Hinted(info)
    IN  tag.by \in {"tag", "count"} => Resolvable(tag, ComponentRoots[info.start])

\* The resolver calls on vertices that have been recorded, and those before a
\* vertex is known.
SettledOps == {"start", "coerce", "tag", "expand", "deepen", "output"}

\* Whatever chain of edges an adapter follows from a call, however folds nest
\* around it and in front of it: a tag that a hint there says is known can be
\* taken from the contexts of the call.  The frontier is one Vid, compared in
\* vertex_info.rs; where contexts keep the value is up to compute_fold's imports.
TagsResolvable == TagsResolvableAt(SettledOps)

\* The same while a vertex's own filters are evaluated: execution_frontier()
\* says that `Bound::Included` means that data from that Vid is available.
CompletedIsAvailable == TagsResolvableAt(SettledOps \cup {"filter"})

\* edges_with_name() is documented to return the edges that are not resolved yet.
EdgesUnresolved ==
  call # None =>
    \A v \in EdgesFrom(infos[Len(infos)]) :
      v \notin UNION {contexts[i].vertices \cup contexts[i].counts : i \in DOMAIN contexts}

EdgeTypeOK ==
  /\ ir \in Seq(Vertex)
  /\ here \in Vid
  /\ stage \in {"start", "entry", "argument", "record", "next", "expand", "deepen",
                "import", "fold", "outputs", "finished"}
  /\ level \in 1..ir[here].depth
  /\ contexts \in Seq([root : Vid, vertices : SUBSET Vid, counts : SUBSET Vid,
                       imported : SUBSET Need])
  /\ Len(contexts) > 0
  /\ \/ call = None /\ infos = << >>
     \/ /\ call \in [op : SettledOps \cup {"filter"}, vid : Vid]
        /\ infos \in Seq([neighbor : BOOLEAN, start : Vid, vid : Vid, frontier : Nat,
                          withinOptional : BOOLEAN, locallyNonBinding : BOOLEAN])
        /\ Len(infos) > 0
=============================================================================
