------------------------------ MODULE Execution ------------------------------
(***************************************************************************)
(* The interpreter's execution of one query component without folds:       *)
(* compute_component() and what it calls to expand edges, in               *)
(* trustfall_core/src/interpreter/execution.rs.                            *)
(*                                                                         *)
(* compute_component() builds a chain of iterators and does no work.  The  *)
(* work happens when somebody pulls the last iterator, which pulls the one *)
(* before it, and so on down to the adapter's starting vertices.  Stages   *)
(* 1..N are those iterators, stage 0 is the source and stage N+1 the       *)
(* consumer.  turn is the stage whose next() runs; every stage after it    *)
(* waits for its answer.  An adapter may pull several contexts before it   *)
(* answers one, which is how adapters batch: what it holds is in queue,    *)
(* and how much it holds is its choice, up to Batch.                       *)
(***************************************************************************)
EXTENDS DataContext, SequencesExt, Functions

CONSTANTS
  Plans,      \* the query components considered (see RowSemantics)
  Graphs,     \* the neighbors of each vertex, for each data set considered
  Starting,   \* what resolve_starting_vertices() may produce
  Batch       \* most contexts an adapter holds before it answers

Semantics == INSTANCE RowSemantics

QueryEdge ==
  [from : Nat, optional : BOOLEAN, depth : Nat, coerceTo : {None} \cup SUBSET Vertex,
   checks : Seq(SUBSET MaybeVertex)]

\* The frontend numbers Vids from 1 on, depth first.
ASSUME ExecutionAssumption ==
  /\ Batch \in Nat \ {0}
  /\ Graphs \subseteq [Vertex -> Seq(Vertex)]
  /\ Starting \subseteq Seq(Vertex)
  /\ \A p \in Plans :
       /\ p.checks \in Seq(SUBSET MaybeVertex)
       /\ p.edges \in Seq(QueryEdge)
       /\ 1..Len(p.edges) + 1 \subseteq Vid
       /\ \A e \in DOMAIN p.edges : p.edges[e].from \in 1..e
       /\ Semantics!DepthFirst(p.edges)
  /\ None \notin Context

VARIABLES
  plan,   \* the component being executed
  graph,  \* the adapter's data
  stages, \* the chain of iterators that compute_component() built
  answer, \* the rows the component means (history: no action reads it)
  source, \* starting vertices that nobody has pulled yet
  turn,   \* the stage whose next() is running
  queue,  \* contexts each stage has pulled and not yet dealt with
  ended,  \* whether the iterator a stage pulls has returned None
  inner   \* the inner iterator of each flat_map

vars == <<plan, graph, stages, answer, source, turn, queue, ended, inner>>

(***************************************************************************)
(* The chain of iterators for a plan.                                      *)
(***************************************************************************)
\* coerce_if_needed(), each apply_local_field_filter(), then record_vertex().
EnterVertex(vid, checks) ==
  Append([i \in DOMAIN checks |-> [op |-> "check", accepts |-> checks[i]]],
         [op |-> "record", vid |-> vid])

ExpandNonRecursiveEdge(edge) ==
  << [op |-> "activate", vid |-> edge.from, recursing |-> FALSE],
     [op |-> "neighbors", optional |-> edge.optional] >>

\* One expansion, then for each deeper level the implicit coercion, if any,
\* and another expansion.
ExpandRecursiveEdge(edge) ==
  LET expansion == [op |-> "recurse"]
      deeper == IF edge.coerceTo = None
                  THEN << expansion >>
                  ELSE << [op |-> "coerce", to |-> edge.coerceTo], expansion >>
  IN  << [op |-> "activate", vid |-> edge.from, recursing |-> TRUE],
         expansion >>
      \o FlattenSeq([level \in 1..edge.depth - 1 |-> deeper])
      \o << [op |-> "unpack"] >>

ExpandEdge(e, edge) ==
  (IF edge.depth > 0 THEN ExpandRecursiveEdge(edge)
                     ELSE ExpandNonRecursiveEdge(edge))
  \o EnterVertex(Semantics!EdgeVid(e), edge.checks)

ComputeComponent(p) ==
  EnterVertex(Semantics!RootVid, p.checks)
  \o FlattenSeq([e \in DOMAIN p.edges |-> ExpandEdge(e, p.edges[e])])

Consumer == Len(stages) + 1

IsOp(i, op) == i \in DOMAIN stages /\ stages[i].op = op

\* The stages that are resolver methods of the adapter.
IsAdapter(i) == \E op \in {"check", "neighbors", "recurse", "coerce"} : IsOp(i, op)

NoIterator == [op |-> "none"]

-----------------------------------------------------------------------------
\* resolve_neighbors(): none for a context without an active vertex.
ResolveNeighbors(ctx) == IF ctx.active = None THEN <<>> ELSE graph[ctx.active]

\* Stage i is running and takes the next context out of its queue.
Takes(i) == turn = i /\ inner[i] = NoIterator /\ queue[i] # <<>>

\* queue after stage i has dealt with its first context and answered ctx.
Passed(i, ctx) ==
  [queue EXCEPT ![i] = Tail(@), ![i + 1] = Append(@, ctx)]

\* The inner iterator of stage i answers ctx and becomes iterator.
InnerAnswers(i, ctx, iterator) ==
  /\ inner' = [inner EXCEPT ![i] = iterator]
  /\ queue' = [queue EXCEPT ![i + 1] = Append(@, ctx)]
  /\ turn' = i + 1
  /\ UNCHANGED <<plan, graph, stages, answer, source, ended>>

\* The inner iterator of stage i has ended: flat_map drops it.
InnerEnds(i) ==
  /\ inner' = [inner EXCEPT ![i] = NoIterator]
  /\ UNCHANGED <<plan, graph, stages, answer, source, turn, queue, ended>>

Init ==
  /\ plan \in Plans
  /\ graph \in Graphs
  /\ source \in Starting
  /\ stages = ComputeComponent(plan)
  /\ answer = Semantics!Rows(plan, graph, source)
  /\ turn = Consumer
  /\ queue = [i \in 1..Consumer |-> <<>>]
  /\ ended = [i \in 1..Consumer |-> FALSE]
  /\ inner = [i \in 1..Consumer |-> NoIterator]

\* The source: DataContext::new() around the next starting vertex.
ResolveStartingVertices ==
  /\ turn = 0
  /\ IF source = <<>>
       THEN /\ ended' = [ended EXCEPT ![1] = TRUE]
            /\ UNCHANGED <<source, queue>>
       ELSE /\ source' = Tail(source)
            /\ queue' = [queue EXCEPT ![1] = Append(@, NewContext(Head(source)))]
            /\ UNCHANGED ended
  /\ turn' = 1
  /\ UNCHANGED <<plan, graph, stages, answer, inner>>

\* Stage i pulls the iterator before it.  The stages that are closures pull
\* one context at a time, adapters as many as they like, the consumer until
\* the end.
Pull(i) ==
  /\ turn = i
  /\ inner[i] = NoIterator
  /\ ~ended[i]
  /\ \/ i = Consumer
     \/ queue[i] = <<>>
     \/ IsAdapter(i) /\ Len(queue[i]) < Batch
  /\ turn' = i - 1
  /\ UNCHANGED <<plan, graph, stages, answer, source, queue, ended, inner>>

\* Nothing is left to answer and nothing left to pull.
End(i) ==
  /\ turn = i
  /\ i \in DOMAIN stages
  /\ inner[i] = NoIterator
  /\ queue[i] = <<>>
  /\ ended[i]
  /\ ended' = [ended EXCEPT ![i + 1] = TRUE]
  /\ turn' = i + 1
  /\ UNCHANGED <<plan, graph, stages, answer, source, queue, inner>>

\* record_vertex() at entry into a vertex.
Record(i) ==
  /\ Takes(i)
  /\ IsOp(i, "record")
  /\ queue' = Passed(i, RecordVertex(Head(queue[i]), stages[i].vid))
  /\ turn' = i + 1
  /\ UNCHANGED <<plan, graph, stages, answer, source, ended, inner>>

\* Mutant of MarkMissing: a recursion from a missing vertex is not marked.
NeverMarked(i, ctx) == ctx

\* Before an edge is resolved: activate the vertex it starts at.  A recursion
\* first marks a context without an active vertex, for post-processing.
MarkMissing(i, ctx) ==
  IF stages[i].recursing /\ ctx.active = None
    THEN PushSuspended(ctx, None)
    ELSE ctx

Activate(i) ==
  /\ Takes(i)
  /\ IsOp(i, "activate")
  /\ queue' = Passed(i, ActivateVertex(MarkMissing(i, Head(queue[i])), stages[i].vid))
  /\ turn' = i + 1
  /\ UNCHANGED <<plan, graph, stages, answer, source, ended, inner>>

\* A coercion or a filter: contexts that do not pass are dropped.
Keep(i) ==
  /\ Takes(i)
  /\ IsOp(i, "check")
  /\ Head(queue[i]).active \in stages[i].accepts
  /\ queue' = Passed(i, Head(queue[i]))
  /\ turn' = i + 1
  /\ UNCHANGED <<plan, graph, stages, answer, source, ended, inner>>

Drop(i) ==
  /\ Takes(i)
  /\ IsOp(i, "check")
  /\ Head(queue[i]).active \notin stages[i].accepts
  /\ queue' = [queue EXCEPT ![i] = Tail(@)]
  /\ UNCHANGED <<plan, graph, stages, answer, source, turn, ended, inner>>

\* The implicit coercion of a recursion drops nothing: what cannot be coerced
\* is suspended, so that it goes no deeper and still comes out.
SuspendUncoercible(i, ctx) ==
  IF ctx.active \in stages[i].to THEN ctx ELSE EnsureSuspended(ctx)

CoerceDeeper(i) ==
  /\ Takes(i)
  /\ IsOp(i, "coerce")
  /\ queue' = Passed(i, SuspendUncoercible(i, Head(queue[i])))
  /\ turn' = i + 1
  /\ UNCHANGED <<plan, graph, stages, answer, source, ended, inner>>

\* flat_map of resolve_neighbors(): start expanding the next context.
NewExpander(i, ctx) ==
  CASE IsOp(i, "neighbors") ->
         [op |-> "edge", ctx |-> ctx, neighbors |-> ResolveNeighbors(ctx),
          hasNeighbors |-> FALSE, ended |-> FALSE]
    [] IsOp(i, "recurse") ->
         [op |-> "recursive", ctx |-> ctx, base |-> None,
          neighbors |-> ResolveNeighbors(ctx)]
    [] IsOp(i, "unpack") ->
         [op |-> "unpack", contexts |-> UnpackPiggyback(ctx)]

Expand(i) ==
  /\ Takes(i)
  /\ \E op \in {"neighbors", "recurse", "unpack"} : IsOp(i, op)
  /\ inner' = [inner EXCEPT ![i] = NewExpander(i, Head(queue[i]))]
  /\ queue' = [queue EXCEPT ![i] = Tail(@)]
  /\ UNCHANGED <<plan, graph, stages, answer, source, turn, ended>>

Runs(i, op) == turn = i /\ i \in DOMAIN stages /\ inner[i].op = op

\* EdgeExpander::next(): a context per neighbor, then, if the vertex or an
\* @optional edge is missing, one without an active vertex.
EdgeNeighbor(i) ==
  LET x == inner[i] IN
  /\ Runs(i, "edge")
  /\ x.neighbors # <<>>
  /\ InnerAnswers(i, SplitAndMoveToVertex(x.ctx, Head(x.neighbors)),
                  [x EXCEPT !.neighbors = Tail(@), !.hasNeighbors = TRUE])

YieldsMissing(i, x) ==
  /\ ~x.ended
  /\ \/ x.ctx.active = None
     \/ ~x.hasNeighbors /\ stages[i].optional

EdgeMissing(i) ==
  LET x == inner[i] IN
  /\ Runs(i, "edge")
  /\ x.neighbors = <<>>
  /\ YieldsMissing(i, x)
  /\ InnerAnswers(i, SplitAndMoveToVertex(x.ctx, None), [x EXCEPT !.ended = TRUE])

EdgeEnd(i) ==
  /\ Runs(i, "edge")
  /\ inner[i].neighbors = <<>>
  /\ ~YieldsMissing(i, inner[i])
  /\ InnerEnds(i)

\* RecursiveEdgeExpander::next(): the first neighbor carries the context it
\* was reached from, suspended; the others are split from its base.
RecursiveFirst(i) ==
  LET x == inner[i] IN
  /\ Runs(i, "recursive")
  /\ x.neighbors # <<>>
  /\ x.ctx # None
  /\ InnerAnswers(i,
       AttachPiggyback(SplitAndMoveToVertex(x.ctx, Head(x.neighbors)),
                       EnsureSuspended(x.ctx)),
       [x EXCEPT !.neighbors = Tail(@), !.ctx = None,
                 !.base = SplitAndMoveToVertex(x.ctx, None)])

RecursiveNeighbor(i) ==
  LET x == inner[i] IN
  /\ Runs(i, "recursive")
  /\ x.neighbors # <<>>
  /\ x.ctx = None
  /\ InnerAnswers(i, SplitAndMoveToVertex(x.base, Head(x.neighbors)),
                  [x EXCEPT !.neighbors = Tail(@)])

\* Without neighbors the context comes out as it is.
RecursiveLeaf(i) ==
  LET x == inner[i] IN
  /\ Runs(i, "recursive")
  /\ x.neighbors = <<>>
  /\ x.ctx # None
  /\ InnerAnswers(i, x.ctx, [x EXCEPT !.ctx = None])

RecursiveEnd(i) ==
  /\ Runs(i, "recursive")
  /\ inner[i].neighbors = <<>>
  /\ inner[i].ctx = None
  /\ InnerEnds(i)

\* post_process_recursive_expansion(): every unpacked context gets its vertex
\* back.
Unpack(i) ==
  LET x == inner[i] IN
  /\ Runs(i, "unpack")
  /\ x.contexts # <<>>
  /\ InnerAnswers(i, EnsureUnsuspended(Head(x.contexts)),
                  [x EXCEPT !.contexts = Tail(@)])

UnpackEnd(i) ==
  /\ Runs(i, "unpack")
  /\ inner[i].contexts = <<>>
  /\ InnerEnds(i)

Step(i) ==
  \/ Pull(i) \/ End(i)
  \/ Record(i) \/ Activate(i) \/ Keep(i) \/ Drop(i) \/ CoerceDeeper(i)
  \/ Expand(i)
  \/ EdgeNeighbor(i) \/ EdgeMissing(i) \/ EdgeEnd(i)
  \/ RecursiveFirst(i) \/ RecursiveNeighbor(i) \/ RecursiveLeaf(i) \/ RecursiveEnd(i)
  \/ Unpack(i) \/ UnpackEnd(i)

\* The consumer has seen the end of the rows.
Finished == ended[Consumer]

Done == Finished /\ UNCHANGED vars

Next ==
  \/ ResolveStartingVertices
  \/ \E i \in 1..Consumer : Step(i)
  \/ Done

\* An adapter that is pulled answers, and the caller pulls until the end.
Spec == Init /\ [][Next]_vars /\ WF_vars(Next)

-----------------------------------------------------------------------------
\* Type correctness: contexts wait between the iterators, each with the
\* vertices it recorded and the stack it suspended.
TypeOK ==
  /\ plan \in Plans
  /\ graph \in Graphs
  /\ source \in Seq(Vertex)
  /\ turn \in 0..Consumer
  /\ queue \in [1..Consumer -> Seq(Context)]
  /\ ended \in [1..Consumer -> BOOLEAN]
  /\ DOMAIN inner = 1..Consumer

\* The contexts stage i has pulled or is unpacking.
Held(i) ==
  Range(queue[i]) \cup (IF inner[i].op = "unpack" THEN Range(inner[i].contexts) ELSE {})

\* No unwrap(), index or assert!() on a context can fail: a Vid is recorded
\* once (insert_or_error), an edge starts at a Vid that was recorded, the
\* stack of suspended vertices is never popped when empty, and nothing
\* rides on a context that leaves a recursion.
NoPanic ==
  \A i \in DOMAIN stages :
    /\ IsOp(i, "record") =>
         \A ctx \in Held(i) : ~IsVisited(ctx, stages[i].vid)
    /\ IsOp(i, "activate") =>
         \A ctx \in Held(i) : IsVisited(ctx, stages[i].vid) /\ ctx.piggyback = <<>>
    /\ IsOp(i, "unpack") => \A ctx \in Held(i) : CanUnsuspend(ctx)

\* No vertex stays suspended outside a recursion: a context that leaves one
\* has its own vertex back, and what is left on its stack marks missing
\* vertices only.
NothingLeftSuspended ==
  \A i \in 1..Consumer :
    i = Consumer \/ IsOp(i, "activate") \/ IsOp(i, "record") =>
      \A ctx \in Range(queue[i]) :
        ctx.piggyback = <<>> /\ ctx.suspended \in Seq({None})

\* The rows the consumer has got.
YieldedRows ==
  [k \in DOMAIN queue[Consumer] |->
    [vid \in 1..Len(plan.edges) + 1 |-> queue[Consumer][k].vertices[vid]]]

Stream == INSTANCE RowStream WITH
  yielded <- YieldedRows,
  finished <- Finished

\* The chain of iterators yields exactly the rows of the nested loops, in
\* their order, whatever the adapters batch, and then ends.
YieldsTheRows == Stream!Spec
=============================================================================
