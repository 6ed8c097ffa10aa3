----------------------------- MODULE DataContext -----------------------------
(***************************************************************************)
(* The partial result of a query that the interpreter moves through its    *)
(* iterators: DataContext in trustfall_core/src/interpreter/mod.rs.        *)
(*                                                                         *)
(* A context is a record with                                              *)
(*   active    the vertex being processed, or None                         *)
(*   vertices  what was recorded at each Vid, Unvisited where nothing was  *)
(*   suspended the stack of suspended vertices                             *)
(*   piggyback the contexts that ride on this one                          *)
(* The program nests piggyback: a rider may carry riders of its own, and   *)
(* unpack_piggyback() emits a context after its riders.  Here piggyback is *)
(* the sequence of riders in that order, so a rider itself carries none.   *)
(* The values, the folds and the imported tags of a context take no part   *)
(* in moving it; Fold.tla models them.                                     *)
(***************************************************************************)
EXTENDS Integers, Sequences

CONSTANTS
  Vertex,     \* vertices the adapter can produce
  Vid,        \* query vertex ids
  None,       \* Option::None where a vertex is expected
  Unvisited   \* no entry for a Vid in the vertices map

ASSUME ContextAssumption ==
  /\ None \notin Vertex
  /\ Unvisited \notin Vertex \cup {None}

MaybeVertex == Vertex \cup {None}

Recorded == [Vid -> MaybeVertex \cup {Unvisited}]

\* A context that carries no riders.
Rider ==
  [active : MaybeVertex, vertices : Recorded,
   suspended : Seq(MaybeVertex), piggyback : {<<>>}]

Context ==
  [active : MaybeVertex, vertices : Recorded,
   suspended : Seq(MaybeVertex), piggyback : Seq(Rider)]

NewContext(vertex) ==
  [active |-> vertex, vertices |-> [v \in Vid |-> Unvisited],
   suspended |-> <<>>, piggyback |-> <<>>]

IsVisited(ctx, vid) == ctx.vertices[vid] # Unvisited

\* insert_or_error(..).unwrap(): the caller must not have visited vid.
RecordVertex(ctx, vid) == [ctx EXCEPT !.vertices[vid] = ctx.active]

\* vertices[vid]: the caller must have visited vid.
ActivateVertex(ctx, vid) == [ctx EXCEPT !.active = ctx.vertices[vid]]

SplitAndMoveToVertex(ctx, vertex) ==
  [ctx EXCEPT !.active = vertex, !.piggyback = <<>>]

PushSuspended(ctx, vertex) ==
  [ctx EXCEPT !.suspended = Append(@, vertex)]

EnsureSuspended(ctx) ==
  IF ctx.active = None
    THEN ctx
    ELSE [PushSuspended(ctx, ctx.active) EXCEPT !.active = None]

\* pop().unwrap(): without an active vertex the stack must not be empty.
CanUnsuspend(ctx) == ctx.active = None => ctx.suspended # <<>>

\* Mutant of EnsureUnsuspended: the vertex is activated and stays on the stack.
UnsuspendedWithoutPop(ctx) ==
  IF ctx.active # None THEN ctx
  ELSE [ctx EXCEPT !.active = ctx.suspended[Len(ctx.suspended)]]

EnsureUnsuspended(ctx) ==
  IF ctx.active # None
    THEN ctx
    ELSE LET top == Len(ctx.suspended)
         IN  [ctx EXCEPT !.active = ctx.suspended[top],
                         !.suspended = SubSeq(@, 1, top - 1)]

\* Mutant of UnpackPiggyback: the context comes out before its riders.
CarrierFirst(ctx) == <<[ctx EXCEPT !.piggyback = <<>>]>> \o ctx.piggyback

\* The contexts that ride on ctx, then ctx itself without them.
UnpackPiggyback(ctx) ==
  Append(ctx.piggyback, [ctx EXCEPT !.piggyback = <<>>])

\* piggyback.push(rider): the rider's own riders come before it.
AttachPiggyback(ctx, rider) ==
  [ctx EXCEPT !.piggyback = @ \o UnpackPiggyback(rider)]
=============================================================================
