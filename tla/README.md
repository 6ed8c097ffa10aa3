# Verification of Trustfall

TLA+ models of Trustfall's query engine (`trustfall_core`), checked with TLC, and proofs about
them, checked with TLAPS. Paths below are relative to `src/trustfall_core/src/` unless they say
otherwise.

## The system

Trustfall runs GraphQL-like queries over any data source that implements four resolver methods
(the `Adapter` trait). A query goes through these parts:

1. `graphql_query/` reads a parsed GraphQL document into fields with directives. State while a field
   is read: the place in its list of directives, what was taken so far, the groups that were opened.
2. `frontend/` walks the parsed query once, depth first, numbers vertices (Vid) and edges (Eid),
   checks it against the schema and makes the intermediate representation (IR). State during the
   walk: a `ComponentPath`, a `TagHandler`, an `OutputHandler`, and the errors found so far.
3. `ir/` holds the IR, the types, the values, and `IndexedQuery`, which indexes a checked IR.
4. `interpreter/execution.rs` turns an IR query into a chain of lazy iterators of `DataContext`s
   and hands the last one to the caller. Nothing runs until the caller pulls.
5. `interpreter/hints/` tells an adapter, while it is being called, what the query will do with
   the vertices it is about to produce: the values a property may have, and the edges that follow.
6. `interpreter/filtering.rs` evaluates filters on values.
7. `schema/` makes a schema of a document and checks it. State while it does: the definitions by name,
   the types that can be resolved, the origins of fields. `interpreter/trace.rs` and `replay.rs` record
   what an adapter does and replay it, in tests. `trustfall_wasm` and `pytrustfall` bind the engine to JavaScript and Python.

The program is sequential: no threads, nothing persisted, no messages. What makes it hard is
laziness. An iterator that one function builds is run by another, much later, and interleaved with
all the others; an adapter may pull any number of contexts before it answers one, even from inside
its call; and data structures are threaded through contexts (suspended vertices, piggybacked
contexts, imported tags) or through a recursive walk with early returns (paths and stacks).

| Component | State | Operations | What makes it correct |
|---|---|---|---|
| `DataContext` | active vertex, vertices by Vid, suspended vertices, riders, folds, tags | record, activate, split, suspend, unsuspend | no unwrap fails; no vertex is lost or revived twice |
| Execution of edges | contexts between the iterators, inner iterators | pull, expand, recurse, unpack, filter | the rows of nested loops, in order, whatever adapters batch; it ends |
| `@fold` | imported tags, elements, folded values | import tags, collect, discard early, filter on the count, compute outputs | the rows of `spec.md`; early discard drops nothing that would be kept; tags are scoped |
| Query carrier | the query, or nothing while an adapter has it | take, put back, clone into a closure | the query is there when a call needs it |
| Candidate values | a candidate | intersect, exclude, normalize | exact, sound and canonical |
| Property hints | filters, candidate | static and dynamic hint | a hint never leaves out a value with which the row is kept |
| Tag handler | path, stack of imports, tags, used tags | register, begin, end, reference, finish | accepts exactly the valid queries; each fold imports what it needs |
| Edge hints | path to a neighbor, frontier, optional scope | first edge, mandatory edges | leaving out what a hint rules out changes no row; a tag that is offered is there |
| Output handler | scopes, prefixes, stack of component outputs, all outputs | register, begin, end, finish | accepts exactly the queries whose full names differ; each component gets its own outputs |
| Type checks | uses and types of variables, errors | infer, check a filter, intersect, check arguments | a variable's type is what all its uses take; accepted filters meet only values they can handle |
| Types, values | none | intersect, validate, subtype, compare | intersection and subtyping are exact; integers of both widths compare as numbers, in filters and in hints |
| Indexed query | Vids, Eids and outputs found so far | check, type outputs | a row's values are of the types declared for them |
| Query parsing | place in the directives, groups, fields | read a connection, read a node, follow a fold or a transform | accepts exactly the grammatical documents; every directive is taken once |
| Schema | definitions, queue of types, origins, errors | define, resolve, check | the decision, the origins and the subtypes do not depend on the order of hash maps and are those of the rules |
| Typed queries | path of fields, edges with parameters, calls | validate, make edges, coerce, recurse | resolvers get vertices of the type they are called with, and parameters that suit them |
| Trace, replay | operations, position | record, expect the next | a complete trace replays, to its end |
| Bindings | iterators by reference | next | not modelled |

`PROJECT.json` lists every component with its sources, and under `hazards` what is hard to test at
the line where it bites.

## Modules

### QueryParsing

Every field is read twice, by `make_field_connection` and by `make_field_node`; both go through the same
list of directives, one `place` after the other, and skip what they take to be the other's, until a `@fold`
or a `@transform` makes either go on in `make_fold_group` or `make_transform_group` (`mode`). An action is
one directive, the beginning or the end of a reading, or an error, which ends everything. Strings are
classes: the operators, the first character of a filter's argument and what the rest of it is like. The
grammar that decisions are compared with (`WellPlaced`, `WellFormed`) looks at a field's whole list at
once.

### Types, Schema, SchemaRules, QueryTypes

`Types` has the relations of `ir/types.rs` that `FilterTypes` and `Schema` share. `Schema` is
`Schema::new()`: an action per definition read, then `get_field_origins()`, whose queue is a set because the
types come out of hash maps, then the six checks one by one, which collect their errors. `SchemaRules` states
on whole documents what a schema has to obey, by descent through any number of interfaces where the code
looks at one type and one listed interface at a time.

`QueryTypes` goes on with an accepted schema: `validate_field()` down one path of fields, then the edges
that `make_query_component()` makes of them, with defaults filled in and the implicit coercion of a recursion
(all cases of `get_recurse_implicit_coercion()`), then the resolver calls of the interpreter. `vertices` is
the set of types that the active vertices may have when adapters keep their contract, so a call with a type
that one of them is not of shows.

### DataContext, Execution, RowSemantics, RowStream

`DataContext` has one operator per method of `DataContext` that moves a context. The nested
`piggyback` vectors are kept in the order in which `unpack_piggyback` emits them.

`Execution` models `compute_component()` without folds. `ComputeComponent` is the chain of
iterators the code builds for a component: a stage per closure or resolver call. `turn` is the
stage whose `next()` is running. `Pull(i)` calls the iterator before it; an answer gives the turn
back. Stages that stand for resolver calls (`IsAdapter`) may pull again before they answer, up to
`Batch` contexts, which is all the freedom the `Adapter` trait leaves: it has to answer contexts in
order. `EdgeExpander`, `RecursiveEdgeExpander` and the unpacking of riders are inner iterators of
`flat_map`s, `inner[i]`, with an action per branch of their `next()`. Filters and coercions are
the sets of vertices that pass them.

`RowSemantics` states what a component means: nested loops over its edges in Eid order, by
comprehension, without batches or suspension. `RowStream` is the abstract specification of what
the interpreter promises its caller: the rows one by one, each once, in order, then the end.
`YieldsTheRows` is that specification, under a refinement mapping, with its fairness.

### Fold, FoldSemantics

`Fold` models `compute_fold()`: tags are imported into the context, elements are collected and go
through the folds inside them, the fold is discarded as soon as it has more elements than a filter
on its count can accept, filters on the count are applied, outputs are computed. A fold works on
one context at a time (a `filter_map` and a `map`); the contexts in between are those of
`Execution`. `FoldSemantics` is the algorithm of `spec.md` ("@fold processing"), without limits,
contexts or tags that are carried around. The same `RowStream` is refined.

### IndexedQuery, FoldOutputs

`IndexedQuery` is `IndexedQuery::try_from()`: its checks as a predicate, and the types of outputs, with a
list for every fold around. `FoldOutputs` composes it with `Fold`: `IR` is the query of Fold's tree with Vids
and Eids as the frontend numbers them, and every row that comes out is compared with the declared types.

### Replay

`AdapterTap` around the adapter of `Execution`, then the trace readers in its place. A recorded operation
goes with the step of `Execution` in which it passes; the caller may stop asking for rows at any time
(`complete` tells). Then the chain is built again, its stages run as before, but those of resolvers are
driven by the next operation of the trace, which all readers share (`read`), and panic if it is not theirs.
Building the chain and reading the calls recorded meanwhile is one step.

### QueryCarrier

`Call` and `ResolverReturns` are the `take()` and the assignment around every resolver call in
`execution.rs`. While a call is under way the adapter may pull the contexts it was given, which
runs the closures of folds built before, `FoldElements` and `FoldOutputs`, each with its own clone
of the carrier, and so on inside. The folds of a query are a tree given by `Outer`.

### Candidates, PropertyHints

`Candidates` translates `CandidateValue` and `Range` for a nullable integer property.
`PropertyHints` computes a hint filter by filter, as
`candidate_from_statically_evaluated_filters` does (first filters that produce a candidate, then
values to exclude), and then, if the adapter asks, with the value of a tag
(`dynamically_required_property`, `DynamicallyResolvedValue::resolve`). Integers are integers there.

### FieldValues, HintWidths

`FieldValues` has both ways in which the program compares an `Int64` with a `Uint64`: the functions of
`filtering.rs` that filters use, and the orders of `value.rs` that hints use, with each conversion that may
fail. `HintWidths` puts them under `PropertyHints`: the property, the operands of filters and the bounds of
the hint may each be in either width.

### EdgeHints, EdgePruning, PrunedRows

`EdgeHints` runs a query one resolver call at a time, in the order in which contexts meet the calls:
into a vertex (coercion, filter, its argument, recording), on by Eid, into folds (imports, expansion,
elements, outputs, back). `contexts` is what contexts hold at each level of folds: recorded vertices,
folds that were collected, imported tags. Each call gets the info that the code makes for it, and
while it is under way `FollowEdge` walks on with `NeighborOf`, which is `make_non_folded_edge_info`
and `make_folded_edge_info` of both kinds of info. `Hinted` is what an info tells of its vertex: the type
always, the rest where filters bind and tags are known. `TagsResolvable` compares the frontier with what
the contexts hold, by the rule of `DynamicallyResolvedValue::resolve()`.

`PrunedRows` is what the query means for an adapter that leaves out vertices by a plan: at one of the
calls, those from which no walk along the path followed meets the needs that hints tell of. Rows are
sets here, since only whether some are lost matters. `EdgePruning` states that plans made from
mandatory edges, and from needs that bind, change no rows.

### TagHandler

The frontend's walk over a query given as its sequence of fields. The actions are what
`fill_in_vertex_data`, `make_vertex`, `make_query_component` and `make_fold` do to the component
path, the stack of imported tags, the tags and the used tags, including `make_fold`'s early return
(`AbandonFold`), which leaves both stacks as they are. What scopes are is defined from the query's
fields alone (`Scope`, the folds around a field, `Definitions`, `Uses`, `Sees`), and decisions are compared
with it. `MisplacedAreMisplaced` leaves out names that two tags have: `register_tag` keeps the first of
them, so a use the other tag could serve may be reported too, beside the error about the name.

### OutputHandler

The same walk for the outputs: scopes and prefixes by Vid, the stack of component outputs, all outputs
by name. `BeginFold`, `AbandonComponent`, `RejectDuplicates`, `EndComponent`, `OutputCount` and
`EndFold` are `make_query_component()` and `make_fold()` with their early returns, which leave the
outputs of an abandoned component on the stack; `SkipFold` is an edge with bad parameters, whose fold
is not walked at all. Names are sequences of letters, because prefixes and names are joined without a
separator and may meet. What the outputs of a query are is defined from its fields alone
(`PropertyOutputs`, `CountOutputs`, `Valid`). It is a module apart from `TagHandler` because the two
share no state: only the walk, whose errors each sees as errors of another kind.

### FilterTypes

A query as the list of its filters, in the order in which `fill_in_query_variables` goes through
them. `MakeFilter`, `ReportFilter` and `UnwrapNoTag` are the outcomes of `make_filter_expr` for one
filter: made, an error, or a panic. `FillInVariable` intersects the type of a variable with that of
one more use, `FromQueryAndArguments` checks arguments, and `ApplyFilter` runs a filter on values of
its operands' types that it has no branch for. A type is the scalar at its core and the nullability of
each layer; a value is the set of the kinds it has at each depth, which is what validity depends on.
So `[[1], null]` is a list at depth 1, a list and a null at depth 2, an integer at depth 3.

## Runs

| Run | Question | Bounds |
|---|---|---|
| `MCQueryParsing` | which documents are parsed; where directives go | every list of up to 4 directives; one directive with every kind of argument; selections on two levels, with and without coercions; roots with one defect |
| `MCSchema` | decision, origins and subtypes of a schema; types and parameters of resolver calls | every way in which 3 types, or 2 and an undefined name, implement each other; fields of types with up to 2 layers, with parameters, some of which have defaults, and with single defects; paths of up to 3 fields, recursions of depth 3 |
| `MCExecution` | rows, panics and suspended vertices | every tree of one or two edges of every kind; a plain, an optional and a recursive edge in every order and shape; recursions of depth 3 and 4; 3 vertices, 2 graphs (one with a cycle, one with a vertex reached twice), 2 contexts per batch |
| `MCQueryCarrier` | adapters that pull inside calls | 5 folds, three deep |
| `MCReplay` | replay of complete and of incomplete traces | 20 plans of one or two edges of every kind, 3 vertices, 2 graphs, 2 contexts per batch; stopped after any row |
| `MCFold` | rows, limits, tags and outputs of three folds; their declared types | 3 vertices, 2 graphs, two shapes of the tree; a fold below a missing `@optional` vertex has outputs, and tags on its count, but no filters |
| `MCPropertyHints` | hints for up to 3 static filters, or one and up to two tags | integers -1..2 and null; the largest `Int64` is 1 |
| `MCEdgeHints` | queries of four vertices, each edge plain, `@optional`, `@fold` with or without a required element, or a recursion of depth 1 or 2, with one or two needs | 3 shapes, 2 graphs of 3 vertices |
| `MCTagHandler` | every query of four vertices, each edge with or without `@fold` | 2 tags, which may have the same name, up to 2 filters at vertices and 1 on a count, 1 other error |
| `MCOutputHandler` | names, prefixes and components of outputs; what errors leave behind | queries of four vertices, each edge with or without `@fold` and alias: 3 names that meet, or up to 2 outputs of each count and one error of any kind |
| `MCFilterTypes` | inference, conflicts, arguments and panics | every filter on 3 scalars and their lists; two or three filters that share variables; types of up to 3 layers; 2 variables |

Why they are enough. In `Execution` a context meets each combination of missing or present vertex,
edge kind and neighbor count 0, 1, 2 with two edges; three edges are needed for a recursion beside
and below what a missing `@optional` vertex suspended. Batches of two already reorder every pair of
stages. In `Fold` two folds in a row and one inside another are all the ways folds can meet; the
filters include limits below, at and above the number of neighbors. The integers of the hints have
a value below, between and above any two bounds; with 1 the largest `Int64`, -1 is no `Uint64`, 2 is no
`Int64`, and 0 and 1 are both, which are all combinations of conversions that fail. Four directives are a
`@fold`, a `@transform`, another one and what follows it, or two of a kind around a `@fold`. Three types are
the first in which one inherits through another, or on two ways; three fields are an edge to recurse along, a
coercion and a property below. Replay is about the order of operations: two edges give readers whose
batches and neighbors interleave. The four vertices of `EdgeHints` give
hints three edges away, and a fold, an optional edge and a recursion in a row; both graphs are needed,
because leaving out a vertex shows only if it has something to lose. `TagHandler`'s four vertices have a chain of
three, which is as deep as importing across a fold in between needs, and a vertex beside it.
`OutputHandler`'s are the same, the vertex beside being the one whose outputs an abandoned fold could
catch. In `FilterTypes` three uses of one variable are the first in which a later use could be compared
with what the earlier ones left, and three layers are the scalar, a list and a list of lists.

One run of small scope shows a place where the code does not do what it says:

| Run | What TLC finds |
|---|---|
| `MCPropertyHintsAtLeast` | with a `>=` tag the dynamic hint is the range below the tag, and leaves out values the query keeps |

### Other disagreements

The modules state more such places as properties that no listed run checks. Each is seen by giving the
configuration named that invariant alone, and the constants in parentheses:

| Property | Configuration | What TLC finds |
|---|---|---|
| `TagsRemovedOnce` | `MCFold` (`Plans <- MCRepeatedTagPlans`) | `reference_tag()` lists a tag once per use (`frontend/tags.rs:97`), and `compute_fold()` takes it back once per listing (`execution.rs:467`): the second `unwrap()` panics |
| `FilteredFoldExists` | `MCFold` (`Plans <- MCOptionalFilterPlans`) | a filter on the count of a fold below a missing `@optional` vertex reaches `unreachable!()` |
| `LimitIsACount` | `MCFold` (`Plans <- MCNegativePlans`) | a negative argument panics in `as_usize().unwrap()`, before the `saturating_sub()` that is there for it |
| `NoPanic` | `MCPropertyHints` (`TagFilters <- NullTag`, `Queries <- NullTagQueries`) | a null tag in an ordering filter panics in `Range::with_end` when its hint is resolved |
| `CompletedIsAvailable` | `MCEdgeHints` | a hint asked for by the property of a vertex's own filter offers a tag of that vertex, which is not recorded yet |
| `BindsWhereItIs` | `MCEdgeHints` | the coercion between levels of a recursion gets the info of the vertex where the recursion started |
| `EdgesUnresolved` | `MCEdgeHints` | `edges_with_name()` gives edges that have been resolved, against its documentation |
| `OptionalScopeDoesNotBind` | `MCEdgeHints` | two edges away from a call, an `@optional` edge's vertex is said to bind: `hints/mod.rs:405` forgets what line 339 remembers |
| `OnlyTagsMismatch` | `MCFilterTypes` | a number, or a variable ordered against a Boolean, fails the type check where only a tag is expected to (`ir/mod.rs:643`): the frontend panics |
| `UndefinedAreUndefined` | `MCTagHandler` (`Queries <- BadFoldQueries`) | a tag on the count of a fold with another error is reported as undefined where it is used |
| `DuplicatesAreReported` | `MCOutputHandler` | a fold's count that is output under the name of another output of the component around it panics in `ir_vertices[&vid]`, where the error is made: the vertex is one of the fold's component |
| `EmptyNamesHandled` | `MCQueryParsing` | `value: ["$"]` panics where a comment says that empty names have been handled (`directives.rs:96`) |
| `NoFilterIsLost` | `MCQueryParsing` | a `@filter` on an inline fragment, where `schema/mod.rs:87` allows it, is dropped (`query.rs:262` has a TODO) |
| `CircularAreCircular` | `MCSchema` | the error about circular relationships also names types that merely implement one in a circle, or an undefined one |
| `DefinedScalarsAreScalars` | `MCSchema` | a field of a scalar that the document itself defines panics as neither an edge nor a property |
| `LowestIsOrigin` | `MCSchema` | `lowest_common_denom()` takes the first interface that has the property, which need not be where it comes from |
| `ImplicitCoercionsDescend` | `MCSchema` | between the levels of a recursion `resolve_coercion()` may be asked for a type that is above the one named, which the `Adapter` trait excludes |
| `RecursionParametersFit` | `MCSchema` | from its second level on, a recursion resolves its edge on a type that may have wider or further parameters than those that were filled in |

The passing runs leave such inputs out (their MC modules say so), or in `EdgeHints` such calls and
walks (`SettledOps`, `Prunable`, `NestedOptional`), or end there (`OutputHandler`, `FilterTypes`), so
that they check everything else. `TypesPreventPanics` excepts two more: an ordering filter on a list
passes the type check (the comment in `infer_variable_type` even describes comparing lists) and ends
in `unreachable!()`, and a variable that is no regular expression ends in an `expect()`. `DecidesByGrammar`
excepts filter arguments such as `"!abc"`, or a number that is too large, which panic like the empty name.

The models also show some behaviour that nothing in the repository contradicts but a reader may not expect:
repeated and unknown arguments of `@filter` are ignored; so are a `@tag` on an edge, `@optional`,
`@recurse`, `@fold` and arguments on a property, and whatever is selected below a property; coercing a
property panics (`validation.rs:71`), as does `{ __typename }` at the root; two transforms after a `@fold`
end in `unimplemented!()`; case 4d of `get_recurse_implicit_coercion()` is unreachable for accepted schemas;
replaying an incomplete trace asks for one row more than it expects, and mostly panics.

## Properties

- *Rows*: `YieldsTheRows` (execution and folds), as a refinement: safety and, under the fairness
  below, that the stream ends.
- *No panic*: `NoPanic` in `Execution`, `Fold`, `PropertyHints` and `TagHandler` collects the
  `unwrap()`s, indexes and assertions that the data could make fail.
- *Contexts*: `NothingLeftSuspended`, `TagsScoped`.
- *Limits*: `DiscardsOnlyRejected`.
- *Outputs*: `OutputsFitTheirTypes`, of indexing and execution together.
- *Carrier*: `QueryReturned`.
- *Hints*: `StaticSound`, `SoundInAnyWidth`, `DynamicSound`, `NeverWidens`, `Canonical`,
  `RequiredElementIsNeeded`.
- *Edge hints*: `TagsResolvable`, `MandatoryLosesNoRow`, `BindingLosesNoRow`.
- *Parsing*: `DecidesByGrammar`, `EveryDirectiveOnce`.
- *Schema*: `DecidesRightly`, `CircularIsExact`, `OriginsExact`, `SubtypesDescend`; with queries,
  `CallsAreTyped` and `ParametersFit`.
- *Frontend*: `AcceptsTheValid`, `ImportsTheNeeded`, `MisplacedAreMisplaced` of tags;
  `LeftOnlyByErrors`, `AcceptsTheValid`, `OutputsWithTheirComponent` of outputs.
- *Types*: `InferredExactly`, `ConflictsAreConflicts`, `RunsWithFittingArguments`,
  `TypesPreventPanics`.
- *Replay*: `CompleteReplays`, `ReadsAll`.

Most modules also have a type invariant, `TypeOK`, that no listed configuration checks: naming it as an
invariant of a configuration of the module does.

Fairness. `Execution` and `Fold` assume `WF_vars(Next)`: somebody's `next()` is always running, a
sequential program takes its next step, the caller pulls until the end, and adapters answer (the
trait requires iterators to be finite in these data sets). Nothing else is assumed; which step is
taken is the adapter's choice. The other modules have no liveness.

## Proofs

TLAPS proves, for every value of the constants:

- `HintsProofs`, of `QueryCarrier`: `CarrierTypeCorrect` and `QueryAlwaysReturned`, from
  `NodeAssumption` (Eids are numbered depth first). The invariant says which carriers are lent out:
  exactly those of the frames that are calling (`LentOut`). That needs two frames never to share a
  carrier, hence `Stacked`: code that runs above a frame of a component is of a fold inside it, or of
  one before it that is not around it. `Built` says that whatever can still be pulled has been built
  and has its carriers, `Grounded` that the root component's frame is at the bottom.
- `ExecutionProofs`: `ChainYieldsTheRows`, `TypeCorrect`, `NeverPanics`, `NobodyLeftSuspended` and
  `Streams` (every step of the chain is a step of `RowStream` or a stutter: the safety part of
  `YieldsTheRows`), from `ExecutionAssumption` and `DataContext`'s `ContextAssumption`. First the chain
  as a function: `Out` is what a stage makes of one context, `RunsTo` what stages make of a sequence of
  them, and the stages of a component make the rows of the nested loops, by induction on a recursion's
  depth and on the component's edges. Then the steps: `W[i]` is what comes to stage i, that is what
  waits in its queue, what the inner iterator before it has still to answer and what the stage before
  will make of what comes to it. No step changes what comes to the consumer (`Chained`, `EndedInOrder`,
  `Pending`), so it is always what it was at first, the answer. `NoPanic` is not inductive by itself: that
  a context has its vertex back at the end of a recursion depends on all the stages it went through,
  which `RunsTo` remembers.
- `ReplayProofs`: `CompleteReplaysHolds` and `ReadsAllHolds`, from the same assumptions and the invariant of
  `ExecutionProofs`. No invariant about the replay's own variables will do: that the reader whose turn it is
  finds its operation next is so because the execution had the same turn when the operation was recorded. So
  the invariant has a history (`IsHistory`), a sequence of snapshots of the chain, each of which follows from
  the one before by the operations between them in the trace (`Follows`); it is quantified over, not kept in a
  variable. While recording (`RecordInv`) the last snapshot is the current state, and each step makes the
  history longer by one (`RecordStepKeeps`). While replaying (`ReplayInv`) the state is one of the snapshots
  (`At`), before or after the reader has read the input it pulled, and the only step possible leads to the
  next (`NextReplays`), since readers are told apart by the calls they belong to. What remains in an iterator
  over neighbors is, in the replay, what the trace still has of it (`Unread`): vertices recorded after this
  point, with the positions that follow. At the last snapshot of a complete recording all rows have been
  compared and all has been read; of an incomplete one the replay asks for one row more, and the trace has none.
- `FoldProofs`: `TypeCorrect`, `TagsAreScoped`, `NeverPanics`, `OnlyRejectedAreDiscarded` and `OutputsFit`, from
  `FoldAssumption`. The invariant (`IInv`) is about the frames of folds that are being collected: the
  lowest is the root component's, those below the top collect, each is in the component of the one below
  it, and its context has exactly the tags of the components around and values of earlier folds only.
  The keys of sibling folds are disjoint, since the components around a fold (`Around`, used only as a
  least closed set) are different, and a fold's imports are disjoint from those further out; so what
  `compute_fold()` takes back is what it has added. `TagsScoped` alone is not inductive: it does not
  know which values a context has already.
  `OutputsFit` (rows have the outputs that `indexed.rs` declares, of the types it declares) also needs `NotLists`:
  `None` and `Null`, which may be any values, are no sequences. For it the invariant says that a context has
  exactly the outputs of the earlier folds, and that each value is of that part of its declared type which is
  inside the component it has got to; collecting a fold adds a list around it, or null, and `indexed.rs` adds a
  layer for that fold. That what `indexed.rs` makes of the query is these types (`TypeOf`) is a lemma of its
  own. The functions defined by recursion (`Depths`, `Pushed`, `FlagsOf`, `Inserts`) are first shown to exist.
- `HintsProofs`, of hints: `NormalizeExact`, `IntersectExact`, `ExcludeSound`: what the operations on
  candidates do to the set of values they admit, using only that numbers are integers. With them
  `StaticHintsSound`, `DynamicHintsSound` (for tags that are not compared by `>=`, which the code gets
  wrong), `HintsNeverWiden`, `AlwaysCanonical` and `RequiredElementJustified`. The invariant says that the
  candidate admits every value that passes the filters processed so far, and cites the lemmas on
  candidates. `HintsSoundInAnyWidth`, from `MaxInt` being a natural number and the numbers considered
  being of one of the two types: the comparisons of `HintWidths` are shown to be those of the numbers, case
  by case of the conversions that fail; then what holds of integers (`StaticHintsSound`) holds in any width.
  `TagsResolvableHolds` needs `QueriesAreQueries`: queries are what the frontend makes (tags are in scope,
  components are numbered depth first). Its invariant (`HintsInv`) has three parts. The contexts under way
  are those of nested folds (`Nested`). Each holds what it has to (`Computed`): the vertices and counts of its
  own component up to where it is, except the one pending, and what its fold and those inside need from
  around it. And where the adapter has got to (`HintsFrom`) is in the component of the call's context, or in one
  that begins after the frontier. So a tag that the frontier lets through is in that component, and has
  been recorded or counted, or in one around it, and has been imported. `RootsIn` and `AroundIn` are
  recursive functions, shown to exist before anything is said of them.
- `TagHandlerProofs`: `StacksInLockstep` and `NeverPanics`. `Lockstep` alone is not inductive: a
  pop needs to find the component that was pushed, although early returns may have left others on
  top. The invariant adds that vertex ids grow along the path and along the components being made
  (`InOrder`), and that a component without an error has nothing above its entry in the path but the
  components inside it (`Placed`): an early return leaves entries behind, but it also marks the
  component around it, which then never gets to its own pop.
  `AcceptsTheValidHolds`, `ImportsTheNeededHolds` and `MisplacedAreMisplacedHolds` need `QueriesAreTrees`
  (the last field, and none before, closes the root vertex). Their invariant (`OutcomeInv`) adds two parts.
  `Structure` says where the handler is: which fields are open, which vertex and which fold each entry of
  the path, of the stack of imports and of the components being made belongs to. It holds whatever errors
  there were. `Exact` says what the handler knows while no component has an error: the tags and uses so far
  are those of the fields so far, and each fold's list those that its uses so far need. Once a component has
  an error the query is not accepted, which is all that is left to know. What depends on the whole query
  (the open fields, what closes a vertex) is shown by induction over its fields.
- `FrontendProofs`, of `FilterTypes`: `ValidIntersection`, `TypesAreCorrect`, `InferredExactlyHolds`,
  `ConflictsAreConflictsHolds`, `RunsWithFittingArgumentsHolds` and `TypesPreventPanicsHolds`, for any
  filters and types of any depth. The invariant has three parts. While variables are filled in, a
  variable's type is compatible with some use seen so far, and, unless an error was found, with all of
  them, and has exactly their common values (`VariablesInv`); an error comes with two uses that are in
  conflict, although the code compares a use only with the type left by others. Every filter that was
  made passed the checks and has its variable among the uses (`FiltersInv`). After a phase its outcome
  is that of what it looked at (`PhaseInv`). A filter's operands are then of types that the checks
  relate, `RightValuesFit`, and on such values it does not panic, `ValidOperandsDoNotPanic`.
  Of `QueryParsing`: `ParseTypeCorrect`, `DecidesByGrammarHolds` and `EveryDirectiveOnceHolds`, from
  `DocumentsAreDocuments` (what GraphQL's parser makes: lists, and selections no deeper than some `MaxDepth`),
  `DepthIsNatural` and `NoneIsNoError`. First, what each directive's parser accepts is what `WellFormed` says
  of it. The invariant (`ParseInv`) then has two parts. Within a field (`Walk`), the directives up to here are
  what the connection, or the node, has taken or skipped (`Connecting`, `Noding`), and the groups are those of
  `GroupsOf`, a function of the list alone: which is why both readings make the same ones. The connection's
  part implies `WellPlaced` at the end of the list, so the node, which follows, has nothing left to refuse;
  conversely, whatever either refuses breaks the grammar. Between fields (`Pending`), what is selected has been
  read or is below something that still has to be, so that with nothing left to read all has been read
  (`AllIsRead`, by induction on the depth). That a path names one selection is shown level by level.
- `OutputHandlerProofs`: `LeftOnlyByErrorsHolds`, `AcceptsTheValidHolds` and
  `OutputsWithTheirComponentHolds`. There is one list of outputs for each component being
  made, and more only while one of them is marked with an error; so when the root component is made
  without one, its own list is the last. The invariant of the first theorem keeps just the heights of the
  stacks and the roots: a vertex on the stack is never the root vertex, hence none is left when the root
  component closes. The other two, from `QueriesAreTrees`, need `OutcomeInv`: as long as no component has an
  error, every variable is what the query's fields up to here alone say (`Exact`): which edges are open,
  which vertices there are, with which names and scopes, and which outputs; and an error that is marked is
  one of the query. The open edges and vertices are sets of fields, by induction over the fields, and the
  model's own `ClosedBy` and `Opener` are shown to agree with them.
- `SchemaProofs`: `CircularIsExactHolds`, `OriginsExactHolds` and `SubtypesDescendHolds`, for any documents
  whose definitions are definitions (`DocsAreDocuments`) and any order of the queue. The invariant says that
  what a resolved type implements is resolved and that no type of a trap, a set of types that wait for each
  other, ever is (`Grounded`); that the remaining interfaces and the queue are what they should be
  (`Waiting`), so that an empty queue leaves exactly a trap; that the origins of resolved types are their
  definers, and never none, or an inherited field would be taken for the type's own (`FromDefiners`); and
  what it means that each check has found nothing (`Transitive`, `Narrowed`, `Required`), from which the
  subtypes of accepted schemas follow. `DecidesRightlyHolds` adds what the definitions read so far agree on
  (`Agrees`) and that the errors are those of the checks that are over (`Decided`). The rules are stated
  without the code's detours, so each has to be shown the same: a trap has a circle of descent, through a
  type of fewest ancestors; a type of a field is a subtype if its instances are instances of the other.
  `CallsAreTypedHolds` and `ParametersFitHolds` are about a query against any schema that was accepted,
  with `TypenameIsReserved` and `DepthIsPositive`. Their invariant (`QueryInv`) says that a query's edges
  form paths (`Path`), that the parameters made for an edge suit it and the type a recursion arrives at has
  the edge again and leads back (`EdgeFits`), and that the calls made suit their vertices (`CallFits`).

Only model-checked: liveness (both `YieldsTheRows` as wholes; of `Fold`'s the safety part too, whose rows
depend on the elements of nested folds) and the properties of `EdgePruning` (rows again, and `PrunedRows` is
recursive). The library's induction theorems cannot be instantiated by the provers installed. Where
induction is needed all the same, as in `ExecutionProofs`, it is over sets, whose smallest counterexample the
well-foundedness of finite subsets gives, and the functions defined by recursion are first shown to exist.

## Not modelled

Reading GraphQL itself is `async_graphql_parser`'s. Serialization, formatting and error texts, derive macros
and tools have no behaviour to check; adapter helpers are maps over iterators; bindings convert values. What
string operators and regular expressions match is left out: in hints they keep every value, in `FilterTypes`
only the kinds of their operands count. Of `IndexedQuery` the check of variables' types is left out. `Replay`
has no folds, and no adapters that pull inside their call or ask an exhausted iterator again. The experiments
and demos are adapters over data of their own.

## Plan

1. Theorem: the safety part of `Fold`'s `YieldsTheRows`.
2. `Replay` with folds, whose elements are pulled from inside a `map`.
3. Equality and order of `FieldValue` as a whole, with floats and lists.
