-------------------------------- MODULE Fold --------------------------------
(***************************************************************************)
(* The interpreter's execution of @fold: compute_fold() and what it calls, *)
(* in trustfall_core/src/interpreter/execution.rs.                         *)
(*                                                                         *)
(* compute_fold() imports tags into a context, gathers the elements of its *)
(* own component, stops early when a filter on their number cannot accept  *)
(* as many, applies those filters and computes the fold's outputs.  An     *)
(* element is a context of the fold's component and goes through the folds *)
(* inside it before it counts.                                             *)
(*                                                                         *)
(* A component's contexts come from its own vertex and, where it has one,  *)
(* from an @optional edge, so both kinds of start a fold may have appear.  *)
(* stack is the folds that are collecting, the root component first: frame *)
(* i folds a context that will be an element of frame i - 1.               *)
(***************************************************************************)
EXTENDS Integers, Sequences, FiniteSets

CONSTANTS
  Vertex,    \* vertices, numbers that are also their property's value
  None,      \* Option::None
  Null,      \* FieldValue::Null
  Plans,     \* the fold trees considered (see FoldSemantics)
  Graphs,    \* neighbors and optional neighbor of each vertex
  Starting   \* what resolve_starting_vertices() may produce

Semantics == INSTANCE FoldSemantics
Seqs == INSTANCE SequencesExt
Sets == INSTANCE FiniteSetsExt

\* A tag names a component, and one of its folds or 0.
Tag == [of : Nat, fold : Nat]

\* An argument is a tag, or what a variable holds: a number or, for one_of, a
\* list of numbers.
IsFilter(x) ==
  \/ x.byTag /\ x.arg \in Tag
  \/ ~x.byTag /\ x.op \in {"=", "!=", "<", "<=", ">", ">="} /\ x.arg \in Int
  \/ /\ ~x.byTag /\ x.op \in {"one_of", "not_one_of"}
     /\ x.arg \subseteq Int /\ IsFiniteSet(x.arg)

IsFold(x) ==
  /\ x.in \in Nat
  /\ x.from \in {"own", "optional"}
  /\ x.uses \in Seq(Tag)
  /\ x.filters \in Seq(Seqs!ToSet(x.filters))
  /\ \A i \in DOMAIN x.filters : IsFilter(x.filters[i])
  /\ x.outputs \subseteq {"count", "own", "optional"}

\* A tag that a filter of fold f names: of a component around f, and a count
\* of a fold before the ones of that component that f is inside.  (A filter on
\* f's own vertex comes before the component's own tags have values.)
IsKnown(p, f, tag) ==
  /\ tag.of \in Semantics!Around(p, p[f].in)
  /\ tag.fold # 0 =>
       /\ tag.fold \in Semantics!InnerFolds(p, tag.of)
       /\ \A g \in Semantics!Around(p, f) \ {Semantics!RootComponent} :
            p[g].in = tag.of => tag.fold < g

\* The frontend numbers folds depth first, and makes a tag known after the
\* filters, and the fold, that come before it.
ASSUME FoldAssumption ==
  /\ Vertex \subseteq Int /\ None \notin Int /\ Null \notin Int
  /\ Graphs \subseteq [next : [Vertex -> Seq(Vertex)], optional : [Vertex -> Vertex \cup {None}]]
  /\ Starting \subseteq Seq(Vertex)
  /\ \A p \in Plans :
       /\ p \in Seq(Seqs!ToSet(p))
       /\ \A f \in DOMAIN p :
            /\ IsFold(p[f])
            /\ p[f].in < f
            /\ \A i \in DOMAIN p[f].uses : IsKnown(p, f, p[f].uses[i])
            /\ \A i \in DOMAIN p[f].filters :
                 p[f].filters[i].byTag => IsKnown(p, f, p[f].filters[i].arg)

VARIABLES
  folds,   \* the folds of the query
  graph,   \* the adapter's data
  answer,  \* the rows the query means (history: no action reads it)
  stack    \* the components whose contexts are being computed

vars == <<folds, graph, answer, stack>>

Root == 0

InnerFolds(c) == Semantics!InnerFolds(folds, c)

\* The contexts of a component.  folded and values are keyed by the folds and
\* outputs that have been computed, tags by the imported tags.
NewContext(vertex, tags) ==
  [own |-> vertex, optional |-> graph.optional[vertex],
   tags |-> tags, folded |-> <<>>, values |-> <<>>]

Extended(map, key, value) ==
  [k \in DOMAIN map \cup {key} |-> IF k = key THEN value ELSE map[k]]

Frame(f, ctx) ==
  [fold |-> f, phase |-> "import", ctx |-> ctx, remaining |-> <<>>,
   elements |-> <<>>, filter |-> 1]

Top == stack[Len(stack)]
Below == SubSeq(stack, 1, Len(stack) - 1)
Plan == folds[Top.fold]

-----------------------------------------------------------------------------
(***************************************************************************)
(* Tags.                                                                   *)
(***************************************************************************)
\* The filters of fold g's own vertex that name a tag, and the filters on its
\* number of elements that do.
VertexReferences(g) ==
  {[by |-> "vertex", fold |-> g, at |-> i, tag |-> folds[g].uses[i]] : i \in DOMAIN folds[g].uses}

CountReferences(g) ==
  {[by |-> "count", fold |-> g, at |-> i, tag |-> folds[g].filters[i].arg] :
     i \in {i \in DOMAIN folds[g].filters : folds[g].filters[i].byTag}}

\* What reference_tag() meets in fold f's component and inside it.
References(f) ==
  (UNION {VertexReferences(g) : g \in Semantics!Inside(folds, f)})
    \cup (UNION {CountReferences(g) : g \in Semantics!Inside(folds, f) \ {f}})

\* Mutant of Imports: a fold imports the tags of all components around it.
ImportsFromAround(f) ==
  {r \in References(f) : r.tag.of \in Semantics!Around(folds, folds[f].in)}

\* Mutant of Imports: the folds inside a fold are forgotten.
ImportsForItself(f) == {r \in VertexReferences(f) : r.tag.of = folds[f].in}

\* The entries of IRFold::imported_tags, one for each reference to a tag of
\* the directly enclosing component.
Imports(f) == {r \in References(f) : r.tag.of = folds[f].in}

ImportedTags(f) == {r.tag : r \in Imports(f)}

\* A tag's value in a context of component c: the component's own, or
\* imported (imported_tags[..]).  None is TaggedValue::NonexistentOptional.
TagValue(c, ctx, tag) ==
  IF tag.of # c THEN ctx.tags[tag]
  ELSE IF tag.fold = 0
       THEN IF ctx.optional = None THEN None ELSE ctx.optional
       ELSE IF ctx.folded[tag.fold] = None THEN None
            ELSE Len(ctx.folded[tag.fold])

\* A filter passes when its tag comes from an @optional that did not exist.
Accepts(tagValue, Compare(_)) == tagValue # None => Compare(tagValue)

-----------------------------------------------------------------------------
(***************************************************************************)
(* The number of elements.                                                 *)
(***************************************************************************)
\* Mutant of FilterLimit: "<=" limits as "<" does.
FilterLimitOneLess(filter) ==
  IF filter.byTag THEN None
  ELSE CASE filter.op = "=" -> filter.arg
         [] filter.op \in {"<", "<="} -> IF filter.arg = 0 THEN 0 ELSE filter.arg - 1
         [] filter.op = "one_of" /\ filter.arg # {} -> Sets!Max(filter.arg)
         [] OTHER -> None

\* The largest count that a filter may accept, where the query arguments tell.
\* saturating_sub() keeps "< 0" at 0.
FilterLimit(filter) ==
  IF filter.byTag THEN None
  ELSE CASE filter.op \in {"=", "<="} -> filter.arg
         [] filter.op = "<" -> IF filter.arg = 0 THEN 0 ELSE filter.arg - 1
         [] filter.op = "one_of" /\ filter.arg # {} -> Sets!Max(filter.arg)
         [] OTHER -> None

MaxFoldCountLimit(filters) ==
  LET limits == {FilterLimit(filters[i]) : i \in DOMAIN filters} \ {None}
  IN  IF limits = {} THEN None ELSE Sets!Min(limits)

Limit == IF Top.fold = Root THEN None ELSE MaxFoldCountLimit(Plan.filters)

\* collect_fold_elements() has pulled one more element than the limit.
TooMany == Limit # None /\ Len(Top.elements) > Limit

PassesPostFilter(frame) ==
  LET filter == folds[frame.fold].filters[frame.filter]
      count == Len(frame.ctx.folded[frame.fold])
  IN  IF filter.byTag
        THEN Accepts(TagValue(folds[frame.fold].in, frame.ctx, filter.arg),
                     LAMBDA v : Semantics!Compares(filter.op, count, v))
        ELSE Semantics!Compares(filter.op, count, filter.arg)

-----------------------------------------------------------------------------
(***************************************************************************)
(* Outputs.                                                                *)
(***************************************************************************)
Property(element, name) ==
  IF name = "own" THEN element.own
  ELSE IF element.optional = None THEN Null ELSE element.optional

\* The values of a key, pushed one after the other for the elements that have one.
Collected(elements, key) ==
  LET Pushed[n \in 0..Len(elements)] ==
        IF n = 0 THEN <<>>
        ELSE IF key \in DOMAIN elements[n].values
             THEN Append(Pushed[n - 1], elements[n].values[key])
             ELSE Pushed[n - 1]
  IN  Pushed[Len(elements)]

\* Mutant of FoldedValues: without elements, the folds inside get no outputs.
FoldedValuesOfItself(f, elements) ==
  LET own == {f} \X (folds[f].outputs \ {"count"})
      carried == IF elements = None THEN {} ELSE UNION {DOMAIN elements[i].values : i \in DOMAIN elements}
  IN  [key \in own \cup carried |->
         IF elements = None THEN None
         ELSE IF key \in carried THEN Collected(elements, key)
         ELSE [i \in DOMAIN elements |-> Property(elements[i], key[2])]]

\* The outputs of f and of the folds inside it: null when f does not exist,
\* empty lists when it has no elements, else a value per element.
FoldedValues(f, elements) ==
  LET own == {f} \X (folds[f].outputs \ {"count"})
      nested == Semantics!Keys(folds, f)
      carried == UNION {DOMAIN elements[i].values : i \in DOMAIN elements}
  IN  IF elements \in {None, <<>>}
        THEN [key \in own \cup nested |-> elements]
        ELSE [key \in own \cup carried |->
                IF key \in carried
                  THEN Collected(elements, key)
                  ELSE [i \in DOMAIN elements |-> Property(elements[i], key[2])]]

FoldSpecificOutputs(f, elements) ==
  [key \in {f} \X (folds[f].outputs \cap {"count"}) |->
     IF elements = None THEN None ELSE Len(elements)]

\* ctx.folded_values.extend(..), whose keys are asserted to be new.  A value
\* that does not exist becomes null where it is emitted or collected.
WithOutputs(f, ctx) ==
  LET elements == ctx.folded[f]
      new == [key \in DOMAIN FoldedValues(f, elements) \cup DOMAIN FoldSpecificOutputs(f, elements) |->
                LET value == IF key[2] = "count" /\ key[1] = f
                               THEN FoldSpecificOutputs(f, elements)[key]
                               ELSE FoldedValues(f, elements)[key]
                IN  IF value = None THEN Null ELSE value]
  IN  [ctx EXCEPT !.values =
         [key \in DOMAIN ctx.values \cup DOMAIN new |->
            IF key \in DOMAIN new THEN new[key] ELSE ctx.values[key]]]

-----------------------------------------------------------------------------
\* A context of component c has been through its folds up to after: it goes on
\* to the next one, or out of the component to what collects it.
PassOn(below, c, after, ctx) ==
  LET later == {f \in InnerFolds(c) : f > after}
      collector == below[Len(below)]
  IN  IF later # {}
        THEN Append(below, Frame(Sets!Min(later), ctx))
        ELSE [below EXCEPT ![Len(below)] =
                [collector EXCEPT !.elements = Append(@, ctx)]]

Replaced(frame) == Append(Below, frame)

Init ==
  /\ folds \in Plans
  /\ graph \in Graphs
  /\ \E starting \in Starting :
       /\ answer = Semantics!Rows(folds, graph, starting)
       /\ stack = << [Frame(Root, None) EXCEPT !.phase = "collect", !.remaining = starting] >>

\* Tags are imported, and the neighbors of the vertex the fold starts at are
\* resolved: none when it does not exist.
ImportTags ==
  /\ Top.phase = "import"
  /\ LET tags == ImportedTags(Top.fold)
         imported ==
           [t \in DOMAIN Top.ctx.tags \cup tags |->
              IF t \in tags THEN TagValue(Plan.in, Top.ctx, t) ELSE Top.ctx.tags[t]]
         start == IF Plan.from = "own" THEN Top.ctx.own ELSE Top.ctx.optional
     IN  stack' = Replaced([Top EXCEPT
                    !.phase = "collect",
                    !.ctx.tags = imported,
                    !.remaining = IF start = None THEN <<>> ELSE graph.next[start]])
  /\ UNCHANGED <<folds, graph, answer>>

\* An element's own filters, against tags it has imported.
PassesOwnFilters(f, ctx) ==
  f # Root =>
    \A i \in DOMAIN folds[f].uses :
      Accepts(TagValue(f, ctx, folds[f].uses[i]), LAMBDA v : ctx.own # v)

\* The next neighbor becomes a context of the fold's component.
NextElement ==
  NewContext(Head(Top.remaining), IF Top.fold = Root THEN <<>> ELSE Top.ctx.tags)

Pulls == Top.phase = "collect" /\ Top.remaining # <<>> /\ ~TooMany

Advanced == Replaced([Top EXCEPT !.remaining = Tail(@)])

PullElement ==
  /\ Pulls
  /\ PassesOwnFilters(Top.fold, NextElement)
  /\ stack' = PassOn(Advanced, Top.fold, 0, NextElement)
  /\ UNCHANGED <<folds, graph, answer>>

DropElement ==
  /\ Pulls
  /\ ~PassesOwnFilters(Top.fold, NextElement)
  /\ stack' = Advanced
  /\ UNCHANGED <<folds, graph, answer>>

\* collect_fold_elements() returns None and filter_map drops the context.
DiscardEarly ==
  /\ Top.phase = "collect"
  /\ TooMany
  /\ stack' = Below
  /\ UNCHANGED <<folds, graph, answer>>

\* All elements are there: they are recorded, and tags no longer needed go.
RecordElements ==
  /\ Top.phase = "collect"
  /\ Top.fold # Root
  /\ Top.remaining = <<>>
  /\ ~TooMany
  /\ LET start == IF Plan.from = "own" THEN Top.ctx.own ELSE Top.ctx.optional
         elements == IF start = None THEN None ELSE Top.elements
         kept == DOMAIN Top.ctx.tags \ ImportedTags(Top.fold)
     IN  stack' = Replaced([Top EXCEPT
                    !.phase = "filter",
                    !.elements = <<>>,
                    !.ctx.folded = Extended(@, Top.fold, elements),
                    !.ctx.tags = [t \in kept |-> Top.ctx.tags[t]]])
  /\ UNCHANGED <<folds, graph, answer>>

\* apply_fold_specific_filter()
Filters == Top.phase = "filter" /\ Top.filter \in DOMAIN Plan.filters

KeepFold ==
  /\ Filters
  /\ PassesPostFilter(Top)
  /\ stack' = Replaced([Top EXCEPT !.filter = @ + 1])
  /\ UNCHANGED <<folds, graph, answer>>

DiscardFold ==
  /\ Filters
  /\ ~PassesPostFilter(Top)
  /\ stack' = Below
  /\ UNCHANGED <<folds, graph, answer>>

\* The fold's outputs are computed and its context goes on.
ComputeOutputs ==
  /\ Top.phase = "filter"
  /\ Top.filter \notin DOMAIN Plan.filters
  /\ stack' = PassOn(Below, Plan.in, Top.fold, WithOutputs(Top.fold, Top.ctx))
  /\ UNCHANGED <<folds, graph, answer>>

\* The root component's iterator returns None.
EndRows ==
  /\ Top.fold = Root
  /\ Top.phase = "collect"
  /\ Top.remaining = <<>>
  /\ stack' = Replaced([Top EXCEPT !.phase = "ended"])
  /\ UNCHANGED <<folds, graph, answer>>

Finished == stack[1].phase = "ended"

Done == Finished /\ UNCHANGED vars

Next ==
  \/ ImportTags \/ PullElement \/ DropElement \/ DiscardEarly
  \/ RecordElements \/ KeepFold \/ DiscardFold \/ ComputeOutputs \/ EndRows
  \/ Done

\* The caller pulls rows until there are none left.
Spec == Init /\ [][Next]_vars /\ WF_vars(Next)

-----------------------------------------------------------------------------
\* Type correctness of the frames of the nested folds and of their contexts.
TypeOK ==
  /\ Len(stack) > 0
  /\ \A i \in DOMAIN stack :
       /\ stack[i].fold \in DOMAIN folds \cup {Root}
       /\ stack[i].phase \in {"import", "collect", "filter", "ended"}
       /\ stack[i].remaining \in Seq(Vertex)
       /\ i = 1 <=> stack[i].fold = Root
       /\ i > 1 => folds[stack[i].fold].in = stack[i - 1].fold

\* The tags in the contexts of component c.
TagsInScope(c) ==
  UNION {ImportedTags(f) : f \in Semantics!Around(folds, c) \ {Root}}

\* Tags are imported for the time a fold collects and then taken back, so a
\* context has exactly the tags of the components around it: the next fold
\* and the elements of this one see no others and miss none.
TagsScoped ==
  \A i \in 2..Len(stack) :
    DOMAIN stack[i].ctx.tags =
      TagsInScope(IF stack[i].phase = "collect" THEN stack[i].fold ELSE stack[i - 1].fold)

\* A tag that a filter is about to read, or a fold to import, is there, a fold
\* is recorded once, and the outputs added to a context are new: no index,
\* insert_or_error() or assert_eq!() fails.
NoPanic ==
  /\ Top.phase = "import" =>
       \A t \in ImportedTags(Top.fold) : t.fold # 0 => t.fold \in DOMAIN Top.ctx.folded
  /\ Pulls /\ Top.fold # Root =>
       \A i \in DOMAIN Plan.uses : Plan.uses[i] \in DOMAIN Top.ctx.tags
  /\ Filters /\ Plan.filters[Top.filter].byTag =>
       LET tag == Plan.filters[Top.filter].arg
       IN  IF tag.of = Plan.in THEN tag.fold # 0 => tag.fold \in DOMAIN Top.ctx.folded
           ELSE tag \in DOMAIN Top.ctx.tags
  /\ Top.phase = "collect" /\ Top.fold # Root => Top.fold \notin DOMAIN Top.ctx.folded
  /\ Top.phase = "filter" =>
       LET elements == Top.ctx.folded[Top.fold]
           new == DOMAIN FoldedValues(Top.fold, elements)
                    \cup DOMAIN FoldSpecificOutputs(Top.fold, elements)
       IN  new \cap DOMAIN Top.ctx.values = {}

\* A fold discarded for its number of elements would have been discarded by a
\* filter, however many of the remaining neighbors become elements.
DiscardsOnlyRejected ==
  TooMany =>
    \E i \in DOMAIN Plan.filters :
      /\ ~Plan.filters[i].byTag
      /\ \A n \in Len(Top.elements)..Len(Top.elements) + Len(Top.remaining) :
           ~Semantics!Compares(Plan.filters[i].op, n, Plan.filters[i].arg)

Stream == INSTANCE RowStream WITH
  yielded <- [i \in DOMAIN stack[1].elements |->
                [own |-> stack[1].elements[i].own, values |-> stack[1].elements[i].values]],
  finished <- Finished

\* The interpreter yields the rows that the algorithm of spec.md defines, with
\* every fold's outputs nested as its elements are, in order, and then ends.
YieldsTheRows == Stream!Spec

\* imported_tags.remove(imported_tag).unwrap(): a tag to take back is there,
\* each time it is listed.
TagsRemovedOnce ==
  Top.phase = "collect" /\ Top.fold # Root =>
    /\ ImportedTags(Top.fold) \subseteq DOMAIN Top.ctx.tags
    /\ \A r, s \in Imports(Top.fold) : r.tag = s.tag => r = s

\* unreachable!("while applying fold-specific filter, the @fold turned out to
\* not exist"): a fold whose count is compared exists.
FilteredFoldExists == Filters => Top.ctx.folded[Top.fold] # None

\* as_usize().unwrap(): an argument that a limit is taken from is a count.
LimitIsACount ==
  Top.fold # Root =>
    \A i \in DOMAIN Plan.filters :
      ~Plan.filters[i].byTag /\ Plan.filters[i].op \in {"=", "<=", "<"} =>
        Plan.filters[i].arg \in Nat
=============================================================================
