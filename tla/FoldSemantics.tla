---------------------------- MODULE FoldSemantics ----------------------------
(***************************************************************************)
(* What nested folds mean, stated without iterators, limits or contexts:   *)
(* the algorithm of spec.md, "@fold processing", by comprehension.         *)
(*                                                                         *)
(* Component 0 is the query's root component; fold f's component is f.     *)
(* Folds are numbered depth first.  folds[f] is a record with              *)
(*   in       the component that fold f is in                              *)
(*   from     where its edge starts: at the component's "own" vertex, or   *)
(*            at the end of the component's "optional" edge                *)
(*   uses     tags that filters on f's own vertex are compared with        *)
(*   filters  the filters on the number of elements                        *)
(*   outputs  what f outputs: "count", "own", "optional"                   *)
(* A tag names a value of a component: that of its optional vertex (fold   *)
(* 0), or the count of one of its folds.  A filter has an op, and an       *)
(* argument that is a variable's value or, with byTag, a tag.              *)
(*                                                                         *)
(* A path is the vertices chosen so far, for the component and those       *)
(* around it, outermost first.                                             *)
(***************************************************************************)
EXTENDS Integers, SequencesExt

CONSTANTS
  Vertex,  \* vertices, numbers that are also their property's value
  None,    \* Option::None
  Null     \* FieldValue::Null

RootComponent == 0

Components(folds) == {RootComponent} \cup DOMAIN folds

InnerFolds(folds, c) == {f \in DOMAIN folds : folds[f].in = c}

\* The components around c, c included.
Around(folds, c) ==
  LET AroundOf[d \in Components(folds)] ==
        IF d = RootComponent THEN {d} ELSE {d} \cup AroundOf[folds[d].in]
  IN  AroundOf[c]

Depth(folds, c) == Cardinality(Around(folds, c))

\* Everything inside the component of f, f included.
Inside(folds, f) == {g \in DOMAIN folds : f \in Around(folds, g)}

\* Does a comparison accept the number of elements?
Compares(op, count, arg) ==
  CASE op = "="          -> count = arg
    [] op = "!="         -> count # arg
    [] op = "<"          -> count < arg
    [] op = "<="         -> count <= arg
    [] op = ">"          -> count > arg
    [] op = ">="         -> count >= arg
    [] op = "one_of"     -> count \in arg
    [] op = "not_one_of" -> count \notin arg

-----------------------------------------------------------------------------
\* The vertex fold f starts at, given the path of the component it is in.
Start(folds, graph, f, path) ==
  IF folds[f].from = "own" THEN Last(path) ELSE graph.optional[Last(path)]

\* Is path[Len(path)] a result of component c?  It passes the filters of its
\* own vertex, and no fold inside it has a count that a filter rejects.
Survives(folds, graph) ==
  LET S[c \in Components(folds), path \in Seq(Vertex)] ==
        LET Elements(f, p) ==
              SelectSeq(graph.next[Start(folds, graph, f, p)],
                        LAMBDA v : S[f, Append(p, v)])
            Exists(f, p) == Start(folds, graph, f, p) # None
            Upto(d) == SubSeq(path, 1, Depth(folds, d))
            \* a filter whose tag is in a missing optional scope passes
            Passes(tag, Accepts(_)) ==
              IF tag.fold = 0
                THEN LET v == graph.optional[Last(Upto(tag.of))]
                     IN  v = None \/ Accepts(v)
                ELSE Exists(tag.fold, Upto(tag.of)) =>
                       Accepts(Len(Elements(tag.fold, Upto(tag.of))))
            PassesFilter(f, filter) ==
              LET count == Len(Elements(f, path))
              IN  IF filter.byTag
                    THEN Passes(filter.arg, LAMBDA v : Compares(filter.op, count, v))
                    ELSE Compares(filter.op, count, filter.arg)
        IN  /\ c # RootComponent =>
                 \A i \in DOMAIN folds[c].uses :
                   Passes(folds[c].uses[i], LAMBDA v : Last(path) # v)
            /\ \A f \in InnerFolds(folds, c) :
                 Exists(f, path) =>
                   \A i \in DOMAIN folds[f].filters : PassesFilter(f, folds[f].filters[i])
  IN  S

\* Where fold f's elements are, as paths.
ElementPaths(folds, graph, f, path) ==
  LET kept == SelectSeq(graph.next[Start(folds, graph, f, path)],
                        LAMBDA v : Survives(folds, graph)[f, Append(path, v)])
  IN  [i \in DOMAIN kept |-> Append(path, kept[i])]

\* The value that a context of component c has for output name of fold g: a
\* list per fold between them, null below an optional vertex that is missing.
Value(folds, graph, g, name) ==
  LET V[c \in Components(folds), path \in Seq(Vertex)] ==
        LET f == CHOOSE h \in InnerFolds(folds, c) : h \in Around(folds, g)
            paths == ElementPaths(folds, graph, f, path)
            Element(p) ==
              IF f # g THEN V[f, p]
              ELSE IF name = "own" THEN Last(p)
              ELSE LET v == graph.optional[Last(p)] IN IF v = None THEN Null ELSE v
        IN  IF Start(folds, graph, f, path) = None THEN Null
            ELSE IF f = g /\ name = "count" THEN Len(paths)
            ELSE [i \in DOMAIN paths |-> Element(paths[i])]
  IN  V

\* The keys of the outputs of everything inside component c.
Keys(folds, c) ==
  {key \in (DOMAIN folds) \X {"count", "own", "optional"} :
     c \in Around(folds, folds[key[1]].in) /\ key[2] \in folds[key[1]].outputs}

\* The rows of the query: for each starting vertex that survives, every
\* folded output.
Rows(folds, graph, starting) ==
  LET kept == SelectSeq(starting, LAMBDA v : Survives(folds, graph)[RootComponent, <<v>>])
  IN  [i \in DOMAIN kept |->
        [own |-> kept[i],
         values |-> [key \in Keys(folds, RootComponent) |->
                       Value(folds, graph, key[1], key[2])[RootComponent, <<kept[i]>>]]]]
=============================================================================
