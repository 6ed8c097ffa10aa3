------------------------------- MODULE MCFold -------------------------------
(***************************************************************************)
(* Trees of three folds over three vertices for TLC: 1 and 3 side by side  *)
(* in the root component, 2 inside 1.                                      *)
(***************************************************************************)
EXTENDS FoldOutputs

\* Vertex 1 leads to both others; vertex 3 leads nowhere.  Vertex 1 has an
\* optional neighbor, vertex 2 only in the second data set.
MCGraphs ==
  { [next |-> << <<2, 3, 2>>, <<3, 1>>, <<>> >>, optional |-> <<2, None, None>>],
    [next |-> << <<2, 3>>, <<3>>, <<1>> >>, optional |-> <<3, 1, None>>] }

MCStarting == { <<1, 2, 3>> }

Everything == {"count", "own", "optional"}

AFold(in, from, uses, filters, outputs) ==
  [in |-> in, from |-> from, uses |-> uses, filters |-> filters, outputs |-> outputs]

Compare(op, arg) == [op |-> op, byTag |-> FALSE, arg |-> arg]
CompareTag(op, tag) == [op |-> op, byTag |-> TRUE, arg |-> tag]
OptionalOf(c) == [of |-> c, fold |-> 0]
CountOf(c, f) == [of |-> c, fold |-> f]

\* Every kind of limit, limits at zero and at the number of neighbors, and
\* several filters of which only one, or none, bounds the count.
Filters1 ==
  { <<>>, <<Compare("<=", 1)>>, <<Compare("<", 0)>>, <<Compare("=", 2), Compare("<", 9)>>,
    <<Compare(">=", 1), Compare("one_of", {0, 2})>>, <<Compare("one_of", {})>>,
    <<Compare("!=", 1), CompareTag("<", OptionalOf(0))>> }

Filters2 ==
  { <<>>, <<Compare("<", 2)>>, <<CompareTag("<=", OptionalOf(1))>>,
    <<CompareTag(">=", OptionalOf(0))>> }

Filters3 == { <<>>, <<CompareTag("!=", CountOf(0, 1))>>, <<Compare(">", 1)>> }

\* Tags of the component outside and of the one outside that, and counts.
Uses2 == { <<>>, <<OptionalOf(1)>> }
Uses3 == { <<>>, <<CountOf(0, 1)>> }

MCPlans ==
  { << AFold(0, start1[1], <<>>, start1[2], Everything),
       AFold(1, "own", uses2, filters2, Everything),
       AFold(0, "own", uses3, filters3, {"own"}) >> :
      start1 \in ({"own"} \X Filters1) \cup {<<"optional", <<>> >>},
      uses2 \in Uses2, filters2 \in Filters2 \ {<<CompareTag("<=", OptionalOf(1))>>},
      uses3 \in Uses3, filters3 \in Filters3 }
  \cup
  { << AFold(0, from1, uses1, <<>>, {"count", "own"}),
       AFold(1, from2, <<>>, filters2, Everything),
       AFold(2, from3, uses3, <<>>, Everything) >> :
      from1 \in {"own", "optional"}, uses1 \in {<<>>, <<OptionalOf(0)>>},
      from2 \in {"own"}, filters2 \in Filters2 \ {<<CompareTag(">=", OptionalOf(0))>>},
      from3 \in {"own", "optional"}, uses3 \in {<<>>, <<OptionalOf(1)>>} }

\* One fold whose component uses a tag of the enclosing component twice.
MCRepeatedTagPlans ==
  { << AFold(0, "own", <<OptionalOf(0), OptionalOf(0)>>, <<>>, {"own"}) >> }

\* One fold below an @optional edge, with a filter on its count.
MCOptionalFilterPlans ==
  { << AFold(0, "optional", <<>>, <<Compare(">=", 0)>>, {"own"}) >> }

\* One fold whose count is compared with a negative argument.
MCNegativePlans == { << AFold(0, "own", <<>>, <<Compare("<", -1)>>, {"own"}) >> }
=============================================================================
