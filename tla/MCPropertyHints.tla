--------------------------- MODULE MCPropertyHints ---------------------------
(***************************************************************************)
(* Properties with up to two filters on query variables and up to two on   *)
(* tags, over the integers -1..2 and null.  With 1 as i64::MAX, -1 is      *)
(* only an Int64, 2 only a Uint64, and 0 and 1 are both.                   *)
(***************************************************************************)
EXTENDS HintWidths, SequencesExt

MCNumber == -1..2
MCPlace == 1..2

MCLists == {<< >>, <<2>>, <<0, Null>>, <<1, 1>>, <<1, 2>>}

MCStaticFilters ==
  [op : {"is_null", "is_not_null", "other"}]
    \cup [op : {"=", "!="}, value : {0, 1, Null}] \cup [op : Orderings, value : {0, 1, 2}]
    \cup [op : {"one_of", "not_one_of"}, values : MCLists]

MCStatic == BoundedSeq(MCStaticFilters, 2)

\* The tag filters for which the code does what it means to do.
MCTagFilters ==
  [op : {"=", "!="}, value : {1, Null, Nonexistent}, count : {FALSE}]
    \cup [op : Orderings \ {">="}, value : {0, Nonexistent}, count : BOOLEAN]
    \cup [op : {"one_of"}, values : {<<0, Null>>, <<1, 2>>, Nonexistent}, count : {FALSE}]

\* Two tags only where the choice between them matters.
MCTagged == BoundedSeq(MCTagFilters, 1)
              \cup {<<f, g>> : f \in {h \in MCTagFilters : h.op \in {"!=", "<", "one_of"}},
                               g \in {h \in MCTagFilters : h.op \in {"=", "one_of"}}}

Tagless == {<< >>}

\* Three static filters, where the third meets what the first two made.
MCLongStatic ==
  LET some == [op : {"=", "!="}, value : {1}]
                \cup {[op |-> "<=", value |-> 1], [op |-> ">=", value |-> 0],
                      [op |-> "one_of", values |-> <<1, 2>>],
                      [op |-> "not_one_of", values |-> <<0, Null>>]}
  IN [1..3 -> some]

\* A property with a static filter and a tag, or with two or three static filters.
MCQueries ==
  [static : MCLongStatic, tagged : Tagless, nullable : BOOLEAN]
    \cup [static : MCStatic, tagged : Tagless, nullable : BOOLEAN]
    \cup [static : BoundedSeq(MCStaticFilters, 1), tagged : MCTagged, nullable : BOOLEAN]

\* A tag compared with `>=`.
AtLeastTag == {[op |-> ">=", value |-> 1, count |-> FALSE]}
AtLeastQueries == [static : BoundedSeq(MCStaticFilters, 1),
                   tagged : {<<f>> : f \in AtLeastTag}, nullable : {FALSE}]

\* A nullable tag compared with `<`.
NullTag == {[op |-> "<", value |-> Null, count |-> FALSE]}
NullTagQueries == [static : BoundedSeq(MCStaticFilters, 1),
                   tagged : {<<f>> : f \in NullTag}, nullable : {FALSE}]
=============================================================================
