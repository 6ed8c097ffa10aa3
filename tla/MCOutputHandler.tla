-------------------------- MODULE MCOutputHandler ---------------------------
(***************************************************************************)
(* Queries of four vertices, 1 - 2 - 3 and 1 - 4: each edge with or        *)
(* without @fold and an alias, outputs at the vertices with names that     *)
(* meet when prefixes are joined, and outputs of the folds' counts with    *)
(* an error of another kind at one of the edges.                           *)
(***************************************************************************)
EXTENDS OutputHandler

MCLetter == {"a", "b", "e"}
MCCount == <<"b">>

EdgeField(fold, alias, name, counts, error) ==
  <<[kind |-> "edge", fold |-> fold, alias |-> alias, name |-> name, counts |-> counts,
     error |-> error]>>
Close == <<[kind |-> "close"]>>

OutputField(explicit, local) ==
  <<[kind |-> "output", output |-> [explicit |-> explicit, local |-> local]]>>
LocalB == OutputField(None, <<"b">>)
LocalAB == OutputField(None, <<"a", "b">>)
ExplicitB == OutputField(<<"b">>, <<"a">>)

\* Vertex 4 is reached by the same edge as 2, and vertex 1 outputs in between.
MCQuery(p) ==
  LET edge(v) == EdgeField(v \in p.folded, p.alias[v], IF v = 3 THEN <<"a">> ELSE <<"e">>,
                           p.counts[v], p.error[v])
  IN edge(2) \o edge(3) \o p.out[3] \o Close \o p.out[2] \o Close
       \o p.out[1] \o edge(4) \o p.out[4] \o Close \o Close

Alias == {<< >>, <<"a">>}
NoAlias == [v \in 2..4 |-> << >>]
NoCount == [v \in 2..4 |-> << >>]
NoError == [v \in 2..4 |-> "none"]

\* How names and prefixes meet.
Names == [folded : SUBSET (2..4), alias : [2..4 -> Alias], counts : {NoCount}, error : {NoError},
          out : [1..4 -> {<< >>, LocalB, LocalAB, ExplicitB}]]

\* The counts' outputs and an error at one edge.
CountsOf(v, folded) == IF v \in folded THEN {<< >>, <<None>>, <<Count>>, <<None, None>>} ELSE {<< >>}
Counts(folded) == {c \in [2..4 -> UNION {CountsOf(v, folded) : v \in 2..4}] :
                     \A v \in 2..4 : c[v] \in CountsOf(v, folded)}
ErrorsAt(v, folded) ==
  {[NoError EXCEPT ![v] = error] :
     error \in IF v \in folded THEN {"inside", "parameters", "outside", "count"} ELSE {"inside"}}
Errors(folded) == {NoError} \cup UNION {ErrorsAt(v, folded) : v \in 2..4}

Failures ==
  UNION {[folded : {folded}, alias : {NoAlias, [NoAlias EXCEPT ![2] = <<"a">>]},
          counts : Counts(folded), error : Errors(folded),
          out : {[v \in 1..4 |-> IF v \in vids THEN LocalB ELSE << >>] :
                   vids \in {{}, {1}, {3}, {2, 4}}}] : folded \in SUBSET (2..4)}

MCQueries == {MCQuery(p) : p \in Names \cup Failures}
=============================================================================
