---------------------------- MODULE IndexedQuery ----------------------------
(***************************************************************************)
(* IndexedQuery::try_from(), in trustfall_core/src/ir/indexed.rs: which    *)
(* queries are accepted, and the types their outputs are declared to have. *)
(*                                                                         *)
(* A query is its components, numbered, component 0 the root.  The maps by *)
(* name, Vid and Eid are functions:                                        *)
(*   [root, vertices, edges : Eid -> [from, to, optional],                 *)
(*    folds : Eid -> [from, to, component, counts], outputs : name -> ..]  *)
(* An output is [vid, nullable], its type without the scalar at its core,  *)
(* as in Types; counts are the names that output the number of elements.   *)
(* The types of variables (errors -2 and -3) are the subject of            *)
(* FilterTypes and QueryCarrier.                                           *)
(***************************************************************************)
EXTENDS Integers, Sequences

LOCAL INSTANCE SequencesExt

RootIndex == 0
NonNull == <<FALSE>>  \* FoldSpecificFieldKind::field_type(), of a count

\* get_optional_vertices_in_component(): the edges are seen by increasing Eid.
OptionalVertices(component) ==
  LET edges == component.edges
      Inserts[eid \in DOMAIN edges] ==
        \/ edges[eid].optional
        \/ \E e \in DOMAIN edges : e < eid /\ edges[e].to = edges[eid].from /\ Inserts[e]
  IN  {edges[eid].to : eid \in {e \in DOMAIN edges : Inserts[e]}}

\* The fold, if any, whose component is c.
FoldsInto(query, c) ==
  {at \in UNION {{d} \X DOMAIN query[d].folds : d \in DOMAIN query} :
     query[at[1]].folds[at[2]].component = c}

\* are_folds_optional, where component c is added: for each fold around it,
\* outermost first, whether it starts inside an @optional of its component.
AreFoldsOptional(query, c) ==
  LET FlagsOf[d \in DOMAIN query] ==
        IF d = RootIndex THEN <<>>
        ELSE LET at == CHOOSE at \in FoldsInto(query, d) : TRUE
             IN  Append(FlagsOf[at[1]],
                        query[at[1]].folds[at[2]].from \in OptionalVertices(query[at[1]]))
  IN  FlagsOf[c]

\* Mutant of GetOutputType: the lists are put around it from the outermost fold on.
OutputTypeInsideOut(query, c, vid, nullable) ==
  Reverse(AreFoldsOptional(query, c))
    \o <<nullable[1] \/ vid \in OptionalVertices(query[c])>> \o Tail(nullable)

\* get_output_type(): a list around the type for each fold, the innermost first.
GetOutputType(query, c, vid, nullable) ==
  AreFoldsOptional(query, c)
    \o <<nullable[1] \/ vid \in OptionalVertices(query[c])>> \o Tail(nullable)

FieldOutputs(query, c) ==
  [name \in DOMAIN query[c].outputs |->
     LET field == query[c].outputs[name]
     IN  [vid |-> field.vid, nullable |-> GetOutputType(query, c, field.vid, field.nullable)]]

\* Declared by the vertex the fold starts at, in the component around it.
CountOutputs(query, c, eid) ==
  LET fold == query[c].folds[eid]
  IN  [name \in fold.counts |->
         [vid |-> fold.to, nullable |-> GetOutputType(query, c, fold.from, NonNull)]]

\* IndexedQuery::outputs, of accepted queries
Outputs(query) ==
  LET Counts(c) == [eid \in DOMAIN query[c].folds |-> CountOutputs(query, c, eid)]
      All(c) == {FieldOutputs(query, c)} \cup {Counts(c)[eid] : eid \in DOMAIN query[c].folds}
      maps == UNION {All(c) : c \in DOMAIN query}
  IN  [name \in UNION {DOMAIN m : m \in maps} |->
         (CHOOSE m \in maps : name \in DOMAIN m)[name]]

-----------------------------------------------------------------------------
(* What is checked of a query; errors are named by their number.           *)

\* -1 and 0: a Vid is of one vertex.
VerticesValid(query) ==
  \A c \in DOMAIN query :
    /\ query[c].root \in query[c].vertices
    /\ \A d \in DOMAIN query \ {c} : query[c].vertices \cap query[d].vertices = {}

\* 1 to 3, and 15: an output is of a vertex of its component, a name of one output.
OutputsValid(query) ==
  LET Counts(c) == UNION {{eid} \X query[c].folds[eid].counts : eid \in DOMAIN query[c].folds}
      Names(c) == DOMAIN query[c].outputs \cup {at[2] : at \in Counts(c)}
  IN  \A c \in DOMAIN query :
        /\ \A name \in DOMAIN query[c].outputs : query[c].outputs[name].vid \in query[c].vertices
        /\ \A at, other \in Counts(c) : at[2] = other[2] => at = other
        /\ \A at \in Counts(c) : at[2] \notin DOMAIN query[c].outputs
        /\ \A d \in DOMAIN query \ {c} : Names(c) \cap Names(d) = {}

\* 4 to 9: edge i leads to vertex i + 1, within a component.
EdgesValid(query) ==
  \A c \in DOMAIN query : \A eid \in DOMAIN query[c].edges :
    /\ eid + 1 = query[c].edges[eid].to
    /\ {query[c].edges[eid].from, query[c].edges[eid].to} \subseteq query[c].vertices

\* 10 to 14: a fold leads to the root of its component.  That no two edges have
\* an Eid in common, 9 and 14, follows from the vertices they lead to.
FoldsValid(query) ==
  \A c \in DOMAIN query : \A eid \in DOMAIN query[c].folds :
    /\ eid + 1 = query[c].folds[eid].to
    /\ query[c].folds[eid].from \in query[c].vertices
    /\ query[c].folds[eid].to = query[query[c].folds[eid].component].root

Indexable(query) ==
  VerticesValid(query) /\ OutputsValid(query) /\ EdgesValid(query) /\ FoldsValid(query)
=============================================================================
