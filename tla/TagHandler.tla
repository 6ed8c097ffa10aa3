----------------------------- MODULE TagHandler -----------------------------
(***************************************************************************)
(* How the frontend turns the tags of a query into IRFold.imported_tags:   *)
(* TagHandler of frontend/tags.rs and ComponentPath of frontend/util.rs,   *)
(* as make_query_component, fill_in_vertex_data, make_vertex and make_fold *)
(* of frontend/mod.rs drive them.                                          *)
(*                                                                         *)
(* A query is the depth-first sequence of its fields: an edge opens a      *)
(* vertex, a tag is on a property of the open vertex, a close ends the     *)
(* vertex.  The filters of a component are looked at once all its fields   *)
(* have been, and the filters on a @fold's count when its component has    *)
(* been made.                                                              *)
(*                                                                         *)
(* make_fold returns early, with `?`, when its component has an error: the *)
(* component path and the stack of imported tags keep the fold's entries   *)
(* while the rest of the query is still processed.                         *)
(***************************************************************************)
EXTENDS Naturals, FiniteSets, SequencesExt

CONSTANTS Name,     \* the names of tags
          None,
          Queries   \* the queries to process

RootVid == 1
Vid == Nat \ {0}

\* `bad` marks an edge to a vertex with an error of another kind.
Item == [kind : {"edge"}, fold : BOOLEAN, bad : BOOLEAN]
          \cup [kind : {"tag"}, name : Name] \cup [kind : {"close"}]

\* A filter at a vertex that uses a tag.
Use == [vid : Vid, name : Name]

\* filters: those of the component with this root, in the order of its vertices;
\* post, count: the filters on the fold's count and the tag of it.
Query == [items : Seq(Item), filters : [Vid -> Seq(Use)],
          post : [Vid -> Seq(Use)], count : [Vid -> Name \cup {None}]]

ASSUME NoneIsNoName == None \notin Name
ASSUME QueriesAreQueries ==
  \A q \in Queries : /\ q.items \in Seq(Item)
                     /\ \A v \in DOMAIN q.filters : v \in Vid /\ q.filters[v] \in Seq(Use)
                     /\ \A v \in DOMAIN q.post : v \in Vid /\ q.post[v] \in Seq(Use)
                     /\ \A v \in DOMAIN q.count : v \in Vid /\ q.count[v] \in Name

\* The last field, and none before, closes the root vertex.
ASSUME QueriesAreTrees ==
  \A q \in Queries : \A j \in 0..Len(q.items) :
    LET fields(kind) == Cardinality({k \in 1..j : q.items[k].kind = kind})
    IN  j < Len(q.items) <=> fields("close") <= fields("edge")

VARIABLES query,
          at,           \* the next item of the query
          nextVid,      \* the next vertex id
          open,         \* the vertices being filled in, outermost first
          components,   \* the components being made, and whether each has an error
          path,         \* ComponentPath
          imported,     \* TagHandler.component_imported_tags
          tags,         \* TagHandler.tags
          used,         \* TagHandler.used_tags
          phase,
          pending,      \* the filters still to look at
          folding,      \* the fold whose count is being filtered and tagged
          folds,        \* the folds made, with their imported tags
          refused       \* the uses of tags that were reported, and as what

vars == <<query, at, nextVid, open, components, path, imported, tags, used, phase,
          pending, folding, folds, refused>>

AllButLast(seq) == SubSeq(seq, 1, Len(seq) - 1)

\* The filters and tags the query has at a vertex, if it has any.
Of(f, v) == IF v \in DOMAIN f THEN f[v] ELSE << >>

-----------------------------------------------------------------------------

\* Mutant of IsParent: a path is no parent of itself.
IsStrictParent(p, other) == /\ Len(p) < Len(other)
                            /\ \A i \in 1..Len(p) : p[i] = other[i]

\* ComponentPath::is_parent: the path is a prefix of the other, or the other.
IsParent(p, other) == /\ Len(p) =< Len(other)
                      /\ \A i \in 1..Len(p) : p[i] = other[i]

Component == Last(components)

\* The component being made has an error.
Failing == [components EXCEPT ![Len(components)].failed = TRUE]

Init ==
  /\ query \in Queries
  /\ at = 1
  /\ nextVid = RootVid + 1
  /\ open = <<RootVid>>
  /\ components = <<[root |-> RootVid, failed |-> FALSE]>>
  /\ path = <<RootVid>>
  /\ imported = << >>
  /\ tags = {}
  /\ used = {}
  /\ phase = "fill"
  /\ pending = << >>
  /\ folding = RootVid
  /\ folds = {}
  /\ refused = {}

\* The next field of the query, of one kind.
Field(kind) ==
  /\ phase = "fill"
  /\ at \in DOMAIN query.items
  /\ query.items[at].kind = kind
  /\ at' = at + 1

\* fill_in_vertex_data: an edge without @fold stays in the component.
VisitEdge ==
  /\ Field("edge")
  /\ ~ query.items[at].fold
  /\ nextVid' = nextVid + 1
  /\ open' = Append(open, nextVid)
  /\ components' = IF query.items[at].bad THEN Failing ELSE components
  /\ UNCHANGED <<query, path, imported, tags, used, phase, pending, folding, folds, refused>>

\* make_fold: the path and the tags begin a component of their own.
BeginFold ==
  /\ Field("edge")
  /\ query.items[at].fold
  /\ nextVid' = nextVid + 1
  /\ open' = Append(open, nextVid)
  /\ path' = Append(path, nextVid)
  /\ imported' = Append(imported, [root |-> nextVid, tags |-> << >>])
  /\ components' = Append(components, [root |-> nextVid, failed |-> query.items[at].bad])
  /\ UNCHANGED <<query, tags, used, phase, pending, folding, folds, refused>>

Defined(name) == \E t \in tags : t.name = name

\* register_tag, of a property of the open vertex.
RegisterTag ==
  /\ Field("tag")
  /\ LET name == query.items[at].name
     IN IF Defined(name)
          THEN components' = Failing /\ UNCHANGED tags
          ELSE /\ tags' = tags \cup {[name |-> name, vid |-> Last(open), path |-> path]}
               /\ UNCHANGED components
  /\ UNCHANGED <<query, nextVid, open, path, imported, used, phase, pending, folding, folds,
                 refused>>

CloseVertex ==
  /\ Field("close")
  /\ Last(open) # Component.root
  /\ open' = AllButLast(open)
  /\ UNCHANGED <<query, nextVid, components, path, imported, tags, used, phase, pending,
                 folding, folds, refused>>

\* All fields of the component have been seen: make_vertex looks at its filters.
StartFilters ==
  /\ Field("close")
  /\ Last(open) = Component.root
  /\ open' = AllButLast(open)
  /\ phase' = "filter"
  /\ pending' = Of(query.filters, Component.root)
  /\ UNCHANGED <<query, nextVid, components, path, imported, tags, used, folding, folds,
                 refused>>

-----------------------------------------------------------------------------

\* A use that is an error: of no tag, of one defined in a fold that is not around
\* the use, or of one at a later vertex.
Undefined(use) == ~ Defined(use.name)
\* Mutant of Misplaced: a tag may be used before it is defined.
MisplacedByPath(use) == \E t \in tags : t.name = use.name /\ ~ IsParent(t.path, path)

Misplaced(use) == \E t \in tags : /\ t.name = use.name
                                 /\ (~ IsParent(t.path, path) \/ t.vid > use.vid)
Refused(use) == Undefined(use) \/ Misplaced(use)

LookingAtFilters == phase \in {"filter", "post"} /\ pending # << >>

RefuseUse ==
  /\ LookingAtFilters
  /\ Refused(Head(pending))
  /\ components' = Failing
  /\ refused' = refused \cup {[use |-> Head(pending),
                              error |-> IF Undefined(Head(pending)) THEN "undefined"
                                                                    ELSE "misplaced"]}
  /\ pending' = Tail(pending)
  /\ UNCHANGED <<query, at, nextVid, open, path, imported, tags, used, phase, folding, folds>>

\* Mutant of Importer: the innermost component is taken to be the importer.
InnermostImporter(t) == Last(path)

\* The tag is imported by the component of the path just inside the tag's own:
\* reference_tag asserts that it is the one on the stack.
Importer(t) == path[Len(t.path) + 1]
CanImport(t) == /\ Len(t.path) \in DOMAIN imported
                /\ imported[Len(t.path)].root = Importer(t)

\* reference_tag of a tag of the same component.
UseLocalTag ==
  /\ LookingAtFilters
  /\ ~ Refused(Head(pending))
  /\ \E t \in tags :
       /\ t.name = Head(pending).name
       /\ t.path = path
       /\ used' = used \cup {t.name}
  /\ pending' = Tail(pending)
  /\ UNCHANGED <<query, at, nextVid, open, components, path, imported, tags, phase, folding,
                 folds, refused>>

\* Mutant of ImportTag: the tag is imported where it is used.
ImportTagAtUse ==
  /\ LookingAtFilters
  /\ ~ Refused(Head(pending))
  /\ \E t \in tags :
       /\ t.name = Head(pending).name
       /\ t.path # path
       /\ imported' = [imported EXCEPT ![Len(imported)].tags = Append(@, t.name)]
       /\ used' = used \cup {t.name}
  /\ pending' = Tail(pending)
  /\ UNCHANGED <<query, at, nextVid, open, components, path, tags, phase, folding, folds, refused>>

\* reference_tag of a tag of a component around this one.
ImportTag ==
  /\ LookingAtFilters
  /\ ~ Refused(Head(pending))
  /\ \E t \in tags :
       /\ t.name = Head(pending).name
       /\ t.path # path
       /\ IF CanImport(t)
            THEN /\ imported' = [imported EXCEPT ![Len(t.path)].tags = Append(@, t.name)]
                 /\ used' = used \cup {t.name}
                 /\ UNCHANGED phase
            ELSE phase' = "panicked" /\ UNCHANGED <<imported, used>>
  /\ pending' = Tail(pending)
  /\ UNCHANGED <<query, at, nextVid, open, components, path, tags, folding, folds, refused>>

-----------------------------------------------------------------------------

\* make_query_component returned an error: make_fold returns it as it is, and
\* fill_in_vertex_data of the component around goes on with the next field.
AbandonFold ==
  /\ phase = "filter" /\ pending = << >>
  /\ Component.failed
  /\ Len(components) > 1
  /\ components' = [AllButLast(components) EXCEPT ![Len(components) - 1].failed = TRUE]
  /\ phase' = "fill"
  /\ UNCHANGED <<query, at, nextVid, open, path, imported, tags, used, pending, folding, folds,
                 refused>>

\* make_query_component returned the fold's component: both stacks are popped,
\* and each asserts that it pops what make_fold pushed.
EndSubcomponent ==
  /\ phase = "filter" /\ pending = << >>
  /\ ~ Component.failed
  /\ Len(components) > 1
  /\ IF Last(path) = Component.root /\ imported # << >> /\ Last(imported).root = Component.root
       THEN /\ path' = AllButLast(path)
            /\ imported' = AllButLast(imported)
            /\ folds' = folds \cup {Last(imported)}
            /\ phase' = "post"
       ELSE phase' = "panicked" /\ UNCHANGED <<path, imported, folds>>
  /\ components' = AllButLast(components)
  /\ folding' = Component.root
  /\ pending' = Of(query.post, Component.root)
  /\ UNCHANGED <<query, at, nextVid, open, tags, used, refused>>

\* The filters on the count have been looked at: its tag is registered, as a
\* tag of the component around the fold.
EndFold ==
  /\ phase = "post" /\ pending = << >>
  /\ IF folding \notin DOMAIN query.count THEN UNCHANGED <<components, tags>>
     ELSE IF Defined(query.count[folding]) THEN components' = Failing /\ UNCHANGED tags
     ELSE /\ tags' = tags \cup {[name |-> query.count[folding], vid |-> folding, path |-> path]}
          /\ UNCHANGED components
  /\ phase' = "fill"
  /\ UNCHANGED <<query, at, nextVid, open, path, imported, used, pending, folding, folds,
                 refused>>

\* make_ir_for_query: the root component is made, and every tag must be used.
Finish ==
  /\ phase = "filter" /\ pending = << >>
  /\ Len(components) = 1
  /\ phase' = IF ~ Component.failed /\ \A t \in tags : t.name \in used
                THEN "accepted" ELSE "rejected"
  /\ UNCHANGED <<query, at, nextVid, open, components, path, imported, tags, used, pending,
                 folding, folds, refused>>

Done == phase \in {"accepted", "rejected"} /\ UNCHANGED vars

Next == \/ VisitEdge \/ BeginFold \/ RegisterTag \/ CloseVertex \/ StartFilters
        \/ RefuseUse \/ UseLocalTag \/ ImportTag
        \/ AbandonFold \/ EndSubcomponent \/ EndFold \/ Finish \/ Done

Spec == Init /\ [][Next]_vars

-----------------------------------------------------------------------------
(* What the scopes of a query's tags are, from its fields alone.           *)

\* The fields whose vertices are open after each field.
Opened ==
  LET stack[i \in 0..Len(query.items)] ==
        IF i = 0 THEN << >>
        ELSE CASE query.items[i].kind = "edge" -> Append(stack[i - 1], i)
               [] query.items[i].kind = "close" -> AllButLast(stack[i - 1])
               [] query.items[i].kind = "tag" -> stack[i - 1]
  IN stack

\* The vertex that a field opens; 0 is for the root's.
VidAt(i) == RootVid + Cardinality({j \in 1..i : query.items[j].kind = "edge"})

Innermost(fields) == IF fields = << >> THEN 0 ELSE Last(fields)

\* The field that closes what a field opens.
ClosedBy(i) == CHOOSE j \in DOMAIN query.items :
                 query.items[j].kind = "close" /\ Innermost(Opened[j - 1]) = i

Edges == {i \in DOMAIN query.items : query.items[i].kind = "edge"}
Folds == {i \in Edges : query.items[i].fold}

\* The folds around a field: one component is around another if these are among
\* its own.
Scope(i) == {j \in ToSet(Opened[i]) : j \in Folds}

\* The tags and uses of the query, each with its vertex, its scope and the
\* field by which the frontend gets to it.
Definitions ==
  {[name |-> query.items[i].name, vid |-> VidAt(Innermost(Opened[i])), scope |-> Scope(i),
    time |-> i] : i \in {j \in DOMAIN query.items : query.items[j].kind = "tag"}}
  \cup {[name |-> query.count[VidAt(i)], vid |-> VidAt(i), scope |-> Scope(i - 1),
         time |-> ClosedBy(i)] : i \in {j \in Folds : VidAt(j) \in DOMAIN query.count}}

UsesIn(list, scope, time) ==
  {[use |-> list[n], scope |-> scope, time |-> time] : n \in DOMAIN list}
FilterUses(i) == UsesIn(Of(query.filters, VidAt(i)), Scope(i), ClosedBy(i))
PostUses(i) == UsesIn(Of(query.post, VidAt(i)), Scope(i - 1), ClosedBy(i))

Uses == (UNION {FilterUses(i) : i \in {0} \cup Folds}) \cup (UNION {PostUses(i) : i \in Folds})

\* A use sees a tag of its own component or of one around it, at no later
\* vertex, that comes before the use.
Sees(u, d) == /\ d.name = u.use.name
              /\ d.scope \subseteq u.scope
              /\ d.vid =< u.use.vid
              /\ d.time < u.time

Legal(u) == \E d \in Definitions : Sees(u, d)

\* No other tag has the name.
IsUnique(d) == \A e \in Definitions : e.name = d.name => e = d

Valid ==
  /\ \A i \in Edges : ~ query.items[i].bad
  /\ \A d \in Definitions : IsUnique(d)
  /\ \A u \in Uses : Legal(u)
  /\ \A d \in Definitions : \E u \in Uses : Sees(u, d)

\* The tags a @fold needs from the component right around it.
Needed(i) ==
  {d.name : d \in {e \in Definitions : e.scope = Scope(i - 1)
                     /\ \E u \in Uses : Sees(u, e) /\ Scope(i) \subseteq u.scope}}

-----------------------------------------------------------------------------

\* Every variable holds what its field in the code may hold.
TypeOK ==
  /\ at \in Nat \ {0} /\ nextVid \in Vid /\ folding \in Vid
  /\ open \in Seq(Vid) /\ (phase = "fill" => open # << >>)
  /\ path \in Seq(Vid)
  /\ components \in Seq([root : Vid, failed : BOOLEAN]) /\ components # << >>
  /\ imported \in Seq([root : Vid, tags : Seq(Name)])
  /\ tags \subseteq [name : Name, vid : Vid, path : Seq(Vid)]
  /\ used \subseteq Name
  /\ phase \in {"fill", "filter", "post", "accepted", "rejected", "panicked"}
  /\ pending \in Seq(Use)
  /\ folds \subseteq [root : Vid, tags : Seq(Name)]
  /\ refused \subseteq [use : Use, error : {"undefined", "misplaced"}]

\* The path and the stack of imported tags go up and down together, so that an
\* index into one may be used for the other, also after make_fold returned early
\* and left its entries on both.
Lockstep == /\ Len(path) = Len(imported) + 1
            /\ path[1] = RootVid
            /\ \A i \in DOMAIN imported : imported[i].root = path[i + 1]

\* Neither pop finds another component than make_fold pushed, and reference_tag
\* always finds the importing component: no query makes the frontend panic.
NoPanic == phase # "panicked"

\* A query is accepted if, and only if, its tags are unique, used, and used where
\* they can be seen: in spite of the paths the decisions are taken by.
AcceptsTheValid == /\ phase = "accepted" => Valid
                   /\ phase = "rejected" => ~ Valid

\* Each fold of an accepted query imports the tags it needs from the component
\* right around it, and no other: a fold between the tag and its use imports it,
\* the folds further in find it in the contexts they get.
ImportsTheNeeded ==
  phase = "accepted" =>
    {[root |-> f.root, tags |-> ToSet(f.tags)] : f \in folds}
      = {[root |-> VidAt(i), tags |-> Needed(i)] : i \in Folds}

\* A use reported to be before its tag or outside its fold is one, also when an
\* earlier error had left the path with components that are not around the use:
\* it sees no tag, unless the name is another tag's too.
MisplacedAreMisplaced ==
  \A r \in refused : r.error = "misplaced" =>
    \E u \in Uses : u.use = r.use /\ \A d \in Definitions : Sees(u, d) => ~ IsUnique(d)

\* "Filter on property name ... uses undefined tag": a use reported so has no tag
\* it can see.
UndefinedAreUndefined ==
  \A r \in refused : r.error = "undefined" => \E u \in Uses : u.use = r.use /\ ~ Legal(u)
=============================================================================
