--------------------------- MODULE OutputHandler ----------------------------
(***************************************************************************)
(* How the frontend names the outputs of a query and gives each to its     *)
(* component: OutputHandler of frontend/outputs.rs, as                     *)
(* make_query_component, fill_in_vertex_data and make_fold of              *)
(* frontend/mod.rs drive it.                                               *)
(*                                                                         *)
(* A query is the depth-first sequence of its fields: an edge opens a      *)
(* vertex and the scope of its alias, an output is on a property of the    *)
(* open vertex, a close ends vertex and scope.  The outputs of a @fold's   *)
(* count belong to the component around the @fold, but are named inside    *)
(* the @fold's scope, after its component has been made.                   *)
(*                                                                         *)
(* make_query_component returns early when its component has an error and  *)
(* leaves the component's outputs on the stack: what is output later in    *)
(* the query lands on top of them.                                         *)
(***************************************************************************)
EXTENDS Naturals, SequencesExt, FiniteSetsExt

CONSTANTS Letter,  \* names are sequences of letters
          None,
          Count,   \* the transform suffix of a @fold's count
          Queries  \* the queries to process

RootVid == 1
Vid == Nat \ {0}
Text == Seq(Letter)

\* An output with an explicit name, or with the field's own as its local name.
Directive == [explicit : Text \cup {None}, local : Text]

\* An error of another kind, by where it is found: at the edge's vertex or its
\* parameters, at the vertex around it, or at the count of a @fold.  No alias is
\* the empty one.
Item == [kind : {"edge"}, fold : BOOLEAN, alias : Text, name : Text, counts : Seq(Text \cup {None}),
         error : {"none", "inside", "parameters", "outside", "count"}]
          \cup [kind : {"output"}, output : Directive] \cup [kind : {"close"}]

ASSUME NoneIsNoText == None \notin Text
ASSUME CountIsText == Count \in Text
ASSUME QueriesAreQueries == \A q \in Queries : q \in Seq(Item)

\* The last field, and none before, closes the root vertex.
ASSUME QueriesAreTrees ==
  \A q \in Queries : \A j \in 0..Len(q) :
    LET fields(kind) == Cardinality({k \in 1..j : q[k].kind = kind})
    IN  j < Len(q) <=> fields("close") <= fields("edge")

\* FieldRef: a property of a vertex, or the count of the fold with this root.
FieldRef == [kind : {"context", "count"}, vid : Vid]
Output == [name : Text, ref : FieldRef]

VARIABLES query,
          at,                \* the next item of the query
          nextVid,           \* the next vertex id
          components,        \* the components being made, outermost first
          vidStack,          \* OutputHandler.vid_stack
          prefixes,          \* OutputHandler.prefixes
          componentOutputs,  \* OutputHandler.component_outputs_stack
          globalOutputs,     \* OutputHandler.global_outputs
          phase,
          folding,           \* the @fold whose count is being output
          made               \* the outputs of the components and folds made

vars == <<query, at, nextVid, components, vidStack, prefixes, componentOutputs, globalOutputs,
          phase, folding, made>>

AllButLast(seq) == SubSeq(seq, 1, Len(seq) - 1)

Component == Last(components)
Failing == [components EXCEPT ![Len(components)].failed = TRUE]
Begun(root) == [root |-> root, vertices |-> {root}, failed |-> FALSE]

Init ==
  /\ query \in Queries
  /\ at = 1
  /\ nextVid = RootVid + 1
  /\ components = <<Begun(RootVid)>>
  /\ vidStack = << >>
  /\ prefixes = << >>
  /\ componentOutputs = << << >> >>
  /\ globalOutputs = << >>
  /\ phase = "fill"
  /\ folding = [root |-> RootVid, field |-> 0, next |-> 1]
  /\ made = {}

-----------------------------------------------------------------------------
(* fill_in_vertex_data goes through the fields.                            *)

\* The next field of the query, of one kind.
Field(kind) ==
  /\ phase = "fill"
  /\ at \in DOMAIN query
  /\ query[at].kind = kind

OpenVid == IF vidStack = << >> THEN RootVid ELSE Last(vidStack)

\* The prefixes with that of the next vertex.
AddPrefix == [v \in DOMAIN prefixes \cup {nextVid} |->
                IF v = nextVid THEN query[at].alias ELSE prefixes[v]]

BeginNestedScope ==
  /\ nextVid' = nextVid + 1
  /\ vidStack' = Append(vidStack, nextVid)
  /\ prefixes' = AddPrefix

EndNestedScope == vidStack' = AllButLast(vidStack)

\* An edge without @fold stays in the component.
VisitEdge ==
  /\ Field("edge") /\ ~ query[at].fold
  /\ BeginNestedScope
  /\ components' = [components EXCEPT ![Len(components)] =
                      [Component EXCEPT !.vertices = @ \cup {nextVid},
                                        !.failed = @ \/ query[at].error # "none"]]
  /\ at' = at + 1
  /\ UNCHANGED <<query, componentOutputs, globalOutputs, phase, folding, made>>

\* make_fold begins a component.
BeginFold ==
  /\ Field("edge") /\ query[at].fold
  /\ query[at].error # "parameters"
  /\ BeginNestedScope
  /\ components' = Append(IF query[at].error = "outside" THEN Failing ELSE components,
                          [Begun(nextVid) EXCEPT !.failed = query[at].error = "inside"])
  /\ componentOutputs' = Append(componentOutputs, << >>)
  /\ at' = at + 1
  /\ UNCHANGED <<query, globalOutputs, phase, folding, made>>

\* The field that closes the vertex that this one opens.
ClosedBy(i) ==
  LET fields(j, kind) == Cardinality({k \in i..j : query[k].kind = kind})
  IN Min({j \in i..Len(query) : fields(j, "edge") = fields(j, "close")})

\* A @fold with bad parameters is not made: nothing in it is looked at.
SkipFold ==
  /\ Field("edge") /\ query[at].fold
  /\ query[at].error = "parameters"
  /\ nextVid' = nextVid + 1
  /\ prefixes' = AddPrefix
  /\ components' = Failing
  /\ at' = ClosedBy(at) + 1
  /\ UNCHANGED <<query, vidStack, componentOutputs, globalOutputs, phase, folding, made>>

\* Mutant of MakeOutputName: only the innermost alias is a prefix.
InnermostOutputName(local, suffix) ==
  (IF vidStack = << >> THEN << >> ELSE prefixes[Last(vidStack)]) \o local \o suffix

\* make_output_name: the aliases of all edges around, joined with the name.
MakeOutputName(local, suffix) ==
  FlattenSeq([i \in DOMAIN vidStack |-> prefixes[vidStack[i]]]) \o local \o suffix

RegisterOutput(output) ==
  /\ componentOutputs' = [componentOutputs EXCEPT ![Len(componentOutputs)] = Append(@, output)]
  /\ globalOutputs' = Append(globalOutputs, output)

\* register_explicitly_named_output, or register_locally_named_output
OutputProperty ==
  /\ Field("output")
  /\ LET directive == query[at].output
         name == IF directive.explicit # None THEN directive.explicit
                 ELSE MakeOutputName(directive.local, << >>)
     IN RegisterOutput([name |-> name, ref |-> [kind |-> "context", vid |-> OpenVid]])
  /\ at' = at + 1
  /\ UNCHANGED <<query, nextVid, components, vidStack, prefixes, phase, folding, made>>

CloseVertex ==
  /\ Field("close")
  /\ OpenVid # Component.root
  /\ EndNestedScope
  /\ at' = at + 1
  /\ UNCHANGED <<query, nextVid, components, prefixes, componentOutputs, globalOutputs, phase,
                 folding, made>>

-----------------------------------------------------------------------------
(* make_query_component and make_fold.                                     *)

\* The outputs whose names try_collect_unique finds more than once.
Duplicates(outputs) ==
  {outputs[i] : i \in {j \in DOMAIN outputs :
                         \E k \in DOMAIN outputs \ {j} : outputs[k].name = outputs[j].name}}

\* All fields of the component have been seen.
Filled == Field("close") /\ OpenVid = Component.root

\* The component is not made.  The one around has the error, and the @fold's scope
\* ends; for the root, make_ir_for_query returns.
ReturnErrors ==
  IF Len(components) = 1
    THEN phase' = "rejected" /\ UNCHANGED <<components, vidStack>>
    ELSE /\ components' = [AllButLast(components) EXCEPT ![Len(components) - 1].failed = TRUE]
         /\ EndNestedScope
         /\ UNCHANGED phase

\* Mutant of AbandonComponent: the component around does not have the error.
AbandonQuietly ==
  /\ Filled /\ Component.failed
  /\ IF Len(components) = 1
       THEN phase' = "rejected" /\ UNCHANGED <<components, vidStack>>
       ELSE /\ components' = AllButLast(components)
            /\ EndNestedScope
            /\ UNCHANGED phase
  /\ at' = at + 1
  /\ UNCHANGED <<query, nextVid, prefixes, componentOutputs, globalOutputs, folding, made>>

\* An error in the component: its outputs stay on the stack.
AbandonComponent ==
  /\ Filled /\ Component.failed
  /\ ReturnErrors
  /\ at' = at + 1
  /\ UNCHANGED <<query, nextVid, prefixes, componentOutputs, globalOutputs, folding, made>>

\* check_for_duplicate_output_names fails, and make_duplicated_output_names_error
\* looks up each vertex by its id: that of a count is a vertex of its @fold.
RejectDuplicates ==
  /\ Filled /\ ~ Component.failed
  /\ Duplicates(Last(componentOutputs)) # {}
  /\ componentOutputs' = AllButLast(componentOutputs)
  /\ IF \A o \in Duplicates(Last(componentOutputs)) : o.ref.vid \in Component.vertices
       THEN ReturnErrors
       ELSE phase' = "lookup failed" /\ UNCHANGED <<components, vidStack>>
  /\ at' = at + 1
  /\ UNCHANGED <<query, nextVid, prefixes, globalOutputs, folding, made>>

Opener(i) == CHOOSE j \in DOMAIN query : query[j].kind = "edge" /\ ClosedBy(j) = i

\* The component is made with the properties among its outputs.
EndComponent ==
  /\ Filled /\ ~ Component.failed
  /\ Duplicates(Last(componentOutputs)) = {}
  /\ componentOutputs' = AllButLast(componentOutputs)
  /\ made' = made \cup {[kind |-> "component", root |-> Component.root,
                         outputs |-> {o \in ToSet(Last(componentOutputs)) : o.ref.kind = "context"}]}
  /\ IF Len(components) = 1
       THEN phase' = "finish" /\ UNCHANGED <<components, folding>>
       ELSE /\ phase' = "counts"
            /\ components' = AllButLast(components)
            /\ folding' = [root |-> Component.root, field |-> Opener(at), next |-> 1]
  /\ at' = at + 1
  /\ UNCHANGED <<query, nextVid, vidStack, prefixes, globalOutputs>>

\* The names of a count's outputs: an alias is a prefix already.
LocalCountName(edge) == IF edge.alias = << >> THEN edge.name ELSE << >>

CountName(edge, i) == IF edge.counts[i] # None THEN edge.counts[i]
                      ELSE MakeOutputName(LocalCountName(edge), Count)

\* make_fold registers an output of the @fold's count with the component around.
OutputCount ==
  /\ phase = "counts"
  /\ folding.next \in DOMAIN query[folding.field].counts
  /\ RegisterOutput([name |-> CountName(query[folding.field], folding.next),
                     ref |-> [kind |-> "count", vid |-> folding.root]])
  /\ folding' = [folding EXCEPT !.next = @ + 1]
  /\ UNCHANGED <<query, at, nextVid, components, vidStack, prefixes, phase, made>>

\* The @fold is made, unless two of its counts' outputs have the same name or
\* there was another error at its count.
EndFold ==
  /\ phase = "counts"
  /\ folding.next \notin DOMAIN query[folding.field].counts
  /\ LET edge == query[folding.field]
         names == [i \in DOMAIN edge.counts |-> CountName(edge, i)]
     IN IF edge.error = "count" \/ ~ IsInjective(names)
          THEN components' = Failing /\ UNCHANGED made
          ELSE /\ made' = made \cup {[kind |-> "fold", root |-> folding.root,
                                     outputs |-> {[name |-> n, ref |-> [kind |-> "count",
                                                                        vid |-> folding.root]] :
                                                    n \in ToSet(names)}]}
               /\ UNCHANGED components
  /\ EndNestedScope
  /\ phase' = "fill"
  /\ UNCHANGED <<query, at, nextVid, prefixes, componentOutputs, globalOutputs, folding>>

\* Mutant of Finish: names only have to differ in each component.
FinishByComponent ==
  /\ phase = "finish"
  /\ phase' = IF vidStack # << >> \/ componentOutputs # << >> THEN "assertion failed" ELSE "accepted"
  /\ UNCHANGED <<query, at, nextVid, components, vidStack, prefixes, componentOutputs,
                 globalOutputs, folding, made>>

\* make_ir_for_query: OutputHandler::finish asserts that both stacks are empty, and
\* the names of all components are looked at together.
Finish ==
  /\ phase = "finish"
  /\ phase' = IF vidStack # << >> \/ componentOutputs # << >> THEN "assertion failed"
              ELSE IF Duplicates(globalOutputs) # {} THEN "rejected" ELSE "accepted"
  /\ UNCHANGED <<query, at, nextVid, components, vidStack, prefixes, componentOutputs,
                 globalOutputs, folding, made>>

Done == /\ phase \in {"accepted", "rejected", "lookup failed", "assertion failed"}
        /\ UNCHANGED vars

Next == \/ VisitEdge \/ BeginFold \/ SkipFold \/ OutputProperty \/ CloseVertex
        \/ AbandonComponent \/ RejectDuplicates \/ EndComponent
        \/ OutputCount \/ EndFold \/ Finish \/ Done

Spec == Init /\ [][Next]_vars

-----------------------------------------------------------------------------
(* What the outputs of a query are, from its fields alone.                 *)

\* The fields whose vertices are open after each field.
Opened ==
  LET stack[i \in 0..Len(query)] ==
        IF i = 0 THEN << >>
        ELSE CASE query[i].kind = "edge" -> Append(stack[i - 1], i)
               [] query[i].kind = "close" -> AllButLast(stack[i - 1])
               [] query[i].kind = "output" -> stack[i - 1]
  IN stack

\* The vertex that a field opens, if nothing before it is skipped.
VidAt(i) == RootVid + Cardinality({j \in 1..i : query[j].kind = "edge"})

\* The open vertex, and the root of its component, after a field.
VertexAt(i) == VidAt(IF Opened[i] = << >> THEN 0 ELSE Last(Opened[i]))
RootAt(i) == LET folds == {j \in ToSet(Opened[i]) : query[j].fold}
             IN VidAt(IF folds = {} THEN 0 ELSE Max(folds))

PrefixAt(i) == FlattenSeq([d \in DOMAIN Opened[i] |-> query[Opened[i][d]].alias])

Edges == {i \in DOMAIN query : query[i].kind = "edge"}
Folds == {i \in Edges : query[i].fold}

PropertyOutputs ==
  {[at |-> i, root |-> RootAt(i), ref |-> [kind |-> "context", vid |-> VertexAt(i)],
    name |-> IF query[i].output.explicit # None THEN query[i].output.explicit
             ELSE PrefixAt(i) \o query[i].output.local] :
     i \in {j \in DOMAIN query : query[j].kind = "output"}}

CountOutputs ==
  UNION {{[at |-> <<i, c>>, root |-> VidAt(i), ref |-> [kind |-> "count", vid |-> VidAt(i)],
           name |-> IF query[i].counts[c] # None THEN query[i].counts[c]
                    ELSE PrefixAt(i) \o LocalCountName(query[i]) \o Count] :
             c \in DOMAIN query[i].counts} : i \in Folds}

\* The outputs of a component's vertices, or of its count.
OutputsOf(outputs, root) ==
  {[name |-> o.name, ref |-> o.ref] : o \in {p \in outputs : p.root = root}}

Valid ==
  /\ \A i \in Edges : query[i].error = "none"
  /\ \A o, p \in PropertyOutputs : o.name = p.name => o = p
  /\ \A o, p \in CountOutputs : o.name = p.name => o = p
  /\ \A o \in PropertyOutputs, p \in CountOutputs : o.name # p.name

-----------------------------------------------------------------------------

\* Every variable holds what its field in the code may hold, and the handler's
\* stacks are not empty where the code expects them not to be.
TypeOK ==
  /\ at \in 1..(Len(query) + 1) /\ (phase = "fill" => at \in DOMAIN query)
  /\ nextVid \in Vid
  /\ components \in Seq([root : Vid, vertices : SUBSET Vid, failed : BOOLEAN])
  /\ components # << >>
  /\ vidStack \in Seq(Vid) /\ (phase = "counts" => vidStack # << >>)
  /\ DOMAIN prefixes \subseteq Vid /\ ToSet(vidStack) \subseteq DOMAIN prefixes
  /\ \A v \in DOMAIN prefixes : prefixes[v] \in Text
  /\ componentOutputs \in Seq(Seq(Output))
  /\ phase \in {"fill", "counts"} => componentOutputs # << >>
  /\ globalOutputs \in Seq(Output)
  /\ phase \in {"fill", "counts", "finish", "accepted", "rejected", "lookup failed",
                "assertion failed"}
  /\ folding \in [root : Vid, field : Nat, next : Nat]
  /\ made \subseteq [kind : {"component", "fold"}, root : Vid, outputs : SUBSET Output]

\* The outputs of abandoned components only stay on the stack while a component
\* around has an error, so that finish(), which asserts that nothing is left on
\* either stack, is not reached with them.
LeftOnlyByErrors ==
  /\ phase # "assertion failed"
  /\ phase \in {"fill", "counts"} =>
       /\ Len(componentOutputs) >= Len(components)
       /\ Len(componentOutputs) > Len(components) => \E i \in DOMAIN components : components[i].failed

\* A query is accepted if, and only if, it has no other error and the names of all
\* its outputs differ, whichever components they are in and however they come by
\* their prefixes.
AcceptsTheValid == /\ phase = "accepted" => Valid
                   /\ phase \in {"rejected", "lookup failed"} => ~ Valid

\* Each component of an accepted query gets the outputs of its own vertices, each
\* @fold those of its count, under the names that their scopes give them.
OutputsWithTheirComponent ==
  phase = "accepted" =>
    made = {[kind |-> "component", root |-> r, outputs |-> OutputsOf(PropertyOutputs, r)] :
              r \in {RootVid} \cup {VidAt(i) : i \in Folds}}
           \cup {[kind |-> "fold", root |-> VidAt(i), outputs |-> OutputsOf(CountOutputs, VidAt(i))] :
              i \in Folds}

\* "Multiple fields are being output under the same name": outputs of one name are
\* reported so.
DuplicatesAreReported == phase # "lookup failed"
=============================================================================
