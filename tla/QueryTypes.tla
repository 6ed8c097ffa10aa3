------------------------------ MODULE QueryTypes ------------------------------
(***************************************************************************)
(* A query against a schema that was accepted: the types the frontend      *)
(* gives its vertices and edges, and what resolvers are called with.       *)
(*                                                                         *)
(* A query is one path of fields, since the type of a vertex depends only  *)
(* on the fields above it.  validate_field() goes down the path, then      *)
(* make_query_component() makes the edges and reports all their errors,    *)
(* then the interpreter resolves edge after edge.  An adapter may answer   *)
(* with a vertex of any type that its contract admits: vertices is the set *)
(* of the types the active vertices may have.                              *)
(***************************************************************************)
EXTENDS SchemaRules

CONSTANTS
  Typename,  \* the field that every type has
  Arguments, \* what may be given to an edge that has parameters
  MaxFields, \* fields in a path
  Depth      \* levels of a recursion

ASSUME TypenameIsReserved == Typename \in Reserved \ FieldName
ASSUME DepthIsPositive == Depth \in Nat \ {0}

VARIABLES
  steps,       \* the fields of the path, with the types found for them
  edges,       \* the edges made: their parameters, and where a recursion coerces to
  queryErrors, \* errors of edges
  calls,       \* calls of resolvers
  vertices     \* types the active vertices may have

queryVars == <<steps, edges, queryErrors, calls, vertices>>

\* The schema, once it is accepted.  The query has further phases.
schemaVars == <<doc, at, queryType, directives, scalars, vertexTypes, queue, remaining,
                origins, errors>>

TypedInit ==
  /\ Init
  /\ steps = << >> /\ edges = << >>
  /\ queryErrors = {} /\ calls = {} /\ vertices = {}

-----------------------------------------------------------------------------
(* validate_field                                                          *)

Has(t, n) == t \in VertexType /\ n \in FieldNames(t)

\* The type of the vertex above the next field.
Parent == IF steps = << >> THEN queryType ELSE steps[Len(steps)].type

\* The next field goes on from the last one, which is not a property.
Validating == phase = "validating" /\ Len(steps) < MaxFields

\* Only interfaces are coerced, to what implements them.
Coercible(from, to) ==
  /\ vertexTypes[from].kind = "interface"
  /\ to \in VertexType /\ from \in Implements(to)

Step(n, from, type, args, recursed) ==
  [name |-> n, from |-> from, type |-> type, args |-> args, recursed |-> recursed]

BeginQuery ==
  /\ phase = "accepted"
  /\ phase' = "validating"
  /\ UNCHANGED queryVars

ValidateField ==
  /\ Validating
  /\ \E n \in FieldName, to \in Name \cup {None}, recursed \in BOOLEAN :
       /\ Has(Parent, n)
       /\ LET f == FieldOf(Parent, n)
              from == f.type.base
          IN  /\ to = None \/ (from \in VertexType /\ Coercible(from, to))
              /\ recursed => from \in VertexType /\ steps # << >>
              /\ \E args \in IF f.params = << >> THEN {<< >>} ELSE Arguments :
                   steps' = Append(steps, Step(n, from, IF to = None THEN from ELSE to, args, recursed))
  /\ UNCHANGED <<phase, edges, queryErrors, calls, vertices>>

\* A property that every type has, and scalars too as far as this check goes.
ValidateTypename ==
  /\ Validating /\ Parent # Typename
  /\ steps' = Append(steps, Step(Typename, Typename, Typename, << >>, FALSE))
  /\ UNCHANGED <<phase, edges, queryErrors, calls, vertices>>

\* NonExistentPath, CannotCoerceNonInterfaceType, CannotCoerceToUnrelatedType,
\* NonExistentType; PropertyMetaFieldUsedAsEdge if a field follows __typename.
RefuseField ==
  /\ Validating
  /\ \/ \E n \in FieldName : ~ Has(Parent, n)
     \/ \E n \in FieldName, to \in Name :
          /\ Has(Parent, n)
          /\ FieldOf(Parent, n).type.base \in VertexType
          /\ ~ Coercible(FieldOf(Parent, n).type.base, to)
     \/ Parent = Typename
  /\ phase' = "queryRejected"
  /\ UNCHANGED <<steps, edges, queryErrors, calls, vertices>>

\* `schema.vertex_types[pre_coercion_type_name]`, of a property that is coerced.
CoercedPropertyPanics ==
  /\ Validating
  /\ \E n \in FieldName : Has(Parent, n) /\ FieldOf(Parent, n).type.base \notin VertexType
  /\ phase' = "queryPanicked"
  /\ UNCHANGED <<steps, edges, queryErrors, calls, vertices>>

Validated ==
  /\ phase = "validating" /\ steps # << >>
  /\ phase' = "makingEdges"
  /\ UNCHANGED <<steps, edges, queryErrors, calls, vertices>>

-----------------------------------------------------------------------------
(* make_ir_for_query and make_query_component                              *)

\* The edges of the path are its first fields.  Below a property nothing is read.
EdgeCount == Cardinality({i \in DOMAIN steps : steps[i].type \in VertexType})

From(i) == IF i = 1 THEN queryType ELSE steps[i - 1].type
EdgeDefinition(i) == FieldOf(From(i), steps[i].name)

NullValue == {[depth |-> 1, kind |-> "null"]}

\* Mutant of ImplicitValue: what is left out is null.
NullIfLeftOut(param) == IF param.default # None THEN param.default ELSE NullValue

\* What a parameter is if it is left out; None if it must not be.
ImplicitValue(param) ==
  IF param.default # None THEN param.default ELSE IF param.type.nullable[1] THEN NullValue ELSE None

MakeEdgeParameters(f, args) ==
  [p \in DOMAIN f.params |-> IF p \in DOMAIN args THEN args[p] ELSE ImplicitValue(f.params[p])]

ParameterErrors(f, args) ==
  {<<"InvalidEdgeParameterType", p>> : p \in
     {p \in DOMAIN f.params \cap DOMAIN args : ~ Valid(f.params[p].type, args[p])}}
  \cup {<<"MissingRequiredEdgeParameter", p>> : p \in
     {p \in DOMAIN f.params : MakeEdgeParameters(f, args)[p] = None}}
  \cup {<<"UnexpectedEdgeParameter", p>> : p \in DOMAIN args \ DOMAIN f.params}

\* Mutant of RecursesAsIs: it is enough that the destination has the edge.
RecursesIfThere(destination, n) == Has(destination, n)

\* Where the recursion gets on as it began: cases 3 and 4a.
RecursesAsIs(destination, n) ==
  Has(destination, n) /\ FieldOf(destination, n).type.base = destination

\* The type that the field of the source comes from.
OriginType(source, n) == CHOOSE t \in origins[source][n] : TRUE

NeedsCoercion(source, f) == source # f.type.base /\ ~ Has(f.type.base, f.name)

\* get_recurse_implicit_coercion
RecursionErrors(source, f) ==
  LET destination == f.type.base IN
  IF ~ IsNamedTypeSubtype(destination, source)
  THEN {IF IsNamedTypeSubtype(source, destination) THEN "RecursionToSubtype" ELSE "RecursingNonRecursableEdge"}
  ELSE IF ~ NeedsCoercion(source, f)
  THEN IF source = destination \/ RecursesAsIs(destination, f.name) THEN {}
       ELSE {"EdgeRecursionNeedingMultipleCoercions"}
  ELSE IF Cardinality(origins[source][f.name]) > 1 THEN {"AmbiguousOriginEdgeRecursion"}
  ELSE IF FieldOf(OriginType(source, f.name), f.name).type.base = destination THEN {}
  ELSE {"EdgeRecursionNeedingMultipleCoercions"}

MakeEdge ==
  /\ phase = "makingEdges" /\ Len(edges) < EdgeCount
  /\ LET i == Len(edges) + 1
         f == EdgeDefinition(i)
         refused == IF steps[i].recursed THEN RecursionErrors(From(i), f) ELSE {}
     IN  /\ queryErrors' = queryErrors \cup ParameterErrors(f, steps[i].args) \cup {<<e, i>> : e \in refused}
         /\ edges' = Append(edges,
              [parameters |-> MakeEdgeParameters(f, steps[i].args),
               coerceTo |-> IF steps[i].recursed /\ refused = {} /\ NeedsCoercion(From(i), f)
                            THEN OriginType(From(i), f.name) ELSE None])
  /\ UNCHANGED <<phase, steps, calls, vertices>>

\* The edge of the root is looked up before anything else is done.
RootTypenamePanics ==
  /\ phase = "makingEdges" /\ steps[1].name = Typename
  /\ phase' = "queryPanicked"
  /\ UNCHANGED <<steps, edges, queryErrors, calls, vertices>>

EdgesMade ==
  /\ phase = "makingEdges" /\ Len(edges) = EdgeCount /\ EdgeCount > 0
  /\ phase' = IF queryErrors = {} THEN "resolving" ELSE "queryRejected"
  /\ edges' = IF queryErrors = {} THEN edges ELSE << >>
  /\ UNCHANGED <<steps, queryErrors, calls, vertices>>

-----------------------------------------------------------------------------
(* The calls of resolvers.  edges holds the edges that are still to expand. *)

Call(kind, type, about, parameters, of, deeper) ==
  [kind |-> kind, type |-> type, about |-> about, parameters |-> parameters, vertices |-> of,
   deeper |-> deeper]

\* What an edge may lead to.
Ends(type, n) == Subtypes(FieldOf(type, n).type.base)

\* coerce_if_needed
Coerced(step, of) == IF step.from = step.type THEN of ELSE of \cap Subtypes(step.type)
CoercionCalls(step, of) ==
  IF step.from = step.type THEN {} ELSE {Call("coercion", step.from, step.type, << >>, of, FALSE)}

ThisEdge == EdgeCount - Len(edges) + 1

ResolveStartingVertices ==
  /\ phase = "resolving" /\ edges # << >> /\ ThisEdge = 1
  /\ LET step == steps[1]
         found == Ends(queryType, step.name)
     IN  /\ calls' = {Call("starting", queryType, step.name, edges[1].parameters, {queryType}, FALSE)}
                       \cup CoercionCalls(step, found)
         /\ vertices' = Coerced(step, found)
  /\ edges' = Tail(edges)
  /\ UNCHANGED <<phase, steps, queryErrors>>

ExpandNonRecursiveEdge ==
  /\ phase = "resolving" /\ edges # << >> /\ ThisEdge > 1 /\ ~ steps[ThisEdge].recursed
  /\ LET step == steps[ThisEdge]
         found == Ends(From(ThisEdge), step.name)
     IN  /\ calls' = calls
              \cup {Call("neighbors", From(ThisEdge), step.name, edges[1].parameters, vertices, FALSE)}
              \cup CoercionCalls(step, found)
         /\ vertices' = Coerced(step, found)
  /\ edges' = Tail(edges)
  /\ UNCHANGED <<phase, steps, queryErrors>>

\* From the second level on, the edge is resolved on the type it leads to, or on the
\* implicit coercion, and what cannot be coerced goes no deeper.
ExpandRecursiveEdge ==
  /\ phase = "resolving" /\ edges # << >> /\ ThisEdge > 1 /\ steps[ThisEdge].recursed
  /\ LET step == steps[ThisEdge]
         to == edges[1].coerceTo
         recursingFrom == IF to = None THEN step.from ELSE to
         Kept(of) == IF to = None THEN of ELSE of \cap Subtypes(to)
         level[l \in 0..Depth] ==
           IF l = 0 THEN vertices
           ELSE IF l = 1 THEN Ends(From(ThisEdge), step.name)
           ELSE Ends(recursingFrom, step.name)
         found == UNION {level[l] : l \in 0..Depth}
     IN  /\ calls' = calls
              \cup {Call("neighbors", From(ThisEdge), step.name, edges[1].parameters, vertices, FALSE)}
              \cup (UNION {{Call("neighbors", recursingFrom, step.name, edges[1].parameters, Kept(level[l - 1]), TRUE)}
                     \cup (IF to = None THEN {} ELSE {Call("coercion", step.from, to, << >>, level[l - 1], TRUE)}) :
                     l \in 2..Depth})
              \cup CoercionCalls(step, found)
         /\ vertices' = Coerced(step, found)
  /\ edges' = Tail(edges)
  /\ UNCHANGED <<phase, steps, queryErrors>>

\* The property below the last edge, if the path has one.
ResolveProperty ==
  /\ phase = "resolving" /\ edges = << >>
  /\ phase' = "answered"
  /\ calls' = IF EdgeCount = Len(steps) THEN calls
              ELSE calls \cup {Call("property", From(EdgeCount + 1), steps[EdgeCount + 1].name, << >>, vertices, FALSE)}
  /\ UNCHANGED <<steps, edges, queryErrors, vertices>>

Finished == phase \in {"answered", "queryRejected", "queryPanicked"} /\ UNCHANGED <<phase, queryVars>>

QueryNext ==
  /\ \/ BeginQuery \/ ValidateField \/ ValidateTypename \/ RefuseField \/ CoercedPropertyPanics \/ Validated
     \/ MakeEdge \/ RootTypenamePanics \/ EdgesMade
     \/ ResolveStartingVertices \/ ExpandNonRecursiveEdge \/ ExpandRecursiveEdge \/ ResolveProperty
     \/ Finished
  /\ UNCHANGED schemaVars

\* The schema is made first.
TypedNext == (Next /\ UNCHANGED queryVars) \/ QueryNext

TypedSpec == TypedInit /\ [][TypedNext]_<<vars, queryVars>>

-----------------------------------------------------------------------------
\* Resolvers are called with a type that all vertices are of and that has the
\* field, whichever way of coercions and recursions led there: what the Adapter
\* trait says its caller guarantees.
CallsAreTyped ==
  \A c \in calls :
    /\ c.vertices \subseteq Subtypes(c.type)
    /\ c.kind \in {"starting", "neighbors"} => Has(c.type, c.about) /\ IsEdge(FieldOf(c.type, c.about))
    /\ c.kind = "property" =>
         c.about = Typename \/ (Has(c.type, c.about) /\ IsProperty(FieldOf(c.type, c.about)))
    /\ c.kind = "coercion" /\ ~ c.deeper =>
         vertexTypes[c.type].kind = "interface" /\ c.about \in Subtypes(c.type)

Suitable(parameters, f) ==
  /\ DOMAIN parameters = DOMAIN f.params
  /\ \A p \in DOMAIN parameters : parameters[p] # None /\ Valid(f.params[p].type, parameters[p])

\* Where an edge is resolved, its parameters suit the edge of every type that a
\* vertex may have.
ParametersFit ==
  \A c \in calls :
    c.kind \in {"starting", "neighbors"} /\ ~ c.deeper =>
      \A t \in c.vertices : Suitable(c.parameters, FieldOf(t, c.about))

\* "The caller guarantees that `coerce_to_type` is a type or interface that implements
\* `type_name`", between the levels of a recursion too.
ImplicitCoercionsDescend ==
  \A c \in calls : c.kind = "coercion" => c.about \in Subtypes(c.type)

\* The parameters of a recursion suit the edge at every level.
RecursionParametersFit ==
  \A c \in calls :
    c.kind = "neighbors" => \A t \in c.vertices : Suitable(c.parameters, FieldOf(t, c.about))
=============================================================================
