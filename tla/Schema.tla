-------------------------------- MODULE Schema --------------------------------
(***************************************************************************)
(* Making a schema out of a document: Schema::new() and the checks it      *)
(* makes, in trustfall_core/src/schema/mod.rs, and what a schema is asked  *)
(* afterwards.                                                             *)
(*                                                                         *)
(* The definitions are read one by one.  Then the origin of every field is *)
(* found, from the interfaces down: a type is resolved once all it         *)
(* implements are.  If types are left over, the document is rejected at    *)
(* once; otherwise six checks add their errors.                            *)
(*                                                                         *)
(* The types are kept in hash maps, so the order in which they are visited *)
(* is arbitrary: queue is the set of the types that wait.  Origins are     *)
(* sets of types: SingleAncestor is a set of one, and adding two origins   *)
(* is their union.                                                         *)
(***************************************************************************)
EXTENDS Types, FiniteSets

CONSTANTS
  None,
  Name,      \* names of types
  FieldName, \* names of fields
  Reserved,  \* the names that begin with the reserved prefix
  Docs       \* the documents considered

BuiltinScalars == {"Int", "Float", "String", "Boolean", "ID"}

\* The nullability of every layer of a type, of which there is at least one.
IsLayered(type) == type.nullable \in Seq(BOOLEAN) /\ type.nullable # << >>

\* A schema definition names a query type.  Fields are records of a name, a type and
\* parameters; a parameter has a type and a default, which may be None.
IsDefinition(d) ==
  \/ d.kind = "schema" /\ d.query \in Name
  \/ d.kind \in {"directive", "scalar", "enum", "union", "input"} /\ d.name \in Name
  \/ /\ d.kind \in {"object", "interface"} /\ d.name \in Name
     /\ d.implements \in Seq(Name)
     /\ d.fields \in Seq({d.fields[i] : i \in DOMAIN d.fields})
     /\ \A i \in DOMAIN d.fields :
          /\ d.fields[i].name \in FieldName
          /\ d.fields[i].type.base \in Name /\ IsLayered(d.fields[i].type)
          /\ \A p \in DOMAIN d.fields[i].params : IsLayered(d.fields[i].params[p].type)

ASSUME DocsAreDocuments ==
  \A d \in Docs : d \in Seq({d[i] : i \in DOMAIN d}) /\ \A i \in DOMAIN d : IsDefinition(d[i])
ASSUME NoneIsNoName == None \notin Name

VARIABLES
  doc,         \* the definitions of the document
  phase,
  at,          \* the next definition, or the next check
  queryType,   \* the query type the schema definition names
  directives,  \* names of the directives
  scalars,     \* names of the scalars
  vertexTypes, \* the definition of each object and interface
  queue,       \* types whose interfaces have been resolved
  remaining,   \* the interfaces of a type that have not been resolved
  origins,     \* where each field of a resolved type comes from
  errors

vars == <<doc, phase, at, queryType, directives, scalars, vertexTypes, queue,
          remaining, origins, errors>>

Elements(s) == {s[i] : i \in DOMAIN s}

VertexType == DOMAIN vertexTypes
Implements(t) == Elements(vertexTypes[t].implements)
Fields(t) == Elements(vertexTypes[t].fields)
FieldNames(t) == {f.name : f \in Fields(t)}
FieldOf(t, n) == CHOOSE f \in Fields(t) : f.name = n

Init ==
  /\ doc \in Docs
  /\ phase = "definitions"
  /\ at = 1
  /\ queryType = None
  /\ directives = {}
  /\ scalars = {}
  /\ vertexTypes = << >>
  /\ queue = {}
  /\ remaining = << >>
  /\ origins = << >>
  /\ errors = {}

Panic ==
  /\ phase' = "panicked"
  /\ UNCHANGED <<doc, at, queryType, directives, scalars, vertexTypes, queue,
                 remaining, origins, errors>>

-----------------------------------------------------------------------------
(* The definitions.                                                        *)

Reading(kinds) == phase = "definitions" /\ at \in DOMAIN doc /\ doc[at].kind \in kinds

SchemaDefinition ==
  /\ Reading({"schema"})
  /\ queryType = None /\ ~ doc[at].extend
  /\ queryType' = doc[at].query
  /\ at' = at + 1
  /\ UNCHANGED <<doc, phase, directives, scalars, vertexTypes, queue, remaining,
                 origins, errors>>

DirectiveDefinition ==
  /\ Reading({"directive"})
  /\ doc[at].name \notin directives
  /\ directives' = directives \cup {doc[at].name}
  /\ at' = at + 1
  /\ UNCHANGED <<doc, phase, queryType, scalars, vertexTypes, queue, remaining,
                 origins, errors>>

ScalarDefinition ==
  /\ Reading({"scalar"})
  /\ doc[at].name \notin BuiltinScalars \cup scalars /\ ~ doc[at].extend
  /\ scalars' = scalars \cup {doc[at].name}
  /\ at' = at + 1
  /\ UNCHANGED <<doc, phase, queryType, directives, vertexTypes, queue, remaining,
                 origins, errors>>

FieldsDistinct(d) == Cardinality({f.name : f \in Elements(d.fields)}) = Len(d.fields)

VertexDefinition ==
  /\ Reading({"object", "interface"})
  /\ doc[at].name \notin BuiltinScalars \cup VertexType /\ ~ doc[at].extend
  /\ FieldsDistinct(doc[at])
  /\ vertexTypes' = [t \in VertexType \cup {doc[at].name} |->
                       IF t = doc[at].name THEN doc[at] ELSE vertexTypes[t]]
  /\ at' = at + 1
  /\ UNCHANGED <<doc, phase, queryType, directives, scalars, queue, remaining,
                 origins, errors>>

\* The assertions, unwrap()s and unimplemented!()s of the loop.
DefinitionPanics ==
  /\ phase = "definitions" /\ at \in DOMAIN doc
  /\ \/ doc[at].kind = "schema" /\ (queryType # None \/ doc[at].extend)
     \/ doc[at].kind = "directive" /\ doc[at].name \in directives
     \/ doc[at].kind = "scalar"
          /\ (doc[at].name \in BuiltinScalars \cup scalars \/ doc[at].extend)
     \/ doc[at].kind \in {"object", "interface"}
          /\ \/ doc[at].name \in BuiltinScalars \cup VertexType
             \/ doc[at].extend
             \/ ~ FieldsDistinct(doc[at])
     \/ doc[at].kind \in {"enum", "union", "input"}
  /\ Panic

\* The query type must be there, as an object.
QueryTypeDefined ==
  queryType \in VertexType /\ vertexTypes[queryType].kind = "object"

NoQueryType ==
  /\ phase = "definitions" /\ at \notin DOMAIN doc
  /\ ~ QueryTypeDefined
  /\ Panic

-----------------------------------------------------------------------------
(* get_field_origins                                                       *)

BeginOrigins ==
  /\ phase = "definitions" /\ at \notin DOMAIN doc
  /\ QueryTypeDefined
  /\ phase' = "origins"
  /\ remaining' = [t \in VertexType |-> Implements(t)]
  /\ queue' = {t \in VertexType : Implements(t) = {}}
  /\ UNCHANGED <<doc, at, queryType, directives, scalars, vertexTypes, origins, errors>>

\* Where the interfaces of t that have field n have it from.
Inherited(t, n) == UNION {origins[i][n] : i \in {i \in Implements(t) : n \in FieldNames(i)}}

\* Mutant of OriginOf: a field comes from the interfaces that have it.
OriginIsInterface(t, n) ==
  LET from == {i \in Implements(t) : n \in FieldNames(i)} IN IF from = {} THEN {t} ELSE from

OriginOf(t, n) == IF Inherited(t, n) = {} THEN {t} ELSE Inherited(t, n)

\* The types that waited for t alone.
NowResolvable(t) == {u \in VertexType : remaining[u] = {t}}

ResolveOrigins ==
  /\ phase = "origins"
  /\ \E t \in queue :
       /\ origins' = [u \in DOMAIN origins \cup {t} |->
                        IF u = t THEN [n \in FieldNames(t) |-> OriginOf(t, n)] ELSE origins[u]]
       /\ queue' = (queue \ {t}) \cup NowResolvable(t)
       /\ remaining' = [u \in VertexType |-> remaining[u] \ {t}]
  /\ UNCHANGED <<doc, phase, at, queryType, directives, scalars, vertexTypes, errors>>

\* Mutant of LeftOver: types none of whose interfaces has been resolved.
StillUntouched == {t \in VertexType : remaining[t] # {} /\ remaining[t] = Implements(t)}

LeftOver == {t \in VertexType : remaining[t] # {}}

\* The error names the first type that has something left to wait for, and what
\* it waits for.  Which type is first is a matter of their names.
CircularImplements ==
  /\ phase = "origins" /\ queue = {}
  /\ \E t \in LeftOver :
       errors' = {[error |-> "CircularImplementsRelationships", types |-> remaining[t] \cup {t}]}
  /\ phase' = "rejected"
  /\ UNCHANGED <<doc, at, queryType, directives, scalars, vertexTypes, queue, remaining, origins>>

OriginsFound ==
  /\ phase = "origins" /\ queue = {}
  /\ LeftOver = {}
  /\ phase' = "checks"
  /\ at' = 1
  /\ UNCHANGED <<doc, queryType, directives, scalars, vertexTypes, queue, remaining,
                 origins, errors>>

-----------------------------------------------------------------------------
(* The checks.  An error is named with the type and what it is about.      *)

Error(error, type, about) == [error |-> error, type |-> type, about |-> about]

\* What each type implements.
Pairs == {p \in VertexType \X VertexType : p[2] \in Implements(p[1])}

IsNamedTypeSubtype(parent, sub) ==
  parent = sub \/ (sub \in VertexType /\ parent \in Implements(sub))

IsSubtype(parent, sub) ==
  /\ Len(parent.nullable) = Len(sub.nullable)
  /\ \A l \in DOMAIN sub.nullable : sub.nullable[l] => parent.nullable[l]
  /\ IsNamedTypeSubtype(parent.base, sub.base)

\* Mutant of MissingTransitive: the interfaces of an interface may differ.
NeverMissing == {}

MissingTransitive ==
  UNION { {Error("MissingTransitiveInterfaceImplementation", p[1], <<p[2], i>>) :
              i \in Implements(p[2]) \ Implements(p[1])} : p \in Pairs }

\* The errors of a field that is inherited from a field of the interface.
Narrowing(type, interface, field, inherited) ==
  LET about == <<interface, field.name>>
      lacking == DOMAIN inherited.params \ DOMAIN field.params
      extra == DOMAIN field.params \ DOMAIN inherited.params
  IN  { Error(e, type, about) : e \in
          (IF IsSubtype(inherited.type, field.type) THEN {} ELSE {"InvalidTypeWideningOfInheritedField"})
          \cup (IF lacking = {} THEN {} ELSE {"InheritedFieldMissingParameters"})
          \cup (IF extra = {} THEN {} ELSE {"InheritedFieldUnexpectedParameters"}) }
      \cup { Error("InvalidTypeNarrowingOfInheritedFieldParameter", type, Append(about, p)) :
               p \in { p \in DOMAIN field.params \cap DOMAIN inherited.params :
                        ~ IsScalarOnlySubtype(field.params[p].type, inherited.params[p].type) } }

\* check_field_type_narrowing
BadNarrowing ==
  UNION { UNION { Narrowing(p[1], p[2], f, FieldOf(p[2], f.name)) :
                    f \in {f \in Fields(p[1]) : f.name \in FieldNames(p[2])} } : p \in Pairs }

\* check_fields_required_by_interface_implementations
MissingRequired ==
  UNION { {Error("MissingRequiredField", p[1], <<p[2], n>>) :
              n \in FieldNames(p[2]) \ FieldNames(p[1])} : p \in Pairs }

AmbiguousOrigins ==
  UNION { {Error("AmbiguousFieldOrigin", t, <<n>>) :
              n \in {n \in FieldNames(t) : Cardinality(origins[t][n]) > 1}} : t \in DOMAIN origins }

IsProperty(f) == f.type.base \in BuiltinScalars
IsEdge(f) == ~ IsProperty(f) /\ f.type.base \in VertexType

BadDefaults(f) ==
  {p \in DOMAIN f.params : /\ f.params[p].default # None
                           /\ ~ Valid(f.params[p].type, f.params[p].default)}

\* check_type_and_property_and_edge_invariants, of one field.
BadField(t, f) ==
  LET toRoot == f.type.base = queryType
  IN  { Error(e, t, <<f.name>>) : e \in
          (IF f.name \in Reserved THEN {"ReservedFieldName"} ELSE {})
          \cup (IF IsProperty(f) /\ f.params # << >> THEN {"PropertyFieldWithParameters"} ELSE {})
          \cup (IF IsEdge(f) /\ toRoot THEN {"EdgePointsToRootQueryType"} ELSE {})
          \cup (IF IsEdge(f) /\ ~ toRoot /\ Len(f.type.nullable) > 2 THEN {"InvalidEdgeType"} ELSE {}) }
      \cup { Error("InvalidDefaultValueForFieldParameter", t, <<f.name, p>>) :
               p \in IF IsEdge(f) /\ ~ toRoot THEN BadDefaults(f) ELSE {} }

BadTypesAndFields ==
  {Error("ReservedTypeName", t, << >>) : t \in VertexType \cap Reserved}
    \cup UNION {UNION {BadField(t, f) : f \in Fields(t)} : t \in VertexType}

\* check_root_query_type_invariants
RootProperties ==
  {Error("PropertyFieldOnRootQueryType", queryType, <<f.name>>) : f \in {f \in Fields(queryType) : IsProperty(f)}}

ErrorsOfCheck(i) ==
  CASE i = 1 -> MissingTransitive [] i = 2 -> BadNarrowing [] i = 3 -> MissingRequired
    [] i = 4 -> AmbiguousOrigins [] i = 5 -> BadTypesAndFields [] i = 6 -> RootProperties

\* "neither an edge nor a property"
NeitherEdgeNorProperty ==
  \E t \in VertexType : \E f \in Fields(t) : ~ IsProperty(f) /\ ~ IsEdge(f)

Check ==
  /\ phase = "checks" /\ at \in 1..6
  /\ ~ (at = 5 /\ NeitherEdgeNorProperty)
  /\ errors' = errors \cup ErrorsOfCheck(at)
  /\ at' = at + 1
  /\ UNCHANGED <<doc, phase, queryType, directives, scalars, vertexTypes, queue,
                 remaining, origins>>

UnreachableField ==
  /\ phase = "checks" /\ at = 5 /\ NeitherEdgeNorProperty
  /\ Panic

ChecksDone ==
  /\ phase = "checks" /\ at = 7
  /\ phase' = IF errors = {} THEN "accepted" ELSE "rejected"
  /\ UNCHANGED <<doc, at, queryType, directives, scalars, vertexTypes, queue, remaining,
                 origins, errors>>

Done == phase \in {"accepted", "rejected", "panicked"} /\ UNCHANGED vars

Next ==
  \/ SchemaDefinition \/ DirectiveDefinition \/ ScalarDefinition \/ VertexDefinition
  \/ DefinitionPanics \/ NoQueryType
  \/ BeginOrigins \/ ResolveOrigins \/ CircularImplements \/ OriginsFound
  \/ Check \/ UnreachableField \/ ChecksDone
  \/ Done

Spec == Init /\ [][Next]_vars

-----------------------------------------------------------------------------
(* What a schema is asked.                                                 *)

Subtypes(t) == {u \in VertexType : u = t \/ t \in Implements(u)}

\* The first interface that has the property, if any.  The code goes on upwards from
\* there, and returns the first one in any case.
LowestCommonDenom(t, n) ==
  LET having == {i \in DOMAIN vertexTypes[t].implements : n \in FieldNames(vertexTypes[t].implements[i])}
  IN  IF having = {} THEN t
      ELSE vertexTypes[t].implements[CHOOSE i \in having : \A j \in having : i <= j]

-----------------------------------------------------------------------------
\* A set of types none of which can be resolved before the others: each
\* implements one of them, or something that is not defined.
Trap(types) ==
  /\ types # {} /\ types \subseteq VertexType
  /\ \A t \in types : Implements(t) \cap (types \cup (Name \ VertexType)) # {}

\* A circular implementation relationship is reported if, and only if, there is
\* one, or an interface is not defined, whichever types were visited first.
CircularIsExact ==
  /\ phase = "rejected" /\ (\E e \in errors : e.error = "CircularImplementsRelationships")
       => \E types \in SUBSET VertexType : Trap(types)
  /\ phase \in {"checks", "accepted"} => \A types \in SUBSET VertexType : ~ Trap(types)
=============================================================================
