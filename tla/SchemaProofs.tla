----------------------------- MODULE SchemaProofs -----------------------------
(***************************************************************************)
(* Proofs about Schema, SchemaRules and QueryTypes: whatever the documents *)
(* are and in whatever order their types are visited, circles are found    *)
(* exactly, fields come from where they should, the subtypes an accepted   *)
(* schema gives descend from each other, and a document is accepted        *)
(* exactly if it obeys the rules; and whatever the query, resolvers are    *)
(* called with vertices of the type that is named, and with parameters     *)
(* that suit the edge of each.                                             *)
(*                                                                         *)
(* IInv is the invariant of making a schema, Decided what has been found   *)
(* about the document, and TypedIInv adds what is known of the query.      *)
(***************************************************************************)
EXTENDS QueryTypes, FiniteSetTheorems, WellFoundedInduction, TLAPS

-----------------------------------------------------------------------------
(* Reaching types through interfaces.                                      *)

Closed(s, scope) == \A t \in s : Implements(t) \cap scope \subseteq s

\* Where one gets to from a type is closed.
LEMMA ReachedIsClosed ==
  ASSUME NEW from, NEW scope
  PROVE  /\ Reached(from, scope) \subseteq scope
         /\ from \cap scope \subseteq Reached(from, scope)
         /\ Closed(Reached(from, scope), scope)
BY DEF Reached, Closed

\* Where one gets to from t is t, and where one gets to from its interfaces.
LEMMA ReachedFromOne ==
  ASSUME NEW scope, NEW t \in scope
  PROVE  Reached({t}, scope)
           = {t} \cup UNION {Reached({i}, scope) : i \in Implements(t) \cap scope}
<1> DEFINE above == {t} \cup UNION {Reached({i}, scope) : i \in Implements(t) \cap scope}
<1>1. Reached({t}, scope) \subseteq above
  <2>1. above \subseteq scope
    <3>1. \A i : Reached({i}, scope) \subseteq scope
      BY DEF Reached
    <3> QED BY <3>1
  <2>2. ASSUME NEW u \in above PROVE Implements(u) \cap scope \subseteq above
    <3>1. CASE u = t
      <4>1. \A i \in Implements(t) \cap scope : i \in Reached({i}, scope)
        BY DEF Reached
      <4> QED BY <4>1, <3>1
    <3>2. CASE u # t
      <4>1. PICK i \in Implements(t) \cap scope : u \in Reached({i}, scope)
        BY <3>2
      <4>2. Implements(u) \cap scope \subseteq Reached({i}, scope)
        BY <4>1, ReachedIsClosed DEF Closed
      <4> QED BY <4>2
    <3> QED BY <3>1, <3>2
  <2>3. {t} \cap scope \subseteq above
    OBVIOUS
  <2> QED BY <2>1, <2>2, <2>3 DEF Reached
<1>2. above \subseteq Reached({t}, scope)
  <2>1. t \in Reached({t}, scope)
    BY DEF Reached
  <2>2. ASSUME NEW i \in Implements(t) \cap scope, NEW u \in Reached({i}, scope)
        PROVE  u \in Reached({t}, scope)
    BY <2>2 DEF Reached
  <2> QED BY <2>1, <2>2
<1> QED BY <1>1, <1>2

-----------------------------------------------------------------------------
(* After the definitions have been read, types stay what they are.         *)

\* What types list and have is about the definitions alone.
LEMMA SameTypes ==
  ASSUME vertexTypes' = vertexTypes
  PROVE  /\ VertexType' = VertexType
         /\ \A t : Implements(t)' = Implements(t)
         /\ \A t : FieldNames(t)' = FieldNames(t)
         /\ \A t, n : FieldOf(t, n)' = FieldOf(t, n)
<1>1. VertexType' = VertexType
  BY DEF VertexType
<1>2. \A t : Implements(t)' = Implements(t)
  BY DEF Implements, Elements
<1>3. \A t : Fields(t)' = Fields(t)
  BY DEF Fields, Elements
<1>4. \A t : FieldNames(t)' = FieldNames(t)
  BY <1>3 DEF FieldNames
<1>5. \A t, n : FieldOf(t, n)' = FieldOf(t, n)
  BY <1>3 DEF FieldOf
<1> QED BY <1>1, <1>2, <1>4, <1>5

\* So is where a field comes from.
LEMMA SameDefiners ==
  ASSUME vertexTypes' = vertexTypes
  PROVE  \A t, n : Definers(t, n)' = Definers(t, n)
<1>1. \A from, scope : Reached(from, scope)' = Reached(from, scope)
  BY SameTypes DEF Reached
<1> QED BY <1>1, SameTypes DEF Definers

\* So is which types wait for each other.
LEMMA SameTraps ==
  ASSUME vertexTypes' = vertexTypes, NEW types
  PROVE  Trap(types)' <=> Trap(types)
BY SameTypes DEF Trap

-----------------------------------------------------------------------------
(* The invariant.                                                          *)

\* Names are names.
Defined ==
  /\ doc \in Docs
  /\ VertexType \subseteq Name
  /\ \A t \in VertexType : Implements(t) \subseteq Name

\* What waits for what while origins are being found.
Waiting ==
  /\ \A t \in VertexType : remaining[t] = Implements(t) \ DOMAIN origins
  /\ queue = {t \in VertexType : remaining[t] = {}} \ DOMAIN origins

Progress ==
  /\ phase = "definitions" => DOMAIN origins = {} /\ errors = {}
  /\ phase = "origins" => errors = {} /\ Waiting
  /\ phase \in {"checks", "accepted"} => DOMAIN origins = VertexType

\* Whatever a resolved type implements is resolved, and nothing in a trap is.
Grounded ==
  /\ DOMAIN origins \subseteq VertexType
  /\ \A t \in DOMAIN origins : Implements(t) \subseteq DOMAIN origins
  /\ \A types : Trap(types) => types \cap DOMAIN origins = {}

\* Origins are right, and there are some, so that a field that is inherited is
\* never taken for one that is not.
FromDefiners ==
  \A t \in DOMAIN origins : \A n \in FieldNames(t) :
    origins[t][n] = Definers(t, n) /\ Definers(t, n) # {}

Reported ==
  \A e \in errors : e.error = "CircularImplementsRelationships" =>
    phase = "rejected" /\ \E types \in SUBSET VertexType : Trap(types)

\* What the checks leave, for a type and an interface it lists.
Transitive == \A t, i \in VertexType : i \in Implements(t) => Implements(i) \subseteq Implements(t)
Narrowed ==
  \A t, i \in VertexType : i \in Implements(t) =>
    \A n \in FieldNames(i) \cap FieldNames(t) :
      IsNamedTypeSubtype(FieldOf(i, n).type.base, FieldOf(t, n).type.base)
Required == \A t, i \in VertexType : i \in Implements(t) => FieldNames(i) \subseteq FieldNames(t)

Checked ==
  /\ phase = "checks" => at \in Nat
  /\ phase = "accepted" => errors = {} /\ at = 7
  /\ phase \in {"checks", "accepted"} /\ errors = {} =>
       (at > 1 => Transitive) /\ (at > 2 => Narrowed) /\ (at > 3 => Required)

IInv == Defined /\ Progress /\ Grounded /\ FromDefiners /\ Reported /\ Checked

-----------------------------------------------------------------------------
(* What keeps its parts.                                                   *)

\* Names stay names.
LEMMA DefinedKept ==
  ASSUME Defined, doc' = doc, vertexTypes' = vertexTypes
  PROVE  Defined'
BY SameTypes DEF Defined

\* What is known of origins stays true if no origin is added.
LEMMA OriginsKept ==
  ASSUME Grounded, FromDefiners, origins' = origins, vertexTypes' = vertexTypes
  PROVE  Grounded' /\ FromDefiners'
<1>1. Grounded'
  <2>1. \A types : Trap(types)' <=> Trap(types)
    BY SameTraps
  <2> QED BY <2>1, SameTypes DEF Grounded
<1>2. FromDefiners'
  BY SameTypes, SameDefiners DEF FromDefiners
<1> QED BY <1>1, <1>2

\* What has been reported stays reported.
LEMMA ReportedKept ==
  ASSUME Reported, errors' = errors, vertexTypes' = vertexTypes, phase # "rejected"
  PROVE  Reported'
BY DEF Reported

\* What earlier checks left stays true.
LEMMA RulesKept ==
  ASSUME vertexTypes' = vertexTypes
  PROVE  (Transitive => Transitive') /\ (Narrowed => Narrowed') /\ (Required => Required')
<1>1. Transitive => Transitive'
  BY SameTypes DEF Transitive
<1>2. \A t, i : IsNamedTypeSubtype(t, i)' <=> IsNamedTypeSubtype(t, i)
  BY SameTypes DEF IsNamedTypeSubtype
<1>3. Narrowed => Narrowed'
  BY <1>2, SameTypes DEF Narrowed
<1>4. Required => Required'
  BY SameTypes DEF Required
<1> QED BY <1>1, <1>3, <1>4

-----------------------------------------------------------------------------
(* The steps.                                                              *)

\* The invariant holds before anything is read.
LEMMA InitEstablishes == Init => IInv
<1> SUFFICES ASSUME Init PROVE IInv
  OBVIOUS
<1>1. DOMAIN << >> = {}
  OBVIOUS
<1>2. VertexType = {} /\ DOMAIN origins = {}
  BY <1>1 DEF Init, VertexType
<1>3. Defined
  BY <1>2 DEF Init, Defined
<1>4. Progress /\ Reported /\ Checked
  BY <1>2 DEF Init, Progress, Reported, Checked
<1>5. Grounded /\ FromDefiners
  BY <1>2 DEF Grounded, FromDefiners
<1> QED BY <1>3, <1>4, <1>5 DEF IInv

\* Reading a definition other than an object's or an interface's.
LEMMA OtherDefinitions ==
  ASSUME IInv, phase = "definitions",
         UNCHANGED <<doc, phase, vertexTypes, origins, errors>>
  PROVE  IInv'
<1>1. Defined'
  BY DefinedKept DEF IInv
<1>2. Grounded' /\ FromDefiners'
  BY OriginsKept DEF IInv
<1>3. Reported'
  BY ReportedKept DEF IInv
<1>4. Progress' /\ Checked'
  BY DEF IInv, Progress, Checked
<1> QED BY <1>1, <1>2, <1>3, <1>4 DEF IInv

\* A type that is read is defined from then on; nothing has been resolved yet.
LEMMA VertexDefinitionPreserves ==
  ASSUME IInv, VertexDefinition
  PROVE  IInv'
<1>1. IsDefinition(doc[at]) /\ doc[at].kind \in {"object", "interface"}
  BY DocsAreDocuments DEF VertexDefinition, Reading, IInv, Defined
<1>2. doc[at].name \in Name /\ Elements(doc[at].implements) \subseteq Name
  <2>1. doc[at].name \in Name /\ doc[at].implements \in Seq(Name)
    BY <1>1 DEF IsDefinition
  <2> QED BY <2>1 DEF Elements
<1>3. VertexType' = VertexType \cup {doc[at].name}
  BY DEF VertexDefinition, VertexType
<1>4. ASSUME NEW t \in VertexType' PROVE Implements(t)' \subseteq Name
  <2>1. vertexTypes'[t] = IF t = doc[at].name THEN doc[at] ELSE vertexTypes[t]
    BY <1>3 DEF VertexDefinition
  <2>2. CASE t = doc[at].name
    BY <2>1, <2>2, <1>2 DEF Implements, Elements
  <2>3. CASE t # doc[at].name
    <3>1. t \in VertexType /\ Implements(t)' = Implements(t)
      BY <2>1, <2>3, <1>3 DEF Implements, Elements
    <3> QED BY <3>1 DEF IInv, Defined
  <2> QED BY <2>2, <2>3
<1>5. Defined'
  BY <1>2, <1>3, <1>4 DEF IInv, Defined, VertexDefinition
<1>6. Progress' /\ Checked' /\ Reported'
  BY DEF IInv, Progress, Checked, Reported, VertexDefinition, Reading
<1>7. DOMAIN origins' = {}
  BY <1>6 DEF Progress, VertexDefinition, Reading
<1>8. Grounded' /\ FromDefiners'
  BY <1>7 DEF Grounded, FromDefiners
<1> QED BY <1>5, <1>6, <1>8 DEF IInv

\* At first every type waits for all that it implements.
LEMMA BeginOriginsPreserves ==
  ASSUME IInv, BeginOrigins
  PROVE  IInv'
<1>1. Defined'
  BY DefinedKept DEF IInv, BeginOrigins
<1>2. Grounded' /\ FromDefiners'
  BY OriginsKept DEF IInv, BeginOrigins
<1>3. Reported'
  BY ReportedKept DEF IInv, BeginOrigins
<1>4. DOMAIN origins = {} /\ errors = {} /\ origins' = origins /\ errors' = errors
  BY DEF IInv, Progress, BeginOrigins
<1>5. Waiting'
  BY <1>4, SameTypes DEF BeginOrigins, Waiting
<1>6. Progress' /\ Checked'
  BY <1>4, <1>5 DEF Progress, Checked, BeginOrigins
<1> QED BY <1>1, <1>2, <1>3, <1>6 DEF IInv

\* A field comes from where the interfaces that have it have it from, or from the
\* type itself if there are none.
LEMMA DefinersOfOne ==
  ASSUME NEW t \in VertexType, NEW n \in FieldNames(t)
  PROVE  LET from == {i \in Implements(t) \cap VertexType : n \in FieldNames(i)}
         IN  Definers(t, n) = IF from = {} THEN {t} ELSE UNION {Definers(i, n) : i \in from}
<1> DEFINE from == {i \in Implements(t) \cap VertexType : n \in FieldNames(i)}
           having == {u \in VertexType : n \in FieldNames(u)}
<1>1. from = Implements(t) \cap having /\ t \in having
  OBVIOUS
<1>2. \A u : Definers(u, n) = {v \in Reached({u}, having) : Implements(v) \cap having = {}}
  BY DEF Definers
<1> HIDE DEF having
<1>3. Reached({t}, having) = {t} \cup UNION {Reached({i}, having) : i \in from}
  BY <1>1, ReachedFromOne
<1>4. CASE from = {}
  <2>1. Reached({t}, having) = {t} /\ Implements(t) \cap having = {}
    BY <1>1, <1>3, <1>4
  <2> QED BY <1>1, <1>2, <1>4, <2>1
<1>5. CASE from # {}
  <2>1. ASSUME NEW v
        PROVE  v \in Definers(t, n) <=> \E i \in from : v \in Definers(i, n)
    <3> DEFINE Last(u) == Implements(u) \cap having = {}
    <3>1. v \in Definers(t, n) <=> v \in Reached({t}, having) /\ Last(v)
      BY <1>2
    <3>2. \A i : v \in Definers(i, n) <=> v \in Reached({i}, having) /\ Last(v)
      BY <1>2
    <3>3. v \in Reached({t}, having) <=> v = t \/ \E i \in from : v \in Reached({i}, having)
      BY <1>3
    <3>4. ~ Last(t)
      BY <1>1, <1>5
    <3> HIDE DEF from, Last
    <3> QED BY <3>1, <3>2, <3>3, <3>4
  <2>2. Definers(t, n) = UNION {Definers(i, n) : i \in from}
    BY <2>1
  <2> QED BY <1>5, <2>2
<1> QED BY <1>4, <1>5

\* Resolving a type: its origins are its definers, since those of its interfaces are.
LEMMA ResolveOriginsPreserves ==
  ASSUME IInv, ResolveOrigins
  PROVE  IInv'
<1>1. Defined' /\ Reported'
  BY DefinedKept, ReportedKept DEF IInv, ResolveOrigins
<1>2. Checked'
  BY DEF Checked, ResolveOrigins
<1>3. PICK t \in queue :
        /\ origins' = [u \in DOMAIN origins \cup {t} |->
                         IF u = t THEN [n \in FieldNames(t) |-> OriginOf(t, n)] ELSE origins[u]]
        /\ queue' = (queue \ {t}) \cup NowResolvable(t)
        /\ remaining' = [u \in VertexType |-> remaining[u] \ {t}]
  BY DEF ResolveOrigins
<1>4. vertexTypes' = vertexTypes /\ errors' = errors /\ phase' = "origins" /\ phase = "origins"
  BY DEF ResolveOrigins
<1>5. Waiting /\ errors = {} /\ Grounded /\ FromDefiners
  BY <1>4 DEF IInv, Progress
<1>6. /\ t \in VertexType /\ t \notin DOMAIN origins /\ remaining[t] = {}
      /\ Implements(t) \subseteq DOMAIN origins
  BY <1>5 DEF Waiting
<1>7. DOMAIN origins' = DOMAIN origins \cup {t}
  BY <1>3
<1>8. Waiting'
  <2>1. \A u \in VertexType : remaining'[u] = Implements(u) \ DOMAIN origins'
    BY <1>3, <1>5, <1>7 DEF Waiting
  <2>2. \A u \in VertexType :
          u \in queue' <=> remaining'[u] = {} /\ u \notin DOMAIN origins'
    BY <1>3, <1>5, <1>6, <1>7 DEF Waiting, NowResolvable, Grounded
  <2>3. queue' \subseteq VertexType
    BY <1>3, <1>5 DEF Waiting, NowResolvable
  <2>4. queue' = {u \in VertexType : remaining'[u] = {}} \ DOMAIN origins'
    BY <2>2, <2>3
  <2> QED BY <2>1, <2>4, <1>4, SameTypes DEF Waiting
<1>9. Progress'
  BY <1>4, <1>5, <1>8 DEF Progress
<1>10. Grounded'
  <2>1. ASSUME NEW types, Trap(types), t \in types PROVE FALSE
    <3>1. PICK i \in Implements(t) : i \in types \cup (Name \ VertexType)
      BY <2>1 DEF Trap
    <3>2. i \in DOMAIN origins /\ i \in types
      BY <3>1, <1>5, <1>6 DEF Grounded
    <3> QED BY <3>2, <2>1, <1>5 DEF Grounded
  <2>2. \A types : Trap(types) => types \cap DOMAIN origins' = {}
    BY <2>1, <1>5, <1>7 DEF Grounded
  <2>3. \A types : Trap(types)' <=> Trap(types)
    BY <1>4, SameTraps
  <2> QED BY <2>2, <2>3, <1>4, <1>5, <1>6, <1>7, SameTypes DEF Grounded
<1>11. FromDefiners'
  <2>1. ASSUME NEW n \in FieldNames(t)
        PROVE  OriginOf(t, n) = Definers(t, n) /\ Definers(t, n) # {}
    <3> DEFINE from == {i \in Implements(t) \cap VertexType : n \in FieldNames(i)}
    <3>1. from = {i \in Implements(t) : n \in FieldNames(i)}
      BY <1>5, <1>6 DEF Grounded
    <3>2. \A i \in from : origins[i][n] = Definers(i, n) /\ Definers(i, n) # {}
      BY <1>5, <1>6 DEF FromDefiners
    <3>3. Definers(t, n) = IF from = {} THEN {t} ELSE UNION {Definers(i, n) : i \in from}
      BY <1>6, DefinersOfOne
    <3> HIDE DEF from
    <3>4. Inherited(t, n) = UNION {origins[i][n] : i \in from}
      BY <3>1 DEF Inherited
    <3>5. CASE from = {}
      BY <3>3, <3>4, <3>5 DEF OriginOf
    <3>6. CASE from # {}
      <4>1. UNION {origins[i][n] : i \in from} = UNION {Definers(i, n) : i \in from}
        BY <3>2
      <4>2. UNION {Definers(i, n) : i \in from} # {}
        BY <3>2, <3>6
      <4> QED BY <4>1, <4>2, <3>3, <3>4, <3>6 DEF OriginOf
    <3> QED BY <3>5, <3>6
  <2>2. ASSUME NEW u \in DOMAIN origins', NEW n \in FieldNames(u)
        PROVE  origins'[u][n] = Definers(u, n) /\ Definers(u, n) # {}
    <3>1. CASE u = t
      BY <3>1, <2>1, <1>3
    <3>2. CASE u # t
      BY <3>2, <1>3, <1>5, <1>7 DEF FromDefiners
    <3> QED BY <3>1, <3>2
  <2> QED BY <2>2, <1>4, SameTypes, SameDefiners DEF FromDefiners
<1> QED BY <1>1, <1>2, <1>9, <1>10, <1>11 DEF IInv

\* Types that are left over when nothing can be resolved wait for each other.
LEMMA LeftOverIsTrap ==
  ASSUME IInv, CircularImplements
  PROVE  Trap(LeftOver)
<1>1. Waiting /\ queue = {} /\ LeftOver # {}
  BY DEF IInv, Progress, CircularImplements
<1>2. ASSUME NEW t \in LeftOver
      PROVE  Implements(t) \cap (LeftOver \cup (Name \ VertexType)) # {}
  <2>1. PICK i : i \in Implements(t) /\ i \notin DOMAIN origins
    BY <1>1 DEF LeftOver, Waiting
  <2>2. i \in Name
    BY <2>1 DEF IInv, Defined, LeftOver
  <2>3. i \in VertexType => i \in LeftOver
    BY <1>1, <2>1 DEF LeftOver, Waiting
  <2> QED BY <2>1, <2>2, <2>3
<1> QED BY <1>1, <1>2 DEF Trap, LeftOver

\* They are what is reported then.
LEMMA CircularImplementsPreserves ==
  ASSUME IInv, CircularImplements
  PROVE  IInv'
<1>1. Defined' /\ Grounded' /\ FromDefiners'
  BY DefinedKept, OriginsKept DEF IInv, CircularImplements
<1>2. Progress' /\ Checked'
  BY DEF Progress, Checked, CircularImplements
<1>3. Trap(LeftOver) /\ LeftOver \in SUBSET VertexType
  BY LeftOverIsTrap DEF LeftOver
<1>4. Reported'
  <2>1. vertexTypes' = vertexTypes /\ phase' = "rejected"
    BY DEF CircularImplements
  <2>2. \A types : Trap(types)' <=> Trap(types)
    BY <2>1, SameTraps
  <2> QED BY <1>3, <2>1, <2>2, SameTypes DEF Reported
<1> QED BY <1>1, <1>2, <1>4 DEF IInv

\* When nothing is left over, every type has been resolved.
LEMMA OriginsFoundPreserves ==
  ASSUME IInv, OriginsFound
  PROVE  IInv'
<1>1. Defined' /\ Grounded' /\ FromDefiners' /\ Reported'
  BY DefinedKept, OriginsKept, ReportedKept DEF IInv, OriginsFound
<1>2. DOMAIN origins = VertexType
  BY DEF IInv, Progress, OriginsFound, Waiting, LeftOver, Grounded
<1>3. Progress' /\ Checked'
  BY <1>2, SameTypes DEF Progress, Checked, OriginsFound
<1> QED BY <1>1, <1>3 DEF IInv

\* No check reports circles.
LEMMA NoCheckIsCircular ==
  ASSUME NEW i \in 1..6, NEW e \in ErrorsOfCheck(i)
  PROVE  e.error # "CircularImplementsRelationships"
<1>1. \A x \in MissingTransitive : x.error # "CircularImplementsRelationships"
  BY DEF MissingTransitive, Error
<1>2. \A x \in BadNarrowing : x.error # "CircularImplementsRelationships"
  <2>1. \A t, j, f, g : \A x \in Narrowing(t, j, f, g) : x.error # "CircularImplementsRelationships"
    BY DEF Narrowing, Error
  <2> QED BY <2>1 DEF BadNarrowing
<1>3. \A x \in MissingRequired : x.error # "CircularImplementsRelationships"
  BY DEF MissingRequired, Error
<1>4. \A x \in AmbiguousOrigins : x.error # "CircularImplementsRelationships"
  BY DEF AmbiguousOrigins, Error
<1>5. \A x \in BadTypesAndFields : x.error # "CircularImplementsRelationships"
  <2>1. \A t, f : \A x \in BadField(t, f) : x.error # "CircularImplementsRelationships"
    BY DEF BadField, Error
  <2> QED BY <2>1 DEF BadTypesAndFields, Error
<1>6. \A x \in RootProperties : x.error # "CircularImplementsRelationships"
  BY DEF RootProperties, Error
<1> QED BY <1>1, <1>2, <1>3, <1>4, <1>5, <1>6 DEF ErrorsOfCheck

\* The field of a name that a type has is one of its fields, of that name.
LEMMA FieldOfName ==
  ASSUME NEW t, NEW n \in FieldNames(t)
  PROVE  FieldOf(t, n) \in Fields(t) /\ FieldOf(t, n).name = n
<1>1. \E f \in Fields(t) : f.name = n
  BY DEF FieldNames
<1> QED BY <1>1 DEF FieldOf

\* What it means that a check has found nothing.
LEMMA NothingFound ==
  /\ MissingTransitive = {} => Transitive
  /\ BadNarrowing = {} => Narrowed
  /\ MissingRequired = {} => Required
<1>1. ASSUME MissingTransitive = {} PROVE Transitive
  <2>1. SUFFICES ASSUME NEW t \in VertexType, NEW i \in VertexType, i \in Implements(t),
                        NEW j \in Implements(i), j \notin Implements(t)
                 PROVE  FALSE
    BY DEF Transitive
  <2>2. <<t, i>> \in Pairs
    BY <2>1 DEF Pairs
  <2>3. Error("MissingTransitiveInterfaceImplementation", t, <<i, j>>) \in MissingTransitive
    BY <2>1, <2>2 DEF MissingTransitive
  <2> QED BY <1>1, <2>3
<1>2. ASSUME BadNarrowing = {} PROVE Narrowed
  <2>1. SUFFICES ASSUME NEW t \in VertexType, NEW i \in VertexType, i \in Implements(t),
                        NEW n \in FieldNames(i) \cap FieldNames(t)
                 PROVE  IsNamedTypeSubtype(FieldOf(i, n).type.base, FieldOf(t, n).type.base)
    BY DEF Narrowed
  <2>2. <<t, i>> \in Pairs
    BY <2>1 DEF Pairs
  <2>3. FieldOf(t, n) \in Fields(t) /\ FieldOf(t, n).name = n
    BY FieldOfName
  <2>4. Narrowing(t, i, FieldOf(t, n), FieldOf(i, n)) \subseteq BadNarrowing
    BY <2>2, <2>3 DEF BadNarrowing
  <2>5. CASE ~ IsSubtype(FieldOf(i, n).type, FieldOf(t, n).type)
    <3>1. Error("InvalidTypeWideningOfInheritedField", t, <<i, FieldOf(t, n).name>>)
            \in Narrowing(t, i, FieldOf(t, n), FieldOf(i, n))
      BY <2>5 DEF Narrowing
    <3> QED BY <1>2, <2>4, <3>1
  <2>6. CASE IsSubtype(FieldOf(i, n).type, FieldOf(t, n).type)
    BY <2>6 DEF IsSubtype
  <2> QED BY <2>5, <2>6
<1>3. ASSUME MissingRequired = {} PROVE Required
  <2>1. SUFFICES ASSUME NEW t \in VertexType, NEW i \in VertexType, i \in Implements(t),
                        NEW n \in FieldNames(i), n \notin FieldNames(t)
                 PROVE  FALSE
    BY DEF Required
  <2>2. <<t, i>> \in Pairs
    BY <2>1 DEF Pairs
  <2>3. Error("MissingRequiredField", t, <<i, n>>) \in MissingRequired
    BY <2>1, <2>2 DEF MissingRequired
  <2> QED BY <1>3, <2>3
<1> QED BY <1>1, <1>2, <1>3

\* Each check without errors adds what it checks.
LEMMA CheckPreserves ==
  ASSUME IInv, Check
  PROVE  IInv'
<1>1. Defined' /\ Grounded' /\ FromDefiners'
  BY DefinedKept, OriginsKept DEF IInv, Check
<1>2. /\ phase = "checks" /\ phase' = "checks" /\ at \in 1..6 /\ at' = at + 1
      /\ vertexTypes' = vertexTypes /\ origins' = origins
      /\ errors' = errors \cup ErrorsOfCheck(at)
  BY DEF Check
<1>3. Progress'
  BY <1>2, SameTypes DEF IInv, Progress
<1>4. Reported'
  BY <1>2, NoCheckIsCircular DEF IInv, Reported
<1>5. Checked'
  <2>1. SUFFICES ASSUME errors' = {}
                 PROVE  /\ at + 1 > 1 => Transitive
                        /\ at + 1 > 2 => Narrowed
                        /\ at + 1 > 3 => Required
    BY <1>2, RulesKept DEF Checked
  <2>2. errors = {} /\ ErrorsOfCheck(at) = {}
    BY <1>2, <2>1
  <2>3. (at > 1 => Transitive) /\ (at > 2 => Narrowed) /\ (at > 3 => Required)
    BY <1>2, <2>2 DEF IInv, Checked
  <2>4. (at = 1 => Transitive) /\ (at = 2 => Narrowed) /\ (at = 3 => Required)
    BY <2>2, NothingFound DEF ErrorsOfCheck
  <2> QED BY <1>2, <2>3, <2>4
<1> QED BY <1>1, <1>3, <1>4, <1>5 DEF IInv

\* A schema is accepted with what all checks have left.
LEMMA ChecksDonePreserves ==
  ASSUME IInv, ChecksDone
  PROVE  IInv'
<1>1. Defined' /\ Grounded' /\ FromDefiners'
  BY DefinedKept, OriginsKept DEF IInv, ChecksDone
<1>2. Progress' /\ Reported'
  BY ReportedKept, SameTypes DEF IInv, Progress, ChecksDone
<1>3. Checked'
  BY RulesKept DEF IInv, Checked, ChecksDone
<1> QED BY <1>1, <1>2, <1>3 DEF IInv

\* Nothing is claimed once the program has panicked.
LEMMA PanicPreserves ==
  ASSUME IInv, Panic, phase # "rejected"
  PROVE  IInv'
<1>1. Defined' /\ Grounded' /\ FromDefiners' /\ Reported'
  BY DefinedKept, OriginsKept, ReportedKept DEF IInv, Panic
<1>2. Progress' /\ Checked'
  BY DEF Progress, Checked, Panic
<1> QED BY <1>1, <1>2 DEF IInv

\* A step that changes nothing.
LEMMA StutterPreserves ==
  ASSUME IInv, UNCHANGED vars
  PROVE  IInv'
<1>1. Defined' /\ Grounded' /\ FromDefiners'
  BY DefinedKept, OriginsKept DEF IInv, vars
<1>2. Progress'
  BY SameTypes DEF IInv, Progress, Waiting, vars
<1>3. \A types : Trap(types)' <=> Trap(types)
  BY SameTraps DEF vars
<1>4. Reported'
  BY <1>3, SameTypes DEF IInv, Reported, vars
<1>5. Checked'
  BY RulesKept DEF IInv, Checked, vars
<1> QED BY <1>1, <1>2, <1>4, <1>5 DEF IInv

\* Every step keeps the invariant.
LEMMA NextPreserves == IInv /\ [Next]_vars => IInv'
<1> SUFFICES ASSUME IInv, [Next]_vars PROVE IInv'
  OBVIOUS
<1>1. CASE SchemaDefinition \/ DirectiveDefinition \/ ScalarDefinition
  BY <1>1, OtherDefinitions DEF SchemaDefinition, DirectiveDefinition, ScalarDefinition, Reading
<1>2. CASE VertexDefinition
  BY <1>2, VertexDefinitionPreserves
<1>3. CASE DefinitionPanics \/ NoQueryType \/ UnreachableField
  BY <1>3, PanicPreserves DEF DefinitionPanics, NoQueryType, UnreachableField
<1>4. CASE BeginOrigins
  BY <1>4, BeginOriginsPreserves
<1>5. CASE ResolveOrigins
  BY <1>5, ResolveOriginsPreserves
<1>6. CASE CircularImplements
  BY <1>6, CircularImplementsPreserves
<1>7. CASE OriginsFound
  BY <1>7, OriginsFoundPreserves
<1>8. CASE Check
  BY <1>8, CheckPreserves
<1>9. CASE ChecksDone
  BY <1>9, ChecksDonePreserves
<1>10. CASE Done \/ UNCHANGED vars
  BY <1>10, StutterPreserves DEF Done
<1> QED BY <1>1, <1>2, <1>3, <1>4, <1>5, <1>6, <1>7, <1>8, <1>9, <1>10 DEF Next

\* So the invariant holds always.
LEMMA AlwaysIInv == Spec => []IInv
<1>1. Init => IInv
  BY InitEstablishes
<1>2. IInv /\ [Next]_vars => IInv'
  BY NextPreserves
<1> QED BY <1>1, <1>2, PTL DEF Spec

-----------------------------------------------------------------------------
\* get_field_origins() reports circles exactly for the documents that have types
\* none of which can be resolved before the others, in whatever order it takes the
\* types that it can resolve.
THEOREM CircularIsExactHolds == Spec => []CircularIsExact
<1>1. IInv => CircularIsExact
  <2> SUFFICES ASSUME IInv PROVE CircularIsExact
    OBVIOUS
  <2>1. \A e \in errors : e.error = "CircularImplementsRelationships" =>
          \E types \in SUBSET VertexType : Trap(types)
    BY DEF IInv, Reported
  <2>2. ASSUME phase \in {"checks", "accepted"}, NEW types, Trap(types) PROVE FALSE
    <3>1. types # {} /\ types \subseteq VertexType
      BY <2>2 DEF Trap
    <3>2. types \cap VertexType = {}
      BY <2>2 DEF IInv, Progress, Grounded
    <3> QED BY <3>1, <3>2
  <2> QED BY <2>1, <2>2 DEF CircularIsExact
<1> QED BY <1>1, AlwaysIInv, PTL

\* get_field_origins() finds for every field of every type the types that the
\* field comes from, however many ways of inheriting lead there.
THEOREM OriginsExactHolds == Spec => []OriginsExact
<1>1. IInv => OriginsExact
  BY DEF IInv, Progress, FromDefiners, OriginsExact
<1> QED BY <1>1, AlwaysIInv, PTL

\* What a type lists is all its ancestors if listed types list no others.
LEMMA TransitiveAncestors ==
  ASSUME Transitive, \A t \in VertexType : Implements(t) \subseteq VertexType, NEW t \in VertexType
  PROVE  Ancestors(t) = Implements(t)
<1>1. Implements(t) \subseteq Ancestors(t)
  BY DEF Ancestors, Reached
<1>2. Closed(Implements(t), VertexType)
  BY DEF Closed, Transitive
<1>3. Ancestors(t) \subseteq Implements(t)
  BY <1>2 DEF Ancestors, Reached, Closed
<1> QED BY <1>1, <1>3

\* Of a schema that Schema::new() has accepted, Schema::subtypes() gives all types
\* that descend from a type, and their edges lead to what its edges lead to.
THEOREM SubtypesDescendHolds == Spec => []SubtypesDescend
<1>1. IInv => SubtypesDescend
  <2> SUFFICES ASSUME IInv, phase = "accepted" PROVE SubtypesDescend
    BY DEF SubtypesDescend
  <2>1. Transitive /\ Narrowed /\ Required
    BY DEF IInv, Checked
  <2>2. \A t \in VertexType : Implements(t) \subseteq VertexType
    BY DEF IInv, Progress, Grounded
  <2>3. \A t \in VertexType : Ancestors(t) = Implements(t)
    BY <2>1, <2>2, TransitiveAncestors
  <2>4. ASSUME NEW t \in VertexType
        PROVE  Subtypes(t) = {t} \cup {u \in VertexType : t \in Ancestors(u)}
    BY <2>3 DEF Subtypes
  <2>5. ASSUME NEW t \in VertexType, NEW u \in Subtypes(t), NEW n \in FieldNames(t)
        PROVE  Subtypes(FieldOf(u, n).type.base) \subseteq Subtypes(FieldOf(t, n).type.base)
    <3>1. CASE u = t
      BY <3>1
    <3>2. CASE u # t
      <4>1. u \in VertexType /\ t \in Implements(u)
        BY <3>2 DEF Subtypes
      <4>2. n \in FieldNames(u)
        BY <2>1, <4>1 DEF Required
      <4>3. IsNamedTypeSubtype(FieldOf(t, n).type.base, FieldOf(u, n).type.base)
        BY <2>1, <4>1, <4>2 DEF Narrowed
      <4> DEFINE a == FieldOf(t, n).type.base
                 b == FieldOf(u, n).type.base
      <4>4. CASE a = b
        BY <4>4
      <4>5. CASE b \in VertexType /\ a \in Implements(b)
        BY <2>1, <2>2, <4>5 DEF Subtypes, Transitive
      <4> QED BY <4>3, <4>4, <4>5 DEF IsNamedTypeSubtype
    <3> QED BY <3>1, <3>2
  <2> QED BY <2>4, <2>5 DEF SubtypesDescend
<1> QED BY <1>1, AlwaysIInv, PTL

-----------------------------------------------------------------------------
(* What has been read of a document.                                       *)

VertexKinds == {"object", "interface"}

\* The definitions before the n-th.
Before(d, n, kinds) == {i \in DOMAIN d : i < n /\ d[i].kind \in kinds}

\* No name is repeated among them, and the n-th has another.
NamesDiffer(d, n, kinds) == \A i, j \in Before(d, n, kinds) : i # j => d[i].name # d[j].name
IsNewName(d, n, kinds) == d[n].kind \in kinds => \A i \in Before(d, n, kinds) : d[i].name # d[n].name

\* The rules of Readable on definitions, for those before the n-th.
ReadableBefore(d, n) ==
  /\ Before(d, n, {"enum", "union", "input"}) = {}
  /\ \A i \in DOMAIN d : i < n /\ d[i].kind # "directive" => ~ d[i].extend
  /\ \A i, j \in Before(d, n, {"schema"}) : i = j
  /\ NamesDiffer(d, n, {"directive"}) /\ NamesDiffer(d, n, {"scalar"}) /\ NamesDiffer(d, n, VertexKinds)
  /\ \A i \in Before(d, n, {"scalar"} \cup VertexKinds) : d[i].name \notin BuiltinScalars
  /\ \A i \in Before(d, n, VertexKinds) : FieldsDistinct(d[i])

\* What those rules say of the n-th.
Agrees(d, n) ==
  /\ d[n].kind \notin {"enum", "union", "input"}
  /\ d[n].kind # "directive" => ~ d[n].extend
  /\ d[n].kind = "schema" => Before(d, n, {"schema"}) = {}
  /\ IsNewName(d, n, {"directive"}) /\ IsNewName(d, n, {"scalar"}) /\ IsNewName(d, n, VertexKinds)
  /\ d[n].kind \in {"scalar"} \cup VertexKinds => d[n].name \notin BuiltinScalars
  /\ d[n].kind \in VertexKinds => FieldsDistinct(d[n])

\* What has been found in the definitions before the n-th.
ReadOf(d, n, query, directiveNames, scalarNames, types) ==
  /\ n \in 1..Len(d) + 1
  /\ ReadableBefore(d, n)
  /\ query = None => Before(d, n, {"schema"}) = {}
  /\ query # None => \E i \in Before(d, n, {"schema"}) : query = d[i].query
  /\ directiveNames = {d[i].name : i \in Before(d, n, {"directive"})}
  /\ scalarNames = {d[i].name : i \in Before(d, n, {"scalar"})}
  /\ DOMAIN types = {d[i].name : i \in Before(d, n, VertexKinds)}
  /\ \A i \in Before(d, n, VertexKinds) : types[d[i].name] = d[i]

Read == ReadOf(doc, at, queryType, directives, scalars, vertexTypes)

\* A document is a sequence of definitions.
LEMMA DocIsSequence ==
  ASSUME NEW d \in Docs
  PROVE  Len(d) \in Nat /\ DOMAIN d = 1..Len(d) /\ \A i \in DOMAIN d : IsDefinition(d[i])
<1>1. PICK S : d \in Seq(S)
  BY DocsAreDocuments
<1>2. \A i \in DOMAIN d : IsDefinition(d[i])
  BY DocsAreDocuments
<1> QED BY <1>1, <1>2

\* One more definition is before the next.
LEMMA BeforeNext ==
  ASSUME NEW d \in Docs, NEW n \in DOMAIN d, NEW kinds
  PROVE  /\ Before(d, n + 1, kinds) = Before(d, n, kinds) \cup {i \in {n} : d[i].kind \in kinds}
         /\ \A i \in Before(d, n, kinds) : i # n
<1>1. DOMAIN d = 1..Len(d) /\ Len(d) \in Nat
  BY DocIsSequence
<1>2. \A i \in DOMAIN d : i < n + 1 <=> i < n \/ i = n
  BY <1>1
<1> QED BY <1>1, <1>2 DEF Before

\* The rules hold of one definition more if it agrees with those before it.
LEMMA ReadableNext ==
  ASSUME NEW d \in Docs, NEW n \in DOMAIN d
  PROVE  ReadableBefore(d, n + 1) <=> ReadableBefore(d, n) /\ Agrees(d, n)
<1>1. DOMAIN d = 1..Len(d) /\ Len(d) \in Nat
  BY DocIsSequence
<1>2. \A i \in DOMAIN d : i < n + 1 <=> i < n \/ i = n
  BY <1>1
<1>3. \A kinds : /\ \A i : i \in Before(d, n + 1, kinds) <=> i \in Before(d, n, kinds) \/ (i = n /\ d[n].kind \in kinds)
                 /\ \A i \in Before(d, n, kinds) : i # n
  BY BeforeNext
<1>4. ASSUME NEW kinds
      PROVE  NamesDiffer(d, n + 1, kinds) <=> NamesDiffer(d, n, kinds) /\ IsNewName(d, n, kinds)
  BY <1>3 DEF NamesDiffer, IsNewName
<1>5. Before(d, n + 1, {"enum", "union", "input"}) = {}
        <=> Before(d, n, {"enum", "union", "input"}) = {} /\ d[n].kind \notin {"enum", "union", "input"}
  BY <1>3
<1>6. (\A i \in DOMAIN d : i < n + 1 /\ d[i].kind # "directive" => ~ d[i].extend)
        <=> /\ \A i \in DOMAIN d : i < n /\ d[i].kind # "directive" => ~ d[i].extend
            /\ d[n].kind # "directive" => ~ d[n].extend
  BY <1>2
<1>7. (\A i, j \in Before(d, n + 1, {"schema"}) : i = j)
        <=> /\ \A i, j \in Before(d, n, {"schema"}) : i = j
            /\ d[n].kind = "schema" => Before(d, n, {"schema"}) = {}
  BY <1>3
<1>8. (\A i \in Before(d, n + 1, {"scalar"} \cup VertexKinds) : d[i].name \notin BuiltinScalars)
        <=> /\ \A i \in Before(d, n, {"scalar"} \cup VertexKinds) : d[i].name \notin BuiltinScalars
            /\ d[n].kind \in {"scalar"} \cup VertexKinds => d[n].name \notin BuiltinScalars
  BY <1>3
<1>9. (\A i \in Before(d, n + 1, VertexKinds) : FieldsDistinct(d[i]))
        <=> /\ \A i \in Before(d, n, VertexKinds) : FieldsDistinct(d[i])
            /\ d[n].kind \in VertexKinds => FieldsDistinct(d[n])
  BY <1>3
<1> QED BY <1>4, <1>5, <1>6, <1>7, <1>8, <1>9 DEF ReadableBefore, Agrees

\* Before the end is everything.
LEMMA BeforeEnd ==
  ASSUME doc \in Docs, NEW kinds
  PROVE  Before(doc, Len(doc) + 1, kinds) = Definitions(kinds)
BY DocIsSequence DEF Before, Definitions

\* There are as many names as fields if no two fields have the same.
LEMMA FieldsDistinctMeans ==
  ASSUME NEW d, NEW S, d.fields \in Seq(S)
  PROVE  FieldsDistinct(d) <=>
           \A k, l \in DOMAIN d.fields : k # l => d.fields[k].name # d.fields[l].name
<1> DEFINE n == Len(d.fields)
           names == {f.name : f \in Elements(d.fields)}
           g == [k \in 1..n |-> d.fields[k].name]
<1>1. n \in Nat /\ DOMAIN d.fields = 1..n
  OBVIOUS
<1>2. names = {d.fields[k].name : k \in 1..n}
  BY <1>1 DEF Elements
<1>3. g \in Surjection(1..n, names)
  BY <1>2 DEF Surjection
<1>4. IsFiniteSet(1..n) /\ Cardinality(1..n) = n
  BY <1>1, FS_Interval
<1> HIDE DEF n, names, g
<1>5. Cardinality(names) = n <=> g \in Injection(1..n, names)
  BY <1>3, <1>4, FS_Surjection
<1>6. g \in Injection(1..n, names) <=> \A k, l \in 1..n : g[k] = g[l] => k = l
  BY <1>3 DEF Injection, IsInjective, Surjection
<1>7. \A k \in 1..n : g[k] = d.fields[k].name
  BY DEF g
<1>8. FieldsDistinct(d) <=> Cardinality(names) = n
  BY DEF FieldsDistinct, names, n
<1> QED BY <1>1, <1>5, <1>6, <1>7, <1>8

\* Readable is about all definitions, and the query type.
LEMMA ReadableIsBeforeEnd ==
  ASSUME doc \in Docs
  PROVE  Readable <=>
           /\ ReadableBefore(doc, Len(doc) + 1)
           /\ \E i \in Definitions({"schema"}), j \in Definitions({"object"}) : doc[i].query = doc[j].name
<1>1. \A kinds : Before(doc, Len(doc) + 1, kinds) = Definitions(kinds)
  BY BeforeEnd
<1>2. \A i \in DOMAIN doc : i < Len(doc) + 1
  BY DocIsSequence
<1>3. \A i \in Definitions(VertexKinds) :
        FieldsDistinct(doc[i]) <=>
          \A k, l \in DOMAIN doc[i].fields : k # l => doc[i].fields[k].name # doc[i].fields[l].name
  BY DocIsSequence, FieldsDistinctMeans DEF IsDefinition, Definitions, VertexKinds
<1>4. Definitions({"scalar", "object", "interface"}) = Definitions({"scalar"} \cup VertexKinds)
  BY DEF Definitions, VertexKinds
<1>5. (\A kinds \in {{"schema"}, {"directive"}, {"scalar"}, VertexKinds} :
         \A i, j \in Definitions(kinds) : i # j => kinds # {"schema"} /\ doc[i].name # doc[j].name)
        <=> /\ \A i, j \in Before(doc, Len(doc) + 1, {"schema"}) : i = j
            /\ \A kinds \in {{"directive"}, {"scalar"}, VertexKinds} : NamesDiffer(doc, Len(doc) + 1, kinds)
  <2>1. "directive" # "schema" /\ "scalar" # "schema" /\ "schema" \notin VertexKinds
    BY DEF VertexKinds
  <2>2. \A kinds \in {{"directive"}, {"scalar"}, VertexKinds} : kinds # {"schema"}
    BY <2>1 DEF VertexKinds
  <2>3. \A kinds : NamesDiffer(doc, Len(doc) + 1, kinds) <=>
                      \A i, j \in Definitions(kinds) : i # j => doc[i].name # doc[j].name
    BY <1>1 DEF NamesDiffer
  <2>4. \A kinds : kinds \in {{"schema"}, {"directive"}, {"scalar"}, VertexKinds} <=>
                      kinds = {"schema"} \/ kinds \in {{"directive"}, {"scalar"}, VertexKinds}
    OBVIOUS
  <2> QED BY <2>2, <2>3, <2>4, <1>1
<1>6. (\A kinds \in {{"directive"}, {"scalar"}, VertexKinds} : NamesDiffer(doc, Len(doc) + 1, kinds))
        <=> /\ NamesDiffer(doc, Len(doc) + 1, {"directive"}) /\ NamesDiffer(doc, Len(doc) + 1, {"scalar"})
            /\ NamesDiffer(doc, Len(doc) + 1, VertexKinds)
  OBVIOUS
<1>7. (\A i \in DOMAIN doc : doc[i].kind # "directive" => ~ doc[i].extend)
        <=> \A i \in DOMAIN doc : i < Len(doc) + 1 /\ doc[i].kind # "directive" => ~ doc[i].extend
  BY <1>2
<1>8. {"object", "interface"} = VertexKinds
  BY DEF VertexKinds
<1> DEFINE Supported == Definitions({"enum", "union", "input"}) = {}
           Whole == \A i \in DOMAIN doc : doc[i].kind # "directive" => ~ doc[i].extend
           Named == \A kinds \in {{"schema"}, {"directive"}, {"scalar"}, VertexKinds} :
                      \A i, j \in Definitions(kinds) : i # j => kinds # {"schema"} /\ doc[i].name # doc[j].name
           Unlike == \A i \in Definitions({"scalar"} \cup VertexKinds) : doc[i].name \notin BuiltinScalars
           Fielded == \A i \in Definitions(VertexKinds) :
                        \A k, l \in DOMAIN doc[i].fields : k # l => doc[i].fields[k].name # doc[i].fields[l].name
           Queried == \E i \in Definitions({"schema"}), j \in Definitions({"object"}) : doc[i].query = doc[j].name
<1>9. Readable <=> Supported /\ Whole /\ Named /\ Unlike /\ Fielded /\ Queried
  BY <1>4, <1>8 DEF Readable
<1>10. Unlike <=> \A i \in Before(doc, Len(doc) + 1, {"scalar"} \cup VertexKinds) : doc[i].name \notin BuiltinScalars
  BY <1>1
<1>11. Fielded <=> \A i \in Before(doc, Len(doc) + 1, VertexKinds) : FieldsDistinct(doc[i])
  BY <1>1, <1>3
<1>12. Supported <=> Before(doc, Len(doc) + 1, {"enum", "union", "input"}) = {}
  BY <1>1
<1> HIDE DEF Supported, Unlike, Fielded
<1> QED BY <1>5, <1>6, <1>7, <1>9, <1>10, <1>11, <1>12 DEF ReadableBefore

\* No rule forbids fewer definitions.
LEMMA ReadablePrefix ==
  ASSUME NEW d \in Docs, NEW n \in DOMAIN d, ReadableBefore(d, Len(d) + 1)
  PROVE  ReadableBefore(d, n + 1)
<1>1. \A kinds : Before(d, n + 1, kinds) \subseteq Before(d, Len(d) + 1, kinds)
  BY DocIsSequence DEF Before
<1>2. \A i \in DOMAIN d : i < n + 1 => i < Len(d) + 1
  BY DocIsSequence
<1>3. \A kinds : NamesDiffer(d, Len(d) + 1, kinds) => NamesDiffer(d, n + 1, kinds)
  BY <1>1 DEF NamesDiffer
<1>4. /\ Before(d, n + 1, {"enum", "union", "input"}) = {}
      /\ \A i \in DOMAIN d : i < n + 1 /\ d[i].kind # "directive" => ~ d[i].extend
  BY <1>1, <1>2 DEF ReadableBefore
<1>5. \A i, j \in Before(d, n + 1, {"schema"}) : i = j
  BY <1>1 DEF ReadableBefore
<1>6. /\ \A i \in Before(d, n + 1, {"scalar"} \cup VertexKinds) : d[i].name \notin BuiltinScalars
      /\ \A i \in Before(d, n + 1, VertexKinds) : FieldsDistinct(d[i])
  BY <1>1 DEF ReadableBefore
<1> QED BY <1>3, <1>4, <1>5, <1>6 DEF ReadableBefore

\* The loop goes on exactly with definitions that agree with those before.
LEMMA PanicsAreDisagreements ==
  ASSUME doc \in Docs, Read, DefinitionPanics
  PROVE  ~ Agrees(doc, at)
<1>1. at \in DOMAIN doc
  BY DEF DefinitionPanics
<1>2. CASE doc[at].kind = "schema" /\ (queryType # None \/ doc[at].extend)
  BY <1>2 DEF Read, ReadOf, Agrees
<1>3. CASE doc[at].kind = "directive" /\ doc[at].name \in directives
  <2>1. PICK i \in Before(doc, at, {"directive"}) : doc[at].name = doc[i].name
    BY <1>3 DEF Read, ReadOf
  <2> QED BY <1>3, <2>1 DEF Agrees, IsNewName
<1>4. CASE doc[at].kind = "scalar" /\ (doc[at].name \in BuiltinScalars \cup scalars \/ doc[at].extend)
  <2>1. CASE doc[at].name \in scalars
    <3>1. PICK i \in Before(doc, at, {"scalar"}) : doc[at].name = doc[i].name
      BY <2>1 DEF Read, ReadOf
    <3> QED BY <1>4, <3>1 DEF Agrees, IsNewName
  <2>2. CASE doc[at].name \in BuiltinScalars \/ doc[at].extend
    BY <1>4, <2>2 DEF Agrees
  <2> QED BY <1>4, <2>1, <2>2
<1>5. CASE doc[at].kind \in {"object", "interface"} /\ doc[at].name \in VertexType
  <2>1. PICK i \in Before(doc, at, VertexKinds) : doc[at].name = doc[i].name
    BY <1>5 DEF Read, ReadOf, VertexType
  <2> QED BY <1>5, <2>1 DEF Agrees, IsNewName, VertexKinds
<1>6. CASE /\ doc[at].kind \in {"object", "interface"}
           /\ doc[at].name \in BuiltinScalars \/ doc[at].extend \/ ~ FieldsDistinct(doc[at])
  BY <1>6 DEF Agrees, VertexKinds
<1>7. CASE doc[at].kind \in {"enum", "union", "input"}
  BY <1>7 DEF Agrees
<1> QED BY <1>2, <1>3, <1>4, <1>5, <1>6, <1>7 DEF DefinitionPanics

\* Nothing has been read of a document at first.
LEMMA ReadAtFirst == Init => Read
<1> SUFFICES ASSUME Init PROVE Read
  OBVIOUS
<1>1. doc \in Docs /\ at = 1 /\ queryType = None /\ directives = {} /\ scalars = {} /\ vertexTypes = << >>
  BY DEF Init
<1>2. Len(doc) \in Nat /\ DOMAIN doc = 1..Len(doc)
  BY <1>1, DocIsSequence
<1>3. \A kinds : Before(doc, 1, kinds) = {}
  BY <1>2 DEF Before
<1>4. ReadableBefore(doc, 1)
  BY <1>2, <1>3 DEF ReadableBefore, NamesDiffer
<1>5. 1 \in 1..Len(doc) + 1
  BY <1>2
<1>6. DOMAIN vertexTypes = {}
  BY <1>1
<1>7. \A kinds : {doc[i].name : i \in Before(doc, 1, kinds)} = {}
  BY <1>3
<1> QED BY <1>1, <1>3, <1>4, <1>5, <1>6, <1>7 DEF Read, ReadOf

\* Reading on.
LEMMA ReadKept ==
  ASSUME doc \in Docs, Read,
         SchemaDefinition \/ DirectiveDefinition \/ ScalarDefinition \/ VertexDefinition
  PROVE  Read'
<1>1. at \in DOMAIN doc /\ doc' = doc /\ at' = at + 1
  BY DEF SchemaDefinition, DirectiveDefinition, ScalarDefinition, VertexDefinition, Reading
<1>2. Len(doc) \in Nat /\ DOMAIN doc = 1..Len(doc) /\ IsDefinition(doc[at])
  BY <1>1, DocIsSequence
<1>3. \A kinds : Before(doc, at + 1, kinds) = Before(doc, at, kinds) \cup {i \in {at} : doc[i].kind \in kinds}
  BY <1>1, BeforeNext
<1>4. Agrees(doc, at) => ReadableBefore(doc, at + 1)
  BY <1>1, ReadableNext DEF Read, ReadOf
<1>5. at + 1 \in 1..Len(doc) + 1
  BY <1>1, <1>2
<1>6. /\ queryType = None => Before(doc, at, {"schema"}) = {}
      /\ queryType # None => \E i \in Before(doc, at, {"schema"}) : queryType = doc[i].query
      /\ directives = {doc[i].name : i \in Before(doc, at, {"directive"})}
      /\ scalars = {doc[i].name : i \in Before(doc, at, {"scalar"})}
      /\ DOMAIN vertexTypes = {doc[i].name : i \in Before(doc, at, VertexKinds)}
      /\ \A i \in Before(doc, at, VertexKinds) : vertexTypes[doc[i].name] = doc[i]
  BY DEF Read, ReadOf
<1>7. \A kinds : doc[at].kind \notin kinds => Before(doc, at + 1, kinds) = Before(doc, at, kinds)
  BY <1>3
<1>8. \A kinds : doc[at].kind \in kinds =>
        {doc[i].name : i \in Before(doc, at + 1, kinds)}
          = {doc[i].name : i \in Before(doc, at, kinds)} \cup {doc[at].name}
  BY <1>3
<1>9. /\ "schema" \notin {"directive"} \cup {"scalar"} \cup VertexKinds
      /\ "directive" \notin {"schema"} \cup {"scalar"} \cup VertexKinds
      /\ "scalar" \notin {"schema"} \cup {"directive"} \cup VertexKinds
      /\ VertexKinds \cap ({"schema"} \cup {"directive"} \cup {"scalar"}) = {}
      /\ {"schema", "directive", "scalar"} \cup VertexKinds \subseteq {"schema", "directive", "scalar", "object", "interface"}
  BY DEF VertexKinds
<1>10. CASE SchemaDefinition
  <2>1. /\ doc[at].kind = "schema" /\ queryType = None /\ ~ doc[at].extend /\ queryType' = doc[at].query
        /\ directives' = directives /\ scalars' = scalars /\ vertexTypes' = vertexTypes
    BY <1>10 DEF SchemaDefinition, Reading
  <2>2. Agrees(doc, at)
    BY <2>1, <1>6, <1>9 DEF Agrees, IsNewName
  <2>3. queryType' # None /\ at \in Before(doc, at + 1, {"schema"})
    BY <2>1, <1>2, <1>3, NoneIsNoName DEF IsDefinition
  <2> QED BY <1>1, <1>4, <1>5, <1>6, <1>7, <1>9, <2>1, <2>2, <2>3 DEF Read, ReadOf
<1>11. CASE DirectiveDefinition
  <2>1. /\ doc[at].kind = "directive" /\ doc[at].name \notin directives
        /\ directives' = directives \cup {doc[at].name}
        /\ queryType' = queryType /\ scalars' = scalars /\ vertexTypes' = vertexTypes
    BY <1>11 DEF DirectiveDefinition, Reading
  <2>2. Agrees(doc, at)
    BY <2>1, <1>6, <1>9 DEF Agrees, IsNewName
  <2>3. Before(doc, at + 1, {"schema"}) = Before(doc, at, {"schema"})
    BY <2>1, <1>7
  <2>4. /\ Before(doc, at + 1, {"scalar"}) = Before(doc, at, {"scalar"})
        /\ Before(doc, at + 1, VertexKinds) = Before(doc, at, VertexKinds)
    BY <2>1, <1>7, <1>9
  <2>5. directives' = {doc[i].name : i \in Before(doc, at + 1, {"directive"})}
    BY <2>1, <1>6, <1>8
  <2>6. ReadOf(doc, at + 1, queryType, directives', scalars, vertexTypes)
    BY <1>4, <1>5, <1>6, <2>2, <2>3, <2>4, <2>5 DEF ReadOf
  <2> QED BY <1>1, <2>1, <2>6 DEF Read
<1>12. CASE ScalarDefinition
  <2>1. /\ doc[at].kind = "scalar" /\ doc[at].name \notin BuiltinScalars \cup scalars /\ ~ doc[at].extend
        /\ scalars' = scalars \cup {doc[at].name}
        /\ queryType' = queryType /\ directives' = directives /\ vertexTypes' = vertexTypes
    BY <1>12 DEF ScalarDefinition, Reading
  <2>2. Agrees(doc, at)
    BY <2>1, <1>6, <1>9 DEF Agrees, IsNewName
  <2>3. Before(doc, at + 1, {"schema"}) = Before(doc, at, {"schema"})
    BY <2>1, <1>7
  <2>4. /\ Before(doc, at + 1, {"directive"}) = Before(doc, at, {"directive"})
        /\ Before(doc, at + 1, VertexKinds) = Before(doc, at, VertexKinds)
    BY <2>1, <1>7, <1>9
  <2>5. scalars' = {doc[i].name : i \in Before(doc, at + 1, {"scalar"})}
    BY <2>1, <1>6, <1>8
  <2>6. ReadOf(doc, at + 1, queryType, directives, scalars', vertexTypes)
    BY <1>4, <1>5, <1>6, <2>2, <2>3, <2>4, <2>5 DEF ReadOf
  <2> QED BY <1>1, <2>1, <2>6 DEF Read
<1>13. CASE VertexDefinition
  <2>1. /\ doc[at].kind \in VertexKinds /\ doc[at].name \notin BuiltinScalars \cup DOMAIN vertexTypes
        /\ ~ doc[at].extend /\ FieldsDistinct(doc[at])
        /\ vertexTypes' = [t \in DOMAIN vertexTypes \cup {doc[at].name} |->
                             IF t = doc[at].name THEN doc[at] ELSE vertexTypes[t]]
        /\ queryType' = queryType /\ directives' = directives /\ scalars' = scalars
    BY <1>13 DEF VertexDefinition, Reading, VertexKinds, VertexType
  <2>2. Agrees(doc, at)
    BY <2>1, <1>6, <1>9 DEF Agrees, IsNewName
  <2>3. Before(doc, at + 1, {"schema"}) = Before(doc, at, {"schema"})
    BY <2>1, <1>7, <1>9
  <2>4. DOMAIN vertexTypes' = {doc[i].name : i \in Before(doc, at + 1, VertexKinds)}
    BY <2>1, <1>6, <1>8
  <2>5. ASSUME NEW i \in Before(doc, at + 1, VertexKinds)
        PROVE  vertexTypes'[doc[i].name] = doc[i]
    <3>1. CASE i = at
      BY <3>1, <2>1
    <3>2. CASE i # at
      <4>1. i \in Before(doc, at, VertexKinds)
        BY <3>2, <1>3
      <4>2. doc[i].name \in DOMAIN vertexTypes /\ vertexTypes[doc[i].name] = doc[i]
        BY <4>1, <1>6
      <4> QED BY <4>2, <2>1
    <3> QED BY <3>1, <3>2
  <2>6. /\ Before(doc, at + 1, {"directive"}) = Before(doc, at, {"directive"})
        /\ Before(doc, at + 1, {"scalar"}) = Before(doc, at, {"scalar"})
    BY <2>1, <1>7, <1>9
  <2>7. ReadableBefore(doc, at + 1)
    BY <1>4, <2>2
  <2> DEFINE types == vertexTypes'
  <2>8. /\ DOMAIN types = {doc[i].name : i \in Before(doc, at + 1, VertexKinds)}
        /\ \A i \in Before(doc, at + 1, VertexKinds) : types[doc[i].name] = doc[i]
    BY <2>4, <2>5
  <2>9. types = vertexTypes'
    OBVIOUS
  <2> HIDE DEF types
  <2>10. ReadOf(doc, at + 1, queryType, directives, scalars, types)
    BY <1>5, <1>6, <2>3, <2>6, <2>7, <2>8 DEF ReadOf
  <2>11. queryType' = queryType /\ directives' = directives /\ scalars' = scalars
    BY <2>1
  <2> QED BY <1>1, <2>9, <2>10, <2>11 DEF Read
<1> QED BY <1>10, <1>11, <1>12, <1>13

\* What the types are once all definitions have been read.
TypesKnown ==
  /\ IsFiniteSet(VertexType) /\ queryType \in VertexType
  /\ VertexType \cap BuiltinScalars = {}
  /\ \A t \in VertexType :
       /\ IsDefinition(vertexTypes[t]) /\ vertexTypes[t].kind \in VertexKinds
       /\ vertexTypes[t].name = t /\ FieldsDistinct(vertexTypes[t])

\* Once all definitions have been read the document is readable exactly if it has the
\* query type, and then the types are known.
LEMMA AllRead ==
  ASSUME doc \in Docs, Read, at \notin DOMAIN doc
  PROVE  /\ Readable <=> QueryTypeDefined
         /\ QueryTypeDefined => TypesKnown
<1>1. Len(doc) \in Nat /\ DOMAIN doc = 1..Len(doc) /\ \A i \in DOMAIN doc : IsDefinition(doc[i])
  BY DocIsSequence
<1>2. at = Len(doc) + 1
  BY <1>1 DEF Read, ReadOf
<1>3. \A kinds : Before(doc, at, kinds) = Definitions(kinds)
  BY <1>2, BeforeEnd
<1>4. /\ ReadableBefore(doc, Len(doc) + 1)
      /\ queryType = None => Definitions({"schema"}) = {}
      /\ queryType # None => \E i \in Definitions({"schema"}) : queryType = doc[i].query
      /\ VertexType = {doc[i].name : i \in Definitions(VertexKinds)}
      /\ \A i \in Definitions(VertexKinds) : vertexTypes[doc[i].name] = doc[i]
  BY <1>2, <1>3 DEF Read, ReadOf, VertexType
<1>5. Readable <=> \E i \in Definitions({"schema"}), j \in Definitions({"object"}) : doc[i].query = doc[j].name
  BY <1>4, ReadableIsBeforeEnd
<1>6. \A i, j \in Definitions({"schema"}) : i = j
  BY <1>2, <1>3, <1>4 DEF ReadableBefore
<1>7. ASSUME Readable PROVE QueryTypeDefined
  <2>1. PICK i \in Definitions({"schema"}), j \in Definitions({"object"}) : doc[i].query = doc[j].name
    BY <1>5, <1>7
  <2>2. queryType = doc[i].query
    BY <2>1, <1>4, <1>6
  <2>3. j \in Definitions(VertexKinds) /\ doc[j].kind = "object"
    BY <2>1 DEF Definitions, VertexKinds
  <2> QED BY <2>1, <2>2, <2>3, <1>4 DEF QueryTypeDefined
<1>8. ASSUME QueryTypeDefined PROVE Readable
  <2>1. PICK j \in Definitions(VertexKinds) : queryType = doc[j].name
    BY <1>4, <1>8 DEF QueryTypeDefined
  <2>2. j \in Definitions({"object"})
    BY <2>1, <1>4, <1>8 DEF QueryTypeDefined, Definitions
  <2>3. doc[j].name \in Name
    BY <1>1, <2>2 DEF IsDefinition, Definitions
  <2>4. queryType # None
    BY <2>1, <2>3, NoneIsNoName
  <2> QED BY <2>1, <2>2, <2>4, <1>4, <1>5
<1>9. ASSUME QueryTypeDefined PROVE TypesKnown
  <2>1. ASSUME NEW t \in VertexType
        PROVE  /\ IsDefinition(vertexTypes[t]) /\ vertexTypes[t].kind \in VertexKinds
               /\ vertexTypes[t].name = t /\ FieldsDistinct(vertexTypes[t])
               /\ t \notin BuiltinScalars
    <3>1. PICK i \in Definitions(VertexKinds) : t = doc[i].name
      BY <1>4
    <3>2. vertexTypes[t] = doc[i] /\ i \in DOMAIN doc /\ doc[i].kind \in VertexKinds
      BY <3>1, <1>4 DEF Definitions
    <3>3. i \in Before(doc, Len(doc) + 1, VertexKinds) /\ i \in Before(doc, Len(doc) + 1, {"scalar"} \cup VertexKinds)
      BY <3>2, <1>1 DEF Before
    <3>4. FieldsDistinct(doc[i]) /\ doc[i].name \notin BuiltinScalars
      BY <3>3, <1>4 DEF ReadableBefore
    <3> QED BY <3>1, <3>2, <3>4, <1>1
  <2>2. IsFiniteSet(VertexType)
    <3> DEFINE S == Definitions(VertexKinds)
               g == [i \in S |-> doc[i].name]
    <3>1. IsFiniteSet(1..Len(doc)) /\ S \in SUBSET (1..Len(doc))
      BY <1>1, FS_Interval DEF Definitions
    <3>2. IsFiniteSet(S)
      BY <3>1, FS_Subset
    <3>3. g \in Surjection(S, VertexType)
      BY <1>4 DEF Surjection
    <3> HIDE DEF S, g
    <3> QED BY <3>2, <3>3, FS_Surjection
  <2>3. queryType \in VertexType
    BY <1>9 DEF QueryTypeDefined
  <2> QED BY <2>1, <2>2, <2>3 DEF TypesKnown
<1> QED BY <1>7, <1>8, <1>9

-----------------------------------------------------------------------------
(* What each check finds.                                                  *)

\* The fields of a type: one for every name, of proper types.
LEMMA FieldsKnown ==
  ASSUME TypesKnown, NEW t \in VertexType
  PROVE  /\ t \in Name /\ Implements(t) \subseteq Name
         /\ \A f \in Fields(t) :
              /\ f.name \in FieldName \cap FieldNames(t) /\ FieldOf(t, f.name) = f
              /\ IsLayered(f.type)
              /\ \A p \in DOMAIN f.params : IsLayered(f.params[p].type)
<1> DEFINE d == vertexTypes[t]
<1>1. IsDefinition(d) /\ d.kind \in {"object", "interface"} /\ d.name = t /\ FieldsDistinct(d)
  BY DEF TypesKnown, VertexKinds
<1> HIDE DEF d
<1>2. /\ d.name \in Name /\ d.implements \in Seq(Name)
      /\ d.fields \in Seq({d.fields[i] : i \in DOMAIN d.fields})
      /\ \A i \in DOMAIN d.fields :
           /\ d.fields[i].name \in FieldName /\ IsLayered(d.fields[i].type)
           /\ \A p \in DOMAIN d.fields[i].params : IsLayered(d.fields[i].params[p].type)
  BY <1>1 DEF IsDefinition
<1>3. Fields(t) = {d.fields[i] : i \in DOMAIN d.fields} /\ Implements(t) = {d.implements[i] : i \in DOMAIN d.implements}
  BY DEF Fields, Implements, Elements, d
<1>4. \A k, l \in DOMAIN d.fields : k # l => d.fields[k].name # d.fields[l].name
  BY <1>1, <1>2, FieldsDistinctMeans
<1>5. \A f, g \in Fields(t) : f.name = g.name => f = g
  BY <1>3, <1>4
<1>6. \A f \in Fields(t) : f.name \in FieldNames(t) /\ FieldOf(t, f.name) = f
  <2>1. \A f \in Fields(t) : f.name \in FieldNames(t)
    BY DEF FieldNames
  <2> QED BY <2>1, <1>5, FieldOfName
<1>7. Implements(t) \subseteq Name
  BY <1>2, <1>3
<1> QED BY <1>1, <1>2, <1>3, <1>6, <1>7

\* A type's ancestors are what it lists and their ancestors.
LEMMA AncestorsOfListed ==
  ASSUME NEW t, Implements(t) \subseteq VertexType
  PROVE  Ancestors(t) = Implements(t) \cup UNION {Ancestors(i) : i \in Implements(t)}
<1> DEFINE above == Implements(t) \cup UNION {Ancestors(i) : i \in Implements(t)}
<1>1. Ancestors(t) \subseteq above
  <2>1. above \subseteq VertexType
    <3>1. \A i : Ancestors(i) \subseteq VertexType
      BY ReachedIsClosed DEF Ancestors
    <3> QED BY <3>1
  <2>2. ASSUME NEW u \in above PROVE Implements(u) \cap VertexType \subseteq above
    <3>1. CASE u \in Implements(t)
      BY <3>1, ReachedIsClosed DEF Ancestors
    <3>2. CASE u \notin Implements(t)
      <4>1. PICK i \in Implements(t) : u \in Ancestors(i)
        BY <3>2
      <4>2. Implements(u) \cap VertexType \subseteq Ancestors(i)
        BY <4>1, ReachedIsClosed DEF Closed, Ancestors
      <4> QED BY <4>1, <4>2
    <3> QED BY <3>1, <3>2
  <2> HIDE DEF above
  <2>3. Implements(t) \subseteq above
    BY DEF above
  <2> QED BY <2>1, <2>2, <2>3 DEF Ancestors, Reached
<1>2. Implements(t) \subseteq Ancestors(t) /\ Closed(Ancestors(t), VertexType)
  BY ReachedIsClosed DEF Ancestors
<1>3. \A i \in Implements(t) : Ancestors(i) \subseteq Ancestors(t)
  <2>1. \A i \in Implements(t) : Implements(i) \cap VertexType \subseteq Ancestors(t)
    BY <1>2 DEF Closed
  <2>2. Ancestors(t) \in SUBSET VertexType
    BY ReachedIsClosed DEF Ancestors
  <2> QED BY <1>2, <2>1, <2>2 DEF Ancestors, Reached, Closed
<1> QED BY <1>1, <1>2, <1>3

\* Ancestors of ancestors are ancestors.
LEMMA AncestorsAreTransitive ==
  ASSUME NEW t, NEW u \in Ancestors(t), Implements(u) \subseteq VertexType
  PROVE  Ancestors(u) \subseteq Ancestors(t)
<1>1. Closed(Ancestors(t), VertexType) /\ Ancestors(t) \in SUBSET VertexType
  BY ReachedIsClosed DEF Ancestors
<1>2. Implements(u) \cap VertexType \subseteq Ancestors(t)
  BY <1>1 DEF Closed
<1> QED BY <1>1, <1>2 DEF Ancestors, Reached, Closed

\* A nonempty set of naturals has a least member.
LEMMA LeastNatural ==
  ASSUME NEW N, N \subseteq Nat, N # {}
  PROVE  \E m \in N : \A n \in N : m <= n
<1> DEFINE Up == {0..n : n \in N}
<1>1. Up \subseteq FiniteSubsetsOf(Nat) /\ Up # {}
  <2>1. \A n \in Nat : IsFiniteSet(0..n) /\ 0..n \subseteq Nat
    BY FS_Interval
  <2> QED BY <2>1 DEF FiniteSubsetsOf
<1>2. PICK s \in Up : \A t \in Up : ~ (<<t, s>> \in StrictSubsetOrdering(Nat))
  <2> HIDE DEF Up
  <2> QED BY <1>1, FS_StrictSubsetOrderingWellFounded, WFMin
<1>3. PICK m \in N : s = 0..m
  BY <1>2
<1>4. ASSUME NEW n \in N, ~(m <= n) PROVE FALSE
  <2>1. n < m /\ m \in Nat /\ n \in Nat
    BY <1>4
  <2>2. 0..n \in Up
    BY <2>1
  <2>3. <<0..n, s>> \in StrictSubsetOrdering(Nat)
    BY <1>3, <2>1 DEF StrictSubsetOrdering
  <2> QED BY <1>2, <2>2, <2>3
<1> QED BY <1>4

\* There are traps if a type is its own ancestor, or lists what is not defined, and
\* only then: of the types in a trap one would have the fewest ancestors.
LEMMA TrapsAreCircles ==
  ASSUME IsFiniteSet(VertexType), VertexType \subseteq Name,
         \A t \in VertexType : Implements(t) \subseteq Name
  PROVE  Hierarchical <=> \A types : ~ Trap(types)
<1>1. ASSUME Hierarchical, NEW types, Trap(types) PROVE FALSE
  <2>1. types # {} /\ types \subseteq VertexType
        /\ \A t \in VertexType : Implements(t) \subseteq VertexType /\ t \notin Ancestors(t)
    BY <1>1 DEF Trap, Hierarchical
  <2>2. \A t \in types : Implements(t) \cap types # {}
    BY <1>1, <2>1 DEF Trap
  <2>3. \A t \in VertexType : IsFiniteSet(Ancestors(t)) /\ Cardinality(Ancestors(t)) \in Nat
    <3>1. \A t : Ancestors(t) \in SUBSET VertexType
      BY ReachedIsClosed DEF Ancestors
    <3> QED BY <3>1, FS_Subset, FS_CardinalityType
  <2> DEFINE N == {Cardinality(Ancestors(t)) : t \in types}
  <2>4. N \subseteq Nat /\ N # {}
    BY <2>1, <2>3
  <2> HIDE DEF N
  <2>5. PICK m \in N : \A n \in N : m <= n
    BY <2>4, LeastNatural
  <2>6. PICK t \in types : m = Cardinality(Ancestors(t))
    BY DEF N
  <2>7. PICK i \in Implements(t) : i \in types
    BY <2>2
  <2>8. i \in Ancestors(t) /\ Ancestors(i) \subseteq Ancestors(t) /\ i \notin Ancestors(i)
    BY <2>1, <2>7, AncestorsOfListed
  <2>9. Cardinality(Ancestors(i)) <= Cardinality(Ancestors(t)) /\ Cardinality(Ancestors(i)) # Cardinality(Ancestors(t))
    BY <2>1, <2>3, <2>8, FS_Subset
  <2>10. Cardinality(Ancestors(t)) <= Cardinality(Ancestors(i))
    BY <2>5, <2>6, <2>7 DEF N
  <2> QED BY <2>1, <2>3, <2>7, <2>9, <2>10
<1>2. ASSUME \A types : ~ Trap(types) PROVE Hierarchical
  <2>1. ASSUME NEW t \in VertexType PROVE Implements(t) \subseteq VertexType
    <3>1. ~ Trap({t})
      BY <1>2
    <3> QED BY <3>1 DEF Trap
  <2>2. ASSUME NEW t \in VertexType, t \in Ancestors(t) PROVE FALSE
    <3> DEFINE circle == {u \in VertexType : t \in Ancestors(u)}
    <3>1. t \in circle /\ circle \subseteq VertexType
      BY <2>2
    <3>2. ASSUME NEW u \in circle PROVE Implements(u) \cap circle # {}
      <4>1. Ancestors(u) = Implements(u) \cup UNION {Ancestors(i) : i \in Implements(u)}
        BY <2>1, AncestorsOfListed
      <4>2. CASE t \in Implements(u)
        BY <4>2, <3>1
      <4>3. CASE \E i \in Implements(u) : t \in Ancestors(i)
        BY <4>3, <2>1
      <4> QED BY <4>1, <4>2, <4>3
    <3> HIDE DEF circle
    <3>3. Trap(circle)
      BY <3>1, <3>2 DEF Trap
    <3> QED BY <3>3, <1>2
  <2> QED BY <2>1, <2>2 DEF Hierarchical
<1> QED BY <1>1, <1>2

\* As many layers, and null only where it is for the other.
Layered(sub, parent) ==
  /\ Len(parent.nullable) = Len(sub.nullable)
  /\ \A l \in DOMAIN sub.nullable : sub.nullable[l] => parent.nullable[l]

\* Values of one type are among those of another exactly if its layers fit into the
\* other's and what is at its core is among what is at the other's.
LEMMA InstancesIncluded ==
  ASSUME NEW sub, sub.nullable \in Seq(BOOLEAN), NEW parent, parent.nullable \in Seq(BOOLEAN),
         NEW c, c # {}, NEW e
  PROVE  Instances(sub, c) \subseteq Instances(parent, e) <=> Layered(sub, parent) /\ c \subseteq e
<1> DEFINE m == Len(sub.nullable)
           n == Len(parent.nullable)
<1>1. m \in Nat /\ n \in Nat /\ DOMAIN sub.nullable = 1..m /\ DOMAIN parent.nullable = 1..n
  OBVIOUS
<1>2. \A l, k, x : <<l, "null">> # <<k, "list">> /\ <<l, "null">> # <<k, "core", x>> /\ <<l, "list">> # <<k, "core", x>>
  OBVIOUS
<1>3. \A type, core : \A l : <<l, "null">> \in Instances(type, core) <=> l \in DOMAIN type.nullable /\ type.nullable[l]
  BY <1>2 DEF Instances
<1>4. \A type, core : \A l, x : <<l, "core", x>> \in Instances(type, core) <=> l = Len(type.nullable) /\ x \in core
  BY <1>2 DEF Instances
<1>5. ASSUME Instances(sub, c) \subseteq Instances(parent, e)
      PROVE  m = n /\ (\A l \in DOMAIN sub.nullable : sub.nullable[l] => parent.nullable[l]) /\ c \subseteq e
  <2>1. ASSUME NEW x \in c PROVE m = n /\ x \in e
    <3>1. <<m, "core", x>> \in Instances(sub, c)
      BY <1>4
    <3>2. <<m, "core", x>> \in Instances(parent, e)
      BY <3>1, <1>5
    <3> QED BY <3>2, <1>4
  <2>2. ASSUME NEW l \in DOMAIN sub.nullable, sub.nullable[l] PROVE parent.nullable[l]
    <3>1. <<l, "null">> \in Instances(sub, c)
      BY <2>2, <1>3
    <3>2. <<l, "null">> \in Instances(parent, e)
      BY <3>1, <1>5
    <3> QED BY <3>2, <1>3
  <2> QED BY <2>1, <2>2
<1>6. ASSUME m = n, \A l \in DOMAIN sub.nullable : sub.nullable[l] => parent.nullable[l], c \subseteq e
      PROVE  Instances(sub, c) \subseteq Instances(parent, e)
  <2>1. DOMAIN sub.nullable = DOMAIN parent.nullable
    BY <1>1, <1>6
  <2> QED BY <1>6, <2>1 DEF Instances
<1>7. Layered(sub, parent) <=> m = n /\ \A l \in DOMAIN sub.nullable : sub.nullable[l] => parent.nullable[l]
  BY DEF Layered
<1> QED BY <1>5, <1>6, <1>7

\* is_subtype() looks at what the type at the core lists, and that is enough.
LEMMA SubtypeIsInclusion ==
  ASSUME Transitive, \A t \in VertexType : Implements(t) \subseteq VertexType,
         NEW sub, sub.nullable \in Seq(BOOLEAN), NEW parent, parent.nullable \in Seq(BOOLEAN)
  PROVE  FieldInstances(sub) \subseteq FieldInstances(parent) <=> IsSubtype(parent, sub)
<1> DEFINE Core(type) == {type.base} \cup {t \in VertexType : type.base \in Ancestors(t)}
           c == Core(sub)
           e == Core(parent)
<1>1. \A t \in VertexType : Ancestors(t) = Implements(t)
  BY TransitiveAncestors
<1>2. \A t : t \in VertexType => Implements(t) \subseteq VertexType
  OBVIOUS
<1>3. c \subseteq e <=> IsNamedTypeSubtype(parent.base, sub.base)
  <2>1. ASSUME c \subseteq e PROVE IsNamedTypeSubtype(parent.base, sub.base)
    BY <2>1, <1>1 DEF IsNamedTypeSubtype
  <2>2. ASSUME IsNamedTypeSubtype(parent.base, sub.base) PROVE c \subseteq e
    <3>1. CASE parent.base = sub.base
      BY <3>1
    <3>2. CASE sub.base \in VertexType /\ parent.base \in Implements(sub.base)
      <4>1. \A t \in VertexType : sub.base \in Implements(t) => parent.base \in Implements(t)
        BY <3>2 DEF Transitive
      <4> QED BY <3>2, <4>1, <1>1
    <3> QED BY <2>2, <3>1, <3>2 DEF IsNamedTypeSubtype
  <2> QED BY <2>1, <2>2
<1>4. c # {}
  OBVIOUS
<1>5. FieldInstances(sub) = Instances(sub, c) /\ FieldInstances(parent) = Instances(parent, e)
  BY DEF FieldInstances
<1>6. IsSubtype(parent, sub) <=> Layered(sub, parent) /\ IsNamedTypeSubtype(parent.base, sub.base)
  BY DEF IsSubtype, Layered
<1> HIDE DEF c, e
<1>7. Instances(sub, c) \subseteq Instances(parent, e) <=> Layered(sub, parent) /\ c \subseteq e
  BY <1>4, InstancesIncluded
<1> QED BY <1>3, <1>5, <1>6, <1>7

\* is_scalar_only_subtype()
LEMMA ScalarSubtypeIsInclusion ==
  ASSUME NEW sub, sub.nullable \in Seq(BOOLEAN), NEW parent, parent.nullable \in Seq(BOOLEAN)
  PROVE  ArgumentInstances(sub) \subseteq ArgumentInstances(parent) <=> IsScalarOnlySubtype(parent, sub)
<1> DEFINE c == {sub.base}
           e == {parent.base}
<1>1. c # {}
  OBVIOUS
<1>2. c \subseteq e <=> parent.base = sub.base
  OBVIOUS
<1>3. ArgumentInstances(sub) = Instances(sub, c) /\ ArgumentInstances(parent) = Instances(parent, e)
  BY DEF ArgumentInstances
<1>4. IsScalarOnlySubtype(parent, sub) <=> Layered(sub, parent) /\ parent.base = sub.base
  BY DEF IsScalarOnlySubtype, Compatible, Layered
<1> HIDE DEF c, e
<1>5. Instances(sub, c) \subseteq Instances(parent, e) <=> Layered(sub, parent) /\ c \subseteq e
  BY <1>1, InstancesIncluded
<1> QED BY <1>2, <1>3, <1>4, <1>5

\* An inherited field without errors may take the place of the interface's.
LEMMA NarrowingIsSubstitution ==
  ASSUME TypesKnown, Transitive, \A t \in VertexType : Implements(t) \subseteq VertexType,
         NEW t \in VertexType, NEW i \in VertexType, NEW f \in Fields(t), NEW g \in Fields(i)
  PROVE  Narrowing(t, i, f, g) = {} <=> Substitutes(f, g)
<1>1. /\ f.type.nullable \in Seq(BOOLEAN) /\ \A p \in DOMAIN f.params : f.params[p].type.nullable \in Seq(BOOLEAN)
      /\ g.type.nullable \in Seq(BOOLEAN) /\ \A p \in DOMAIN g.params : g.params[p].type.nullable \in Seq(BOOLEAN)
  BY FieldsKnown DEF IsLayered
<1>2. FieldInstances(f.type) \subseteq FieldInstances(g.type) <=> IsSubtype(g.type, f.type)
  BY <1>1, SubtypeIsInclusion
<1>3. \A p \in DOMAIN f.params \cap DOMAIN g.params :
        ArgumentInstances(g.params[p].type) \subseteq ArgumentInstances(f.params[p].type)
          <=> IsScalarOnlySubtype(f.params[p].type, g.params[p].type)
  BY <1>1, ScalarSubtypeIsInclusion
<1> DEFINE lacking == DOMAIN g.params \ DOMAIN f.params
           extra == DOMAIN f.params \ DOMAIN g.params
           kinds == (IF IsSubtype(g.type, f.type) THEN {} ELSE {"InvalidTypeWideningOfInheritedField"})
                      \cup (IF lacking = {} THEN {} ELSE {"InheritedFieldMissingParameters"})
                      \cup (IF extra = {} THEN {} ELSE {"InheritedFieldUnexpectedParameters"})
           bad == {p \in DOMAIN f.params \cap DOMAIN g.params :
                     ~ IsScalarOnlySubtype(f.params[p].type, g.params[p].type)}
           about == <<i, f.name>>
<1>4. Narrowing(t, i, f, g)
        = {Error(e, t, about) : e \in kinds}
            \cup {Error("InvalidTypeNarrowingOfInheritedFieldParameter", t, Append(about, p)) : p \in bad}
  BY DEF Narrowing
<1>5. kinds = {} <=> IsSubtype(g.type, f.type) /\ DOMAIN f.params = DOMAIN g.params
  OBVIOUS
<1>6. DOMAIN f.params = DOMAIN g.params =>
        (bad = {} <=> \A p \in DOMAIN f.params : IsScalarOnlySubtype(f.params[p].type, g.params[p].type))
  OBVIOUS
<1> HIDE DEF kinds, bad, about
<1>7. Narrowing(t, i, f, g) = {} <=> kinds = {} /\ bad = {}
  BY <1>4
<1> QED BY <1>2, <1>3, <1>5, <1>6, <1>7 DEF Substitutes

\* The checks of what is inherited look at what a type lists, and find nothing
\* exactly if all is right with all its ancestors.
LEMMA InheritanceChecks ==
  ASSUME TypesKnown, Hierarchical
  PROVE  MissingTransitive = {} /\ BadNarrowing = {} /\ MissingRequired = {} <=> Substitutable
<1>1. \A t \in VertexType : Implements(t) \subseteq VertexType
  BY DEF Hierarchical
<1>2. ASSUME MissingTransitive = {}, BadNarrowing = {}, MissingRequired = {} PROVE Substitutable
  <2>1. Transitive /\ Required
    BY <1>2, NothingFound
  <2>2. SUFFICES ASSUME NEW t \in VertexType, NEW u \in Ancestors(t)
                 PROVE  /\ u \in Implements(t)
                        /\ FieldNames(u) \subseteq FieldNames(t)
                        /\ \A n \in FieldNames(u) : Substitutes(FieldOf(t, n), FieldOf(u, n))
    BY DEF Substitutable
  <2>3. u \in Implements(t) /\ u \in VertexType
    BY <1>1, <2>1, TransitiveAncestors
  <2>4. FieldNames(u) \subseteq FieldNames(t)
    BY <2>1, <2>3 DEF Required
  <2>5. ASSUME NEW n \in FieldNames(u) PROVE Substitutes(FieldOf(t, n), FieldOf(u, n))
    <3>1. /\ FieldOf(t, n) \in Fields(t) /\ FieldOf(t, n).name = n
          /\ FieldOf(u, n) \in Fields(u)
      BY <2>4, FieldOfName
    <3>2. <<t, u>> \in Pairs
      BY <2>3 DEF Pairs
    <3>3. Narrowing(t, u, FieldOf(t, n), FieldOf(u, n)) \subseteq BadNarrowing
      BY <3>1, <3>2 DEF BadNarrowing
    <3> QED BY <1>1, <1>2, <2>1, <2>3, <3>1, <3>3, NarrowingIsSubstitution
  <2> QED BY <2>3, <2>4, <2>5
<1>3. ASSUME Substitutable PROVE MissingTransitive = {} /\ BadNarrowing = {} /\ MissingRequired = {}
  <2>1. ASSUME NEW t \in VertexType, NEW u \in Ancestors(t)
        PROVE  /\ u \in Implements(t)
               /\ FieldNames(u) \subseteq FieldNames(t)
               /\ \A n \in FieldNames(u) : Substitutes(FieldOf(t, n), FieldOf(u, n))
    BY <1>3 DEF Substitutable
  <2>2. \A t \in VertexType : Implements(t) \subseteq Ancestors(t)
                                /\ \A i \in Implements(t) : Implements(i) \subseteq Ancestors(t)
    <3>1. ASSUME NEW t \in VertexType, NEW i \in Implements(t) PROVE Implements(i) \subseteq Ancestors(t)
      BY <1>1, AncestorsOfListed
    <3>2. ASSUME NEW t \in VertexType PROVE Implements(t) \subseteq Ancestors(t)
      BY <1>1, AncestorsOfListed
    <3> QED BY <3>1, <3>2
  <2>3. Transitive
    BY <2>1, <2>2 DEF Transitive
  <2>4. ASSUME NEW p \in Pairs PROVE p[1] \in VertexType /\ p[2] \in VertexType /\ p[2] \in Implements(p[1])
    BY DEF Pairs
  <2>5. MissingTransitive = {}
    <3>1. \A p \in Pairs : Implements(p[2]) \ Implements(p[1]) = {}
      BY <2>3, <2>4 DEF Transitive
    <3> QED BY <3>1 DEF MissingTransitive
  <2>6. MissingRequired = {}
    <3>1. \A p \in Pairs : FieldNames(p[2]) \ FieldNames(p[1]) = {}
      BY <2>1, <2>2, <2>4
    <3> QED BY <3>1 DEF MissingRequired
  <2>7. BadNarrowing = {}
    <3>1. ASSUME NEW p \in Pairs, NEW f \in Fields(p[1]), f.name \in FieldNames(p[2])
          PROVE  Narrowing(p[1], p[2], f, FieldOf(p[2], f.name)) = {}
      <4> DEFINE t == p[1]
                 u == p[2]
      <4>1. t \in VertexType /\ u \in VertexType /\ u \in Ancestors(t) /\ f \in Fields(t) /\ f.name \in FieldNames(u)
        BY <2>2, <2>4, <3>1
      <4> HIDE DEF t, u
      <4>2. FieldOf(t, f.name) = f /\ FieldOf(u, f.name) \in Fields(u)
        BY <4>1, FieldsKnown, FieldOfName
      <4>3. Substitutes(f, FieldOf(u, f.name))
        BY <2>1, <4>1, <4>2
      <4>4. Narrowing(t, u, f, FieldOf(u, f.name)) = {}
        BY <1>1, <2>3, <4>1, <4>2, <4>3, NarrowingIsSubstitution
      <4> QED BY <4>4 DEF t, u
    <3> QED BY <3>1 DEF BadNarrowing
  <2> QED BY <2>5, <2>6, <2>7
<1> QED BY <1>2, <1>3

\* No origin is ambiguous exactly if every field has one definer.
LEMMA OriginChecks ==
  ASSUME IsFiniteSet(VertexType), DOMAIN origins = VertexType, FromDefiners
  PROVE  AmbiguousOrigins = {} <=> UniqueOrigins
<1>1. ASSUME NEW t \in VertexType, NEW n \in FieldNames(t)
      PROVE  origins[t][n] = Definers(t, n) /\ (~ (Cardinality(Definers(t, n)) > 1) <=> Cardinality(Definers(t, n)) = 1)
  <2>1. origins[t][n] = Definers(t, n) /\ Definers(t, n) # {}
    BY DEF FromDefiners
  <2>2. Definers(t, n) \in SUBSET VertexType
    BY DEF Definers, Reached
  <2>3. IsFiniteSet(Definers(t, n)) /\ Cardinality(Definers(t, n)) \in Nat /\ Cardinality(Definers(t, n)) # 0
    BY <2>1, <2>2, FS_Subset, FS_CardinalityType, FS_EmptySet
  <2> QED BY <2>1, <2>3
<1>2. AmbiguousOrigins = {} <=> \A t \in VertexType : \A n \in FieldNames(t) : ~ (Cardinality(origins[t][n]) > 1)
  <2> DEFINE Many(t) == {n \in FieldNames(t) : Cardinality(origins[t][n]) > 1}
             found(t) == {Error("AmbiguousFieldOrigin", t, <<n>>) : n \in Many(t)}
  <2>1. AmbiguousOrigins = UNION {found(t) : t \in VertexType}
    BY DEF AmbiguousOrigins
  <2>2. \A t : found(t) = {} <=> Many(t) = {}
    <3> HIDE DEF Many
    <3> QED OBVIOUS
  <2>3. AmbiguousOrigins = {} <=> \A t \in VertexType : found(t) = {}
    <3> HIDE DEF found
    <3> QED BY <2>1
  <2>4. \A t : Many(t) = {} <=> \A n \in FieldNames(t) : ~ (Cardinality(origins[t][n]) > 1)
    OBVIOUS
  <2> HIDE DEF found, Many
  <2> QED BY <2>2, <2>3, <2>4
<1> QED BY <1>1, <1>2 DEF UniqueOrigins

\* What is wrong with one field.
LEMMA FieldChecks ==
  ASSUME NEW t, NEW f
  PROVE  BadField(t, f) = {} <=>
           /\ f.name \notin Reserved
           /\ IsProperty(f) => f.params = << >>
           /\ IsEdge(f) => /\ f.type.base # queryType
                           /\ ~ (Len(f.type.nullable) > 2)
                           /\ BadDefaults(f) = {}
<1> DEFINE toRoot == f.type.base = queryType
           kinds == (IF f.name \in Reserved THEN {"ReservedFieldName"} ELSE {})
                      \cup (IF IsProperty(f) /\ f.params # << >> THEN {"PropertyFieldWithParameters"} ELSE {})
                      \cup (IF IsEdge(f) /\ toRoot THEN {"EdgePointsToRootQueryType"} ELSE {})
                      \cup (IF IsEdge(f) /\ ~ toRoot /\ Len(f.type.nullable) > 2 THEN {"InvalidEdgeType"} ELSE {})
           bad == IF IsEdge(f) /\ ~ toRoot THEN BadDefaults(f) ELSE {}
<1>1. BadField(t, f)
        = {Error(e, t, <<f.name>>) : e \in kinds}
            \cup {Error("InvalidDefaultValueForFieldParameter", t, <<f.name, p>>) : p \in bad}
  BY DEF BadField
<1>2. kinds = {} <=> /\ f.name \notin Reserved
                     /\ IsProperty(f) => f.params = << >>
                     /\ IsEdge(f) => ~ toRoot
                     /\ IsEdge(f) /\ ~ toRoot => ~ (Len(f.type.nullable) > 2)
  OBVIOUS
<1>3. bad = {} <=> (IsEdge(f) /\ ~ toRoot => BadDefaults(f) = {})
  OBVIOUS
<1> HIDE DEF kinds, bad
<1>4. BadField(t, f) = {} <=> kinds = {} /\ bad = {}
  BY <1>1
<1> QED BY <1>2, <1>3, <1>4

\* The checks of types and fields and of the query type.
LEMMA UsabilityChecks ==
  ASSUME TypesKnown, FieldsTyped
  PROVE  BadTypesAndFields = {} /\ RootProperties = {} <=> FieldsUsable /\ NamesUsable
<1> DEFINE Usable(t, f) == \/ f.type.base \in BuiltinScalars /\ f.params = << >> /\ t # queryType
                           \/ /\ f.type.base \in VertexType \ {queryType}
                              /\ Len(f.type.nullable) <= 2
                              /\ \A p \in DOMAIN f.params :
                                   f.params[p].default = None \/ Valid(f.params[p].type, f.params[p].default)
           Good(t, f) == BadField(t, f) = {} /\ ~ (t = queryType /\ IsProperty(f))
<1>1. ASSUME NEW t \in VertexType, NEW f \in Fields(t)
      PROVE  Good(t, f) <=> f.name \notin Reserved /\ Usable(t, f)
  <2>1. f.type.base \in BuiltinScalars \cup VertexType /\ VertexType \cap BuiltinScalars = {}
    BY DEF FieldsTyped, TypesKnown
  <2>2. Len(f.type.nullable) \in Nat
    <3>1. f.type.nullable \in Seq(BOOLEAN)
      BY FieldsKnown DEF IsLayered
    <3> QED BY <3>1
  <2>3. ~ (Len(f.type.nullable) > 2) <=> Len(f.type.nullable) <= 2
    BY <2>2
  <2>4. BadDefaults(f) = {} <=> \A p \in DOMAIN f.params :
                                  f.params[p].default = None \/ Valid(f.params[p].type, f.params[p].default)
    BY DEF BadDefaults
  <2> DEFINE fits == \A p \in DOMAIN f.params :
                       f.params[p].default = None \/ Valid(f.params[p].type, f.params[p].default)
             short == Len(f.type.nullable) <= 2
  <2>5. Usable(t, f) <=> \/ f.type.base \in BuiltinScalars /\ f.params = << >> /\ t # queryType
                         \/ f.type.base \in VertexType \ {queryType} /\ short /\ fits
    OBVIOUS
  <2>6. BadField(t, f) = {} <=> /\ f.name \notin Reserved
                                /\ IsProperty(f) => f.params = << >>
                                /\ IsEdge(f) => f.type.base # queryType /\ short /\ fits
    BY <2>3, <2>4, FieldChecks
  <2> HIDE DEF fits, short, Usable
  <2> QED BY <2>1, <2>5, <2>6 DEF IsProperty, IsEdge
<1>2. BadTypesAndFields = {} <=> /\ VertexType \cap Reserved = {}
                                 /\ \A t \in VertexType : \A f \in Fields(t) : BadField(t, f) = {}
  <2> DEFINE names == {Error("ReservedTypeName", t, << >>) : t \in VertexType \cap Reserved}
             found(t) == UNION {BadField(t, f) : f \in Fields(t)}
  <2>1. BadTypesAndFields = names \cup UNION {found(t) : t \in VertexType}
    BY DEF BadTypesAndFields
  <2>2. names = {} <=> VertexType \cap Reserved = {}
    OBVIOUS
  <2>3. \A t : found(t) = {} <=> \A f \in Fields(t) : BadField(t, f) = {}
    OBVIOUS
  <2> HIDE DEF names, found
  <2> QED BY <2>1, <2>2, <2>3
<1>3. RootProperties = {} <=> \A f \in Fields(queryType) : ~ IsProperty(f)
  BY DEF RootProperties
<1>4. queryType \in VertexType
  BY DEF TypesKnown
<1>5. BadTypesAndFields = {} /\ RootProperties = {}
        <=> VertexType \cap Reserved = {} /\ \A t \in VertexType : \A f \in Fields(t) : Good(t, f)
  BY <1>2, <1>3, <1>4
<1>6. FieldsUsable <=> \A t \in VertexType \ Reserved : \A f \in Fields(t) : Usable(t, f)
  BY DEF FieldsUsable
<1>7. NamesUsable <=> VertexType \cap Reserved = {} /\ \A t \in VertexType : \A f \in Fields(t) : f.name \notin Reserved
  <2>1. \A t \in VertexType : t \in Name /\ \A f \in Fields(t) : f.name \in FieldName
    BY FieldsKnown
  <2>2. \A t \in VertexType : FieldNames(t) = {f.name : f \in Fields(t)}
    BY DEF FieldNames
  <2> QED BY <2>1, <2>2 DEF NamesUsable
<1> HIDE DEF Usable, Good
<1> QED BY <1>1, <1>5, <1>6, <1>7

-----------------------------------------------------------------------------
(* Decisions.                                                              *)

\* Rules are about the document and the types that were read.
LEMMA SameRules ==
  ASSUME doc' = doc, queryType' = queryType, vertexTypes' = vertexTypes
  PROVE  /\ Readable' <=> Readable
         /\ TypesKnown' <=> TypesKnown
         /\ Hierarchical' <=> Hierarchical
         /\ FieldsTyped' <=> FieldsTyped
         /\ Substitutable' <=> Substitutable
         /\ UniqueOrigins' <=> UniqueOrigins
         /\ FieldsUsable' <=> FieldsUsable
         /\ NamesUsable' <=> NamesUsable
<1>1. /\ VertexType' = VertexType
      /\ \A t : Implements(t)' = Implements(t)
      /\ \A t : FieldNames(t)' = FieldNames(t)
      /\ \A t, n : FieldOf(t, n)' = FieldOf(t, n)
  BY SameTypes
<1>2. \A t : Fields(t)' = Fields(t)
  BY DEF Fields, Elements
<1>3. \A kinds : Definitions(kinds)' = Definitions(kinds)
  BY DEF Definitions
<1>4. Readable' <=> Readable
  BY <1>3 DEF Readable
<1>5. TypesKnown' <=> TypesKnown
  BY <1>1 DEF TypesKnown
<1>6. \A from, scope : Reached(from, scope)' = Reached(from, scope)
  BY <1>1 DEF Reached
<1>7. \A t : Ancestors(t)' = Ancestors(t)
  BY <1>1, <1>6 DEF Ancestors
<1>8. Hierarchical' <=> Hierarchical
  BY <1>1, <1>7 DEF Hierarchical
<1>9. FieldsTyped' <=> FieldsTyped
  BY <1>1, <1>2 DEF FieldsTyped
<1>10. \A type : FieldInstances(type)' = FieldInstances(type)
  BY <1>1, <1>7 DEF FieldInstances
<1>11. \A f, g : Substitutes(f, g)' <=> Substitutes(f, g)
  BY <1>10 DEF Substitutes
<1>12. Substitutable' <=> Substitutable
  BY <1>1, <1>7, <1>11 DEF Substitutable
<1>13. UniqueOrigins' <=> UniqueOrigins
  BY <1>1, SameDefiners DEF UniqueOrigins
<1>14. FieldsUsable' <=> FieldsUsable
  BY <1>1, <1>2 DEF FieldsUsable
<1>15. NamesUsable' <=> NamesUsable
  BY <1>1 DEF NamesUsable
<1> QED BY <1>4, <1>5, <1>8, <1>9, <1>12, <1>13, <1>14, <1>15

\* So is what the checks find, and about the origins.
LEMMA SameErrors ==
  ASSUME queryType' = queryType, vertexTypes' = vertexTypes, origins' = origins, NEW i \in 1..6
  PROVE  ErrorsOfCheck(i)' = ErrorsOfCheck(i)
<1>1. /\ VertexType' = VertexType
      /\ \A t : Implements(t)' = Implements(t)
      /\ \A t : FieldNames(t)' = FieldNames(t)
      /\ \A t, n : FieldOf(t, n)' = FieldOf(t, n)
  BY SameTypes
<1>2. \A t : Fields(t)' = Fields(t)
  BY DEF Fields, Elements
<1>3. Pairs' = Pairs
  BY <1>1 DEF Pairs
<1>4. MissingTransitive' = MissingTransitive
  <2> DEFINE found(p) == {Error("MissingTransitiveInterfaceImplementation", p[1], <<p[2], j>>) :
                        j \in Implements(p[2]) \ Implements(p[1])}
  <2>1. \A p : found(p)' = found(p)
    BY <1>1
  <2>2. MissingTransitive = UNION {found(p) : p \in Pairs} /\ MissingTransitive' = UNION {found(p)' : p \in Pairs'}
    BY DEF MissingTransitive
  <2> HIDE DEF found
  <2> QED BY <2>1, <2>2, <1>3
<1>5. MissingRequired' = MissingRequired
  <2> DEFINE found(p) == {Error("MissingRequiredField", p[1], <<p[2], n>>) :
                        n \in FieldNames(p[2]) \ FieldNames(p[1])}
  <2>1. \A p : found(p)' = found(p)
    BY <1>1
  <2>2. MissingRequired = UNION {found(p) : p \in Pairs} /\ MissingRequired' = UNION {found(p)' : p \in Pairs'}
    BY DEF MissingRequired
  <2> HIDE DEF found
  <2> QED BY <2>1, <2>2, <1>3
<1>6. AmbiguousOrigins' = AmbiguousOrigins
  BY <1>1 DEF AmbiguousOrigins
<1>7. RootProperties' = RootProperties
  BY <1>2 DEF RootProperties
<1>8. BadNarrowing' = BadNarrowing
  <2>1. \A t, u : IsSubtype(t, u)' <=> IsSubtype(t, u)
    BY <1>1 DEF IsSubtype, IsNamedTypeSubtype
  <2>2. \A t, u, f, g : Narrowing(t, u, f, g)' = Narrowing(t, u, f, g)
    BY <2>1 DEF Narrowing
  <2> QED BY <1>1, <1>2, <1>3, <2>2 DEF BadNarrowing
<1>9. BadTypesAndFields' = BadTypesAndFields
  <2>1. \A f : IsEdge(f)' <=> IsEdge(f)
    BY <1>1 DEF IsEdge
  <2>2. \A t, f : BadField(t, f)' = BadField(t, f)
    BY <2>1, ZenonT(60) DEF BadField
  <2> DEFINE names == {Error("ReservedTypeName", t, << >>) : t \in VertexType \cap Reserved}
             found(t) == UNION {BadField(t, f) : f \in Fields(t)}
             all == UNION {found(t) : t \in VertexType}
  <2>3. BadTypesAndFields = names \cup all /\ BadTypesAndFields' = names' \cup all'
    BY DEF BadTypesAndFields
  <2>4. names' = names
    BY <1>1
  <2>5. \A t : found(t)' = found(t)
    BY <1>2, <2>2
  <2>6. all = UNION {found(t) : t \in VertexType} /\ all' = UNION {found(t)' : t \in VertexType'}
    OBVIOUS
  <2> HIDE DEF names, found, all
  <2>7. all' = all
    BY <1>1, <2>5, <2>6
  <2> QED BY <2>3, <2>4, <2>7
<1> QED BY <1>4, <1>5, <1>6, <1>7, <1>8, <1>9 DEF ErrorsOfCheck

\* What has been found about the document, in each phase.
Decided ==
  /\ phase = "definitions" => Read
  /\ phase \in {"origins", "checks"} => Readable
  /\ phase \in {"origins", "checks", "accepted"} => TypesKnown
  /\ phase = "checks" => /\ at \in 1..7
                         /\ errors = {} <=> \A i \in 1..at - 1 : ErrorsOfCheck(i) = {}
                         /\ at > 5 => FieldsTyped
  /\ DecidesRightly

\* If every type has been resolved there is no trap, and so no circle.
LEMMA HierarchicalOnceResolved ==
  ASSUME IInv, TypesKnown, phase = "checks"
  PROVE  Hierarchical
<1>1. \A types : Trap(types) => types # {} /\ types \subseteq VertexType /\ types \cap VertexType = {}
  BY DEF IInv, Progress, Grounded, Trap
<1>2. \A types : ~ Trap(types)
  BY <1>1
<1>3. IsFiniteSet(VertexType) /\ VertexType \subseteq Name /\ \A t \in VertexType : Implements(t) \subseteq Name
  BY DEF TypesKnown, IInv, Defined
<1> QED BY <1>2, <1>3, TrapsAreCircles

\* Nothing has been decided at first.
LEMMA DecidedAtFirst == Init => Decided
BY ReadAtFirst DEF Init, Decided, DecidesRightly

\* Definitions that are read leave nothing to decide.
LEMMA ReadingDecides ==
  ASSUME IInv, Decided,
         SchemaDefinition \/ DirectiveDefinition \/ ScalarDefinition \/ VertexDefinition
  PROVE  Decided'
<1>1. phase = "definitions" /\ phase' = "definitions"
  BY DEF SchemaDefinition, DirectiveDefinition, ScalarDefinition, VertexDefinition, Reading
<1>2. Read'
  BY <1>1, ReadKept DEF Decided, IInv, Defined
<1> QED BY <1>1, <1>2 DEF Decided, DecidesRightly

\* A panic while definitions are read means that they are not readable.
LEMMA DefinitionPanicsDecide ==
  ASSUME IInv, Decided, DefinitionPanics
  PROVE  Decided'
<1>1. doc \in Docs /\ Read /\ at \in DOMAIN doc /\ phase' = "panicked"
      /\ doc' = doc /\ queryType' = queryType /\ vertexTypes' = vertexTypes
  BY DEF DefinitionPanics, Panic, Decided, IInv, Defined
<1>2. ~ ReadableBefore(doc, at + 1)
  BY <1>1, PanicsAreDisagreements, ReadableNext
<1>3. ~ Readable
  BY <1>1, <1>2, ReadablePrefix, ReadableIsBeforeEnd
<1>4. ~ Readable'
  BY <1>1, <1>3, SameRules
<1> QED BY <1>1, <1>4 DEF Decided, DecidesRightly, Panics

\* A document without a query type is not readable.
LEMMA NoQueryTypeDecides ==
  ASSUME IInv, Decided, NoQueryType
  PROVE  Decided'
<1>1. doc \in Docs /\ Read /\ at \notin DOMAIN doc /\ phase' = "panicked" /\ ~ QueryTypeDefined
      /\ doc' = doc /\ queryType' = queryType /\ vertexTypes' = vertexTypes
  BY DEF NoQueryType, Panic, Decided, IInv, Defined
<1>2. ~ Readable'
  BY <1>1, AllRead, SameRules
<1> QED BY <1>1, <1>2 DEF Decided, DecidesRightly, Panics

\* A document that has been read to its end, with a query type, is readable.
LEMMA BeginOriginsDecides ==
  ASSUME IInv, Decided, BeginOrigins
  PROVE  Decided'
<1>1. doc \in Docs /\ Read /\ at \notin DOMAIN doc /\ phase' = "origins" /\ QueryTypeDefined
      /\ doc' = doc /\ queryType' = queryType /\ vertexTypes' = vertexTypes
  BY DEF BeginOrigins, Decided, IInv, Defined
<1>2. Readable' /\ TypesKnown'
  BY <1>1, AllRead, SameRules
<1> QED BY <1>1, <1>2 DEF Decided, DecidesRightly

\* Resolving a type decides nothing.
LEMMA ResolveOriginsDecides ==
  ASSUME IInv, Decided, ResolveOrigins
  PROVE  Decided'
<1>1. phase = "origins" /\ phase' = "origins" /\ doc' = doc /\ queryType' = queryType /\ vertexTypes' = vertexTypes
  BY DEF ResolveOrigins
<1>2. Readable' /\ TypesKnown'
  BY <1>1, SameRules DEF Decided
<1> QED BY <1>1, <1>2 DEF Decided, DecidesRightly

\* Where types are left over the document is not hierarchical.
LEMMA CircularImplementsDecides ==
  ASSUME IInv, Decided, CircularImplements
  PROVE  Decided'
<1>1. phase = "origins" /\ phase' = "rejected" /\ doc' = doc /\ queryType' = queryType /\ vertexTypes' = vertexTypes
  BY DEF CircularImplements
<1>2. Readable /\ TypesKnown
  BY <1>1 DEF Decided
<1>3. VertexType \subseteq Name /\ \A t \in VertexType : Implements(t) \subseteq Name
  BY DEF IInv, Defined
<1>4. ~ Hierarchical
  BY <1>2, <1>3, LeftOverIsTrap, TrapsAreCircles DEF TypesKnown
<1>5. Readable' /\ ~ Hierarchical'
  BY <1>1, <1>2, <1>4, SameRules
<1> QED BY <1>1, <1>5 DEF Decided, DecidesRightly, Panics

\* The checks begin with no errors.
LEMMA OriginsFoundDecides ==
  ASSUME IInv, Decided, OriginsFound
  PROVE  Decided'
<1>1. /\ phase = "origins" /\ phase' = "checks" /\ at' = 1 /\ errors' = errors
      /\ doc' = doc /\ queryType' = queryType /\ vertexTypes' = vertexTypes
  BY DEF OriginsFound
<1>2. Readable' /\ TypesKnown'
  BY <1>1, SameRules DEF Decided
<1>3. errors' = {}
  BY <1>1 DEF IInv, Progress
<1>4. 1..at' - 1 = {}
  BY <1>1
<1> QED BY <1>1, <1>2, <1>3, <1>4 DEF Decided, DecidesRightly

\* There are no errors exactly as long as no check has found one.
LEMMA CheckDecides ==
  ASSUME IInv, Decided, Check
  PROVE  Decided'
<1>1. /\ phase = "checks" /\ phase' = "checks" /\ at \in 1..6 /\ at' = at + 1
      /\ ~ (at = 5 /\ NeitherEdgeNorProperty)
      /\ errors' = errors \cup ErrorsOfCheck(at)
      /\ doc' = doc /\ queryType' = queryType /\ vertexTypes' = vertexTypes /\ origins' = origins
  BY DEF Check
<1>2. /\ Readable /\ TypesKnown /\ (errors = {} <=> \A i \in 1..at - 1 : ErrorsOfCheck(i) = {})
      /\ at > 5 => FieldsTyped
  BY <1>1 DEF Decided
<1>3. Readable' /\ TypesKnown'
  BY <1>1, <1>2, SameRules
<1>4. \A i \in 1..6 : ErrorsOfCheck(i)' = ErrorsOfCheck(i)
  BY <1>1, SameErrors
<1>5. errors' = {} <=> \A i \in 1..at' - 1 : ErrorsOfCheck(i)' = {}
  <2>1. \A i : i \in 1..at' - 1 <=> i \in 1..at - 1 \/ i = at
    BY <1>1
  <2>2. 1..at' - 1 \subseteq 1..6
    BY <1>1
  <2>3. errors' = {} <=> \A i \in 1..at' - 1 : ErrorsOfCheck(i) = {}
    BY <1>1, <1>2, <2>1
  <2> QED BY <1>4, <2>2, <2>3
<1>6. at = 5 => FieldsTyped
  BY <1>1 DEF NeitherEdgeNorProperty, IsProperty, IsEdge, FieldsTyped
<1>7. at' > 5 => FieldsTyped'
  <2>1. at' > 5 => at = 5 \/ at > 5
    BY <1>1
  <2> QED BY <1>1, <1>2, <1>6, <2>1, SameRules
<1>8. at' \in 1..7
  BY <1>1
<1> QED BY <1>1, <1>3, <1>5, <1>7, <1>8 DEF Decided, DecidesRightly

\* The program panics in the checks only over a field without a type.
LEMMA UnreachableFieldDecides ==
  ASSUME IInv, Decided, UnreachableField
  PROVE  Decided'
<1>1. /\ phase = "checks" /\ phase' = "panicked" /\ NeitherEdgeNorProperty
      /\ doc' = doc /\ queryType' = queryType /\ vertexTypes' = vertexTypes
  BY DEF UnreachableField, Panic
<1>2. Hierarchical
  BY <1>1, HierarchicalOnceResolved DEF Decided
<1>3. ~ FieldsTyped
  BY <1>1 DEF NeitherEdgeNorProperty, IsProperty, IsEdge, FieldsTyped
<1>4. Hierarchical' /\ ~ FieldsTyped'
  BY <1>1, <1>2, <1>3, SameRules
<1> QED BY <1>1, <1>4 DEF Decided, DecidesRightly, Panics

\* The six checks together are the rules.
LEMMA ChecksDoneDecides ==
  ASSUME IInv, Decided, ChecksDone
  PROVE  Decided'
<1>1. /\ phase = "checks" /\ phase' = (IF errors = {} THEN "accepted" ELSE "rejected") /\ at = 7
      /\ doc' = doc /\ queryType' = queryType /\ vertexTypes' = vertexTypes
  BY DEF ChecksDone
<1>2. /\ Readable /\ TypesKnown /\ (errors = {} <=> \A i \in 1..6 : ErrorsOfCheck(i) = {})
      /\ FieldsTyped
  BY <1>1 DEF Decided
<1>3. Hierarchical
  BY <1>1, <1>2, HierarchicalOnceResolved
<1>4. errors = {} <=> /\ MissingTransitive = {} /\ BadNarrowing = {} /\ MissingRequired = {}
                      /\ AmbiguousOrigins = {} /\ BadTypesAndFields = {} /\ RootProperties = {}
  <2>1. \A i : i \in 1..6 <=> i = 1 \/ i = 2 \/ i = 3 \/ i = 4 \/ i = 5 \/ i = 6
    OBVIOUS
  <2>2. /\ ErrorsOfCheck(1) = MissingTransitive /\ ErrorsOfCheck(2) = BadNarrowing
        /\ ErrorsOfCheck(3) = MissingRequired /\ ErrorsOfCheck(4) = AmbiguousOrigins
        /\ ErrorsOfCheck(5) = BadTypesAndFields /\ ErrorsOfCheck(6) = RootProperties
    BY DEF ErrorsOfCheck
  <2> QED BY <1>2, <2>1, <2>2
<1>5. AmbiguousOrigins = {} <=> UniqueOrigins
  BY <1>1, <1>2, OriginChecks DEF IInv, Progress, TypesKnown
<1>6. errors = {} <=> Substitutable /\ UniqueOrigins /\ FieldsUsable /\ NamesUsable
  BY <1>2, <1>3, <1>4, <1>5, InheritanceChecks, UsabilityChecks
<1>7. /\ Readable' /\ TypesKnown' /\ Hierarchical' /\ FieldsTyped'
      /\ errors = {} <=> Substitutable' /\ UniqueOrigins' /\ FieldsUsable' /\ NamesUsable'
  BY <1>1, <1>2, <1>3, <1>6, SameRules
<1>8. phase' = "accepted" <=> errors = {}
  BY <1>1
<1>9. phase' \in {"accepted", "rejected"}
  BY <1>1
<1> QED BY <1>7, <1>8, <1>9 DEF Decided, DecidesRightly, Panics

\* A step that changes nothing.
LEMMA StutterDecides ==
  ASSUME IInv, Decided, UNCHANGED vars
  PROVE  Decided'
<1>1. /\ doc' = doc /\ queryType' = queryType /\ vertexTypes' = vertexTypes /\ origins' = origins
      /\ phase' = phase /\ at' = at /\ errors' = errors /\ directives' = directives /\ scalars' = scalars
  BY DEF vars
<1>2. Read' <=> Read
  BY <1>1 DEF Read
<1>3. \A i \in 1..6 : ErrorsOfCheck(i)' = ErrorsOfCheck(i)
  BY <1>1, SameErrors
<1>4. phase = "checks" => 1..at - 1 \subseteq 1..6
  BY DEF Decided
<1>5. DecidesRightly'
  BY <1>1, SameRules DEF Decided, DecidesRightly, Panics
<1>6. /\ phase' \in {"origins", "checks"} => Readable'
      /\ phase' \in {"origins", "checks", "accepted"} => TypesKnown'
  BY <1>1, SameRules DEF Decided
<1>7. phase' = "checks" => /\ at' \in 1..7
                           /\ errors' = {} <=> \A i \in 1..at' - 1 : ErrorsOfCheck(i)' = {}
                           /\ at' > 5 => FieldsTyped'
  BY <1>1, <1>3, <1>4, SameRules DEF Decided
<1> QED BY <1>1, <1>2, <1>5, <1>6, <1>7 DEF Decided

\* Every step keeps what has been decided right.
LEMMA NextDecides ==
  ASSUME IInv, Decided, [Next]_vars
  PROVE  Decided'
<1>1. CASE SchemaDefinition \/ DirectiveDefinition \/ ScalarDefinition \/ VertexDefinition
  BY <1>1, ReadingDecides
<1>2. CASE DefinitionPanics
  BY <1>2, DefinitionPanicsDecide
<1>3. CASE NoQueryType
  BY <1>3, NoQueryTypeDecides
<1>4. CASE BeginOrigins
  BY <1>4, BeginOriginsDecides
<1>5. CASE ResolveOrigins
  BY <1>5, ResolveOriginsDecides
<1>6. CASE CircularImplements
  BY <1>6, CircularImplementsDecides
<1>7. CASE OriginsFound
  BY <1>7, OriginsFoundDecides
<1>8. CASE Check
  BY <1>8, CheckDecides
<1>9. CASE UnreachableField
  BY <1>9, UnreachableFieldDecides
<1>10. CASE ChecksDone
  BY <1>10, ChecksDoneDecides
<1>11. CASE Done \/ UNCHANGED vars
  BY <1>11, StutterDecides DEF Done
<1> QED BY <1>1, <1>2, <1>3, <1>4, <1>5, <1>6, <1>7, <1>8, <1>9, <1>10, <1>11 DEF Next

\* Schema::new() accepts a document if, and only if, it obeys all rules, which look
\* at whole documents and not at one type and one interface at a time, and panics
\* only if a definition cannot be read or a field has no type.
THEOREM DecidesRightlyHolds == Spec => []DecidesRightly
<1>1. Init => Decided
  BY DecidedAtFirst
<1>2. IInv /\ Decided /\ [Next]_vars => Decided'
  BY NextDecides
<1>3. Decided => DecidesRightly
  BY DEF Decided
<1> QED BY <1>1, <1>2, <1>3, AlwaysIInv, PTL DEF Spec

-----------------------------------------------------------------------------
(* Queries: what is known of a schema that was accepted.                   *)

GoodSchema ==
  /\ TypesKnown /\ Hierarchical /\ FieldsTyped /\ Substitutable /\ FieldsUsable /\ NamesUsable
  /\ Transitive
  /\ \A t \in VertexType : \A n \in FieldNames(t) :
       origins[t][n] \subseteq {u \in VertexType : n \in FieldNames(u)} /\ origins[t][n] # {}

\* It is known once the schema is accepted.
LEMMA AcceptedIsGood ==
  ASSUME IInv, Decided, phase = "accepted"
  PROVE  GoodSchema
<1>1. TypesKnown /\ Hierarchical /\ FieldsTyped /\ Substitutable /\ FieldsUsable /\ NamesUsable
  BY DEF Decided, DecidesRightly, Panics
<1>2. Transitive
  BY DEF IInv, Checked
<1>3. ASSUME NEW t \in VertexType, NEW n \in FieldNames(t)
      PROVE  origins[t][n] \subseteq {u \in VertexType : n \in FieldNames(u)} /\ origins[t][n] # {}
  <2>1. origins[t][n] = Definers(t, n) /\ Definers(t, n) # {}
    BY DEF IInv, Progress, FromDefiners
  <2>2. Definers(t, n) \subseteq {u \in VertexType : n \in FieldNames(u)}
    BY DEF Definers, Reached
  <2> QED BY <2>1, <2>2
<1> QED BY <1>1, <1>2, <1>3 DEF GoodSchema

\* No type has the name __typename, which is reserved.
LEMMA TypenameIsNoType ==
  ASSUME GoodSchema
  PROVE  Typename \notin VertexType
BY TypenameIsReserved DEF GoodSchema, NamesUsable

\* Descendants of a type that descends from another descend from that.
LEMMA SubtypesOfSubtype ==
  ASSUME GoodSchema, NEW parent, NEW sub, IsNamedTypeSubtype(parent, sub)
  PROVE  Subtypes(sub) \subseteq Subtypes(parent)
BY DEF GoodSchema, IsNamedTypeSubtype, Subtypes, Transitive

\* What is valid for a type is valid for one that admits all its instances.
LEMMA ValidForWider ==
  ASSUME NEW sub, sub.nullable \in Seq(BOOLEAN), NEW parent, parent.nullable \in Seq(BOOLEAN),
         IsScalarOnlySubtype(parent, sub), NEW v, Valid(sub, v)
  PROVE  Valid(parent, v)
<1>1. Len(parent.nullable) = Len(sub.nullable) /\ DOMAIN parent.nullable = DOMAIN sub.nullable /\ parent.base = sub.base
  BY DEF IsScalarOnlySubtype, Compatible
<1>2. \A l \in DOMAIN sub.nullable : sub.nullable[l] => parent.nullable[l]
  BY DEF IsScalarOnlySubtype
<1>3. ASSUME NEW part \in v PROVE Fits(parent, part)
  <2>1. Fits(sub, part)
    BY DEF Valid
  <2>2. part.depth \in DOMAIN parent.nullable
    BY <2>1, <1>1 DEF Fits
  <2>3. CASE part.kind = "null"
    BY <2>1, <2>2, <2>3, <1>2 DEF Fits
  <2>4. CASE part.kind = "list"
    BY <2>1, <2>2, <2>4, <1>1 DEF Fits
  <2>5. CASE part.kind \notin {"null", "list"}
    BY <2>1, <2>2, <2>5, <1>1 DEF Fits
  <2> QED BY <2>3, <2>4, <2>5
<1> QED BY <1>3 DEF Valid

\* Parameters that suit the edge of a type suit that of what descends from it.
LEMMA SuitableBelow ==
  ASSUME GoodSchema, NEW u, NEW n, Has(u, n), NEW t \in Subtypes(u),
         NEW parameters, Suitable(parameters, FieldOf(u, n))
  PROVE  Suitable(parameters, FieldOf(t, n))
<1>1. CASE t = u
  BY <1>1
<1>2. CASE t # u
  <2>1. u \in VertexType /\ t \in VertexType /\ u \in Implements(t) /\ n \in FieldNames(u)
    BY <1>2 DEF Subtypes, Has
  <2>2. u \in Ancestors(t)
    BY <2>1 DEF Ancestors, Reached
  <2> DEFINE f == FieldOf(t, n)
             g == FieldOf(u, n)
  <2>3. n \in FieldNames(t) /\ Substitutes(f, g)
    BY <2>1, <2>2 DEF GoodSchema, Substitutable
  <2>4. f \in Fields(t) /\ g \in Fields(u)
    BY <2>1, <2>3, FieldOfName
  <2>5. /\ \A p \in DOMAIN f.params : f.params[p].type.nullable \in Seq(BOOLEAN)
        /\ \A p \in DOMAIN g.params : g.params[p].type.nullable \in Seq(BOOLEAN)
    BY <2>1, <2>4, FieldsKnown DEF GoodSchema, IsLayered
  <2>6. Suitable(parameters, g)
    OBVIOUS
  <2> HIDE DEF f, g
  <2>7. DOMAIN f.params = DOMAIN g.params /\ DOMAIN parameters = DOMAIN g.params
    BY <2>3, <2>6 DEF Substitutes, Suitable
  <2>8. ASSUME NEW p \in DOMAIN parameters
        PROVE  parameters[p] # None /\ Valid(f.params[p].type, parameters[p])
    <3>1. parameters[p] # None /\ Valid(g.params[p].type, parameters[p])
      BY <2>6 DEF Suitable
    <3>2. ArgumentInstances(g.params[p].type) \subseteq ArgumentInstances(f.params[p].type)
      BY <2>3, <2>7 DEF Substitutes
    <3>3. f.params[p].type.nullable \in Seq(BOOLEAN) /\ g.params[p].type.nullable \in Seq(BOOLEAN)
      BY <2>5, <2>7
    <3>4. IsScalarOnlySubtype(f.params[p].type, g.params[p].type)
      BY <3>2, <3>3, ScalarSubtypeIsInclusion
    <3> QED BY <3>1, <3>3, <3>4, ValidForWider
  <2>9. Suitable(parameters, f)
    BY <2>7, <2>8 DEF Suitable
  <2> QED BY <2>9 DEF f
<1> QED BY <1>1, <1>2

\* Parameters without errors suit the edge they are made for.
LEMMA MadeParametersSuit ==
  ASSUME GoodSchema, NEW t, NEW n, Has(t, n), FieldOf(t, n).type.base \in VertexType,
         NEW args, ParameterErrors(FieldOf(t, n), args) = {}
  PROVE  Suitable(MakeEdgeParameters(FieldOf(t, n), args), FieldOf(t, n))
<1> DEFINE f == FieldOf(t, n)
<1>1. t \in VertexType /\ n \in FieldNames(t) /\ f \in Fields(t) /\ f.name = n
  BY FieldOfName DEF Has
<1>2. \A p \in DOMAIN f.params : IsLayered(f.params[p].type)
  BY <1>1, FieldsKnown DEF GoodSchema
<1>3. \A p \in DOMAIN f.params : f.params[p].default = None \/ Valid(f.params[p].type, f.params[p].default)
  <2>1. t \notin Reserved
    BY <1>1 DEF GoodSchema, NamesUsable
  <2>2. f.type.base \notin BuiltinScalars
    BY DEF GoodSchema, TypesKnown
  <2> QED BY <1>1, <2>1, <2>2 DEF GoodSchema, FieldsUsable
<1>4. ParameterErrors(f, args) = {}
  OBVIOUS
<1> HIDE DEF f
<1> DEFINE made == MakeEdgeParameters(f, args)
<1>5. DOMAIN made = DOMAIN f.params
  BY DEF MakeEdgeParameters
<1>6. ASSUME NEW p \in DOMAIN f.params PROVE made[p] # None /\ Valid(f.params[p].type, made[p])
  <2>1. made[p] = IF p \in DOMAIN args THEN args[p] ELSE ImplicitValue(f.params[p])
    BY DEF MakeEdgeParameters
  <2>2. made[p] # None
    BY <1>4 DEF ParameterErrors
  <2>3. CASE p \in DOMAIN args
    <3>1. Valid(f.params[p].type, args[p])
      BY <1>4, <2>3 DEF ParameterErrors
    <3> QED BY <2>1, <2>2, <2>3, <3>1
  <2>4. CASE p \notin DOMAIN args /\ f.params[p].default # None
    BY <2>1, <2>2, <2>4, <1>3 DEF ImplicitValue
  <2>5. CASE p \notin DOMAIN args /\ f.params[p].default = None
    <3>1. f.params[p].type.nullable[1] /\ made[p] = NullValue
      BY <2>1, <2>2, <2>5 DEF ImplicitValue
    <3>2. 1 \in DOMAIN f.params[p].type.nullable
      BY <1>2 DEF IsLayered
    <3>3. Valid(f.params[p].type, NullValue)
      BY <3>1, <3>2 DEF Valid, NullValue, Fits
    <3> QED BY <3>1, <3>3, <2>2
  <2> QED BY <2>3, <2>4, <2>5
<1> HIDE DEF made
<1>7. Suitable(made, f)
  BY <1>5, <1>6 DEF Suitable
<1> QED BY <1>7 DEF made, f
\* An edge that was made: its parameters, and the type on which the edge is resolved
\* again in a recursion, which has it and from which it leads to where it has led.
EdgeFits(from, step, edge) ==
  LET again == IF edge.coerceTo = None THEN step.from ELSE edge.coerceTo
  IN  /\ Suitable(edge.parameters, FieldOf(from, step.name))
      /\ step.recursed =>
           /\ IsNamedTypeSubtype(step.from, from)
           /\ Has(again, step.name)
           /\ FieldOf(again, step.name).type.base = step.from

\* get_recurse_implicit_coercion() reports no error only if it finds such a type.
LEMMA RecursionFits ==
  ASSUME GoodSchema, NEW source, NEW n, Has(source, n), FieldOf(source, n).type.base \in VertexType,
         RecursionErrors(source, FieldOf(source, n)) = {}
  PROVE  LET destination == FieldOf(source, n).type.base
             to == IF NeedsCoercion(source, FieldOf(source, n)) THEN OriginType(source, n) ELSE destination
         IN  /\ IsNamedTypeSubtype(destination, source)
             /\ Has(to, n) /\ FieldOf(to, n).type.base = destination
<1> DEFINE f == FieldOf(source, n)
           destination == f.type.base
<1>1. source \in VertexType /\ n \in FieldNames(source) /\ f.name = n
  BY FieldOfName DEF Has
<1>2. RecursionErrors(source, f) = {} /\ destination \in VertexType
  OBVIOUS
<1>3. FieldOf(source, n) = f /\ destination = f.type.base
  OBVIOUS
<1> HIDE DEF f, destination
<1>4. IsNamedTypeSubtype(destination, source)
  BY <1>2, <1>3 DEF RecursionErrors
<1>5. CASE ~ NeedsCoercion(source, f)
  <2>1. source = destination \/ RecursesAsIs(destination, n)
    BY <1>1, <1>2, <1>3, <1>4, <1>5 DEF RecursionErrors
  <2>2. Has(destination, n) /\ FieldOf(destination, n).type.base = destination
    BY <1>1, <1>3, <2>1 DEF RecursesAsIs, Has
  <2> QED BY <1>3, <1>4, <1>5, <2>2
<1>6. CASE NeedsCoercion(source, f)
  <2> DEFINE to == OriginType(source, n)
  <2>1. to \in origins[source][n]
    BY <1>1 DEF GoodSchema, OriginType
  <2>2. Has(to, n)
    BY <1>1, <2>1 DEF GoodSchema, Has
  <2>3. FieldOf(to, n).type.base = destination
    BY <1>1, <1>2, <1>3, <1>4, <1>6 DEF RecursionErrors
  <2> QED BY <1>3, <1>4, <1>6, <2>2, <2>3
<1> QED BY <1>5, <1>6

-----------------------------------------------------------------------------
(* The path of a query.                                                    *)

IsSequence(s) == s \in Seq({s[i] : i \in DOMAIN s})

\* Appending to a sequence, and taking its first element away.
LEMMA SequenceFacts ==
  ASSUME NEW s, IsSequence(s)
  PROVE  /\ Len(s) \in Nat /\ DOMAIN s = 1..Len(s)
         /\ \A x : /\ IsSequence(Append(s, x)) /\ Len(Append(s, x)) = Len(s) + 1
                   /\ Append(s, x)[Len(s) + 1] = x
                   /\ \A i \in 1..Len(s) : Append(s, x)[i] = s[i]
         /\ s # << >> => /\ IsSequence(Tail(s)) /\ Len(Tail(s)) = Len(s) - 1 /\ Len(s) > 0
                         /\ \A i \in 1..Len(s) - 1 : Tail(s)[i] = s[i + 1]
<1> DEFINE S == {s[i] : i \in DOMAIN s}
<1>1. s \in Seq(S)
  BY DEF IsSequence
<1> HIDE DEF S
<1>2. Len(s) \in Nat /\ DOMAIN s = 1..Len(s)
  BY <1>1
<1>3. ASSUME NEW x
      PROVE  /\ IsSequence(Append(s, x)) /\ Len(Append(s, x)) = Len(s) + 1
             /\ Append(s, x)[Len(s) + 1] = x
             /\ \A i \in 1..Len(s) : Append(s, x)[i] = s[i]
  <2> DEFINE r == Append(s, x)
  <2>1. s \in Seq(S \cup {x})
    BY <1>1
  <2>2. r \in Seq(S \cup {x}) /\ Len(r) = Len(s) + 1 /\ r[Len(s) + 1] = x /\ \A i \in 1..Len(s) : r[i] = s[i]
    BY <1>2, <2>1
  <2> HIDE DEF r
  <2>3. r \in Seq({r[i] : i \in DOMAIN r})
    BY <2>2
  <2> QED BY <2>2, <2>3 DEF IsSequence, r
<1>4. ASSUME s # << >>
      PROVE  /\ IsSequence(Tail(s)) /\ Len(Tail(s)) = Len(s) - 1 /\ Len(s) > 0
             /\ \A i \in 1..Len(s) - 1 : Tail(s)[i] = s[i + 1]
  <2> DEFINE r == Tail(s)
  <2>1. r \in Seq(S) /\ Len(r) = Len(s) - 1 /\ Len(s) > 0 /\ \A i \in 1..Len(s) - 1 : r[i] = s[i + 1]
    BY <1>1, <1>2, <1>4
  <2> HIDE DEF r
  <2>2. r \in Seq({r[i] : i \in DOMAIN r})
    BY <2>1
  <2> QED BY <2>1, <2>2 DEF IsSequence, r
<1> QED BY <1>2, <1>3, <1>4

\* A step from a type of vertices: __typename, or a field of the type, coerced or not.
StepFits(from, step) ==
  \/ step.name = Typename /\ step.type = Typename
  \/ /\ Has(from, step.name) /\ step.from = FieldOf(from, step.name).type.base
     /\ step.type = step.from \/ (step.from \in VertexType /\ Coercible(step.from, step.type))

Path ==
  /\ IsSequence(steps)
  /\ \A i \in DOMAIN steps : StepFits(From(i), steps[i])

\* The edges of a path are its first steps.
LEMMA EdgesComeFirst ==
  ASSUME GoodSchema, Path
  PROVE  /\ EdgeCount \in Nat /\ EdgeCount <= Len(steps) /\ Len(steps) \in Nat
         /\ \A i \in 1..Len(steps) : steps[i].type \in VertexType <=> i <= EdgeCount
<1> DEFINE n == Len(steps)
           E == {i \in DOMAIN steps : steps[i].type \in VertexType}
           NotE == {i \in Nat : i > 0 /\ i \notin E}
<1>1. n \in Nat /\ DOMAIN steps = 1..n
  BY SequenceFacts DEF Path
<1>2. ASSUME NEW i \in E, i # 1 PROVE i - 1 \in E
  <2>1. Has(From(i), steps[i].name)
    BY <1>2, TypenameIsNoType DEF Path, StepFits
  <2>2. i - 1 \in DOMAIN steps
    BY <1>1, <1>2
  <2> QED BY <1>2, <2>1, <2>2 DEF Has, From
<1>3. PICK m \in NotE : \A k \in NotE : m <= k
  <2>1. n + 1 \in NotE
    BY <1>1
  <2> HIDE DEF NotE
  <2>2. NotE \subseteq Nat
    BY DEF NotE
  <2> QED BY <2>1, <2>2, LeastNatural
<1>4. ASSUME NEW i \in E, i >= m PROVE FALSE
  <2> DEFINE Beyond == {k \in E : k >= m}
  <2>1. PICK k \in Beyond : \A l \in Beyond : k <= l
    <3>1. Beyond \subseteq Nat /\ Beyond # {}
      BY <1>1, <1>4
    <3> HIDE DEF Beyond
    <3> QED BY <3>1, LeastNatural
  <2>2. k \in Nat /\ m \in Nat /\ m > 0 /\ k # m /\ k >= m /\ k \in E
    BY <1>1, <2>1
  <2>3. k - 1 \in E /\ k - 1 >= m
    BY <1>2, <2>2
  <2> QED BY <2>1, <2>2, <2>3
<1>5. E = 1..m - 1
  <2>1. \A i \in E : i \in 1..m - 1
    BY <1>1, <1>4
  <2>2. \A i \in 1..m - 1 : i \in E
    BY <1>3
  <2> QED BY <2>1, <2>2
<1>6. m \in Nat /\ m > 0
  BY <1>3
<1>7. EdgeCount = m - 1
  <2>1. EdgeCount = Cardinality(E)
    BY DEF EdgeCount
  <2> HIDE DEF E
  <2> QED BY <1>5, <1>6, <2>1, FS_Interval
<1>8. EdgeCount <= n
  <2>1. n + 1 \in NotE
    BY <1>1
  <2> QED BY <1>1, <1>3, <1>6, <1>7, <2>1
<1> QED BY <1>1, <1>5, <1>6, <1>7, <1>8

\* An edge of the path is an edge of the type above it.
LEMMA EdgeOfPath ==
  ASSUME GoodSchema, Path, NEW i \in 1..EdgeCount
  PROVE  /\ i \in DOMAIN steps
         /\ Has(From(i), steps[i].name) /\ IsEdge(EdgeDefinition(i))
         /\ steps[i].from = EdgeDefinition(i).type.base /\ steps[i].from \in VertexType
         /\ steps[i].type = steps[i].from \/ Coercible(steps[i].from, steps[i].type)
<1>1. i \in 1..Len(steps) /\ DOMAIN steps = 1..Len(steps) /\ steps[i].type \in VertexType
  BY EdgesComeFirst, SequenceFacts DEF Path
<1>2. /\ Has(From(i), steps[i].name) /\ steps[i].from = EdgeDefinition(i).type.base
      /\ steps[i].type = steps[i].from \/ (steps[i].from \in VertexType /\ Coercible(steps[i].from, steps[i].type))
  BY <1>1, TypenameIsNoType DEF Path, StepFits, EdgeDefinition
<1>3. EdgeDefinition(i).type.base \notin BuiltinScalars
  BY <1>1, <1>2 DEF GoodSchema, TypesKnown
<1> QED BY <1>1, <1>2, <1>3 DEF IsEdge, IsProperty
-----------------------------------------------------------------------------
(* The invariant of queries.                                               *)

QueryPhases == {"validating", "makingEdges", "resolving", "answered", "queryRejected", "queryPanicked"}

\* What CallsAreTyped and ParametersFit say of one call.
CallIsTyped(c) ==
  /\ c.vertices \subseteq Subtypes(c.type)
  /\ c.kind \in {"starting", "neighbors"} => Has(c.type, c.about) /\ IsEdge(FieldOf(c.type, c.about))
  /\ c.kind = "property" =>
       c.about = Typename \/ (Has(c.type, c.about) /\ IsProperty(FieldOf(c.type, c.about)))
  /\ c.kind = "coercion" /\ ~ c.deeper =>
       vertexTypes[c.type].kind = "interface" /\ c.about \in Subtypes(c.type)

CallFits(c) ==
  /\ CallIsTyped(c)
  /\ c.kind \in {"starting", "neighbors"} /\ ~ c.deeper =>
       \A t \in c.vertices : Suitable(c.parameters, FieldOf(t, c.about))

\* While edges are made: those without errors fit.
EdgesMadeFit ==
  /\ IsSequence(edges) /\ Len(edges) <= EdgeCount
  /\ queryErrors = {} => \A j \in 1..Len(edges) : EdgeFits(From(j), steps[j], edges[j])

\* While they are resolved: those that are left fit, and the active vertices are of the
\* type above the next one.
EdgesLeftFit ==
  /\ IsSequence(edges) /\ Len(edges) <= EdgeCount /\ EdgeCount > 0
  /\ \A j \in 1..Len(edges) :
       LET i == EdgeCount - Len(edges) + j IN EdgeFits(From(i), steps[i], edges[j])
  /\ ThisEdge > 1 => vertices \subseteq Subtypes(From(ThisEdge))

QueryInv ==
  /\ phase \notin QueryPhases => steps = << >> /\ edges = << >> /\ queryErrors = {} /\ calls = {}
  /\ phase \in QueryPhases => GoodSchema /\ Path
  /\ phase = "validating" => edges = << >> /\ queryErrors = {}
  /\ phase = "makingEdges" => EdgesMadeFit
  /\ phase = "resolving" => EdgesLeftFit
  /\ \A c \in calls : CallFits(c)

TypedIInv == IInv /\ Decided /\ QueryInv

\* What is asked of the schema stays what it is while it stays the same.
LEMMA SameAnswers ==
  ASSUME vertexTypes' = vertexTypes, queryType' = queryType
  PROVE  /\ \A t, n : Has(t, n)' <=> Has(t, n)
         /\ \A t : Subtypes(t)' = Subtypes(t)
         /\ \A from, step : StepFits(from, step)' <=> StepFits(from, step)
         /\ \A from, step, edge : EdgeFits(from, step, edge)' <=> EdgeFits(from, step, edge)
         /\ \A c : CallFits(c)' <=> CallFits(c)
<1>1. /\ VertexType' = VertexType
      /\ \A t : Implements(t)' = Implements(t)
      /\ \A t : FieldNames(t)' = FieldNames(t)
      /\ \A t, n : FieldOf(t, n)' = FieldOf(t, n)
  BY SameTypes
<1>2. \A t, n : Has(t, n)' <=> Has(t, n)
  BY <1>1 DEF Has
<1>3. \A t : Subtypes(t)' = Subtypes(t)
  BY <1>1 DEF Subtypes
<1>4. \A from, to : Coercible(from, to)' <=> Coercible(from, to)
  BY <1>1 DEF Coercible
<1>5. \A from, step : StepFits(from, step)' <=> StepFits(from, step)
  BY <1>1, <1>2, <1>4 DEF StepFits
<1>6. \A from, step, edge : EdgeFits(from, step, edge)' <=> EdgeFits(from, step, edge)
  <2>1. \A t, u : IsNamedTypeSubtype(t, u)' <=> IsNamedTypeSubtype(t, u)
    BY <1>1 DEF IsNamedTypeSubtype
  <2> QED BY <1>1, <1>2, <2>1 DEF EdgeFits
<1>7. \A c : CallIsTyped(c)' <=> CallIsTyped(c)
  <2>1. \A f : IsEdge(f)' <=> IsEdge(f)
    BY <1>1 DEF IsEdge
  <2> QED BY <1>1, <1>2, <1>3, <2>1 DEF CallIsTyped
<1>8. \A c : CallFits(c)' <=> CallFits(c)
  BY <1>1, <1>7 DEF CallFits
<1> QED BY <1>2, <1>3, <1>5, <1>6, <1>8

\* A step that leaves the schema and the path alone.
LEMMA SamePath ==
  ASSUME UNCHANGED schemaVars
  PROVE  /\ GoodSchema' <=> GoodSchema
         /\ steps' = steps => /\ Path' <=> Path
                              /\ EdgeCount' = EdgeCount
                              /\ \A i : From(i)' = From(i)
<1>1. doc' = doc /\ vertexTypes' = vertexTypes /\ queryType' = queryType /\ origins' = origins
  BY DEF schemaVars
<1>2. /\ VertexType' = VertexType
      /\ \A t : Implements(t)' = Implements(t)
      /\ \A t : FieldNames(t)' = FieldNames(t)
  BY <1>1, SameTypes
<1>3. GoodSchema' <=> GoodSchema
  <2>1. Transitive' <=> Transitive
    BY <1>2 DEF Transitive
  <2> QED BY <1>1, <1>2, <2>1, SameRules DEF GoodSchema
<1>4. ASSUME steps' = steps PROVE (Path' <=> Path) /\ EdgeCount' = EdgeCount /\ \A i : From(i)' = From(i)
  <2>1. \A i : From(i)' = From(i)
    BY <1>1, <1>4 DEF From
  <2>2. EdgeCount' = EdgeCount
    BY <1>2, <1>4 DEF EdgeCount
  <2>3. IsSequence(steps)' <=> IsSequence(steps)
    BY <1>4 DEF IsSequence
  <2>4. Path' <=> Path
    BY <1>1, <1>4, <2>1, <2>3, SameAnswers DEF Path
  <2> QED BY <2>1, <2>2, <2>4
<1> QED BY <1>3, <1>4
\* A query step disturbs nothing that is known of how the schema was made.
LEMMA SchemaIsKept ==
  ASSUME IInv, Decided, UNCHANGED schemaVars,
         phase \in {"accepted"} \cup QueryPhases, phase' \in QueryPhases
  PROVE  IInv' /\ Decided'
<1>1. /\ doc' = doc /\ vertexTypes' = vertexTypes /\ queryType' = queryType /\ origins' = origins
      /\ errors' = errors
  BY DEF schemaVars
<1>2. /\ phase' \notin {"definitions", "origins", "checks", "accepted", "rejected", "panicked"}
  BY DEF QueryPhases
<1>3. /\ VertexType' = VertexType
      /\ \A t : Implements(t)' = Implements(t)
      /\ \A t : FieldNames(t)' = FieldNames(t)
  BY <1>1, SameTypes
<1>4. Defined'
  BY <1>1, DefinedKept DEF IInv
<1>5. Grounded'
  BY <1>1, <1>3, SameTraps DEF IInv, Grounded
<1>6. FromDefiners'
  BY <1>1, <1>3, SameDefiners DEF IInv, FromDefiners
<1>7. Progress' /\ Checked' /\ Reported'
  <2>1. Reported'
    BY <1>1, ReportedKept DEF IInv, QueryPhases
  <2> QED BY <1>2, <2>1 DEF Progress, Checked
<1>8. Decided'
  BY <1>2 DEF Decided, DecidesRightly
<1> QED BY <1>4, <1>5, <1>6, <1>7, <1>8 DEF IInv

\* The phase while the schema is made, and what is left when that is over.
LEMMA NextIsBefore ==
  ASSUME Next
  PROVE  phase \notin QueryPhases /\ phase' \notin QueryPhases
BY DEF Next, SchemaDefinition, DirectiveDefinition, ScalarDefinition, VertexDefinition, Reading,
   DefinitionPanics, NoQueryType, Panic, BeginOrigins, ResolveOrigins, CircularImplements, OriginsFound,
   Check, UnreachableField, ChecksDone, Done, vars, QueryPhases

\* Calls that were fine still are.
LEMMA CallsKept ==
  ASSUME UNCHANGED schemaVars, \A c \in calls' : CallFits(c)
  PROVE  \A c \in calls' : CallFits(c)'
BY SameAnswers DEF schemaVars
\* A path with one more step that fits.
LEMMA PathGrows ==
  ASSUME Path, UNCHANGED schemaVars, NEW step, StepFits(Parent, step), steps' = Append(steps, step)
  PROVE  Path'
<1> DEFINE n == Len(steps)
<1>1. /\ n \in Nat /\ DOMAIN steps = 1..n
      /\ IsSequence(Append(steps, step)) /\ Len(Append(steps, step)) = n + 1
      /\ Append(steps, step)[n + 1] = step
      /\ \A i \in 1..n : Append(steps, step)[i] = steps[i]
  BY SequenceFacts DEF Path
<1>2. IsSequence(steps')
  BY <1>1
<1>3. Len(steps') = n + 1 /\ steps'[n + 1] = step /\ \A i \in 1..n : steps'[i] = steps[i]
  BY <1>1
<1>4. DOMAIN steps' = 1..n + 1
  BY <1>2, <1>3, SequenceFacts
<1>5. \A i \in 1..n + 1 : From(i)' = IF i = n + 1 THEN Parent ELSE From(i)
  <2>1. queryType' = queryType
    BY DEF schemaVars
  <2>2. steps = << >> <=> n = 0
    BY <1>1
  <2> HIDE DEF n
  <2>3. Parent = IF n = 0 THEN queryType ELSE steps[n].type
    BY <2>2 DEF Parent, n
  <2> QED BY <1>1, <1>3, <2>1, <2>3 DEF From
<1>6. \A i \in 1..n : StepFits(From(i), steps[i])
  BY <1>1 DEF Path
<1>7. ASSUME NEW i \in 1..n + 1 PROVE StepFits(From(i)', steps'[i])
  <2>1. CASE i = n + 1
    BY <1>3, <1>5, <2>1
  <2>2. CASE i # n + 1
    BY <1>1, <1>3, <1>5, <1>6, <2>2
  <2> QED BY <2>1, <2>2
<1>8. \A from, s : StepFits(from, s)' <=> StepFits(from, s)
  BY SameAnswers DEF schemaVars
<1>9. \A i \in DOMAIN steps' : StepFits(From(i), steps[i])'
  BY <1>4, <1>7, <1>8
<1>10. IsSequence(steps)'
  BY <1>2 DEF IsSequence
<1> QED BY <1>9, <1>10 DEF Path

\* A query begins with no steps, on a schema that was accepted.
LEMMA BeginQueryPreserves ==
  ASSUME TypedIInv, BeginQuery, UNCHANGED schemaVars
  PROVE  QueryInv'
<1>1. /\ phase = "accepted" /\ phase' = "validating" /\ steps' = << >> /\ edges' = << >>
      /\ queryErrors' = {} /\ calls' = {}
  BY DEF BeginQuery, queryVars, TypedIInv, QueryInv, QueryPhases
<1>2. GoodSchema'
  BY <1>1, AcceptedIsGood, SamePath DEF TypedIInv
<1>3. IsSequence(<< >>)
  BY DEF IsSequence
<1>4. Path'
  BY <1>1, <1>3 DEF Path, IsSequence
<1> QED BY <1>1, <1>2, <1>4 DEF QueryInv, QueryPhases

\* A field of the type above fits, and so does a coercion that was found possible.
LEMMA ValidateFieldPreserves ==
  ASSUME TypedIInv, ValidateField, UNCHANGED schemaVars
  PROVE  QueryInv'
<1>1. /\ phase = "validating" /\ phase' = "validating" /\ edges' = edges /\ queryErrors' = queryErrors
      /\ calls' = calls
  BY DEF ValidateField, Validating
<1>2. GoodSchema /\ Path /\ edges = << >> /\ queryErrors = {} /\ \A c \in calls : CallFits(c)
  BY <1>1 DEF TypedIInv, QueryInv, QueryPhases
<1>3. PICK n \in FieldName, to \in Name \cup {None}, recursed \in BOOLEAN :
        /\ Has(Parent, n)
        /\ LET f == FieldOf(Parent, n)
               from == f.type.base
           IN  /\ to = None \/ (from \in VertexType /\ Coercible(from, to))
               /\ \E args \in IF f.params = << >> THEN {<< >>} ELSE Arguments :
                    steps' = Append(steps, Step(n, from, IF to = None THEN from ELSE to, args, recursed))
  BY DEF ValidateField
<1> DEFINE from == FieldOf(Parent, n).type.base
           type == IF to = None THEN from ELSE to
<1>4. PICK args : steps' = Append(steps, Step(n, from, type, args, recursed))
  BY <1>3
<1>5. type = from \/ (from \in VertexType /\ Coercible(from, type))
  BY <1>3
<1>6. StepFits(Parent, Step(n, from, type, args, recursed))
  <2> HIDE DEF type
  <2> QED BY <1>3, <1>5 DEF StepFits, Step
<1> HIDE DEF type, from
<1>7. Path'
  BY <1>2, <1>4, <1>6, PathGrows
<1>8. GoodSchema' /\ \A c \in calls' : CallFits(c)'
  BY <1>1, <1>2, SamePath, CallsKept
<1> QED BY <1>1, <1>2, <1>7, <1>8 DEF QueryInv, QueryPhases

\* __typename fits anywhere.
LEMMA ValidateTypenamePreserves ==
  ASSUME TypedIInv, ValidateTypename, UNCHANGED schemaVars
  PROVE  QueryInv'
<1>1. /\ phase = "validating" /\ phase' = "validating" /\ edges' = edges /\ queryErrors' = queryErrors
      /\ calls' = calls
      /\ steps' = Append(steps, Step(Typename, Typename, Typename, << >>, FALSE))
  BY DEF ValidateTypename, Validating
<1>2. GoodSchema /\ Path /\ edges = << >> /\ queryErrors = {} /\ \A c \in calls : CallFits(c)
  BY <1>1 DEF TypedIInv, QueryInv, QueryPhases
<1>3. StepFits(Parent, Step(Typename, Typename, Typename, << >>, FALSE))
  BY DEF StepFits, Step
<1>4. Path'
  BY <1>1, <1>2, <1>3, PathGrows
<1>5. GoodSchema' /\ \A c \in calls' : CallFits(c)'
  BY <1>1, <1>2, SamePath, CallsKept
<1> QED BY <1>1, <1>2, <1>4, <1>5 DEF QueryInv, QueryPhases

\* The query is refused, or panics, or is answered: nothing more is claimed of it.
LEMMA EndPreserves ==
  ASSUME TypedIInv, UNCHANGED schemaVars, phase \in QueryPhases,
         phase' \in {"answered", "queryRejected", "queryPanicked"},
         steps' = steps, \A c \in calls' : CallFits(c)
  PROVE  QueryInv'
<1>1. GoodSchema /\ Path
  BY DEF TypedIInv, QueryInv
<1>2. GoodSchema' /\ Path' /\ \A c \in calls' : CallFits(c)'
  BY <1>1, SamePath, CallsKept
<1> QED BY <1>2 DEF QueryInv, QueryPhases

\* A path that was validated has no edges made yet.
LEMMA ValidatedPreserves ==
  ASSUME TypedIInv, Validated, UNCHANGED schemaVars
  PROVE  QueryInv'
<1>1. /\ phase = "validating" /\ phase' = "makingEdges" /\ steps' = steps /\ edges' = edges
      /\ queryErrors' = queryErrors /\ calls' = calls
  BY DEF Validated
<1>2. GoodSchema /\ Path /\ edges = << >> /\ queryErrors = {} /\ \A c \in calls : CallFits(c)
  BY <1>1 DEF TypedIInv, QueryInv, QueryPhases
<1>3. GoodSchema' /\ Path' /\ \A c \in calls' : CallFits(c)'
  BY <1>1, <1>2, SamePath, CallsKept
<1>4. EdgesMadeFit'
  <2>1. EdgeCount' \in Nat
    BY <1>1, <1>2, EdgesComeFirst, SamePath
  <2>2. edges' = << >> /\ Len(edges') = 0
    BY <1>1, <1>2
  <2>3. IsSequence(edges)'
    BY <2>2 DEF IsSequence
  <2> QED BY <2>1, <2>2, <2>3 DEF EdgesMadeFit
<1> QED BY <1>1, <1>3, <1>4 DEF QueryInv, QueryPhases
\* An edge that is made without errors fits.
LEMMA MadeEdgeFits ==
  ASSUME GoodSchema, Path, NEW i \in 1..EdgeCount,
         ParameterErrors(EdgeDefinition(i), steps[i].args) = {},
         NEW refused, refused = IF steps[i].recursed THEN RecursionErrors(From(i), EdgeDefinition(i)) ELSE {},
         refused = {},
         NEW edge, edge.parameters = MakeEdgeParameters(EdgeDefinition(i), steps[i].args),
         edge.coerceTo = IF steps[i].recursed /\ refused = {} /\ NeedsCoercion(From(i), EdgeDefinition(i))
                         THEN OriginType(From(i), EdgeDefinition(i).name) ELSE None
  PROVE  EdgeFits(From(i), steps[i], edge)
<1> DEFINE t == From(i)
           n == steps[i].name
           f == FieldOf(t, n)
<1>1. EdgeDefinition(i) = f
  BY DEF EdgeDefinition
<1>2. Has(t, n) /\ steps[i].from = f.type.base /\ f.type.base \in VertexType
  BY EdgeOfPath, <1>1
<1>3. f.name = n /\ t \in VertexType
  BY <1>2, FieldOfName DEF Has
<1> HIDE DEF t, n
<1>4. Suitable(edge.parameters, f)
  BY <1>1, <1>2, MadeParametersSuit
<1>5. ASSUME steps[i].recursed
      PROVE  LET again == IF edge.coerceTo = None THEN steps[i].from ELSE edge.coerceTo
             IN  /\ IsNamedTypeSubtype(steps[i].from, t)
                 /\ Has(again, n) /\ FieldOf(again, n).type.base = steps[i].from
  <2> DEFINE to == IF NeedsCoercion(t, f) THEN OriginType(t, n) ELSE f.type.base
  <2>1. RecursionErrors(t, f) = {}
    BY <1>1, <1>5 DEF t
  <2>2. IsNamedTypeSubtype(f.type.base, t) /\ Has(to, n) /\ FieldOf(to, n).type.base = f.type.base
    BY <1>2, <2>1, RecursionFits
  <2>3. to \in VertexType
    BY <2>2 DEF Has
  <2>4. to # None
    BY <2>3, FieldsKnown, NoneIsNoName DEF GoodSchema
  <2>5. edge.coerceTo = IF NeedsCoercion(t, f) THEN OriginType(t, n) ELSE None
    BY <1>1, <1>3, <1>5 DEF t
  <2>6. to = IF edge.coerceTo = None THEN steps[i].from ELSE edge.coerceTo
    <3> HIDE DEF f
    <3>1. CASE NeedsCoercion(t, f)
      BY <3>1, <2>4, <2>5
    <3>2. CASE ~ NeedsCoercion(t, f)
      BY <3>2, <1>2, <2>5
    <3> QED BY <3>1, <3>2
  <2> HIDE DEF to
  <2> QED BY <1>2, <2>2, <2>6
<1>6. EdgeFits(t, steps[i], edge)
  BY <1>4, <1>5 DEF EdgeFits, n, f
<1> QED BY <1>6 DEF t

\* One more edge is made.
LEMMA MakeEdgePreserves ==
  ASSUME TypedIInv, MakeEdge, UNCHANGED schemaVars
  PROVE  QueryInv'
<1> DEFINE i == Len(edges) + 1
           f == EdgeDefinition(i)
           refused == IF steps[i].recursed THEN RecursionErrors(From(i), f) ELSE {}
           edge == [parameters |-> MakeEdgeParameters(f, steps[i].args),
                    coerceTo |-> IF steps[i].recursed /\ refused = {} /\ NeedsCoercion(From(i), f)
                                 THEN OriginType(From(i), f.name) ELSE None]
<1>1. /\ phase = "makingEdges" /\ phase' = "makingEdges" /\ steps' = steps /\ calls' = calls
      /\ Len(edges) < EdgeCount
      /\ queryErrors' = queryErrors \cup ParameterErrors(f, steps[i].args) \cup {<<e, i>> : e \in refused}
      /\ edges' = Append(edges, edge)
  BY DEF MakeEdge
<1>2. GoodSchema /\ Path /\ EdgesMadeFit /\ \A c \in calls : CallFits(c)
  BY <1>1 DEF TypedIInv, QueryInv, QueryPhases
<1>3. GoodSchema' /\ Path' /\ EdgeCount' = EdgeCount /\ (\A j : From(j)' = From(j)) /\ \A c \in calls' : CallFits(c)'
  BY <1>1, <1>2, SamePath, CallsKept
<1>4. EdgeCount \in Nat
  BY <1>2, EdgesComeFirst
<1>5. /\ Len(edges) \in Nat /\ IsSequence(Append(edges, edge)) /\ Len(Append(edges, edge)) = i
      /\ Append(edges, edge)[i] = edge
      /\ \A j \in 1..Len(edges) : Append(edges, edge)[j] = edges[j]
  BY <1>2, SequenceFacts DEF EdgesMadeFit
<1>6. i \in 1..EdgeCount
  BY <1>1, <1>4, <1>5
<1>7. edge.parameters = MakeEdgeParameters(f, steps[i].args)
      /\ edge.coerceTo = IF steps[i].recursed /\ refused = {} /\ NeedsCoercion(From(i), f)
                         THEN OriginType(From(i), f.name) ELSE None
  OBVIOUS
<1>8. ASSUME queryErrors' = {} PROVE queryErrors = {} /\ EdgeFits(From(i), steps[i], edge)
  <2>1. queryErrors = {} /\ ParameterErrors(f, steps[i].args) = {} /\ {<<e, i>> : e \in refused} = {}
    BY <1>1, <1>8
  <2>2. refused = {}
    <3> HIDE DEF refused, i
    <3> QED BY <2>1
  <2>3. refused = IF steps[i].recursed THEN RecursionErrors(From(i), f) ELSE {}
    OBVIOUS
  <2> HIDE DEF edge, refused
  <2>4. EdgeFits(From(i), steps[i], edge)
    <3> HIDE DEF i
    <3> QED BY <1>2, <1>6, <1>7, <2>1, <2>2, <2>3, MadeEdgeFits
  <2> QED BY <2>1, <2>4
<1> HIDE DEF edge, refused, f
<1>9. EdgesMadeFit'
  <2>1. IsSequence(edges)'
    BY <1>1, <1>5 DEF IsSequence
  <2>2. Len(edges') <= EdgeCount'
    BY <1>1, <1>3, <1>4, <1>5
  <2>3. ASSUME queryErrors' = {}, NEW j \in 1..Len(edges')
        PROVE  EdgeFits(From(j), steps[j], edges'[j])
    <3>1. CASE j = i
      BY <1>1, <1>5, <1>8, <2>3, <3>1
    <3>2. CASE j # i
      <4>1. j \in 1..Len(edges) /\ edges'[j] = edges[j]
        BY <1>1, <1>5, <2>3, <3>2
      <4> QED BY <4>1, <1>2, <1>8, <2>3 DEF EdgesMadeFit
    <3> QED BY <3>1, <3>2
  <2>4. queryErrors' = {} => \A j \in 1..Len(edges') : EdgeFits(From(j), steps[j], edges[j])'
    <3>1. \A from, step, e : EdgeFits(from, step, e)' <=> EdgeFits(from, step, e)
      BY SameAnswers DEF schemaVars
    <3> QED BY <1>1, <1>3, <2>3, <3>1
  <2> QED BY <2>1, <2>2, <2>4 DEF EdgesMadeFit
<1> QED BY <1>1, <1>3, <1>9 DEF QueryInv, QueryPhases

\* If no edge has an error, they all fit and are resolved next.
LEMMA EdgesMadePreserves ==
  ASSUME TypedIInv, EdgesMade, UNCHANGED schemaVars
  PROVE  QueryInv'
<1>1. /\ phase = "makingEdges" /\ steps' = steps /\ calls' = calls /\ Len(edges) = EdgeCount /\ EdgeCount > 0
      /\ phase' = IF queryErrors = {} THEN "resolving" ELSE "queryRejected"
      /\ queryErrors = {} => edges' = edges
  BY DEF EdgesMade
<1>2. GoodSchema /\ Path /\ EdgesMadeFit /\ \A c \in calls : CallFits(c)
  BY <1>1 DEF TypedIInv, QueryInv, QueryPhases
<1>3. CASE queryErrors # {}
  BY <1>1, <1>2, <1>3, EndPreserves DEF QueryPhases
<1>4. CASE queryErrors = {}
  <2>1. GoodSchema' /\ Path' /\ EdgeCount' = EdgeCount /\ (\A j : From(j)' = From(j)) /\ \A c \in calls' : CallFits(c)'
    BY <1>1, <1>2, SamePath, CallsKept
  <2>2. EdgeCount \in Nat /\ IsSequence(edges)'
    BY <1>1, <1>2, <1>4, EdgesComeFirst DEF EdgesMadeFit, IsSequence
  <2>3. ASSUME NEW j \in 1..EdgeCount PROVE EdgeFits(From(j), steps[j], edges[j])'
    <3>1. EdgeFits(From(j), steps[j], edges[j])
      BY <1>1, <1>2, <1>4 DEF EdgesMadeFit
    <3>2. \A from, step, e : EdgeFits(from, step, e)' <=> EdgeFits(from, step, e)
      BY SameAnswers DEF schemaVars
    <3> QED BY <1>1, <1>4, <2>1, <3>1, <3>2
  <2>4. Len(edges') = EdgeCount' /\ ~ (ThisEdge' > 1)
    BY <1>1, <1>4, <2>1, <2>2 DEF ThisEdge
  <2>5. \A j \in 1..Len(edges') : EdgeCount' - Len(edges') + j = j
    BY <2>1, <2>2, <2>4
  <2>6. EdgesLeftFit'
    BY <1>1, <2>1, <2>2, <2>3, <2>4, <2>5 DEF EdgesLeftFit
  <2> QED BY <1>1, <1>4, <2>1, <2>6 DEF QueryInv, QueryPhases
<1> QED BY <1>3, <1>4
\* The edge that is resolved next.
LEMMA NextEdge ==
  ASSUME TypedIInv, phase = "resolving", edges # << >>
  PROVE  /\ ThisEdge \in 1..EdgeCount
         /\ EdgeFits(From(ThisEdge), steps[ThisEdge], edges[1])
         /\ ThisEdge > 1 => vertices \subseteq Subtypes(From(ThisEdge))
<1>1. GoodSchema /\ Path /\ EdgesLeftFit
  BY DEF TypedIInv, QueryInv, QueryPhases
<1>2. EdgeCount \in Nat /\ Len(edges) \in Nat /\ Len(edges) > 0 /\ Len(edges) <= EdgeCount
  BY <1>1, EdgesComeFirst, SequenceFacts DEF EdgesLeftFit
<1>3. ThisEdge \in 1..EdgeCount /\ EdgeCount - Len(edges) + 1 = ThisEdge /\ 1 \in 1..Len(edges)
  BY <1>2 DEF ThisEdge
<1> QED BY <1>1, <1>3 DEF EdgesLeftFit

\* An edge is resolved on vertices of the type above it.
LEMMA EdgeCallFits ==
  ASSUME GoodSchema, Path, NEW i \in 1..EdgeCount, NEW edge, EdgeFits(From(i), steps[i], edge),
         NEW of, of \subseteq Subtypes(From(i)), NEW kind \in {"starting", "neighbors"}
  PROVE  CallFits(Call(kind, From(i), steps[i].name, edge.parameters, of, FALSE))
<1> DEFINE t == From(i)
           n == steps[i].name
           c == Call(kind, t, n, edge.parameters, of, FALSE)
<1>1. Has(t, n) /\ IsEdge(FieldOf(t, n))
  BY EdgeOfPath DEF EdgeDefinition
<1>2. Suitable(edge.parameters, FieldOf(t, n))
  BY DEF EdgeFits
<1>3. of \subseteq Subtypes(t)
  OBVIOUS
<1> HIDE DEF t, n
<1>4. \A u \in of : Suitable(edge.parameters, FieldOf(u, n))
  BY <1>1, <1>2, <1>3, SuitableBelow
<1>5. /\ c.kind = kind /\ c.type = t /\ c.about = n /\ c.parameters = edge.parameters /\ c.vertices = of
      /\ c.kind # "property" /\ c.kind # "coercion"
  BY DEF Call
<1> HIDE DEF c
<1>6. CallFits(c)
  BY <1>1, <1>3, <1>4, <1>5 DEF CallFits, CallIsTyped
<1> QED BY <1>6 DEF c, t, n

\* What an edge leads to may be coerced to the type of its step, and is of that type then.
LEMMA CoercionFits ==
  ASSUME GoodSchema, Path, NEW i \in 1..EdgeCount, NEW found, found \subseteq Subtypes(steps[i].from)
  PROVE  /\ \A c \in CoercionCalls(steps[i], found) : CallFits(c)
         /\ Coerced(steps[i], found) \subseteq Subtypes(steps[i].type)
<1>1. steps[i].type = steps[i].from \/ Coercible(steps[i].from, steps[i].type)
  BY EdgeOfPath
<1>2. Coerced(steps[i], found) \subseteq Subtypes(steps[i].type)
  BY DEF Coerced
<1>3. ASSUME steps[i].from # steps[i].type, NEW c, c = Call("coercion", steps[i].from, steps[i].type, << >>, found, FALSE)
      PROVE  CallFits(c)
  <2>1. vertexTypes[steps[i].from].kind = "interface" /\ steps[i].type \in Subtypes(steps[i].from)
    BY <1>1, <1>3 DEF Coercible, Subtypes
  <2>2. c.kind = "coercion" /\ c.type = steps[i].from /\ c.about = steps[i].type /\ c.vertices = found
    BY <1>3 DEF Call
  <2> QED BY <2>1, <2>2 DEF CallFits, CallIsTyped
<1>4. \A c \in CoercionCalls(steps[i], found) : CallFits(c)
  BY <1>3 DEF CoercionCalls
<1> QED BY <1>2, <1>4

\* After an edge the active vertices are of the type of its step.
LEMMA EdgeDone ==
  ASSUME TypedIInv, UNCHANGED schemaVars, phase = "resolving", phase' = "resolving", steps' = steps,
         edges # << >>, edges' = Tail(edges),
         \A c \in calls' : CallFits(c), vertices' \subseteq Subtypes(steps[ThisEdge].type)
  PROVE  QueryInv'
<1>1. GoodSchema /\ Path /\ EdgesLeftFit
  BY DEF TypedIInv, QueryInv, QueryPhases
<1>2. GoodSchema' /\ Path' /\ EdgeCount' = EdgeCount /\ (\A j : From(j)' = From(j)) /\ \A c \in calls' : CallFits(c)'
  BY <1>1, SamePath, CallsKept
<1>3. /\ EdgeCount \in Nat /\ Len(edges) \in Nat /\ Len(edges) > 0 /\ Len(edges) <= EdgeCount
      /\ IsSequence(Tail(edges)) /\ Len(Tail(edges)) = Len(edges) - 1
      /\ \A j \in 1..Len(edges) - 1 : Tail(edges)[j] = edges[j + 1]
  BY <1>1, EdgesComeFirst, SequenceFacts DEF EdgesLeftFit
<1>4. ThisEdge' = ThisEdge + 1 /\ ThisEdge \in 1..EdgeCount
  BY <1>2, <1>3 DEF ThisEdge
<1>5. IsSequence(edges)' /\ Len(edges') <= EdgeCount' /\ EdgeCount' > 0
  BY <1>2, <1>3 DEF IsSequence
<1>6. ASSUME NEW j \in 1..Len(edges')
      PROVE  EdgeFits(From(EdgeCount - Len(edges') + j), steps[EdgeCount - Len(edges') + j], edges'[j])
  <2>1. j + 1 \in 1..Len(edges) /\ edges'[j] = edges[j + 1] /\ EdgeCount - Len(edges') + j = EdgeCount - Len(edges) + (j + 1)
    BY <1>3
  <2>2. EdgeFits(From(EdgeCount - Len(edges) + (j + 1)), steps[EdgeCount - Len(edges) + (j + 1)], edges[j + 1])
    BY <1>1, <2>1 DEF EdgesLeftFit
  <2> QED BY <2>1, <2>2
<1>7. \A j \in 1..Len(edges') :
        LET i == EdgeCount - Len(edges) + j IN EdgeFits(From(i), steps[i], edges[j])'
  <2>1. \A from, step, e : EdgeFits(from, step, e)' <=> EdgeFits(from, step, e)
    BY SameAnswers DEF schemaVars
  <2> QED BY <1>2, <1>6, <2>1
<1>8. vertices' \subseteq Subtypes(From(ThisEdge))'
  <2>1. From(ThisEdge + 1) = steps[ThisEdge].type
    BY <1>3, <1>4 DEF From
  <2>2. \A t : Subtypes(t)' = Subtypes(t)
    BY SameAnswers DEF schemaVars
  <2>3. From(ThisEdge)' = From(ThisEdge + 1)
    BY <1>2, <1>4 DEF From
  <2>4. Subtypes(From(ThisEdge))' = Subtypes(steps[ThisEdge].type)
    BY <2>1, <2>2, <2>3
  <2> QED BY <2>4
<1>9. EdgesLeftFit'
  BY <1>5, <1>7, <1>8 DEF EdgesLeftFit
<1> QED BY <1>2, <1>9 DEF QueryInv, QueryPhases
\* What the edge of a step leads to.
LEMMA EndsOfEdge ==
  ASSUME GoodSchema, Path, NEW i \in 1..EdgeCount
  PROVE  Ends(From(i), steps[i].name) = Subtypes(steps[i].from)
BY EdgeOfPath DEF Ends, EdgeDefinition

\* The starting vertices are those of the first edge.
LEMMA ResolveStartingVerticesPreserves ==
  ASSUME TypedIInv, ResolveStartingVertices, UNCHANGED schemaVars
  PROVE  QueryInv'
<1> DEFINE step == steps[1]
           found == Ends(queryType, step.name)
           start == Call("starting", queryType, step.name, edges[1].parameters, {queryType}, FALSE)
<1>1. /\ phase = "resolving" /\ phase' = "resolving" /\ steps' = steps /\ edges # << >> /\ edges' = Tail(edges)
      /\ ThisEdge = 1
      /\ calls' = {start} \cup CoercionCalls(step, found)
      /\ vertices' = Coerced(step, found)
  BY DEF ResolveStartingVertices
<1>2. GoodSchema /\ Path
  BY <1>1 DEF TypedIInv, QueryInv, QueryPhases
<1>3. 1 \in 1..EdgeCount /\ From(1) = queryType /\ EdgeFits(From(1), step, edges[1])
  BY <1>1, NextEdge DEF From
<1>4. found = Subtypes(step.from)
  BY <1>2, <1>3, EndsOfEdge
<1>5. CallFits(start)
  <2>1. {queryType} \subseteq Subtypes(From(1))
    BY <1>2, <1>3 DEF Subtypes, GoodSchema, TypesKnown
  <2> DEFINE kind == "starting"
  <2>2. kind \in {"starting", "neighbors"}
    OBVIOUS
  <2> HIDE DEF kind
  <2>3. CallFits(Call(kind, From(1), step.name, edges[1].parameters, {queryType}, FALSE))
    BY <1>2, <1>3, <2>1, <2>2, EdgeCallFits
  <2> QED BY <1>3, <2>3 DEF kind
<1>6. (\A c \in CoercionCalls(step, found) : CallFits(c)) /\ Coerced(step, found) \subseteq Subtypes(step.type)
  BY <1>2, <1>3, <1>4, CoercionFits
<1>7. \A c \in calls' : CallFits(c)
  BY <1>1, <1>5, <1>6
<1>8. vertices' \subseteq Subtypes(steps[ThisEdge].type)
  BY <1>1, <1>6
<1> HIDE DEF step, found, start
<1> QED BY <1>1, <1>7, <1>8, EdgeDone

\* An edge that is not recursive is resolved on the vertices that are active.
LEMMA ExpandNonRecursiveEdgePreserves ==
  ASSUME TypedIInv, ExpandNonRecursiveEdge, UNCHANGED schemaVars
  PROVE  QueryInv'
<1> DEFINE i == ThisEdge
           step == steps[i]
           found == Ends(From(i), step.name)
           neighbors == Call("neighbors", From(i), step.name, edges[1].parameters, vertices, FALSE)
<1>1. /\ phase = "resolving" /\ phase' = "resolving" /\ steps' = steps /\ edges # << >> /\ edges' = Tail(edges)
      /\ i > 1
      /\ calls' = calls \cup {neighbors} \cup CoercionCalls(step, found)
      /\ vertices' = Coerced(step, found)
  BY DEF ExpandNonRecursiveEdge
<1>2. GoodSchema /\ Path /\ \A c \in calls : CallFits(c)
  BY <1>1 DEF TypedIInv, QueryInv, QueryPhases
<1>3. i \in 1..EdgeCount /\ EdgeFits(From(i), step, edges[1]) /\ vertices \subseteq Subtypes(From(i))
  BY <1>1, NextEdge
<1>4. ThisEdge = i
  OBVIOUS
<1> HIDE DEF i
<1>5. found = Subtypes(step.from)
  BY <1>2, <1>3, EndsOfEdge
<1>6. CallFits(neighbors)
  <2> DEFINE kind == "neighbors"
  <2>1. kind \in {"starting", "neighbors"}
    OBVIOUS
  <2> HIDE DEF kind
  <2>2. CallFits(Call(kind, From(i), step.name, edges[1].parameters, vertices, FALSE))
    BY <1>2, <1>3, <2>1, EdgeCallFits
  <2> QED BY <2>2 DEF kind
<1>7. (\A c \in CoercionCalls(step, found) : CallFits(c)) /\ Coerced(step, found) \subseteq Subtypes(step.type)
  BY <1>2, <1>3, <1>5, CoercionFits
<1>8. \A c \in calls' : CallFits(c)
  BY <1>1, <1>2, <1>6, <1>7
<1>9. vertices' \subseteq Subtypes(steps[ThisEdge].type)
  BY <1>1, <1>4, <1>7
<1> HIDE DEF step, found, neighbors
<1> QED BY <1>1, <1>8, <1>9, EdgeDone

\* All levels of a recursion are of the type the edge leads to, and from the second on
\* the edge is resolved on that or on what is coerced to where the edge comes from.
LEMMA ExpandRecursiveEdgePreserves ==
  ASSUME TypedIInv, ExpandRecursiveEdge, UNCHANGED schemaVars
  PROVE  QueryInv'
<1> DEFINE i == ThisEdge
           step == steps[i]
           to == edges[1].coerceTo
           again == IF to = None THEN step.from ELSE to
           Kept(of) == IF to = None THEN of ELSE of \cap Subtypes(to)
           level == [l \in 0..Depth |-> IF l = 0 THEN vertices
                                        ELSE IF l = 1 THEN Ends(From(i), step.name)
                                        ELSE Ends(again, step.name)]
           found == UNION {level[l] : l \in 0..Depth}
           neighbors == Call("neighbors", From(i), step.name, edges[1].parameters, vertices, FALSE)
           Deeper(of) == Call("neighbors", again, step.name, edges[1].parameters, Kept(of), TRUE)
           Coercion(of) == Call("coercion", step.from, to, << >>, of, TRUE)
           Below(l) == {Deeper(level[l - 1])} \cup (IF to = None THEN {} ELSE {Coercion(level[l - 1])})
<1>1. /\ phase = "resolving" /\ phase' = "resolving" /\ steps' = steps /\ edges # << >> /\ edges' = Tail(edges)
      /\ i > 1 /\ step.recursed
      /\ calls' = calls \cup {neighbors} \cup (UNION {Below(l) : l \in 2..Depth}) \cup CoercionCalls(step, found)
      /\ vertices' = Coerced(step, found)
  BY DEF ExpandRecursiveEdge
<1>2. GoodSchema /\ Path /\ \A c \in calls : CallFits(c)
  BY <1>1 DEF TypedIInv, QueryInv, QueryPhases
<1>3. i \in 1..EdgeCount /\ EdgeFits(From(i), step, edges[1]) /\ vertices \subseteq Subtypes(From(i))
  BY <1>1, NextEdge
<1>4. ThisEdge = i
  OBVIOUS
<1> HIDE DEF i
<1>5. /\ IsNamedTypeSubtype(step.from, From(i))
      /\ Has(again, step.name) /\ FieldOf(again, step.name).type.base = step.from
  BY <1>1, <1>3 DEF EdgeFits
<1>6. step.from \in VertexType
  BY <1>2, <1>3, EdgeOfPath
<1>7. IsEdge(FieldOf(again, step.name))
  BY <1>2, <1>5, <1>6 DEF IsEdge, IsProperty, GoodSchema, TypesKnown
<1> HIDE DEF again
<1>8. /\ Ends(From(i), step.name) = Subtypes(step.from)
      /\ Ends(again, step.name) = Subtypes(step.from)
  BY <1>2, <1>3, <1>5, EndsOfEdge DEF Ends
<1>9. vertices \subseteq Subtypes(step.from)
  BY <1>2, <1>3, <1>5, SubtypesOfSubtype
<1>10. \A l \in 0..Depth : level[l] \subseteq Subtypes(step.from)
  BY <1>8, <1>9
<1>11. found \subseteq Subtypes(step.from)
  BY <1>10
<1>12. CallFits(neighbors)
  <2> DEFINE kind == "neighbors"
  <2>1. kind \in {"starting", "neighbors"}
    OBVIOUS
  <2> HIDE DEF kind
  <2>2. CallFits(Call(kind, From(i), step.name, edges[1].parameters, vertices, FALSE))
    BY <1>2, <1>3, <2>1, EdgeCallFits
  <2> QED BY <2>2 DEF kind
<1>13. ASSUME NEW of, of \subseteq Subtypes(step.from), NEW c, c = Deeper(of) PROVE CallFits(c)
  <2>1. Kept(of) \subseteq Subtypes(again)
    BY <1>13 DEF again
  <2>2. c.kind = "neighbors" /\ c.type = again /\ c.about = step.name /\ c.vertices = Kept(of) /\ c.deeper = TRUE
    BY <1>13 DEF Call
  <2> HIDE DEF Kept, step
  <2> QED BY <1>5, <1>7, <2>1, <2>2 DEF CallFits, CallIsTyped
<1>14. ASSUME NEW of, of \subseteq Subtypes(step.from), NEW c, c = Coercion(of) PROVE CallFits(c)
  <2>1. c.kind = "coercion" /\ c.type = step.from /\ c.vertices = of /\ c.deeper = TRUE
    BY <1>14 DEF Call
  <2> HIDE DEF step
  <2> QED BY <1>14, <2>1 DEF CallFits, CallIsTyped
<1>15. ASSUME NEW l \in 2..Depth, NEW c \in Below(l) PROVE CallFits(c)
  <2>1. l - 1 \in 0..Depth
    BY DepthIsPositive
  <2>2. level[l - 1] \subseteq Subtypes(step.from)
    BY <1>10, <2>1
  <2>3. c = Deeper(level[l - 1]) \/ c = Coercion(level[l - 1])
    BY <1>15
  <2> HIDE DEF Deeper, Coercion, level
  <2> QED BY <1>13, <1>14, <2>2, <2>3
<1> HIDE DEF level, found
<1>16. (\A c \in CoercionCalls(step, found) : CallFits(c)) /\ Coerced(step, found) \subseteq Subtypes(step.type)
  BY <1>2, <1>3, <1>11, CoercionFits
<1> HIDE DEF Below, neighbors
<1>17. \A c \in calls' : CallFits(c)
  <2> DEFINE deeper == UNION {Below(l) : l \in 2..Depth}
             coercions == CoercionCalls(step, found)
  <2>1. \A c \in deeper : CallFits(c)
    BY <1>15
  <2>2. calls' = calls \cup {neighbors} \cup deeper \cup coercions
    BY <1>1
  <2>3. \A c \in coercions : CallFits(c)
    BY <1>16
  <2> HIDE DEF deeper, coercions
  <2> QED BY <1>2, <1>12, <2>1, <2>2, <2>3
<1>18. vertices' \subseteq Subtypes(steps[ThisEdge].type)
  BY <1>1, <1>4, <1>16
<1> HIDE DEF step
<1> QED BY <1>1, <1>17, <1>18, EdgeDone

\* Below the last edge comes a property of its type, or __typename.
LEMMA ResolvePropertyPreserves ==
  ASSUME TypedIInv, ResolveProperty, UNCHANGED schemaVars
  PROVE  QueryInv'
<1> DEFINE i == EdgeCount + 1
           c == Call("property", From(i), steps[i].name, << >>, vertices, FALSE)
<1>1. /\ phase = "resolving" /\ phase' = "answered" /\ steps' = steps /\ edges = << >>
      /\ calls' = IF EdgeCount = Len(steps) THEN calls ELSE calls \cup {c}
  BY DEF ResolveProperty
<1>2. GoodSchema /\ Path /\ EdgesLeftFit /\ \A k \in calls : CallFits(k)
  BY <1>1 DEF TypedIInv, QueryInv, QueryPhases
<1>3. /\ EdgeCount \in Nat /\ EdgeCount <= Len(steps) /\ Len(steps) \in Nat /\ EdgeCount > 0
      /\ \A k \in 1..Len(steps) : steps[k].type \in VertexType <=> k <= EdgeCount
      /\ DOMAIN steps = 1..Len(steps)
  BY <1>2, EdgesComeFirst, SequenceFacts DEF EdgesLeftFit, Path
<1>4. ASSUME EdgeCount # Len(steps) PROVE CallFits(c)
  <2>1. i \in 1..Len(steps) /\ ~ (i <= EdgeCount) /\ i \in DOMAIN steps
    <3> DEFINE k == EdgeCount
               n == Len(steps)
    <3>1. k \in Nat /\ n \in Nat /\ k <= n /\ DOMAIN steps = 1..n
      BY <1>3
    <3>2. k # n
      BY <1>4
    <3> HIDE DEF k, n
    <3>3. k + 1 \in 1..n /\ ~ (k + 1 <= k) /\ k + 1 \in DOMAIN steps
      BY <3>1, <3>2
    <3> QED BY <3>3 DEF k, n
  <2>2. steps[i].type \notin VertexType /\ StepFits(From(i), steps[i])
    BY <1>2, <1>3, <2>1 DEF Path
  <2>3. vertices \subseteq Subtypes(From(i))
    <3>1. Len(edges) = 0
      BY <1>1
    <3>2. ThisEdge = i /\ ThisEdge > 1
      BY <1>3, <3>1 DEF ThisEdge
    <3> QED BY <1>2, <3>2 DEF EdgesLeftFit
  <2>4. steps[i].name = Typename \/ (Has(From(i), steps[i].name) /\ IsProperty(FieldOf(From(i), steps[i].name)))
    <3>1. CASE steps[i].name = Typename
      BY <3>1
    <3>2. CASE steps[i].name # Typename
      <4> DEFINE t == From(i)
                 n == steps[i].name
      <4>1. Has(t, n) /\ FieldOf(t, n).type.base \notin VertexType
        BY <2>2, <3>2 DEF StepFits, Coercible
      <4>2. FieldOf(t, n) \in Fields(t) /\ t \in VertexType
        BY <4>1, FieldOfName DEF Has
      <4> HIDE DEF t, n
      <4>3. IsProperty(FieldOf(t, n))
        BY <1>2, <4>1, <4>2 DEF GoodSchema, FieldsTyped, IsProperty
      <4> QED BY <4>1, <4>3 DEF t, n
    <3> QED BY <3>1, <3>2
  <2>5. c.kind = "property" /\ c.type = From(i) /\ c.about = steps[i].name /\ c.vertices = vertices
    BY DEF Call
  <2> HIDE DEF c, i
  <2> QED BY <2>3, <2>4, <2>5 DEF CallFits, CallIsTyped
<1> HIDE DEF c
<1>5. \A k \in calls' : CallFits(k)
  BY <1>1, <1>2, <1>4
<1> QED BY <1>1, <1>5, EndPreserves DEF QueryPhases
\* The invariant of queries holds before anything is read.
LEMMA TypedInitEstablishes == TypedInit => TypedIInv
BY InitEstablishes, DecidedAtFirst DEF TypedInit, TypedIInv, QueryInv, QueryPhases, Init

\* While the schema is made there is no query.
LEMMA SchemaStepPreserves ==
  ASSUME TypedIInv, Next, UNCHANGED queryVars
  PROVE  TypedIInv'
<1>1. phase \notin QueryPhases /\ phase' \notin QueryPhases
  BY NextIsBefore
<1>2. /\ steps' = << >> /\ edges' = << >> /\ queryErrors' = {} /\ calls' = {}
  BY <1>1 DEF TypedIInv, QueryInv, queryVars
<1>3. QueryInv'
  BY <1>1, <1>2 DEF QueryInv, QueryPhases
<1>4. IInv' /\ Decided'
  BY NextPreserves, NextDecides DEF TypedIInv
<1> QED BY <1>3, <1>4 DEF TypedIInv

\* Every step of a query keeps the invariant.
LEMMA QueryStepPreserves ==
  ASSUME TypedIInv, UNCHANGED schemaVars,
         BeginQuery \/ ValidateField \/ ValidateTypename \/ RefuseField \/ CoercedPropertyPanics
           \/ Validated \/ MakeEdge \/ RootTypenamePanics \/ EdgesMade \/ ResolveStartingVertices
           \/ ExpandNonRecursiveEdge \/ ExpandRecursiveEdge \/ ResolveProperty
  PROVE  TypedIInv'
<1>1. phase \in {"accepted"} \cup QueryPhases /\ phase' \in QueryPhases
  BY DEF BeginQuery, ValidateField, ValidateTypename, RefuseField, CoercedPropertyPanics, Validating,
         Validated, MakeEdge, RootTypenamePanics, EdgesMade, ResolveStartingVertices,
         ExpandNonRecursiveEdge, ExpandRecursiveEdge, ResolveProperty, QueryPhases
<1>2. IInv' /\ Decided'
  BY <1>1, SchemaIsKept DEF TypedIInv
<1>3. CASE BeginQuery
  BY <1>2, <1>3, BeginQueryPreserves DEF TypedIInv
<1>4. CASE ValidateField
  BY <1>2, <1>4, ValidateFieldPreserves DEF TypedIInv
<1>5. CASE ValidateTypename
  BY <1>2, <1>5, ValidateTypenamePreserves DEF TypedIInv
<1>6. CASE RefuseField \/ CoercedPropertyPanics \/ RootTypenamePanics
  <2>1. /\ phase \in QueryPhases /\ phase' \in {"answered", "queryRejected", "queryPanicked"}
        /\ steps' = steps /\ calls' = calls
    BY <1>6 DEF RefuseField, CoercedPropertyPanics, RootTypenamePanics, Validating, QueryPhases
  <2>2. QueryInv'
    BY <2>1, EndPreserves DEF TypedIInv, QueryInv
  <2> QED BY <1>2, <2>2 DEF TypedIInv
<1>7. CASE Validated
  BY <1>2, <1>7, ValidatedPreserves DEF TypedIInv
<1>8. CASE MakeEdge
  BY <1>2, <1>8, MakeEdgePreserves DEF TypedIInv
<1>9. CASE EdgesMade
  BY <1>2, <1>9, EdgesMadePreserves DEF TypedIInv
<1>10. CASE ResolveStartingVertices
  BY <1>2, <1>10, ResolveStartingVerticesPreserves DEF TypedIInv
<1>11. CASE ExpandNonRecursiveEdge
  BY <1>2, <1>11, ExpandNonRecursiveEdgePreserves DEF TypedIInv
<1>12. CASE ExpandRecursiveEdge
  BY <1>2, <1>12, ExpandRecursiveEdgePreserves DEF TypedIInv
<1>13. CASE ResolveProperty
  BY <1>2, <1>13, ResolvePropertyPreserves DEF TypedIInv
<1> QED BY <1>3, <1>4, <1>5, <1>6, <1>7, <1>8, <1>9, <1>10, <1>11, <1>12, <1>13

\* A step that changes nothing.
LEMMA NoStepPreserves ==
  ASSUME TypedIInv, UNCHANGED <<vars, queryVars>>
  PROVE  TypedIInv'
<1>1. /\ steps' = steps /\ edges' = edges /\ queryErrors' = queryErrors /\ calls' = calls
      /\ vertices' = vertices /\ phase' = phase /\ UNCHANGED schemaVars /\ UNCHANGED vars
  BY DEF vars, queryVars, schemaVars
<1>2. IInv' /\ Decided'
  BY <1>1, NextPreserves, NextDecides DEF TypedIInv
<1>3. /\ GoodSchema' <=> GoodSchema
      /\ Path' <=> Path
      /\ EdgeCount' = EdgeCount
      /\ \A i : From(i)' = From(i)
  BY <1>1, SamePath
<1>4. /\ \A t : Subtypes(t)' = Subtypes(t)
      /\ \A from, step, edge : EdgeFits(from, step, edge)' <=> EdgeFits(from, step, edge)
      /\ \A c : CallFits(c)' <=> CallFits(c)
  BY <1>1, SameAnswers DEF schemaVars
<1>5. IsSequence(edges)' <=> IsSequence(edges)
  BY <1>1 DEF IsSequence
<1>6. EdgesMadeFit => EdgesMadeFit'
  BY <1>1, <1>3, <1>4, <1>5 DEF EdgesMadeFit
<1>7. EdgesLeftFit => EdgesLeftFit'
  <2>1. ThisEdge' = ThisEdge
    BY <1>1, <1>3 DEF ThisEdge
  <2>2. From(ThisEdge)' = From(ThisEdge)
    BY <1>1, <1>3, <2>1 DEF From
  <2>3. Subtypes(From(ThisEdge))' = Subtypes(From(ThisEdge))
    BY <1>4, <2>2
  <2> QED BY <1>1, <1>3, <1>4, <1>5, <2>1, <2>3 DEF EdgesLeftFit
<1>8. QueryInv'
  BY <1>1, <1>3, <1>4, <1>6, <1>7 DEF TypedIInv, QueryInv
<1> QED BY <1>2, <1>8 DEF TypedIInv

\* So does every step of the schema and its query.
LEMMA TypedNextPreserves ==
  ASSUME TypedIInv, [TypedNext]_<<vars, queryVars>>
  PROVE  TypedIInv'
<1>1. CASE Next /\ UNCHANGED queryVars
  BY <1>1, SchemaStepPreserves
<1>2. CASE QueryNext
  <2>1. CASE Finished
    <3>1. UNCHANGED <<vars, queryVars>>
      BY <1>2, <2>1 DEF QueryNext, Finished, vars, schemaVars
    <3> QED BY <3>1, NoStepPreserves
  <2>2. CASE ~ Finished
    BY <1>2, <2>2, QueryStepPreserves DEF QueryNext
  <2> QED BY <2>1, <2>2
<1>3. CASE UNCHANGED <<vars, queryVars>>
  BY <1>3, NoStepPreserves
<1> QED BY <1>1, <1>2, <1>3 DEF TypedNext

\* So it holds always.
LEMMA AlwaysTypedIInv == TypedSpec => []TypedIInv
<1>1. TypedIInv /\ [TypedNext]_<<vars, queryVars>> => TypedIInv'
  BY TypedNextPreserves
<1> QED BY <1>1, TypedInitEstablishes, PTL DEF TypedSpec

\* Whatever the schema that was accepted and the path of the query, resolvers are
\* called with vertices of the type they are told, which has the field they are asked
\* for; the interpreter goes by what validate_field() and the recursion's implicit
\* coercion have found, and never looks the types up again.
THEOREM CallsAreTypedHolds == TypedSpec => []CallsAreTyped
<1>1. TypedIInv => CallsAreTyped
  BY DEF TypedIInv, QueryInv, CallsAreTyped, CallFits, CallIsTyped
<1> QED BY <1>1, AlwaysTypedIInv, PTL

\* The parameters that are made once for an edge, with its defaults, suit the edge of
\* every type that a vertex there may have.
THEOREM ParametersFitHolds == TypedSpec => []ParametersFit
<1>1. TypedIInv => ParametersFit
  BY DEF TypedIInv, QueryInv, ParametersFit, CallFits
<1> QED BY <1>1, AlwaysTypedIInv, PTL
=============================================================================
