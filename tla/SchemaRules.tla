----------------------------- MODULE SchemaRules -----------------------------
(***************************************************************************)
(* The rules of schemas, stated on whole documents: what a type inherits   *)
(* through any number of interfaces, not only through those it lists.      *)
(* Schema::new() looks at one type and one listed interface at a time, in  *)
(* the order of a hash map, and has to come to the same decision.          *)
(***************************************************************************)
EXTENDS Schema

\* What is reached from some types through their interfaces: the types in every set
\* that has those and whatever its members in scope list.
Reached(from, scope) ==
  {u \in scope : \A s \in SUBSET scope :
     from \cap scope \subseteq s /\ (\A t \in s : Implements(t) \cap scope \subseteq s) => u \in s}

\* What t implements, directly or not.
Ancestors(t) == Reached(Implements(t), VertexType)

Definitions(kinds) == {i \in DOMAIN doc : doc[i].kind \in kinds}

\* No definition is repeated, of a kind that is not supported or extends another.
Readable ==
  /\ Definitions({"enum", "union", "input"}) = {}
  /\ \A i \in DOMAIN doc : doc[i].kind # "directive" => ~ doc[i].extend
  /\ \A kinds \in {{"schema"}, {"directive"}, {"scalar"}, {"object", "interface"}} :
       \A i, j \in Definitions(kinds) : i # j => kinds # {"schema"} /\ doc[i].name # doc[j].name
  /\ \A i \in Definitions({"scalar", "object", "interface"}) : doc[i].name \notin BuiltinScalars
  /\ \A i \in Definitions({"object", "interface"}) :
       \A k, l \in DOMAIN doc[i].fields : k # l => doc[i].fields[k].name # doc[i].fields[l].name
  /\ \E i \in Definitions({"schema"}), j \in Definitions({"object"}) : doc[i].query = doc[j].name

\* Every interface is defined and none is its own ancestor.
Hierarchical ==
  \A t \in VertexType : Implements(t) \subseteq VertexType /\ t \notin Ancestors(t)

FieldsTyped ==
  \A t \in VertexType : \A f \in Fields(t) : f.type.base \in BuiltinScalars \cup VertexType

\* What a value of a type may be at each depth: a null, a list, or one of what the
\* type at its core stands for.
Instances(type, core) ==
  {<<l, "null">> : l \in {l \in DOMAIN type.nullable : type.nullable[l]}}
    \cup {<<l, "list">> : l \in 1..Len(type.nullable) - 1}
    \cup {<<Len(type.nullable), "core", c>> : c \in core}

\* A field leads to values of a scalar, or to vertices of a type or of one that
\* descends from it; an argument is a scalar.
FieldInstances(type) == Instances(type, {type.base} \cup {t \in VertexType : type.base \in Ancestors(t)})
ArgumentInstances(type) == Instances(type, {type.base})

\* Whoever expects the ancestor's field can do with this one: its values are
\* among those expected, and it takes every argument that may be passed.
Substitutes(field, inherited) ==
  /\ FieldInstances(field.type) \subseteq FieldInstances(inherited.type)
  /\ DOMAIN field.params = DOMAIN inherited.params
  /\ \A p \in DOMAIN field.params :
       ArgumentInstances(inherited.params[p].type) \subseteq ArgumentInstances(field.params[p].type)

\* Types list all they implement and have all its fields, or narrower ones.
Substitutable ==
  \A t \in VertexType : \A u \in Ancestors(t) :
    /\ u \in Implements(t)
    /\ FieldNames(u) \subseteq FieldNames(t)
    /\ \A n \in FieldNames(u) : Substitutes(FieldOf(t, n), FieldOf(u, n))

\* The types from which t has its field n: those reached through types that all
\* have the field, which inherit it from nowhere else.
Definers(t, n) ==
  LET having == {u \in VertexType : n \in FieldNames(u)}
  IN  {u \in Reached({t}, having) : Implements(u) \cap having = {}}

UniqueOrigins == \A t \in VertexType : \A n \in FieldNames(t) : Cardinality(Definers(t, n)) = 1

\* Properties have no parameters, edges lead to vertices or lists of them, other
\* than the root, where all fields are edges; defaults are of their types.
FieldsUsable ==
  \A t \in VertexType \ Reserved : \A f \in Fields(t) :
    \/ f.type.base \in BuiltinScalars /\ f.params = << >> /\ t # queryType
    \/ /\ f.type.base \in VertexType \ {queryType}
       /\ Len(f.type.nullable) <= 2
       /\ \A p \in DOMAIN f.params :
            f.params[p].default = None \/ Valid(f.params[p].type, f.params[p].default)

NamesUsable == \A t \in VertexType : {t} \cup FieldNames(t) \subseteq (Name \cup FieldName) \ Reserved

Panics == ~ Readable \/ (Hierarchical /\ ~ FieldsTyped)

-----------------------------------------------------------------------------
\* Schema::new() accepts a document if, and only if, it obeys all rules, and
\* panics only if a definition cannot be read at all or a field has no type.
DecidesRightly ==
  /\ phase = "panicked" => Panics
  /\ phase = "rejected" => ~ Panics
  /\ phase = "accepted" => ~ Panics
  /\ phase \in {"accepted", "rejected"} =>
       (phase = "accepted" <=> /\ Hierarchical /\ Substitutable /\ UniqueOrigins
                               /\ FieldsUsable /\ NamesUsable)

\* get_field_origins finds where each field comes from, in whatever order types
\* are resolved and however many ways lead there.
OriginsExact ==
  phase \in {"checks", "accepted"} =>
    \A t \in VertexType : \A n \in FieldNames(t) : origins[t][n] = Definers(t, n)

\* Schema::subtypes(), which looks at listed interfaces only, gives every type
\* that descends from a type, and edges of those lead to what it expects: what
\* interpreters and adapters rely on when they coerce.
SubtypesDescend ==
  phase = "accepted" =>
    \A t \in VertexType :
      /\ Subtypes(t) = {t} \cup {u \in VertexType : t \in Ancestors(u)}
      /\ \A u \in Subtypes(t) : \A n \in FieldNames(t) :
           Subtypes(FieldOf(u, n).type.base) \subseteq Subtypes(FieldOf(t, n).type.base)

\* The property's lowest common denominator is where it comes from.
LowestIsOrigin ==
  phase = "accepted" =>
    \A t \in VertexType : \A n \in FieldNames(t) : origins[t][n] = {LowestCommonDenom(t, n)}

\* The error about circular relationships names types that have one.
CircularAreCircular ==
  \A e \in errors : e.error = "CircularImplementsRelationships" =>
    \A t \in e.types : t \in VertexType /\ t \in Ancestors(t)

\* "Somehow the base named type is neither a vertex nor a scalar": no field of a
\* scalar that the document defines gets there.
DefinedScalarsAreScalars ==
  phase = "panicked" /\ Readable =>
    \E t \in VertexType : \E f \in Fields(t) : f.type.base \notin BuiltinScalars \cup VertexType \cup scalars
=============================================================================
