--------------------------- MODULE FrontendProofs ---------------------------
(***************************************************************************)
(* What stands between a query's text and its execution, for all queries:  *)
(* FilterTypes, for types of any depth, values and arguments, gives a      *)
(* variable exactly the values that all its uses take, and its filters     *)
(* then meet no value they are not made for; QueryParsing, for documents   *)
(* of any depth and lists of directives of any length, accepts exactly the *)
(* grammatical ones and puts each directive in one place.                  *)
(***************************************************************************)
EXTENDS FilterTypes, QueryParsing, SequenceTheorems, FiniteSetTheorems, WellFoundedInduction, TLAPS

-----------------------------------------------------------------------------
(* Types.                                                                  *)

\* intersect_types gives a type that is compatible with both.
LEMMA IntersectionType ==
  ASSUME NEW t \in Type, NEW u \in Type, Compatible(t, u)
  PROVE  /\ Intersection(t, u) \in Type
         /\ Compatible(Intersection(t, u), u)
         /\ Compatible(t, Intersection(t, u))
<1> DEFINE both == [l \in DOMAIN t.nullable |-> t.nullable[l] /\ u.nullable[l]]
<1>1. /\ t.base \in Base /\ t.nullable \in Seq(BOOLEAN) /\ t.nullable # <<>>
      /\ u.base = t.base /\ u.nullable \in Seq(BOOLEAN)
      /\ Len(u.nullable) = Len(t.nullable)
  BY DEF Type, Compatible
<1>2. DOMAIN t.nullable = 1..Len(t.nullable) /\ Len(t.nullable) \in Nat
  BY <1>1
<1>3. both \in [1..Len(t.nullable) -> BOOLEAN]
  BY <1>1, <1>2
<1>4. both \in Seq(BOOLEAN) /\ Len(both) = Len(t.nullable)
  BY <1>2, <1>3
<1>5. both # <<>>
  BY <1>1, <1>2, <1>4
<1> QED
  BY <1>1, <1>4, <1>5 DEF Intersection, Compatible, Type

\* The values of an intersection are those of both types: nested lists are
\* narrowed layer by layer.
THEOREM ValidIntersection ==
  ASSUME NEW t \in Type, NEW u \in Type, Compatible(t, u), NEW v
  PROVE  Valid(Intersection(t, u), v) <=> Valid(t, v) /\ Valid(u, v)
<1>1. /\ t.nullable \in Seq(BOOLEAN) /\ u.nullable \in Seq(BOOLEAN)
      /\ u.base = t.base /\ Len(u.nullable) = Len(t.nullable)
  BY DEF Type, Compatible
<1>2. /\ DOMAIN u.nullable = DOMAIN t.nullable
      /\ \A l \in DOMAIN t.nullable : t.nullable[l] \in BOOLEAN /\ u.nullable[l] \in BOOLEAN
  BY <1>1
<1>3. /\ Intersection(t, u).base = t.base
      /\ DOMAIN Intersection(t, u).nullable = DOMAIN t.nullable
      /\ \A l \in DOMAIN t.nullable :
           Intersection(t, u).nullable[l] = (t.nullable[l] /\ u.nullable[l])
      /\ Len(Intersection(t, u).nullable) = Len(t.nullable)
  BY IntersectionType, <1>1 DEF Intersection, Compatible
<1>4. ASSUME NEW part
      PROVE  Fits(Intersection(t, u), part) <=> Fits(t, part) /\ Fits(u, part)
  <2>1. CASE part.depth \notin DOMAIN t.nullable
    BY <2>1, <1>3 DEF Fits
  <2>2. CASE part.depth \in DOMAIN t.nullable /\ part.kind = "null"
    BY <2>2, <1>2, <1>3 DEF Fits
  <2>3. CASE part.depth \in DOMAIN t.nullable /\ part.kind = "list"
    BY <2>3, <1>1, <1>2, <1>3 DEF Fits
  <2>4. CASE part.depth \in DOMAIN t.nullable /\ part.kind \notin {"null", "list"}
    BY <2>4, <1>1, <1>2, <1>3 DEF Fits
  <2> QED BY <2>1, <2>2, <2>3, <2>4
<1> QED BY <1>4 DEF Valid

\* What is left of more than one layer.
LEMMA TailNotEmpty ==
  ASSUME NEW s \in Seq(BOOLEAN), Len(s) > 1
  PROVE  Tail(s) \in Seq(BOOLEAN) \ {<<>>}
<1>1. Len(s) \in Nat /\ s # <<>>
  BY EmptySeq
<1>2. Tail(s) \in Seq(BOOLEAN) /\ Len(Tail(s)) = Len(s) - 1
  BY <1>1, HeadTailProperties
<1>3. PICK rest : rest = Tail(s) /\ rest \in Seq(BOOLEAN) /\ Len(rest) = Len(s) - 1
  BY <1>2
<1>4. Len(rest) # 0
  BY <1>1, <1>3
<1>5. rest # <<>>
  BY <1>3, <1>4, EmptySeq
<1> QED BY <1>3, <1>5

\* infer_variable_type gives a type.
LEMMA InferType ==
  ASSUME NEW f \in Filter, f.right.kind = "variable", f.op # "is_null", ~ CannotInfer(f)
  PROVE  Infer(f) \in Type
<1>1. f.type.base \in Base /\ f.type.nullable \in Seq(BOOLEAN) /\ f.type.nullable # <<>>
  BY DEF Filter, Type
<1>2. Len(f.type.nullable) \in Nat /\ Len(f.type.nullable) > 0
  BY <1>1
<1>3. CASE f.op = "equality"
  BY <1>3 DEF Infer, Filter
<1>4. CASE f.op = "order"
  <2>1. [f.type.nullable EXCEPT ![1] = FALSE] \in Seq(BOOLEAN) \ {<<>>}
    BY <1>1, <1>2
  <2> QED BY <2>1, <1>1, <1>4 DEF Infer, NonNull, Type, Filter
<1>5. CASE f.op = "contains"
  <2>1. Tail(f.type.nullable) \in Seq(BOOLEAN) \ {<<>>}
    <3>1. Len(f.type.nullable) > 1
      BY <1>5 DEF CannotInfer, IsList
    <3> QED BY <1>1, <3>1, TailNotEmpty
  <2> QED BY <2>1, <1>1, <1>5 DEF Infer, Inner, Type, Filter
<1>6. CASE f.op = "one_of"
  <2>1. <<FALSE>> \o f.type.nullable \in Seq(BOOLEAN) \ {<<>>}
    BY <1>1, <1>2
  <2> QED BY <2>1, <1>1, <1>6 DEF Infer, NonNullListOf, Type, Filter
<1>7. CASE f.op \in {"string", "regex"}
  BY <1>7 DEF Infer, NonNullScalar, Type, Base
<1> QED BY <1>3, <1>4, <1>5, <1>6, <1>7 DEF Filter, Operator

-----------------------------------------------------------------------------
(* The inductive invariant.                                                *)

\* A filter that was made: it passed the checks, and its variable is among the uses.
Checked(f) ==
  /\ ~ CannotInfer(f) /\ ~ Misfits(f)
  /\ f.right.kind = "variable" =>
       \E j \in DOMAIN uses : uses[j] = [name |-> f.right.name, type |-> Infer(f)]

AfterFilters == phase \in {"variables", "bad variables"} \/ VariablesKnown

FiltersInv ==
  \A i \in DOMAIN query :
    (phase = "filters" /\ ~ failed /\ i < at) \/ AfterFilters => Checked(query[i])

\* The uses that fill_in_query_variables has gone through.
Seen == IF phase = "variables" THEN {i \in DOMAIN uses : i < at} ELSE DOMAIN uses

Conflict(S) == \E i, j \in S : /\ uses[i].name = uses[j].name
                              /\ ~ Compatible(uses[i].type, uses[j].type)

SeenUses(n) == {i \in Seen : uses[i].name = n}

\* Without an error, a variable's type is compatible with each use gone through,
\* and has the values they have in common; after an error, there is a conflict,
\* and the type is still compatible with one of the uses.
VariablesInv ==
  AfterFilters =>
    /\ DOMAIN variables = {uses[i].name : i \in Seen}
    /\ \A n \in DOMAIN variables : \E i \in SeenUses(n) : Compatible(uses[i].type, variables[n])
    /\ failed => Conflict(Seen)
    /\ ~ failed => \A n \in DOMAIN variables :
         /\ \A i \in SeenUses(n) : Compatible(uses[i].type, variables[n])
         /\ \A v : Valid(variables[n], v) <=> \A i \in SeenUses(n) : Valid(uses[i].type, v)

PhaseInv ==
  /\ phase = "filters" => variables = << >>
  /\ phase = "bad variables" => failed
  /\ VariablesKnown => ~ failed
  /\ phase \in {"running", "filter panicked"} => Acceptable(arguments)
  /\ phase = "bad arguments" => ~ Acceptable(arguments)

IInv == TypeOK /\ PhaseInv /\ FiltersInv /\ VariablesInv

\* Whatever is in a query is a filter.
LEMMA QueryFilters ==
  ASSUME TypeOK
  PROVE  /\ query \in Seq(Filter)
         /\ DOMAIN query = 1..Len(query) /\ Len(query) \in Nat
         /\ \A i \in DOMAIN query : /\ query[i] \in Filter
                                   /\ query[i].op = "is_null" <=> query[i].right.kind = "none"
<1>1. query \in Queries
  BY DEF TypeOK
<1>2. query \in Seq(Filter)
        /\ \A i \in DOMAIN query : query[i].op = "is_null" <=> query[i].right.kind = "none"
  BY <1>1, FiltersAreFilters
<1> QED BY <1>2

\* Everything has its type when the check begins.
LEMMA InitTypes == Init => TypeOK
<1> SUFFICES ASSUME Init PROVE TypeOK
  OBVIOUS
<1>1. query \in Seq(Filter)
  BY FiltersAreFilters DEF Init
<1>2. /\ DOMAIN variables = {} /\ DOMAIN arguments = {}
      /\ uses \in Seq(Use)
  BY DEF Init
<1>3. Len(query) \in Nat
  BY <1>1
<1>4. phase = "filters" /\ at = 1 /\ failed = FALSE /\ query \in Queries
  BY DEF Init
<1>5. phase \in Phase /\ phase # "variables" /\ at \in Nat \ {0} /\ at =< Len(query) + 1
  BY <1>3, <1>4 DEF Phase
<1> QED BY <1>2, <1>4, <1>5 DEF TypeOK

\* Filling in a variable gives it a type.
LEMMA NarrowedType ==
  ASSUME TypeOK, NEW use \in Use
  PROVE  /\ Existing(use) \in Type
         /\ Narrowed(use) \in Type
         /\ DOMAIN WithVariable(use.name, Narrowed(use)) = DOMAIN variables \cup {use.name}
         /\ WithVariable(use.name, Narrowed(use))[use.name] = Narrowed(use)
         /\ \A n \in DOMAIN variables \ {use.name} :
              WithVariable(use.name, Narrowed(use))[n] = variables[n]
<1>1. Existing(use) \in Type
  BY DEF Existing, TypeOK, Use
<1>2. use.type \in Type
  BY DEF Use
<1>3. Narrowed(use) \in Type
  BY <1>1, <1>2, IntersectionType DEF Narrowed
<1> QED BY <1>1, <1>3 DEF WithVariable

\* Every step leaves everything with its type.
LEMMA NextTypes == TypeOK /\ [Next]_vars => TypeOK'
<1> SUFFICES ASSUME TypeOK, [Next]_vars PROVE TypeOK'
  OBVIOUS
<1>1. CASE UNCHANGED vars
  BY <1>1 DEF TypeOK, vars
<1>2. CASE MakeFilter
  <2> DEFINE f == query[at]
  <2>1. f \in Filter /\ at \in 1..Len(query) /\ Len(query) \in Nat
    BY <1>2, QueryFilters DEF MakeFilter, Making
  <2>2. f.op = "is_null" <=> f.right.kind = "none"
    BY <1>2, QueryFilters DEF MakeFilter, Making
  <2>3. uses' \in Seq(Use)
    <3>1. CASE f.right.kind = "variable"
      <4>1. Infer(f) \in Type
        BY <2>1, <2>2, <3>1, <1>2, InferType DEF MakeFilter
      <4>2. f.right.name \in Variable
        BY <2>1, <3>1 DEF Filter, Operand
      <4>3. [name |-> f.right.name, type |-> Infer(f)] \in Use
        BY <4>1, <4>2 DEF Use
      <4>4. uses' = Append(uses, [name |-> f.right.name, type |-> Infer(f)])
        BY <1>2, <3>1 DEF MakeFilter
      <4> QED BY <4>3, <4>4, AppendProperties DEF TypeOK
    <3>2. CASE f.right.kind # "variable"
      BY <1>2, <3>2 DEF MakeFilter, TypeOK
    <3> QED BY <3>1, <3>2
  <2> QED BY <1>2, <2>1, <2>3 DEF MakeFilter, Making, TypeOK, Phase
<1>3. CASE ReportFilter
  <2>1. at \in 1..Len(query) /\ Len(query) \in Nat
    BY <1>3, QueryFilters DEF ReportFilter, Making
  <2> QED BY <1>3, <2>1 DEF ReportFilter, Making, TypeOK, Phase
<1>4. CASE UnwrapNoTag
  BY <1>4 DEF UnwrapNoTag, Making, TypeOK, Phase
<1>5. CASE FiltersMade
  <2>1. Len(uses) \in Nat
    BY DEF TypeOK
  <2>2. /\ phase' \in {"bad filters", "variables"} /\ at' = 1
        /\ UNCHANGED <<query, uses, failed, variables, arguments>>
    BY <1>5 DEF FiltersMade
  <2>3. phase' \in Phase /\ phase' # "filters"
    BY <2>2 DEF Phase
  <2>4. 1 =< Len(uses) + 1
    BY <2>1
  <2>5. uses' = uses /\ at' = 1
    BY <2>2
  <2>6. at' =< Len(uses') + 1
    BY <2>4, <2>5
  <2>7. /\ query' \in Queries /\ uses' \in Seq(Use) /\ failed' \in BOOLEAN
        /\ DOMAIN variables' \subseteq Variable /\ \A n \in DOMAIN variables' : variables'[n] \in Type
        /\ DOMAIN arguments' \subseteq Variable /\ \A n \in DOMAIN arguments' : arguments'[n] \in Values
    BY <2>2 DEF TypeOK
  <2> QED BY <2>3, <2>5, <2>6, <2>7 DEF TypeOK
<1>6. CASE FillInVariable
  <2>1. at \in 1..Len(uses) /\ Len(uses) \in Nat /\ uses[at] \in Use
    BY <1>6 DEF FillInVariable, TypeOK
  <2> DEFINE use == uses[at]
  <2>2. /\ DOMAIN variables' = DOMAIN variables \cup {use.name}
        /\ \A n \in DOMAIN variables' : variables'[n] \in Type
    BY <1>6, <2>1, NarrowedType DEF FillInVariable, TypeOK
  <2>3. DOMAIN variables' \subseteq Variable
    BY <2>1, <2>2 DEF TypeOK, Use
  <2>4. failed' \in BOOLEAN
    BY <1>6 DEF FillInVariable
  <2> QED BY <1>6, <2>1, <2>2, <2>3, <2>4 DEF FillInVariable, TypeOK, Phase
<1>7. CASE VariablesFilledIn
  BY <1>7 DEF VariablesFilledIn, TypeOK, Phase
<1>8. CASE FromQueryAndArguments
  <2>1. DOMAIN arguments' \subseteq Variable /\ \A n \in DOMAIN arguments' : arguments'[n] \in Values
    BY <1>8, ArgumentsAreValues DEF FromQueryAndArguments
  <2> QED BY <1>8, <2>1 DEF FromQueryAndArguments, TypeOK, Phase
<1>9. CASE ApplyFilter
  <2>0. PICK i \in DOMAIN query : at' = i
    BY <1>9 DEF ApplyFilter
  <2>1. at' \in Nat \ {0}
    BY <2>0, QueryFilters
  <2>2. phase' = "filter panicked" /\ UNCHANGED <<query, uses, failed, variables, arguments>>
    BY <1>9 DEF ApplyFilter
  <2> QED BY <2>1, <2>2 DEF TypeOK, Phase
<1>10. CASE Done
  BY <1>10 DEF Done, vars, TypeOK
<1> QED BY <1>1, <1>2, <1>3, <1>4, <1>5, <1>6, <1>7, <1>8, <1>9, <1>10 DEF Next

\* What every variable of the code's state may hold.
THEOREM TypesAreCorrect == Spec => []TypeOK
BY InitTypes, NextTypes, PTL DEF Spec

\* The invariant holds when the check begins.
LEMMA InitInv == Init => IInv
<1> SUFFICES ASSUME Init PROVE IInv
  OBVIOUS
<1>1. TypeOK
  BY InitTypes
<1>2. phase = "filters" /\ at = 1 /\ variables = << >>
  BY DEF Init
<1>3. PhaseInv /\ VariablesInv
  BY <1>2 DEF PhaseInv, VariablesInv, AfterFilters, VariablesKnown
<1>4. FiltersInv
  BY <1>1, <1>2, QueryFilters DEF FiltersInv, AfterFilters, VariablesKnown
<1> QED BY <1>1, <1>3, <1>4 DEF IInv

\* A filter that was checked is still checked when there are more uses.
LEMMA CheckedStays ==
  ASSUME NEW f, Checked(f), \A j \in DOMAIN uses : j \in DOMAIN uses' /\ uses'[j] = uses[j]
  PROVE  Checked(f)'
BY DEF Checked

\* The step that intersects the types.
LEMMA FillInInv ==
  ASSUME IInv, TypeOK', FillInVariable
  PROVE  VariablesInv'
<1>1. PICK use, name, type, existing :
        use = uses[at] /\ name = uses[at].name /\ type = uses[at].type /\ existing = Existing(use)
  OBVIOUS
<1>2. /\ at \in DOMAIN uses /\ phase = "variables" /\ phase' = "variables"
      /\ at' = at + 1 /\ uses' = uses
  BY DEF FillInVariable
<1>3. VariablesInv /\ AfterFilters /\ TypeOK
  BY <1>2 DEF IInv, AfterFilters
<1>4. uses \in Seq(Use) /\ DOMAIN uses = 1..Len(uses) /\ Len(uses) \in Nat
  BY <1>3 DEF TypeOK
<1>5. use \in Use /\ name = use.name /\ type = use.type /\ type \in Type /\ at \in Nat
  <2>1. at \in Nat
    BY <1>3 DEF TypeOK
  <2>2. uses[at] \in Use
    BY <1>2, <1>4, ElementOfSeq
  <2> QED BY <1>1, <2>1, <2>2 DEF Use
<1>6. /\ existing \in Type
      /\ DOMAIN variables' = DOMAIN variables \cup {name}
      /\ variables'[name] = Narrowed(use)
      /\ \A n \in DOMAIN variables \ {name} : variables'[n] = variables[n]
  BY <1>1, <1>3, <1>5, NarrowedType DEF FillInVariable
<1>7. failed' = (failed \/ ~ Compatible(existing, type))
  BY <1>1 DEF FillInVariable
<1>8. /\ Seen = {i \in DOMAIN uses : i < at}
      /\ Seen' = Seen \cup {at}
      /\ at \notin Seen
  BY <1>2, <1>4, <1>5 DEF Seen
<1>9. ASSUME NEW n PROVE SeenUses(n)' = {i \in Seen \cup {at} : uses[i].name = n}
  BY <1>2, <1>8 DEF SeenUses
<1>10. /\ \A n : n # name => SeenUses(n)' = SeenUses(n)
      /\ SeenUses(name)' = SeenUses(name) \cup {at}
  BY <1>1, <1>9 DEF SeenUses
<1>11. name \notin DOMAIN variables => existing = type /\ SeenUses(name) = {}
  BY <1>1, <1>3, <1>8 DEF VariablesInv, SeenUses, Existing
<1>12. name \in DOMAIN variables => existing = variables[name]
  BY <1>1 DEF Existing
<1>13. Narrowed(use) = IF Compatible(existing, type) THEN Intersection(existing, type) ELSE existing
  BY <1>1 DEF Narrowed
<1>14. DOMAIN variables' = {uses'[i].name : i \in Seen'}
  BY <1>1, <1>2, <1>3, <1>6, <1>8 DEF VariablesInv
<1>15. ASSUME NEW n \in DOMAIN variables'
      PROVE  \E i \in SeenUses(n)' : Compatible(uses'[i].type, variables'[n])
  <2>1. CASE n # name
    <3>1. n \in DOMAIN variables /\ variables'[n] = variables[n]
      BY <1>6, <1>15, <2>1
    <3>2. \E i \in SeenUses(n) : Compatible(uses[i].type, variables[n])
      BY <1>3, <3>1 DEF VariablesInv
    <3> QED BY <1>2, <1>10, <2>1, <3>1, <3>2
  <2>2. CASE n = name /\ Compatible(existing, type)
    <3>1. variables'[n] = Intersection(existing, type)
      BY <1>6, <1>13, <2>2
    <3>2. Compatible(type, variables'[n])
      BY <1>6, <1>5, <2>2, <3>1, IntersectionType DEF Compatible
    <3> QED BY <1>1, <1>2, <1>10, <2>2, <3>2
  <2>3. CASE n = name /\ ~ Compatible(existing, type)
    <3>1. name \in DOMAIN variables
      BY <1>11, <2>3 DEF Compatible
    <3>2. variables'[n] = variables[n]
      BY <1>6, <1>12, <1>13, <2>3, <3>1
    <3>3. \E i \in SeenUses(n) : Compatible(uses[i].type, variables[n])
      BY <1>3, <2>3, <3>1 DEF VariablesInv
    <3> QED BY <1>2, <1>10, <2>3, <3>2, <3>3
  <2> QED BY <2>1, <2>2, <2>3
<1>16. ASSUME failed' PROVE Conflict(Seen)'
  <2>1. CASE failed
    <3>1. Conflict(Seen)
      BY <1>3, <2>1 DEF VariablesInv
    <3> QED BY <1>2, <1>8, <3>1 DEF Conflict
  <2>2. CASE ~ Compatible(existing, type)
    <3>1. name \in DOMAIN variables
      BY <1>11, <2>2 DEF Compatible
    <3>2. PICK i \in SeenUses(name) : Compatible(uses[i].type, existing)
      BY <1>3, <1>12, <3>1 DEF VariablesInv
    <3>3. i \in Seen' /\ at \in Seen' /\ uses[i].name = uses[at].name
      BY <1>1, <1>8, <3>2 DEF SeenUses
    <3>4. ~ Compatible(uses[i].type, uses[at].type)
      BY <1>1, <2>2, <3>2 DEF Compatible
    <3> QED BY <1>2, <3>3, <3>4 DEF Conflict
  <2> QED BY <1>7, <1>16, <2>1, <2>2
<1>17. ASSUME ~ failed', NEW n \in DOMAIN variables'
       PROVE  /\ \A i \in SeenUses(n)' : Compatible(uses'[i].type, variables'[n])
              /\ \A v : Valid(variables'[n], v) <=> \A i \in SeenUses(n)' : Valid(uses'[i].type, v)
  <2>1. ~ failed /\ Compatible(existing, type)
    BY <1>7, <1>17
  <2>2. CASE n # name
    <3>1. n \in DOMAIN variables /\ variables'[n] = variables[n] /\ SeenUses(n)' = SeenUses(n)
      BY <1>6, <1>10, <1>17, <2>2
    <3> QED BY <1>2, <1>3, <2>1, <3>1 DEF VariablesInv
  <2>3. CASE n = name
    <3>1. variables'[n] = Intersection(existing, type)
      BY <1>6, <1>13, <2>1, <2>3
    <3>2. /\ \A i \in SeenUses(name) : Compatible(uses[i].type, existing)
          /\ \A v : Valid(existing, v) =>
                    \A i \in SeenUses(name) : Valid(uses[i].type, v)
          /\ \A v : Valid(type, v) /\ (\A i \in SeenUses(name) : Valid(uses[i].type, v))
                    => Valid(existing, v)
      <4>1. CASE name \in DOMAIN variables
        BY <1>3, <1>12, <2>1, <4>1 DEF VariablesInv
      <4>2. CASE name \notin DOMAIN variables
        BY <1>11, <4>2
      <4> QED BY <4>1, <4>2
    <3>3. \A v : Valid(variables'[n], v) <=> Valid(existing, v) /\ Valid(type, v)
      BY <1>6, <1>5, <2>1, <3>1, ValidIntersection
    <3>4. Compatible(existing, variables'[n]) /\ Compatible(type, variables'[n])
      BY <1>6, <1>5, <2>1, <3>1, IntersectionType DEF Compatible
    <3>9. \A i \in SeenUses(name) : Compatible(uses[i].type, variables'[n])
      BY <3>2, <3>4 DEF Compatible
    <3>5. \A i \in SeenUses(name)' : Compatible(uses'[i].type, variables'[n])
      BY <1>1, <1>2, <1>10, <3>4, <3>9
    <3>6. ASSUME NEW v
          PROVE  Valid(variables'[n], v) <=> \A i \in SeenUses(name)' : Valid(uses'[i].type, v)
      BY <1>1, <1>2, <1>10, <3>2, <3>3
    <3> QED BY <2>3, <3>5, <3>6
  <2> QED BY <2>2, <2>3
<1> QED BY <1>14, <1>15, <1>16, <1>17 DEF VariablesInv

\* Making a filter.
LEMMA MakeFilterInv ==
  ASSUME IInv, MakeFilter
  PROVE  FiltersInv'
<1>0. TypeOK /\ phase = "filters" /\ phase' = "filters" /\ at' = at + 1 /\ at \in Nat
      /\ query' = query /\ failed' = failed
  BY DEF IInv, TypeOK, MakeFilter, Making
<1>1. uses \in Seq(Use) /\ DOMAIN uses = 1..Len(uses) /\ Len(uses) \in Nat
  BY <1>0 DEF TypeOK
<1>2. at \in DOMAIN query /\ DOMAIN query = 1..Len(query) /\ query[at] \in Filter
      /\ (query[at].op = "is_null" <=> query[at].right.kind = "none")
  BY <1>0, QueryFilters DEF MakeFilter, Making
<1>3. ~ CannotInfer(query[at]) /\ ~ Misfits(query[at])
  BY DEF MakeFilter
<1>4. ASSUME query[at].right.kind = "variable"
      PROVE  /\ \A j \in DOMAIN uses : j \in DOMAIN uses' /\ uses'[j] = uses[j]
             /\ \E j \in DOMAIN uses' :
                  uses'[j] = [name |-> query[at].right.name, type |-> Infer(query[at])]
  <2>1. PICK use : use = [name |-> query[at].right.name, type |-> Infer(query[at])]
    OBVIOUS
  <2>2. uses' = Append(uses, use)
    BY <1>4, <2>1 DEF MakeFilter
  <2>3. use \in Use
    <3>1. Infer(query[at]) \in Type
      BY <1>2, <1>3, <1>4, InferType
    <3>2. query[at].right.name \in Variable
      BY <1>2, <1>4 DEF Filter, Operand
    <3> QED BY <2>1, <3>1, <3>2 DEF Use
  <2>4. /\ Len(uses') = Len(uses) + 1 /\ uses' \in Seq(Use)
        /\ \A j \in 1..Len(uses) : uses'[j] = uses[j]
        /\ uses'[Len(uses) + 1] = use
    BY <1>1, <2>2, <2>3, AppendProperties
  <2>5. DOMAIN uses' = 1..Len(uses) + 1
    BY <2>4
  <2> QED BY <1>1, <2>1, <2>4, <2>5
<1>5. query[at].right.kind # "variable" => uses' = uses
  BY DEF MakeFilter
<1>6. \A j \in DOMAIN uses : j \in DOMAIN uses' /\ uses'[j] = uses[j]
  BY <1>4, <1>5
<1>7. ASSUME NEW i \in DOMAIN query, ~ failed, i < at + 1 PROVE Checked(query[i])'
  <2>1. PICK f : f = query[i]
    OBVIOUS
  <2>2. CASE i < at
    <3>1. Checked(f)
      BY <1>0, <1>7, <2>1, <2>2 DEF IInv, FiltersInv
    <3>2. Checked(f)'
      BY <1>6, <3>1, CheckedStays
    <3> QED BY <1>0, <2>1, <3>2
  <2>3. CASE i = at
    BY <1>0, <1>3, <1>4, <2>3 DEF Checked
  <2> QED BY <1>0, <1>2, <1>7, <2>2, <2>3
<1> QED BY <1>0, <1>7 DEF FiltersInv, AfterFilters, VariablesKnown

\* A step that leaves the variables as they are.
LEMMA InvStays ==
  ASSUME IInv, UNCHANGED <<query, uses, failed, variables>>, Seen' = Seen,
         AfterFilters' => AfterFilters,
         phase' = "filters" => phase = "filters" /\ at' = at
  PROVE  VariablesInv' /\ FiltersInv'
<1>1. \A n : SeenUses(n)' = SeenUses(n)
  BY DEF SeenUses
<1>2. Conflict(Seen)' <=> Conflict(Seen)
  BY DEF Conflict
<1>3. VariablesInv'
  BY <1>1, <1>2 DEF IInv, VariablesInv
<1>4. \A f : Checked(f)' <=> Checked(f)
  BY DEF Checked
<1>5. FiltersInv'
  <2> SUFFICES ASSUME NEW i \in DOMAIN query,
                      (phase' = "filters" /\ ~ failed /\ i < at') \/ AfterFilters'
               PROVE  Checked(query[i])'
    BY DEF FiltersInv
  <2>1. PICK f : f = query[i]
    OBVIOUS
  <2>2. Checked(f)
    BY <2>1 DEF IInv, FiltersInv
  <2>3. Checked(f)'
    BY <1>4, <2>2
  <2> QED BY <2>1, <2>3
<1> QED BY <1>3, <1>5

\* Every step keeps the invariant.
LEMMA NextInv == IInv /\ [Next]_vars => IInv'
<1> SUFFICES ASSUME IInv, [Next]_vars PROVE IInv'
  OBVIOUS
<1>0. TypeOK /\ TypeOK'
  BY NextTypes DEF IInv
<1> SUFFICES PhaseInv' /\ FiltersInv' /\ VariablesInv'
  BY <1>0 DEF IInv
<1> USE DEF AfterFilters, VariablesKnown
<1>1. CASE UNCHANGED vars
  <2>1. UNCHANGED <<query, phase, at, uses, failed, variables, arguments>>
    BY <1>1 DEF vars
  <2>2. Seen' = Seen
    BY <2>1 DEF Seen
  <2>3. VariablesInv' /\ FiltersInv'
    BY <2>1, <2>2, InvStays
  <2> QED BY <2>1, <2>3 DEF IInv, PhaseInv, Acceptable
<1>2. CASE MakeFilter
  <2>1. phase = "filters" /\ phase' = "filters" /\ variables' = variables
    BY <1>2 DEF MakeFilter, Making
  <2> QED BY <1>2, <2>1, MakeFilterInv DEF IInv, PhaseInv, VariablesInv
<1>3. CASE ReportFilter
  <2>1. phase = "filters" /\ phase' = "filters" /\ variables' = variables /\ failed'
    BY <1>3 DEF ReportFilter, Making
  <2> QED BY <2>1 DEF IInv, PhaseInv, VariablesInv, FiltersInv
<1>4. CASE UnwrapNoTag
  <2>1. phase' = "frontend panicked"
    BY <1>4 DEF UnwrapNoTag
  <2> QED BY <2>1 DEF PhaseInv, VariablesInv, FiltersInv
<1>5. CASE FiltersMade
  <2>1. /\ phase = "filters" /\ at' = 1 /\ at \notin DOMAIN query
        /\ UNCHANGED <<query, uses, failed, variables>>
        /\ phase' = IF failed THEN "bad filters" ELSE "variables"
    BY <1>5 DEF FiltersMade
  <2>2. DOMAIN variables = {}
    <3>1. variables = << >>
      BY <2>1 DEF IInv, PhaseInv
    <3> QED BY <3>1
  <2>3. CASE failed
    BY <2>1, <2>2, <2>3 DEF PhaseInv, VariablesInv, FiltersInv
  <2>4. CASE ~ failed
    <3>1. \A i \in DOMAIN query : i < at
      <4>1. DOMAIN query = 1..Len(query) /\ Len(query) \in Nat
        BY <1>0, QueryFilters
      <4>2. at \in Nat \ {0} /\ at \notin 1..Len(query)
        BY <1>0, <2>1, <4>1 DEF TypeOK
      <4> QED BY <4>1, <4>2
    <3>2. FiltersInv'
      BY <2>1, <2>4, <3>1 DEF IInv, FiltersInv, Checked
    <3>3. Seen' = {}
      <4>1. DOMAIN uses = 1..Len(uses) /\ Len(uses) \in Nat
        BY <1>0 DEF TypeOK
      <4> QED BY <2>1, <2>4, <4>1 DEF Seen
    <3>4. VariablesInv'
      BY <2>1, <2>2, <2>4, <3>3 DEF VariablesInv
    <3> QED BY <2>1, <2>4, <3>2, <3>4 DEF PhaseInv
  <2> QED BY <2>3, <2>4
<1>6. CASE FillInVariable
  <2>1. phase = "variables" /\ phase' = "variables" /\ query' = query /\ uses' = uses
    BY <1>6 DEF FillInVariable
  <2> QED BY <1>0, <1>6, <2>1, FillInInv DEF IInv, PhaseInv, FiltersInv, Checked
<1>7. CASE VariablesFilledIn
  <2>1. /\ phase = "variables" /\ at \notin DOMAIN uses
        /\ UNCHANGED <<query, uses, failed, variables, arguments>>
        /\ phase' = IF failed THEN "bad variables" ELSE "ready"
    BY <1>7 DEF VariablesFilledIn
  <2>2. \A i \in DOMAIN uses : i < at
    <3>1. DOMAIN uses = 1..Len(uses) /\ Len(uses) \in Nat
      BY <1>0 DEF TypeOK
    <3>2. at \in Nat \ {0} /\ at \notin 1..Len(uses)
      BY <1>0, <2>1, <3>1 DEF TypeOK
    <3> QED BY <3>1, <3>2
  <2>3. Seen = DOMAIN uses /\ Seen' = DOMAIN uses
    BY <2>1, <2>2 DEF Seen
  <2>4. VariablesInv' /\ FiltersInv'
    BY <2>1, <2>3, InvStays
  <2> QED BY <2>1, <2>4 DEF IInv, PhaseInv
<1>8. CASE FromQueryAndArguments
  <2>1. /\ phase = "ready" /\ UNCHANGED <<query, uses, failed, variables>>
        /\ phase' = IF Acceptable(arguments') THEN "running" ELSE "bad arguments"
    BY <1>8 DEF FromQueryAndArguments
  <2>2. Seen = DOMAIN uses /\ Seen' = DOMAIN uses
    BY <2>1 DEF Seen
  <2>3. VariablesInv' /\ FiltersInv'
    BY <2>1, <2>2, InvStays
  <2> QED BY <2>1, <2>3 DEF IInv, PhaseInv, Acceptable
<1>9. CASE ApplyFilter
  <2>1. /\ phase = "running" /\ phase' = "filter panicked"
        /\ UNCHANGED <<query, uses, failed, variables, arguments>>
    BY <1>9 DEF ApplyFilter
  <2>2. Seen = DOMAIN uses /\ Seen' = DOMAIN uses
    BY <2>1 DEF Seen
  <2>3. VariablesInv' /\ FiltersInv'
    BY <2>1, <2>2, InvStays
  <2> QED BY <2>1, <2>3 DEF IInv, PhaseInv, Acceptable
<1>10. CASE Done
  BY <1>1, <1>10 DEF Done
<1> QED BY <1>1, <1>2, <1>3, <1>4, <1>5, <1>6, <1>7, <1>8, <1>9, <1>10 DEF Next

\* So the invariant holds always.
LEMMA Invariant == Spec => []IInv
BY InitInv, NextInv, PTL DEF Spec

-----------------------------------------------------------------------------

\* The type inferred for a variable has exactly the values that all its uses take.
THEOREM InferredExactlyHolds == Spec => []InferredExactly
<1>1. IInv => InferredExactly
  <2> SUFFICES ASSUME IInv, VariablesKnown
               PROVE  /\ DOMAIN variables = {uses[i].name : i \in DOMAIN uses}
                      /\ \A n \in DOMAIN variables : \A v \in Values :
                           Valid(variables[n], v) <=> \A i \in UsesOf(n) : Valid(uses[i].type, v)
    BY DEF InferredExactly
  <2>1. Seen = DOMAIN uses
    BY DEF Seen, VariablesKnown
  <2>2. \A n : UsesOf(n) = SeenUses(n)
    BY <2>1 DEF UsesOf, SeenUses
  <2>3. ~ failed /\ VariablesInv /\ AfterFilters
    BY DEF IInv, PhaseInv, AfterFilters
  <2> QED BY <2>1, <2>2, <2>3 DEF VariablesInv
<1> QED BY <1>1, Invariant, PTL

\* Conflicts between the uses of a variable are reported, and nothing else is.
THEOREM ConflictsAreConflictsHolds == Spec => []ConflictsAreConflicts
<1>1. IInv => ConflictsAreConflicts
  <2> SUFFICES ASSUME IInv PROVE ConflictsAreConflicts
    OBVIOUS
  <2>1. ASSUME phase = "bad variables" PROVE Conflict(DOMAIN uses)
    <3>1. Seen = DOMAIN uses /\ failed /\ AfterFilters
      BY <2>1 DEF Seen, IInv, PhaseInv, AfterFilters
    <3> QED BY <3>1 DEF IInv, VariablesInv
  <2>2. ASSUME VariablesKnown, NEW i \in DOMAIN uses, NEW j \in DOMAIN uses,
               uses[i].name = uses[j].name
        PROVE  Compatible(uses[i].type, uses[j].type)
    <3>1. Seen = DOMAIN uses /\ ~ failed /\ AfterFilters
      BY <2>2 DEF Seen, VariablesKnown, IInv, PhaseInv, AfterFilters
    <3>2. PICK n : n = uses[i].name
      OBVIOUS
    <3>3. n \in DOMAIN variables /\ i \in SeenUses(n) /\ j \in SeenUses(n)
      BY <2>2, <3>1, <3>2 DEF IInv, VariablesInv, SeenUses
    <3>4. Compatible(uses[i].type, variables[n]) /\ Compatible(uses[j].type, variables[n])
      BY <3>1, <3>3 DEF IInv, VariablesInv
    <3> QED BY <3>4 DEF Compatible
  <2> QED BY <2>1, <2>2 DEF ConflictsAreConflicts, Conflict
<1> QED BY <1>1, Invariant, PTL

\* A query runs with exactly the arguments that fit each use of each variable.
THEOREM RunsWithFittingArgumentsHolds == Spec => []RunsWithFittingArguments
<1>1. IInv => RunsWithFittingArguments
  <2> SUFFICES ASSUME IInv, phase \in {"running", "filter panicked", "bad arguments"}
               PROVE  Acceptable(arguments) <=>
                        /\ DOMAIN arguments = {uses[i].name : i \in DOMAIN uses}
                        /\ \A i \in DOMAIN uses : Valid(uses[i].type, arguments[uses[i].name])
    BY DEF RunsWithFittingArguments, IInv, PhaseInv
  <2>1. Seen = DOMAIN uses /\ ~ failed /\ AfterFilters
    BY DEF Seen, VariablesKnown, IInv, PhaseInv, AfterFilters
  <2>2. DOMAIN variables = {uses[i].name : i \in DOMAIN uses}
    BY <2>1 DEF IInv, VariablesInv
  <2>3. ASSUME NEW n \in DOMAIN variables, NEW v
        PROVE  Valid(variables[n], v) <=> \A i \in SeenUses(n) : Valid(uses[i].type, v)
    BY <2>1 DEF IInv, VariablesInv
  <2>4. (\A n \in DOMAIN variables : Valid(variables[n], arguments[n])) <=>
          \A i \in DOMAIN uses : Valid(uses[i].type, arguments[uses[i].name])
    BY <2>1, <2>2, <2>3 DEF SeenUses
  <2> QED BY <2>2, <2>4 DEF Acceptable
<1> QED BY <1>1, Invariant, PTL

-----------------------------------------------------------------------------
(* The kinds of the values that filters meet.                              *)

\* The kinds of the scalars.
LEMMA ScalarKinds ==
  ASSUME NEW kind \in Kind \ {"null", "list"}
  PROVE  /\ BaseOf(kind) = "Int" => kind = "int"
         /\ BaseOf(kind) = "Float" => kind = "float"
         /\ BaseOf(kind) = "String" => kind \in {"regex", "text"}
         /\ BaseOf(kind) = "DateTime" => kind = "date"
<1>1. kind \in {"int", "float", "regex", "text", "boolean", "date"}
  BY DEF Kind
<1>2. CASE kind = "int"
  BY <1>2 DEF BaseOf
<1>3. CASE kind = "float"
  BY <1>3 DEF BaseOf
<1>4. CASE kind \in {"regex", "text"}
  BY <1>4 DEF BaseOf
<1>5. CASE kind = "boolean"
  BY <1>5 DEF BaseOf
<1>6. CASE kind = "date"
  BY <1>6 DEF BaseOf
<1> QED BY <1>1, <1>2, <1>3, <1>4, <1>5, <1>6

\* A valid value of a list is null or a list, one of a scalar is null or of its kinds.
LEMMA OuterKind ==
  ASSUME NEW t \in Type, NEW v \in Value, Valid(t, v)
  PROVE  \E part \in v :
           /\ part.depth = 1 /\ part.kind \in Kind
           /\ IsList(t) => part.kind \in {"null", "list"}
           /\ ~ IsList(t) => \/ part.kind = "null"
                             \/ part.kind \notin {"null", "list"} /\ BaseOf(part.kind) = t.base
<1>1. PICK part \in v : part.depth = 1 /\ part.kind \in Kind
  BY DEF Value, Part
<1>2. Fits(t, part)
  BY <1>1 DEF Valid
<1>3. DOMAIN t.nullable = 1..Len(t.nullable) /\ Len(t.nullable) \in Nat
  BY DEF Type
<1>4. CASE part.kind = "null"
  BY <1>1, <1>4
<1>5. CASE part.kind = "list"
  BY <1>1, <1>2, <1>3, <1>5 DEF Fits, IsList
<1>6. CASE part.kind \notin {"null", "list"}
  <2>1. part.depth = Len(t.nullable) /\ BaseOf(part.kind) = t.base
    BY <1>2, <1>6 DEF Fits
  <2>2. ~ IsList(t)
    BY <1>1, <1>3, <2>1 DEF IsList
  <2> QED BY <1>1, <1>6, <2>1, <2>2
<1> QED BY <1>1, <1>4, <1>5, <1>6

\* Valid operands of a filter that was checked do not make it panic.
LEMMA ValidOperandsDoNotPanic ==
  ASSUME NEW f \in Filter, ~ Misfits(f), RightType(f) \in Type,
         NEW left \in Value, Valid(f.type, left),
         NEW right \in Value, Valid(RightType(f), right),
         ~ (f.op = "order" /\ IsList(f.type)),
         ~ (f.op = "regex" /\ f.right.kind # "tag")
  PROVE  ~ Panics(f, left, right)
<1>1. f.type \in Type /\ f.op \in Operator
  BY DEF Filter
<1>2. PICK l \in left :
           /\ l.depth = 1 /\ l.kind \in Kind
           /\ IsList(f.type) => l.kind \in {"null", "list"}
           /\ ~ IsList(f.type) => \/ l.kind = "null"
                                  \/ l.kind \notin {"null", "list"} /\ BaseOf(l.kind) = f.type.base
  BY <1>1, OuterKind
<1>3. PICK r \in right :
           /\ r.depth = 1 /\ r.kind \in Kind
           /\ IsList(RightType(f)) => r.kind \in {"null", "list"}
           /\ ~ IsList(RightType(f)) =>
                 \/ r.kind = "null"
                 \/ r.kind \notin {"null", "list"} /\ BaseOf(r.kind) = RightType(f).base
  BY OuterKind
<1>4. CASE f.op \in {"is_null", "equality"}
  BY <1>4 DEF Panics
<1>5. CASE f.op = "order"
  <2>1. /\ f.type.base = RightType(f).base
        /\ ~ IsList(f.type) /\ ~ IsList(RightType(f))
        /\ f.type.base \in {"Int", "Float", "String", "DateTime"}
    BY <1>5 DEF Misfits, LeftMisfits, RightMisfits, Compatible, IsList, Orderable
  <2>2. CASE l.kind = "null" \/ r.kind = "null"
    BY <1>2, <1>3, <1>5, <2>2 DEF Panics, IsA
  <2>3. CASE l.kind # "null" /\ r.kind # "null"
    <3>1. /\ l.kind \in Kind \ {"null", "list"} /\ r.kind \in Kind \ {"null", "list"}
          /\ BaseOf(l.kind) = f.type.base /\ BaseOf(r.kind) = f.type.base
      BY <1>2, <1>3, <2>1, <2>3
    <3>2. \E kinds \in {{"regex", "text"}, {"date"}, {"int"}, {"float"}} :
            l.kind \in kinds /\ r.kind \in kinds
      <4>1. CASE f.type.base = "Int"
        BY <3>1, <4>1, ScalarKinds
      <4>2. CASE f.type.base = "Float"
        BY <3>1, <4>2, ScalarKinds
      <4>3. CASE f.type.base = "String"
        BY <3>1, <4>3, ScalarKinds
      <4>4. CASE f.type.base = "DateTime"
        BY <3>1, <4>4, ScalarKinds
      <4> QED BY <2>1, <4>1, <4>2, <4>3, <4>4
    <3> QED BY <1>2, <1>3, <1>5, <3>2 DEF Panics, IsA
  <2> QED BY <2>2, <2>3
<1>6. CASE f.op = "contains"
  <2>1. IsList(f.type)
    BY <1>6 DEF Misfits, LeftMisfits
  <2> QED BY <1>2, <1>6, <2>1 DEF Panics, IsA
<1>7. CASE f.op = "one_of"
  <2>1. IsList(RightType(f))
    BY <1>7 DEF Misfits, RightMisfits
  <2> QED BY <1>3, <1>7, <2>1 DEF Panics, IsA
<1>8. CASE f.op \in {"string", "regex"}
  <2>1. IsString(f.type) /\ IsString(RightType(f))
    BY <1>8 DEF Misfits, LeftMisfits, RightMisfits
  <2>2. l.kind \in {"null", "regex", "text"}
    BY <1>2, <2>1, ScalarKinds DEF IsString
  <2>3. r.kind \in {"null", "regex", "text"}
    BY <1>3, <2>1, ScalarKinds DEF IsString
  <2>4. IsA(left, {"null", "regex", "text"}) /\ IsA(right, {"null", "regex", "text"})
    BY <1>2, <1>3, <2>2, <2>3 DEF IsA
  <2> QED BY <1>8, <2>4 DEF Panics
<1> QED BY <1>1, <1>4, <1>5, <1>6, <1>7, <1>8 DEF Operator

\* A filter of a running query has values of its operand's type on its right.
LEMMA RightValuesFit ==
  ASSUME IInv, phase = "running", NEW i \in DOMAIN query, query[i].right.kind # "none",
         NEW right \in RightValues(query[i])
  PROVE  RightType(query[i]) \in Type /\ right \in Value /\ Valid(RightType(query[i]), right)
<1> DEFINE f == query[i]
<1>1. f \in Filter /\ f.op # "is_null"
  BY QueryFilters DEF IInv
<1>2. Checked(f)
  BY DEF IInv, FiltersInv, AfterFilters, VariablesKnown
<1>3. CASE f.right.kind = "variable"
  <2>1. RightType(f) = Infer(f) /\ Infer(f) \in Type
    BY <1>1, <1>2, <1>3, InferType DEF RightType, Checked
  <2>2. PICK j \in DOMAIN uses : uses[j] = [name |-> f.right.name, type |-> Infer(f)]
    BY <1>2, <1>3 DEF Checked
  <2>3. right = arguments[f.right.name]
    BY <1>3 DEF RightValues
  <2>4. Seen = DOMAIN uses /\ ~ failed /\ AfterFilters /\ Acceptable(arguments)
    BY DEF Seen, VariablesKnown, IInv, PhaseInv, AfterFilters
  <2>5. f.right.name \in DOMAIN variables /\ j \in SeenUses(f.right.name)
    BY <2>2, <2>4 DEF IInv, VariablesInv, SeenUses
  <2>6. /\ f.right.name \in DOMAIN arguments
        /\ Valid(variables[f.right.name], arguments[f.right.name])
    BY <2>4, <2>5 DEF Acceptable
  <2>7. Valid(uses[j].type, arguments[f.right.name])
    BY <2>4, <2>5, <2>6 DEF IInv, VariablesInv
  <2>8. right \in Value
    BY <2>3, <2>6, ValuesAreValues DEF IInv, TypeOK
  <2> QED BY <2>1, <2>2, <2>3, <2>7, <2>8
<1>4. CASE f.right.kind = "tag"
  <2>1. RightType(f) = f.right.type /\ right \in Values /\ Valid(f.right.type, right)
    BY <1>4 DEF RightType, RightValues
  <2>2. f.right.type \in Type
    BY <1>1, <1>4 DEF Filter, Operand
  <2> QED BY <2>1, <2>2, ValuesAreValues
<1>5. CASE f.right.kind = "number"
  <2>1. RightType(f) = NonNullScalar("Int") /\ right = {[depth |-> 1, kind |-> "int"]}
    BY <1>5 DEF RightType, RightValues
  <2>2. NonNullScalar("Int") \in Type
    BY DEF NonNullScalar, Type, Base
  <2>3. right \in Value
    <3>1. [depth |-> 1, kind |-> "int"] \in Part
      BY DEF Part, Kind
    <3>2. [depth |-> 1, kind |-> "int"] \in right
      BY <2>1
    <3>3. \E part \in right : part.depth = 1
      BY <3>2
    <3> QED BY <2>1, <3>1, <3>3 DEF Value
  <2>4. Fits(NonNullScalar("Int"), [depth |-> 1, kind |-> "int"])
    BY DEF Fits, NonNullScalar, BaseOf
  <2> QED BY <2>1, <2>2, <2>3, <2>4 DEF Valid
<1> QED BY <1>1, <1>3, <1>4, <1>5 DEF Filter, Operand

\* The filters of a query that runs meet no value they are not made for, but for
\* lists in an ordering and strings that are no regex.
THEOREM TypesPreventPanicsHolds == Spec => []TypesPreventPanics
<1>1. Init => TypesPreventPanics
  BY DEF Init, TypesPreventPanics
<1>2. IInv /\ TypesPreventPanics /\ [Next]_vars => TypesPreventPanics'
  <2> SUFFICES ASSUME IInv, TypesPreventPanics, [Next]_vars PROVE TypesPreventPanics'
    OBVIOUS
  <2>1. CASE ApplyFilter
    <3>0. PICK i \in DOMAIN query :
            \E left \in Values, right \in RightValues(query[i]) :
              Valid(query[i].type, left) /\ Panics(query[i], left, right) /\ at' = i
      BY <2>1 DEF ApplyFilter
    <3>1. PICK left \in Values, right \in RightValues(query[i]) :
            Valid(query[i].type, left) /\ Panics(query[i], left, right) /\ at' = i
      BY <3>0
    <3>2. phase = "running" /\ query' = query
      BY <2>1 DEF ApplyFilter
    <3>3. /\ query[i] \in Filter /\ left \in Value
          /\ query[i].op = "is_null" <=> query[i].right.kind = "none"
      BY <3>1, QueryFilters, ValuesAreValues DEF IInv
    <3>4. ~ Misfits(query[i])
      BY <3>2 DEF IInv, FiltersInv, AfterFilters, VariablesKnown, Checked
    <3>5. query[i].right.kind # "none"
      BY <3>1, <3>3 DEF Panics
    <3>6. \/ query[i].op = "order" /\ IsList(query[i].type)
          \/ query[i].op = "regex" /\ query[i].right.kind # "tag"
      BY <3>1, <3>2, <3>3, <3>4, <3>5, RightValuesFit, ValidOperandsDoNotPanic
    <3> QED BY <3>1, <3>2, <3>6 DEF TypesPreventPanics
  <2>2. CASE UNCHANGED vars
    BY <2>2 DEF TypesPreventPanics, vars
  <2>3. CASE MakeFilter \/ ReportFilter \/ UnwrapNoTag \/ FiltersMade
    BY <2>3 DEF TypesPreventPanics, MakeFilter, ReportFilter, UnwrapNoTag, FiltersMade, Making
  <2>4. CASE FillInVariable \/ VariablesFilledIn \/ FromQueryAndArguments
    BY <2>4 DEF TypesPreventPanics, FillInVariable, VariablesFilledIn, FromQueryAndArguments
  <2> QED BY <2>1, <2>2, <2>3, <2>4 DEF Next, Done
<1> QED BY <1>1, <1>2, Invariant, PTL DEF Spec

-----------------------------------------------------------------------------
(* Parsing: what its directives and arguments come to.                     *)

\* A nonempty set of naturals has a least member.
LEMMA LeastNatural ==
  ASSUME NEW N, N \subseteq Nat, N # {}
  PROVE  \E m \in N : \A n \in N : m <= n
<1> DEFINE Up == {0..n : n \in N}
<1>1. Up \subseteq FiniteSubsetsOf(Nat) /\ Up # {}
  <2>1. \A n \in Nat : IsFiniteSet(0..n) /\ 0..n \subseteq Nat
    BY FS_Interval
  <2> QED BY <2>1 DEF FiniteSubsetsOf
<1>2. PICK s \in Up : \A t \in Up : ~ (<<t, s>> \in StrictSubsetOrdering(Nat))
  <2> HIDE DEF Up
  <2> QED BY <1>1, FS_StrictSubsetOrderingWellFounded, WFMin
<1>3. PICK m \in N : s = 0..m
  BY <1>2
<1>4. ASSUME NEW n \in N, ~(m <= n) PROVE FALSE
  <2>1. n < m /\ m \in Nat /\ n \in Nat
    BY <1>4
  <2>2. 0..n \in Up
    BY <2>1
  <2>3. <<0..n, s>> \in StrictSubsetOrdering(Nat)
    BY <1>3, <2>1 DEF StrictSubsetOrdering
  <2> QED BY <1>2, <2>2, <2>3
<1> QED BY <1>4

\* Induction from m to n.
LEMMA InductionFrom ==
  ASSUME NEW m \in Nat, NEW n \in Nat, NEW N, m \in N, \A d \in m..n - 1 : d \in N => d + 1 \in N
  PROVE  m..n \subseteq N
<1> DEFINE Bad == (m..n) \ N
<1>1. ASSUME Bad # {} PROVE FALSE
  <2>1. PICK k \in Bad : \A d \in Bad : k <= d
    <3>1. Bad \subseteq Nat
      OBVIOUS
    <3> HIDE DEF Bad
    <3> QED BY <3>1, <1>1, LeastNatural
  <2>2. k \in m..n /\ k \notin N /\ k # m
    BY <2>1
  <2>3. k - 1 \in m..n - 1 /\ k - 1 \in m..n /\ k = (k - 1) + 1 /\ ~(k <= k - 1)
    BY <2>2
  <2>4. k - 1 \in N
    BY <2>1, <2>3
  <2> QED BY <2>2, <2>3, <2>4
<1> QED BY <1>1

-----------------------------------------------------------------------------
(* Components of a query.                                                  *)


-----------------------------------------------------------------------------
(* Parsing a directive.                                                    *)

\* A sequence's elements are numbered from 1.
LEMMA SequenceFacts ==
  ASSUME NEW s, IsSequence(s)
  PROVE  /\ Len(s) \in Nat /\ DOMAIN s = 1..Len(s) /\ DOMAIN s \subseteq Nat
         /\ s = << >> <=> Len(s) = 0
         /\ \A i \in DOMAIN s : s[i] \in Elements(s)
BY DEF IsSequence, Elements

\* The least of some numbers is one of them.
LEMMA LeastIsMember ==
  ASSUME NEW S, S \subseteq Nat, S # {}
  PROVE  Least(S) \in S
<1>1. \E i \in S : \A j \in S : i <= j
  BY LeastNatural
<1> QED BY <1>1 DEF Least

\* An argument that is given is a value.
LEMMA ArgumentIsValue ==
  ASSUME NEW d, IsDirective(d), NEW n, Given(d, n) # {}
  PROVE  IsValue(Argument(d, n))
<1>1. IsSequence(d.args) /\ \A a \in Elements(d.args) : IsValue(a.value)
  BY DEF IsDirective
<1>2. Given(d, n) \subseteq DOMAIN d.args /\ DOMAIN d.args \subseteq Nat
  BY <1>1, SequenceFacts DEF Given
<1>3. Least(Given(d, n)) \in DOMAIN d.args
  BY <1>2, LeastIsMember
<1>4. d.args[Least(Given(d, n))] \in Elements(d.args)
  BY <1>1, <1>3, SequenceFacts
<1> QED BY <1>1, <1>4 DEF Argument

\* The only argument is the one expected, once.
LEMMA OneArgument ==
  ASSUME NEW d, IsDirective(d), NEW n
  PROVE  /\ NameCheck(d, {n}) = None <=> d.args = << >> \/ Sole(d, n)
         /\ NameCheck(d, {n}) # "panic"
         /\ Sole(d, n) => d.args # << >> /\ Argument(d, n) = d.args[1].value /\ IsValue(d.args[1].value)
<1> DEFINE args == d.args
<1>1. IsSequence(args) /\ \A a \in Elements(args) : IsValue(a.value)
  BY DEF IsDirective
<1>2. Len(args) \in Nat /\ DOMAIN args = 1..Len(args) /\ (args = << >> <=> Len(args) = 0)
  BY <1>1, SequenceFacts
<1>3. NameCheck(d, {n}) \in {None, "UnrecognizedDirectiveArgument", "DuplicatedDirectiveArgument"}
  BY DEF NameCheck
<1>4. NameCheck(d, {n}) = None <=> Odd(args, {n}) = {}
  BY NoneIsNoError DEF NameCheck, Errors
<1>5. ASSUME Odd(args, {n}) = {} PROVE args = << >> \/ Sole(d, n)
  <2>1. \A i \in 1..Len(args) : args[i].name = n /\ ~ \E j \in 1..i - 1 : args[j].name = args[i].name
    BY <1>2, <1>5 DEF Odd
  <2>2. ASSUME Len(args) > 1 PROVE FALSE
    <3>1. 1 \in 1..Len(args) /\ 2 \in 1..Len(args) /\ 1 \in 1..2 - 1
      BY <1>2, <2>2
    <3> QED BY <2>1, <3>1
  <2>3. CASE Len(args) = 1
    <3>1. 1 \in 1..Len(args)
      BY <2>3
    <3> QED BY <2>1, <2>3, <3>1 DEF Sole
  <2> HIDE DEF args
  <2>4. Len(args) = 0 \/ Len(args) = 1
    BY <1>2, <2>2
  <2> QED BY <1>2, <2>3, <2>4
<1>6. ASSUME Sole(d, n) PROVE /\ Odd(args, {n}) = {} /\ args # << >>
                              /\ Argument(d, n) = args[1].value /\ IsValue(args[1].value)
  <2>1. Len(args) = 1 /\ args[1].name = n /\ DOMAIN args = {1}
    BY <1>2, <1>6 DEF Sole
  <2>2. Odd(args, {n}) = {} /\ args # << >>
    BY <1>2, <2>1 DEF Odd
  <2>3. Given(d, n) = {1}
    BY <2>1 DEF Given
  <2>4. Least(Given(d, n)) = 1
    BY <2>3, LeastIsMember
  <2>5. args[1] \in Elements(args)
    BY <2>1 DEF Elements
  <2> QED BY <1>1, <2>2, <2>4, <2>5 DEF Argument
<1>7. args = << >> => Odd(args, {n}) = {}
  BY <1>2 DEF Odd
<1>8. "panic" # "UnrecognizedDirectiveArgument" /\ "panic" # "DuplicatedDirectiveArgument" /\ "panic" # None
  BY NoneIsNoError DEF Errors
<1> QED BY <1>3, <1>4, <1>5, <1>6, <1>7, <1>8

\* What a filter's operand may be.
IsOperand(s) ==
  IsText(s) /\ <<s.prefix, s.rest>> \in {<<"$", "name">>, <<"%", "name">>, <<"!", "number">>}

\* A filter's operand is accepted if it is one, and panics only if it has no name.
LEMMA FilterArgumentOutcome ==
  ASSUME NEW s
  PROVE  /\ FilterArgument(s) = None <=> IsOperand(s)
         /\ FilterArgument(s) = "panic" => Nameless(s)
<1>1. IsOperand(s) <=> IsText(s) /\ \/ s.prefix \in {"$", "%"} /\ s.rest = "name"
                                    \/ s.prefix = "!" /\ s.rest = "number"
  BY DEF IsOperand
<1>2. \A e \in {"InappropriateTypeForDirectiveArgument", "OtherError", "panic"} : None # e
  BY NoneIsNoError DEF Errors
<1>3. CASE s.kind # "string" \/ s.prefix \notin {"$", "%", "!"} \/ s.rest = "symbols"
  <2>1. FilterArgument(s) \in {"InappropriateTypeForDirectiveArgument", "OtherError"}
    BY <1>3 DEF FilterArgument
  <2> QED BY <2>1, <1>1, <1>2, <1>3 DEF IsText
<1>4. CASE s.kind = "string" /\ s.prefix \in {"$", "%", "!"} /\ s.rest # "symbols"
  BY <1>1, <1>2, <1>4 DEF FilterArgument, IsText, Nameless
<1> QED BY <1>3, <1>4

\* @filter
LEMMA ParseFilterOutcome ==
  ASSUME NEW d, IsDirective(d)
  PROVE  /\ ParseFilter(d) = None <=>
              /\ Given(d, "op") # {} /\ IsText(Argument(d, "op"))
              /\ Given(d, "value") # {} => Argument(d, "value").kind = "list"
              /\ \A s \in Elements(FilterList(d)) : IsOperand(s)
              /\ \/ Argument(d, "op").text \in UnaryOperators /\ FilterList(d) = << >>
                 \/ Argument(d, "op").text \in BinaryOperators /\ Len(FilterList(d)) = 1
         /\ ParseFilter(d) = "panic" => \E v \in Elements(FilterList(d)) : Nameless(v)
<1> DEFINE list == FilterList(d)
           op == Argument(d, "op").text
           wrong == {i \in DOMAIN list : FilterArgument(list[i]) # None}
<1>1. \A e \in {"MissingRequiredDirectiveArgument", "InappropriateTypeForDirectiveArgument", "OtherError",
                "UnsupportedFilterOperator", "panic"} : None # e
  BY NoneIsNoError DEF Errors
<1>2. CASE Given(d, "op") = {}
  BY <1>1, <1>2 DEF ParseFilter
<1>3. CASE Given(d, "op") # {} /\ (~ IsText(Argument(d, "op"))
                                    \/ (Given(d, "value") # {} /\ Argument(d, "value").kind # "list"))
  <2>1. ParseFilter(d) = "InappropriateTypeForDirectiveArgument"
    BY <1>3 DEF ParseFilter, IsText
  <2> QED BY <2>1, <1>1, <1>3
<1>4. CASE /\ Given(d, "op") # {} /\ IsText(Argument(d, "op"))
           /\ Given(d, "value") # {} => Argument(d, "value").kind = "list"
  <2>1. IsSequence(list)
    <3>1. CASE Given(d, "value") = {}
      BY <3>1 DEF FilterList, IsSequence, Elements
    <3>2. CASE Given(d, "value") # {}
      BY <3>2, <1>4, ArgumentIsValue DEF FilterList, IsValue
    <3> QED BY <3>1, <3>2
  <2>2. DOMAIN list = 1..Len(list) /\ Len(list) \in Nat /\ (list = << >> <=> Len(list) = 0) /\ DOMAIN list \subseteq Nat
    BY <2>1, SequenceFacts
  <2>3. ParseFilter(d) = IF wrong # {} THEN FilterArgument(list[Least(wrong)])
                         ELSE IF Len(list) # (IF op \in UnaryOperators THEN 0 ELSE 1) THEN "OtherError"
                         ELSE IF op \notin UnaryOperators \cup BinaryOperators THEN "UnsupportedFilterOperator"
                         ELSE None
    BY <1>4 DEF ParseFilter, IsText
  <2>4. wrong = {} <=> \A s \in Elements(list) : IsOperand(s)
    BY FilterArgumentOutcome DEF Elements
  <2>5. CASE wrong # {}
    <3>1. Least(wrong) \in wrong
      BY <2>2, <2>5, LeastIsMember
    <3>2. ParseFilter(d) = FilterArgument(list[Least(wrong)]) /\ list[Least(wrong)] \in Elements(list)
          /\ FilterArgument(list[Least(wrong)]) # None
      BY <2>3, <2>5, <3>1 DEF Elements
    <3> QED BY <3>2, <2>4, <2>5, FilterArgumentOutcome
  <2>6. CASE wrong = {}
    <3>1. \A o \in UnaryOperators : o \notin BinaryOperators
      BY DEF UnaryOperators, BinaryOperators
    <3> HIDE DEF wrong, list, op
    <3>2. CASE op \in UnaryOperators
      <4>1. ParseFilter(d) = IF Len(list) # 0 THEN "OtherError" ELSE None
        BY <2>3, <2>6, <3>2
      <4>2. ParseFilter(d) = None <=> list = << >>
        BY <4>1, <1>1, <2>2
      <4>3. ParseFilter(d) # "panic"
        BY <4>1, <1>1
      <4>4. op \notin BinaryOperators
        BY <3>1, <3>2
      <4> QED BY <4>2, <4>3, <4>4, <1>4, <2>4, <2>6, <3>2 DEF list, op
    <3>3. CASE op \notin UnaryOperators
      <4>1. ParseFilter(d) = IF Len(list) # 1 THEN "OtherError"
                             ELSE IF op \notin BinaryOperators THEN "UnsupportedFilterOperator" ELSE None
        BY <2>3, <2>6, <3>3
      <4>2. ParseFilter(d) = None <=> Len(list) = 1 /\ op \in BinaryOperators
        BY <4>1, <1>1
      <4>3. ParseFilter(d) # "panic"
        BY <4>1, <1>1
      <4> QED BY <4>2, <4>3, <1>4, <2>4, <2>6, <3>3 DEF list, op
    <3> QED BY <3>2, <3>3
  <2> QED BY <2>5, <2>6
<1> QED BY <1>2, <1>3, <1>4

\* The other directives.
LEMMA ParseNamedOutcome ==
  ASSUME NEW d, IsDirective(d), NEW invalid \in Errors, invalid # "panic"
  PROVE  /\ ParseNamed(d, invalid) = None <=>
              \/ d.args = << >>
              \/ Sole(d, "name") /\ IsText(d.args[1].value) /\ d.args[1].value.rest # "symbols"
         /\ ParseNamed(d, invalid) # "panic"
<1>1. /\ NameCheck(d, {"name"}) = None <=> d.args = << >> \/ Sole(d, "name")
      /\ NameCheck(d, {"name"}) # "panic"
      /\ Sole(d, "name") => d.args # << >> /\ Argument(d, "name") = d.args[1].value
  BY OneArgument
<1>2. None # invalid /\ None # "InappropriateTypeForDirectiveArgument" /\ None # "panic"
  BY NoneIsNoError DEF Errors
<1>3. CASE NameCheck(d, {"name"}) # None
  BY <1>1, <1>3 DEF ParseNamed
<1>4. CASE NameCheck(d, {"name"}) = None /\ d.args = << >>
  BY <1>2, <1>4 DEF ParseNamed
<1>5. CASE NameCheck(d, {"name"}) = None /\ d.args # << >>
  BY <1>1, <1>2, <1>5 DEF ParseNamed, EnsureNameIsValid, IsText
<1> QED BY <1>3, <1>4, <1>5

\* The outcome is none exactly for a directive that is well formed, and a panic only
\* for a filter's operand that has no name.
LEMMA ParseDirectiveOutcome ==
  ASSUME NEW d, IsDirective(d)
  PROVE  /\ ParseDirective(d) = None <=> WellFormed(d)
         /\ ParseDirective(d) = "panic" => d.name = "filter" /\ \E v \in Elements(FilterList(d)) : Nameless(v)
         /\ WellFormed(d) => d.name \in {"filter", "output", "tag", "transform", "recurse", "optional", "fold"}
<1>0. \A e \in Errors : None # e
  BY NoneIsNoError
<1>1. CASE d.name = "filter"
  <2>1. ParseDirective(d) = ParseFilter(d)
    BY <1>1 DEF ParseDirective
  <2> DEFINE Fine ==
              /\ Given(d, "op") # {} /\ IsText(Argument(d, "op"))
              /\ Given(d, "value") # {} => Argument(d, "value").kind = "list"
              /\ \A s \in Elements(FilterList(d)) : IsOperand(s)
              /\ \/ Argument(d, "op").text \in UnaryOperators /\ FilterList(d) = << >>
                 \/ Argument(d, "op").text \in BinaryOperators /\ Len(FilterList(d)) = 1
  <2>2. WellFormed(d) <=> Fine
    BY <1>1 DEF WellFormed, IsOperand
  <2>3. ParseFilter(d) = None <=> Fine
    BY ParseFilterOutcome
  <2> HIDE DEF Fine
  <2> QED BY <1>1, <2>1, <2>2, <2>3, ParseFilterOutcome
<1>2. CASE d.name \in {"output", "tag"}
  <2>1. ParseDirective(d) = ParseNamed(d, IF d.name = "output" THEN "InvalidOutputName" ELSE "InvalidTagName")
    BY <1>2 DEF ParseDirective, ParseOutput, ParseTag
  <2> DEFINE Fine == \/ d.args = << >>
                     \/ Sole(d, "name") /\ IsText(d.args[1].value) /\ d.args[1].value.rest # "symbols"
  <2>2. WellFormed(d) <=> Fine
    BY <1>2 DEF WellFormed
  <2>3. "InvalidOutputName" \in Errors /\ "InvalidTagName" \in Errors
    BY DEF Errors
  <2>4. \A e \in Errors : e # "panic" => (ParseNamed(d, e) = None <=> Fine) /\ ParseNamed(d, e) # "panic"
    BY ParseNamedOutcome
  <2> HIDE DEF Fine
  <2> QED BY <1>2, <2>1, <2>2, <2>3, <2>4
<1>3. CASE d.name = "transform"
  <2>1. ParseDirective(d) = ParseTransform(d)
    BY <1>3 DEF ParseDirective
  <2>2. WellFormed(d) <=> Sole(d, "op") /\ IsText(d.args[1].value) /\ d.args[1].value.text = "count"
    BY <1>3 DEF WellFormed
  <2>3. /\ NameCheck(d, {"op"}) = None <=> d.args = << >> \/ Sole(d, "op")
        /\ NameCheck(d, {"op"}) # "panic"
        /\ Sole(d, "op") => d.args # << >> /\ Argument(d, "op") = d.args[1].value
    BY OneArgument
  <2>4. \A e \in {"MissingRequiredDirectiveArgument", "InappropriateTypeForDirectiveArgument",
                  "UnsupportedTransformOperator"} : None # e /\ e # "panic"
    BY <1>0 DEF Errors
  <2>5. CASE NameCheck(d, {"op"}) # None
    BY <1>3, <2>1, <2>2, <2>3, <2>5 DEF ParseTransform
  <2>6. CASE NameCheck(d, {"op"}) = None /\ d.args = << >>
    BY <1>0, <1>3, <2>1, <2>2, <2>3, <2>4, <2>6 DEF ParseTransform, Errors
  <2>7. CASE NameCheck(d, {"op"}) = None /\ d.args # << >>
    BY <1>0, <1>3, <2>1, <2>2, <2>3, <2>4, <2>7 DEF ParseTransform, IsText, Errors
  <2> QED BY <2>5, <2>6, <2>7
<1>4. CASE d.name = "recurse"
  <2>1. ParseDirective(d) = ParseRecurse(d)
    BY <1>4 DEF ParseDirective
  <2>2. WellFormed(d) <=> Sole(d, "depth") /\ d.args[1].value.kind = "number" /\ d.args[1].value.number > 0
    BY <1>4 DEF WellFormed
  <2>3. /\ NameCheck(d, {"depth"}) = None <=> d.args = << >> \/ Sole(d, "depth")
        /\ NameCheck(d, {"depth"}) # "panic"
        /\ Sole(d, "depth") => d.args # << >> /\ Argument(d, "depth") = d.args[1].value /\ IsValue(d.args[1].value)
    BY OneArgument
  <2>4. \A e \in {"MissingRequiredDirectiveArgument", "InappropriateTypeForDirectiveArgument"} :
          None # e /\ e # "panic"
    BY <1>0 DEF Errors
  <2>5. CASE NameCheck(d, {"depth"}) # None
    BY <1>4, <2>1, <2>2, <2>3, <2>5 DEF ParseRecurse
  <2>6. CASE NameCheck(d, {"depth"}) = None /\ d.args = << >>
    BY <1>0, <1>4, <2>1, <2>2, <2>3, <2>4, <2>6 DEF ParseRecurse, Errors
  <2>7. CASE NameCheck(d, {"depth"}) = None /\ d.args # << >>
    <3> DEFINE v == d.args[1].value
    <3>1. Sole(d, "depth") /\ Argument(d, "depth") = v /\ (v.kind = "number" => v.number \in Int)
      BY <2>3, <2>7 DEF IsValue
    <3>2. ParseDirective(d) = IF v.kind # "number" \/ v.number <= 0
                              THEN "InappropriateTypeForDirectiveArgument" ELSE None
      BY <2>1, <2>7, <3>1 DEF ParseRecurse
    <3>3. WellFormed(d) <=> v.kind = "number" /\ v.number > 0
      BY <2>2, <3>1
    <3> HIDE DEF v
    <3>4. v.kind = "number" => (v.number > 0 <=> ~ (v.number <= 0))
      BY <3>1
    <3> QED BY <1>0, <1>4, <2>4, <3>2, <3>3, <3>4 DEF Errors
  <2> QED BY <2>5, <2>6, <2>7
<1>5. CASE d.name \in {"optional", "fold"}
  <2>1. ParseDirective(d) = ParseBare(d)
    BY <1>5 DEF ParseDirective
  <2>2. WellFormed(d) <=> d.args = << >>
    BY <1>5 DEF WellFormed
  <2> QED BY <1>0, <1>5, <2>1, <2>2 DEF ParseBare, Errors
<1>6. CASE d.name \notin {"filter", "output", "tag", "transform", "recurse", "optional", "fold"}
  <2>1. ParseDirective(d) = "UnrecognizedDirective"
    BY <1>6 DEF ParseDirective
  <2>2. ~ WellFormed(d)
    BY <1>6 DEF WellFormed
  <2> QED BY <1>0, <1>6, <2>1, <2>2 DEF Errors
<1> QED BY <1>1, <1>2, <1>3, <1>4, <1>5, <1>6

\* A list of directives
LEMMA MakeDirectivesOutcome ==
  ASSUME NEW ds, IsSequence(ds), \A d \in Elements(ds) : IsDirective(d)
  PROVE  /\ MakeDirectives(ds) = None <=> \A d \in Elements(ds) : WellFormed(d)
         /\ MakeDirectives(ds) = "panic" =>
              \E d \in Elements(ds) : d.name = "filter" /\ \E v \in Elements(FilterList(d)) : Nameless(v)
<1> DEFINE wrong == {i \in DOMAIN ds : ParseDirective(ds[i]) # None}
<1>1. DOMAIN ds \subseteq Nat /\ \A i \in DOMAIN ds : ds[i] \in Elements(ds)
  BY SequenceFacts
<1>2. MakeDirectives(ds) = IF wrong = {} THEN None ELSE ParseDirective(ds[Least(wrong)])
  BY DEF MakeDirectives
<1>3. wrong = {} <=> \A d \in Elements(ds) : WellFormed(d)
  <2>1. \A i \in DOMAIN ds : ParseDirective(ds[i]) = None <=> WellFormed(ds[i])
    BY <1>1, ParseDirectiveOutcome
  <2> QED BY <2>1 DEF Elements
<1>4. ASSUME wrong # {} PROVE /\ MakeDirectives(ds) # None
                              /\ \E d \in Elements(ds) : MakeDirectives(ds) = ParseDirective(d)
  <2>1. Least(wrong) \in wrong
    BY <1>1, <1>4, LeastIsMember
  <2> QED BY <1>1, <1>2, <1>4, <2>1
<1>5. ASSUME wrong = {} PROVE MakeDirectives(ds) = None /\ None # "panic"
  BY <1>2, <1>5, NoneIsNoError DEF Errors
<1> HIDE DEF wrong
<1> QED BY <1>3, <1>4, <1>5, ParseDirectiveOutcome

\* The arguments of an edge
LEMMA ArgumentsOutcomeIs ==
  ASSUME NEW args, IsSequence(args)
  PROVE  /\ ArgumentsOutcome(args) = None <=>
              /\ Odd(args, {a.name : a \in Elements(args)}) = {}
              /\ \A a \in Elements(args) : a.value.kind # "variable"
         /\ ArgumentsOutcome(args) # "panic"
<1> DEFINE wrong == {i \in DOMAIN args : args[i].value.kind = "variable"}
           again == {i \in DOMAIN args : \E j \in 1..i - 1 : args[j].name = args[i].name}
<1>1. ArgumentsOutcome(args) = IF wrong \cup again = {} THEN None
                               ELSE IF Least(wrong \cup again) \in wrong THEN "InvalidFieldArgument"
                               ELSE "DuplicatedEdgeParameter"
  BY DEF ArgumentsOutcome
<1>2. wrong = {} <=> \A a \in Elements(args) : a.value.kind # "variable"
  BY DEF Elements
<1>3. again = {} <=> Odd(args, {a.name : a \in Elements(args)}) = {}
  <2>1. \A i \in DOMAIN args : args[i].name \in {a.name : a \in Elements(args)}
    BY DEF Elements
  <2> QED BY <2>1 DEF Odd
<1>4. None # "InvalidFieldArgument" /\ None # "DuplicatedEdgeParameter" /\ None # "panic"
  BY NoneIsNoError DEF Errors
<1> HIDE DEF wrong, again
<1>5. (wrong \cup again) = {} <=> wrong = {} /\ again = {}
  OBVIOUS
<1> QED BY <1>1, <1>2, <1>3, <1>4, <1>5

\* A document that is refused as a whole is refused with an error.
LEMMA RootOutcomeIsError ==
  ASSUME NEW doc PROVE RootOutcome(doc) # "panic"
BY NoneIsNoError DEF RootOutcome, Errors
-----------------------------------------------------------------------------
(* The groups that a list of directives makes.                             *)

\* What has been appended is an element as well.
LEMMA ElementsOfAppend ==
  ASSUME NEW S, NEW s \in Seq(S), NEW x
  PROVE  Elements(Append(s, x)) = Elements(s) \cup {x}
<1>1. DOMAIN s = 1..Len(s) /\ DOMAIN Append(s, x) = 1..Len(s) + 1 /\ Len(s) \in Nat
  OBVIOUS
<1>2. Append(s, x)[Len(s) + 1] = x /\ \A i \in 1..Len(s) : Append(s, x)[i] = s[i]
  OBVIOUS
<1>3. 1..Len(s) + 1 = (1..Len(s)) \cup {Len(s) + 1}
  BY <1>1
<1> HIDE <1>1
<1> QED BY <1>1, <1>2, <1>3 DEF Elements

\* The groups after directive i, of those before it.
GroupsAfter(gs, ds, i) ==
  IF ds[i].name = "transform" THEN Append(gs, [transform |-> i, taken |-> << >>])
  ELSE IF gs = << >> THEN gs
  ELSE [gs EXCEPT ![Len(gs)].taken = Append(@, i)]

\* The groups before each of the first directives, up to n.
AreGroups(f, ds, n) ==
  f = [a \in 1..n |-> IF a = 1 THEN << >> ELSE GroupsAfter(f[a - 1], ds, a - 1)]

\* The groups before each directive of a list, and after the last.
GroupsOf(ds) == CHOOSE f : AreGroups(f, ds, Len(ds) + 1)

\* There are such groups, for any list.
LEMMA GroupsExist ==
  ASSUME NEW ds, NEW n \in Nat, n >= 1
  PROVE  \E f : AreGroups(f, ds, n)
<1> DEFINE N == {m \in Nat : \E f : AreGroups(f, ds, m)}
<1>1. 1 \in N
  <2> DEFINE f == [a \in 1..1 |-> << >>]
  <2>1. AreGroups(f, ds, 1)
    BY DEF AreGroups
  <2> QED BY <2>1
<1>2. ASSUME NEW m \in 1..n - 1, m \in N PROVE m + 1 \in N
  <2>0. m \in Nat
    OBVIOUS
  <2>1. PICK f : AreGroups(f, ds, m)
    BY <1>2
  <2> DEFINE g == [a \in 1..m + 1 |-> IF a = 1 THEN << >> ELSE GroupsAfter(f[a - 1], ds, a - 1)]
  <2>2. ASSUME NEW a \in 1..m PROVE g[a] = f[a]
    BY <2>1 DEF AreGroups
  <2>3. ASSUME NEW a \in 1..m + 1, a # 1 PROVE g[a - 1] = f[a - 1]
    <3>1. a - 1 \in 1..m
      BY <2>0, <2>3
    <3> QED BY <2>2, <3>1
  <2>4. AreGroups(g, ds, m + 1)
    BY <2>3 DEF AreGroups
  <2>5. m + 1 \in Nat
    OBVIOUS
  <2> QED BY <2>4, <2>5
<1>3. 1..n \subseteq N
  <2> HIDE DEF N
  <2> QED BY <1>1, <1>2, InductionFrom
<1> QED BY <1>3

\* So the groups of a list follow from those one directive earlier.
LEMMA GroupsAre ==
  ASSUME NEW ds, IsSequence(ds)
  PROVE  /\ GroupsOf(ds)[1] = << >>
         /\ \A a \in 1..Len(ds) : GroupsOf(ds)[a + 1] = GroupsAfter(GroupsOf(ds)[a], ds, a)
<1> DEFINE n == Len(ds) + 1
           G == GroupsOf(ds)
<1>1. n \in Nat /\ n >= 1 /\ Len(ds) \in Nat
  BY SequenceFacts
<1>2. AreGroups(G, ds, n)
  <2>1. \E f : AreGroups(f, ds, n)
    BY <1>1, GroupsExist
  <2> QED BY <2>1 DEF GroupsOf
<1> HIDE DEF G
<1>3. G = [a \in 1..n |-> IF a = 1 THEN << >> ELSE GroupsAfter(G[a - 1], ds, a - 1)]
  BY <1>2 DEF AreGroups
<1>4. G[1] = << >>
  <2>1. 1 \in 1..n
    BY <1>1
  <2> QED BY <1>3, <2>1
<1>5. ASSUME NEW a \in 1..Len(ds) PROVE G[a + 1] = GroupsAfter(G[a], ds, a)
  <2>1. a + 1 \in 1..n /\ a + 1 # 1 /\ (a + 1) - 1 = a
    BY <1>1
  <2>2. G[a + 1] = GroupsAfter(G[(a + 1) - 1], ds, (a + 1) - 1)
    BY <1>3, <2>1
  <2> QED BY <2>1, <2>2
<1> QED BY <1>4, <1>5 DEF G

\* Each @transform before a begins a group, which has what follows, as far as the next.
InGroup(ds, t, a) ==
  {i \in t + 1..a - 1 : \A j \in Places(ds, {"transform"}) : j < a => j > i \/ j <= t}

\* The groups before a: one for each @transform before it, the last of them the last
\* to have begun, and with what each has to have.
GroupFacts(gs, ds, a) ==
  /\ gs \in Seq(Group)
  /\ \A k \in DOMAIN gs : gs[k].transform \in Places(ds, {"transform"}) /\ gs[k].transform < a
  /\ \A i \in Places(ds, {"transform"}) : i < a => \E k \in DOMAIN gs : gs[k].transform = i
  /\ \A k \in DOMAIN gs : k # Len(gs) => gs[k].transform < gs[Len(gs)].transform
  /\ \A k \in DOMAIN gs : Elements(gs[k].taken) = InGroup(ds, gs[k].transform, a)

\* A @transform begins the next group, and takes nothing from the others.
LEMMA GroupsAfterTransform ==
  ASSUME NEW ds, IsSequence(ds), NEW a \in DOMAIN ds, NEW gs, GroupFacts(gs, ds, a), ds[a].name = "transform"
  PROVE  GroupFacts(GroupsAfter(gs, ds, a), ds, a + 1)
<1> DEFINE g == [transform |-> a, taken |-> << >>]
           new == Append(gs, g)
           T == Places(ds, {"transform"})
<1>1. a \in Nat \ {0} /\ DOMAIN ds \subseteq Nat /\ a \in T /\ T \subseteq Nat
  BY SequenceFacts DEF Places
<1>2. gs \in Seq(Group) /\ g \in Group
  BY <1>1 DEF GroupFacts, Group
<1>3. GroupsAfter(gs, ds, a) = new
  BY DEF GroupsAfter
<1>4. /\ new \in Seq(Group) /\ Len(gs) \in Nat /\ DOMAIN gs = 1..Len(gs)
      /\ DOMAIN new = 1..Len(gs) + 1 /\ Len(new) = Len(gs) + 1
      /\ new[Len(gs) + 1] = g /\ \A k \in DOMAIN gs : new[k] = gs[k]
  <2> HIDE DEF g
  <2> QED BY <1>2
<1> HIDE DEF new
<1>5. \A k \in DOMAIN new : k \in DOMAIN gs \/ k = Len(gs) + 1
  BY <1>4
<1>6. \A k \in DOMAIN gs : k \in DOMAIN new /\ k # Len(gs) + 1
  BY <1>4
<1>7. Len(gs) + 1 \in DOMAIN new
  BY <1>4
<1>8. \A k \in DOMAIN gs : gs[k].transform \in T /\ gs[k].transform \in Nat /\ gs[k].transform < a
  BY <1>1 DEF GroupFacts
<1>9. g.transform = a /\ g.taken = << >>
  OBVIOUS
<1> HIDE DEF g
<1>10. \A k \in DOMAIN new : new[k].transform \in T /\ new[k].transform < a + 1
  <2>1. a < a + 1 /\ \A t \in Nat : t < a => t < a + 1
    BY <1>1
  <2> QED BY <1>1, <1>4, <1>5, <1>8, <1>9, <2>1
<1>11. ASSUME NEW i \in T, i < a + 1 PROVE \E k \in DOMAIN new : new[k].transform = i
  <2>1. CASE i = a
    BY <1>4, <1>7, <1>9, <2>1
  <2>2. CASE i # a
    <3>1. i < a
      BY <1>1, <1>11, <2>2
    <3>2. PICK k \in DOMAIN gs : gs[k].transform = i
      BY <3>1 DEF GroupFacts
    <3> QED BY <1>4, <1>6, <3>2
  <2> QED BY <2>1, <2>2
<1>12. \A k \in DOMAIN new : k # Len(new) => new[k].transform < new[Len(new)].transform
  BY <1>4, <1>5, <1>8, <1>9
<1>13. ASSUME NEW k \in DOMAIN new PROVE Elements(new[k].taken) = InGroup(ds, new[k].transform, a + 1)
  <2>1. CASE k = Len(gs) + 1
    <3>1. Elements(<< >>) = {}
      BY DEF Elements
    <3>2. InGroup(ds, a, a + 1) = {}
      BY <1>1 DEF InGroup
    <3> QED BY <1>4, <1>9, <2>1, <3>1, <3>2
  <2>2. CASE k \in DOMAIN gs
    <3> DEFINE t == gs[k].transform
    <3>1. t \in Nat /\ t < a
      BY <1>8, <2>2
    <3>2. Elements(gs[k].taken) = InGroup(ds, t, a)
      BY <2>2 DEF GroupFacts
    <3> HIDE DEF t
    <3>3. InGroup(ds, t, a + 1) = InGroup(ds, t, a)
      <4>1. ASSUME NEW i \in InGroup(ds, t, a + 1) PROVE i \in InGroup(ds, t, a)
        <5>1. i \in t + 1..a /\ \A j \in T : j < a + 1 => j > i \/ j <= t
          BY <1>1, <4>1 DEF InGroup
        <5>2. a > i
          BY <1>1, <3>1, <5>1
        <5>3. i \in t + 1..a - 1
          BY <1>1, <3>1, <5>1, <5>2
        <5>4. \A j \in T : j < a => j < a + 1
          BY <1>1
        <5> QED BY <5>1, <5>3, <5>4 DEF InGroup
      <4>2. ASSUME NEW i \in InGroup(ds, t, a) PROVE i \in InGroup(ds, t, a + 1)
        <5>1. i \in t + 1..a - 1 /\ \A j \in T : j < a => j > i \/ j <= t
          BY <4>2 DEF InGroup
        <5>2. i \in t + 1..(a + 1) - 1 /\ a > i
          BY <1>1, <3>1, <5>1
        <5>3. \A j \in T : j < a + 1 => j < a \/ j = a
          BY <1>1
        <5> QED BY <5>1, <5>2, <5>3 DEF InGroup
      <4> QED BY <4>1, <4>2
    <3> QED BY <1>4, <2>2, <3>2, <3>3 DEF t
  <2> QED BY <1>5, <2>1, <2>2
<1>14. GroupFacts(new, ds, a + 1)
  BY <1>4, <1>10, <1>11, <1>12, <1>13 DEF GroupFacts
<1> QED BY <1>3, <1>14

\* Any other directive goes into the last group.
LEMMA GroupsAfterOther ==
  ASSUME NEW ds, IsSequence(ds), NEW a \in DOMAIN ds, NEW gs, GroupFacts(gs, ds, a), ds[a].name # "transform"
  PROVE  GroupFacts(GroupsAfter(gs, ds, a), ds, a + 1)
<1> DEFINE new == GroupsAfter(gs, ds, a)
           T == Places(ds, {"transform"})
<1>1. a \in Nat \ {0} /\ DOMAIN ds \subseteq Nat /\ a \notin T /\ T \subseteq Nat
  BY SequenceFacts DEF Places
<1>2. \A i \in T : i < a + 1 <=> i < a
  BY <1>1
<1>3. gs \in Seq(Group) /\ DOMAIN gs = 1..Len(gs) /\ Len(gs) \in Nat
  BY DEF GroupFacts
<1>4. CASE gs = << >>
  <2>1. new = gs /\ DOMAIN gs = {}
    BY <1>3, <1>4 DEF GroupsAfter
  <2>2. \A i \in T : ~ (i < a + 1)
    BY <1>2, <2>1 DEF GroupFacts
  <2> QED BY <1>3, <2>1, <2>2 DEF GroupFacts
<1>5. CASE gs # << >>
  <2> DEFINE last == Len(gs)
             t == gs[last].transform
  <2>1. last \in DOMAIN gs
    BY <1>3, <1>5
  <2>2. new = [gs EXCEPT ![last].taken = Append(gs[last].taken, a)]
    BY <1>5 DEF GroupsAfter
  <2>3. \A k \in DOMAIN gs : gs[k] \in Group
    BY <1>3
  <2>4. /\ gs[last].taken \in Seq(Nat \ {0})
        /\ \A k \in DOMAIN gs : gs[k].transform \in T /\ gs[k].transform \in Nat /\ gs[k].transform < a
    BY <1>1, <2>1, <2>3 DEF GroupFacts, Group
  <2>5. /\ DOMAIN new = DOMAIN gs
        /\ \A k \in DOMAIN gs : k # last => new[k] = gs[k]
        /\ new[last] = [gs[last] EXCEPT !.taken = Append(gs[last].taken, a)]
    <3> HIDE DEF last
    <3> QED BY <2>1, <2>2
  <2>6. new[last].transform = t /\ new[last].taken = Append(gs[last].taken, a) /\ new[last] \in Group
    <3>1. gs[last] \in Group /\ Append(gs[last].taken, a) \in Seq(Nat \ {0})
      BY <1>1, <2>1, <2>3, <2>4
    <3> QED BY <2>5, <3>1 DEF Group
  <2>7. \A k \in DOMAIN gs : new[k] \in Group /\ new[k].transform = gs[k].transform
    BY <2>3, <2>5, <2>6
  <2>8. new \in Seq(Group) /\ Len(new) = last
    <3>1. new \in [1..Len(gs) -> Group]
      <4>1. new = [k \in DOMAIN gs |-> new[k]]
        BY <2>2
      <4> HIDE DEF new
      <4> QED BY <1>3, <2>7, <4>1
    <3> HIDE DEF new
    <3> QED BY <1>3, <3>1
  <2> HIDE DEF new
  <2>9. \A k \in DOMAIN new : new[k].transform \in T /\ new[k].transform < a + 1
    <3>1. \A n \in Nat : n < a => n < a + 1
      BY <1>1
    <3> QED BY <2>4, <2>5, <2>7, <3>1
  <2>10. \A i \in T : i < a + 1 => \E k \in DOMAIN new : new[k].transform = i
    <3>1. \A i \in T : i < a => \E k \in DOMAIN gs : gs[k].transform = i
      BY DEF GroupFacts
    <3> QED BY <1>2, <2>5, <2>7, <3>1
  <2>11. \A k \in DOMAIN gs : k # last => gs[k].transform < t
    BY DEF GroupFacts
  <2>12. \A k \in DOMAIN new : k # Len(new) => new[k].transform < new[Len(new)].transform
    BY <2>1, <2>5, <2>7, <2>8, <2>11
  <2>13. ASSUME NEW k \in DOMAIN gs, k # last PROVE Elements(new[k].taken) = InGroup(ds, new[k].transform, a + 1)
    <3> DEFINE u == gs[k].transform
    <3>1. u \in Nat /\ u < t /\ t \in T /\ t \in Nat /\ t < a
      BY <2>1, <2>4, <2>11, <2>13
    <3>2. new[k] = gs[k] /\ Elements(gs[k].taken) = InGroup(ds, u, a)
      BY <2>5, <2>13 DEF GroupFacts
    <3> HIDE DEF u, t
    <3>3. InGroup(ds, u, a + 1) = InGroup(ds, u, a)
      <4>1. ASSUME NEW i \in InGroup(ds, u, a + 1) PROVE i \in InGroup(ds, u, a)
        <5>1. i \in u + 1..(a + 1) - 1 /\ \A j \in T : j < a + 1 => j > i \/ j <= u
          BY <4>1 DEF InGroup
        <5>2. t > i
          <6>1. t < a + 1 /\ ~ (t <= u)
            BY <1>1, <3>1
          <6> QED BY <3>1, <5>1, <6>1
        <5>3. i \in u + 1..a - 1
          BY <1>1, <3>1, <5>1, <5>2
        <5> QED BY <1>2, <5>1, <5>3 DEF InGroup
      <4>2. ASSUME NEW i \in InGroup(ds, u, a) PROVE i \in InGroup(ds, u, a + 1)
        <5>1. i \in u + 1..a - 1 /\ \A j \in T : j < a => j > i \/ j <= u
          BY <4>2 DEF InGroup
        <5>2. i \in u + 1..(a + 1) - 1
          BY <1>1, <3>1, <5>1
        <5> QED BY <1>2, <5>1, <5>2 DEF InGroup
      <4> QED BY <4>1, <4>2
    <3> QED BY <3>2, <3>3 DEF u
  <2>14. Elements(new[last].taken) = InGroup(ds, new[last].transform, a + 1)
    <3>1. Elements(new[last].taken) = Elements(gs[last].taken) \cup {a}
      BY <2>4, <2>6, ElementsOfAppend
    <3>2. Elements(gs[last].taken) = InGroup(ds, t, a)
      BY <2>1 DEF GroupFacts
    <3>3. \A j \in T : j < a => j <= t
      <4>1. \A j \in T : j < a => \E k \in DOMAIN gs : gs[k].transform = j
        BY DEF GroupFacts
      <4>2. \A k \in DOMAIN gs : gs[k].transform <= t
        <5>1. t \in Nat
          BY <2>1, <2>4
        <5> HIDE DEF t
        <5>2. \A k \in DOMAIN gs : k = last => gs[k].transform = t
          BY DEF t
        <5> QED BY <2>4, <2>11, <5>1, <5>2
      <4> QED BY <4>1, <4>2
    <3>4. t \in Nat /\ t < a
      BY <2>1, <2>4
    <3> HIDE DEF t
    <3>5. InGroup(ds, t, a + 1) = InGroup(ds, t, a) \cup {a}
      <4>1. \A i \in Nat : i \in t + 1..(a + 1) - 1 <=> i \in t + 1..a - 1 \/ i = a
        BY <1>1, <3>4
      <4>2. t + 1..(a + 1) - 1 \subseteq Nat /\ t + 1..a - 1 \subseteq Nat
        BY <3>4
      <4>3. InGroup(ds, t, a + 1) = t + 1..(a + 1) - 1
        BY <1>2, <3>3 DEF InGroup
      <4>4. InGroup(ds, t, a) = t + 1..a - 1
        BY <3>3 DEF InGroup
      <4> QED BY <1>1, <4>1, <4>2, <4>3, <4>4
    <3>6. new[last].transform = t
      BY <2>6
    <3> QED BY <3>1, <3>2, <3>5, <3>6
  <2>15. \A k \in DOMAIN new : Elements(new[k].taken) = InGroup(ds, new[k].transform, a + 1)
    BY <2>5, <2>13, <2>14
  <2>16. GroupFacts(new, ds, a + 1)
    BY <2>8, <2>9, <2>10, <2>12, <2>15 DEF GroupFacts
  <2> QED BY <2>16 DEF new
<1> QED BY <1>4, <1>5

\* So they are when all directives have been read.
LEMMA GroupsHaveAll ==
  ASSUME NEW ds, IsSequence(ds), NEW a \in 1..Len(ds) + 1
  PROVE  GroupFacts(GroupsOf(ds)[a], ds, a)
<1> DEFINE G == GroupsOf(ds)
           N == {b \in Nat : GroupFacts(G[b], ds, b)}
<1>1. DOMAIN ds = 1..Len(ds) /\ Len(ds) \in Nat /\ DOMAIN ds \subseteq Nat
  BY SequenceFacts
<1>2. G[1] = << >> /\ \A b \in 1..Len(ds) : G[b + 1] = GroupsAfter(G[b], ds, b)
  BY GroupsAre
<1> HIDE DEF G
<1>3. 1 \in N
  <2>1. \A i \in Places(ds, {"transform"}) : ~ (i < 1)
    BY <1>1 DEF Places
  <2>2. << >> \in Seq(Group) /\ DOMAIN << >> = {}
    OBVIOUS
  <2> QED BY <1>2, <2>1, <2>2 DEF GroupFacts
<1>4. ASSUME NEW b \in 1..(Len(ds) + 1) - 1, b \in N PROVE b + 1 \in N
  <2>1. b \in 1..Len(ds) /\ b \in DOMAIN ds /\ b + 1 \in Nat
    BY <1>1
  <2>2. GroupFacts(GroupsAfter(G[b], ds, b), ds, b + 1)
    BY <1>4, <2>1, GroupsAfterTransform, GroupsAfterOther
  <2> QED BY <1>2, <2>1, <2>2
<1>5. 1..Len(ds) + 1 \subseteq N
  <2> DEFINE n == Len(ds) + 1
  <2>1. n \in Nat
    BY <1>1
  <2>2. \A b \in 1..n - 1 : b \in N => b + 1 \in N
    BY <1>4
  <2> HIDE DEF N, n
  <2>3. 1..n \subseteq N
    BY <1>3, <2>1, <2>2, InductionFrom
  <2> QED BY <2>3 DEF n
<1> QED BY <1>5 DEF G
-----------------------------------------------------------------------------
(* The fields of a document.                                               *)

\* Where reading begins.
RootSelection(doc) == [path |-> << >>, of |-> doc.items[1]]

\* What is selected below any of these.
BelowThem(S) == UNION {Below(s) : s \in S}

\* What is at each depth, up to n.
AreLevels(f, doc, n) ==
  f = [d \in 0..n |-> IF d = 0 THEN {RootSelection(doc)} ELSE BelowThem(f[d - 1])]

\* A selection has levels, down to any depth.
LEMMA LevelsExist ==
  ASSUME NEW doc, NEW n \in Nat
  PROVE  \E f : AreLevels(f, doc, n)
<1> DEFINE N == {m \in Nat : \E f : AreLevels(f, doc, m)}
<1>1. 0 \in N
  <2> DEFINE f == [d \in 0..0 |-> {RootSelection(doc)}]
  <2>1. AreLevels(f, doc, 0)
    BY DEF AreLevels
  <2> QED BY <2>1
<1>2. ASSUME NEW m \in 0..n - 1, m \in N PROVE m + 1 \in N
  <2>0. m \in Nat
    OBVIOUS
  <2>1. PICK f : AreLevels(f, doc, m)
    BY <1>2
  <2> DEFINE g == [d \in 0..m + 1 |-> IF d = 0 THEN {RootSelection(doc)} ELSE BelowThem(f[d - 1])]
  <2>2. ASSUME NEW d \in 0..m PROVE g[d] = f[d]
    <3> DEFINE top == {RootSelection(doc)}
    <3>1. f = [b \in 0..m |-> IF b = 0 THEN top ELSE BelowThem(f[b - 1])]
      BY <2>1 DEF AreLevels
    <3> HIDE DEF top
    <3>2. f[d] = IF d = 0 THEN top ELSE BelowThem(f[d - 1])
      BY <3>1
    <3>3. d \in 0..m + 1
      BY <2>0
    <3> QED BY <3>2, <3>3 DEF top
  <2>3. ASSUME NEW d \in 0..m + 1, d # 0 PROVE g[d - 1] = f[d - 1]
    <3>1. d - 1 \in 0..m
      BY <2>0, <2>3
    <3> QED BY <2>2, <3>1
  <2>4. AreLevels(g, doc, m + 1)
    BY <2>3 DEF AreLevels
  <2>5. m + 1 \in Nat
    BY <2>0
  <2> QED BY <2>4, <2>5
<1>3. 0..n \subseteq N
  <2> HIDE DEF N
  <2> QED BY <1>1, <1>2, InductionFrom
<1> QED BY <1>3

\* Each level of a document is what is below the one before.
LEMMA LevelsAre ==
  ASSUME NEW doc
  PROVE  /\ Levels(doc)[0] = {RootSelection(doc)}
         /\ \A d \in 0..MaxDepth - 1 : Levels(doc)[d + 1] = BelowThem(Levels(doc)[d])
<1> DEFINE L == Levels(doc)
<1>1. AreLevels(L, doc, MaxDepth)
  <2>1. \E f : AreLevels(f, doc, MaxDepth)
    BY LevelsExist, DepthIsNatural
  <2>2. L = CHOOSE f : AreLevels(f, doc, MaxDepth)
    BY DEF Levels, AreLevels, RootSelection, BelowThem
  <2> HIDE DEF L
  <2> QED BY <2>1, <2>2
<1> HIDE DEF L
<1>2. L = [d \in 0..MaxDepth |-> IF d = 0 THEN {RootSelection(doc)} ELSE BelowThem(L[d - 1])]
  BY <1>1 DEF AreLevels
<1>3. L[0] = {RootSelection(doc)}
  <2>1. 0 \in 0..MaxDepth
    BY DepthIsNatural
  <2> QED BY <1>2, <2>1
<1>4. ASSUME NEW d \in 0..MaxDepth - 1 PROVE L[d + 1] = BelowThem(L[d])
  <2>1. d + 1 \in 0..MaxDepth /\ d + 1 # 0 /\ (d + 1) - 1 = d
    BY DepthIsNatural
  <2>2. L[d + 1] = BelowThem(L[(d + 1) - 1])
    BY <1>2, <2>1
  <2> QED BY <2>1, <2>2
<1> QED BY <1>3, <1>4 DEF L

\* What is selected below a field, past a type coercion.
Chosen(s) == IF Kinds(s.of.items) = {"inline"} THEN s.of.items[1].items ELSE s.of.items

\* Below a field are its selections, or those of its coercion; below anything else,
\* nothing.
LEMMA BelowIs ==
  ASSUME NEW s, IsSelection(s.of)
  PROVE  /\ s.of.kind = "field" => Below(s) = WithPaths(s.path, Chosen(s)) /\ IsSequence(Chosen(s))
         /\ s.of.kind # "field" => Below(s) = {}
<1>1. CASE s.of.kind # "field"
  BY <1>1 DEF Below
<1>2. CASE s.of.kind = "field"
  <2>1. Below(s) = WithPaths(s.path, Chosen(s))
    BY <1>2 DEF Below, Chosen
  <2>2. IsSequence(s.of.items) /\ \A i \in Elements(s.of.items) : i.kind = "inline" => IsSequence(i.items)
    BY <1>2 DEF IsSelection
  <2>3. ASSUME Kinds(s.of.items) = {"inline"} PROVE IsSequence(s.of.items[1].items)
    <3>1. PICK i \in DOMAIN s.of.items : s.of.items[i].kind = "inline"
      <4>1. "inline" \in Kinds(s.of.items)
        BY <2>3
      <4> QED BY <4>1 DEF Kinds, Elements
    <3>2. 1 \in DOMAIN s.of.items
      BY <2>2, <3>1, SequenceFacts
    <3>3. s.of.items[1].kind \in Kinds(s.of.items) /\ s.of.items[1] \in Elements(s.of.items)
      BY <3>2 DEF Kinds, Elements
    <3> QED BY <2>2, <2>3, <3>3
  <2> QED BY <1>2, <2>1, <2>2, <2>3 DEF Chosen
<1> QED BY <1>1, <1>2

\* Paths of a level have its length, and are different.
PathsDiffer(S, d) ==
  /\ \A s \in S : s.path \in Seq(Nat) /\ Len(s.path) = d
  /\ \A s, t \in S : s.path = t.path => s = t

\* If the paths at one depth differ, so do those at the next.
LEMMA NextLevel ==
  ASSUME NEW S, NEW d \in Nat, PathsDiffer(S, d), \A s \in S : IsSelection(s.of)
  PROVE  PathsDiffer(BelowThem(S), d + 1)
<1> DEFINE U == BelowThem(S)
<1>1. ASSUME NEW t \in U
      PROVE  \E s \in S, i \in Nat : s.path \in Seq(Nat) /\ Len(s.path) = d
                /\ t = [path |-> Append(s.path, i), of |-> Chosen(s)[i]]
  <2>1. PICK s \in S : t \in Below(s)
    BY DEF BelowThem
  <2>2. Below(s) = WithPaths(s.path, Chosen(s)) /\ IsSequence(Chosen(s))
    BY <2>1, BelowIs
  <2>3. PICK i \in DOMAIN Chosen(s) : t = [path |-> Append(s.path, i), of |-> Chosen(s)[i]]
    BY <2>1, <2>2 DEF WithPaths
  <2>4. i \in Nat
    BY <2>2, SequenceFacts
  <2> QED BY <2>3, <2>4 DEF PathsDiffer
<1>2. ASSUME NEW t \in U PROVE t.path \in Seq(Nat) /\ Len(t.path) = d + 1
  <2>1. PICK s \in S, i \in Nat : s.path \in Seq(Nat) /\ Len(s.path) = d
                /\ t = [path |-> Append(s.path, i), of |-> Chosen(s)[i]]
    BY <1>1
  <2>2. t.path = Append(s.path, i)
    BY <2>1
  <2> QED BY <2>1, <2>2
<1>3. ASSUME NEW t \in U, NEW u \in U, t.path = u.path PROVE t = u
  <2>1. PICK s \in S, i \in Nat : s.path \in Seq(Nat) /\ Len(s.path) = d
                /\ t = [path |-> Append(s.path, i), of |-> Chosen(s)[i]]
    BY <1>1
  <2>2. PICK r \in S, j \in Nat : r.path \in Seq(Nat) /\ Len(r.path) = d
                /\ u = [path |-> Append(r.path, j), of |-> Chosen(r)[j]]
    BY <1>1
  <2>3. Append(s.path, i) = Append(r.path, j)
    BY <1>3, <2>1, <2>2
  <2>4. s.path = r.path /\ i = j
    <3>1. \A p \in Seq(Nat), o \in Seq(Nat), a \in Nat, b \in Nat : Append(p, a) = Append(o, b) => p = o /\ a = b
      BY AppendInjective
    <3>2. s.path \in Seq(Nat) /\ r.path \in Seq(Nat)
      BY <2>1, <2>2
    <3> DEFINE p == s.path
               o == r.path
    <3>3. p \in Seq(Nat) /\ o \in Seq(Nat) /\ Append(p, i) = Append(o, j)
      BY <2>3, <3>2
    <3> HIDE DEF p, o
    <3>4. p = o /\ i = j
      BY <3>1, <3>3
    <3> QED BY <3>4 DEF p, o
  <2>5. s = r
    BY <2>4 DEF PathsDiffer
  <2> QED BY <2>1, <2>2, <2>4, <2>5
<1> QED BY <1>2, <1>3 DEF PathsDiffer

\* What is selected, from the root down, each at a path of its own.
LEMMA SelectedFacts ==
  ASSUME NEW doc, IsDocument(doc)
  PROVE  /\ RootSelection(doc) \in SelectedIn(doc)
         /\ \A s \in SelectedIn(doc) : Below(s) \subseteq SelectedIn(doc) /\ IsSelection(s.of) /\ s.path \in Seq(Nat)
         /\ \A s, t \in SelectedIn(doc) : s.path = t.path => s = t
         /\ \A R : /\ RootSelection(doc) \in R
                   /\ \A s \in R \cap SelectedIn(doc) : Below(s) \subseteq R
                   => SelectedIn(doc) \subseteq R
<1> DEFINE L == Levels(doc)
<1>1. SelectedIn(doc) = UNION {L[d] : d \in 0..MaxDepth}
  BY DEF SelectedIn
<1>2. L[0] = {RootSelection(doc)} /\ \A d \in 0..MaxDepth - 1 : L[d + 1] = BelowThem(L[d])
  BY LevelsAre
<1>3. \A s \in L[MaxDepth] : Below(s) = {}
  BY DEF IsDocument
<1> HIDE DEF L
<1>4. \A s \in SelectedIn(doc) : IsSelection(s.of)
  BY DEF IsDocument
<1>5. 0 \in 0..MaxDepth /\ \A d \in 0..MaxDepth - 1 : d \in 0..MaxDepth /\ d + 1 \in 0..MaxDepth
  BY DepthIsNatural
<1>6. \A d \in 0..MaxDepth : d \in Nat /\ (d = MaxDepth \/ d \in 0..MaxDepth - 1)
  BY DepthIsNatural
<1>7. \A d \in 0..MaxDepth : L[d] \subseteq SelectedIn(doc)
  BY <1>1
<1>8. ASSUME NEW s \in SelectedIn(doc) PROVE Below(s) \subseteq SelectedIn(doc)
  <2>1. PICK d \in 0..MaxDepth : s \in L[d]
    BY <1>1
  <2>2. CASE d = MaxDepth
    BY <1>3, <2>1, <2>2
  <2>3. CASE d \in 0..MaxDepth - 1
    <3>1. Below(s) \subseteq L[d + 1] /\ d + 1 \in 0..MaxDepth
      BY <1>2, <1>5, <2>1, <2>3 DEF BelowThem
    <3> QED BY <1>7, <3>1
  <2> QED BY <1>6, <2>2, <2>3
<1>9. ASSUME NEW d \in 0..MaxDepth PROVE PathsDiffer(L[d], d)
  <2> DEFINE N == {e \in Nat : PathsDiffer(L[e], e)}
  <2>1. 0 \in N
    <3>1. << >> \in Seq(Nat) /\ Len(<< >>) = 0 /\ RootSelection(doc).path = << >>
      BY DEF RootSelection
    <3> QED BY <1>2, <3>1 DEF PathsDiffer
  <2>2. ASSUME NEW e \in 0..MaxDepth - 1, e \in N PROVE e + 1 \in N
    <3>1. \A s \in L[e] : IsSelection(s.of)
      BY <1>4, <1>5, <1>7
    <3>2. PathsDiffer(BelowThem(L[e]), e + 1)
      BY <2>2, <3>1, NextLevel
    <3>3. e + 1 \in Nat
      BY <2>2
    <3> QED BY <1>2, <3>2, <3>3
  <2>3. 0..MaxDepth \subseteq N
    <3> HIDE DEF N
    <3> QED BY <2>1, <2>2, InductionFrom, DepthIsNatural
  <2> QED BY <2>3
<1>10. \A s \in SelectedIn(doc) : s.path \in Seq(Nat)
  BY <1>1, <1>9 DEF PathsDiffer
<1>11. ASSUME NEW s \in SelectedIn(doc), NEW t \in SelectedIn(doc), s.path = t.path PROVE s = t
  <2>1. PICK d \in 0..MaxDepth : s \in L[d]
    BY <1>1
  <2>2. PICK e \in 0..MaxDepth : t \in L[e]
    BY <1>1
  <2>3. d = e
    BY <1>9, <1>11, <2>1, <2>2 DEF PathsDiffer
  <2> QED BY <1>9, <1>11, <2>1, <2>2, <2>3 DEF PathsDiffer
<1>12. ASSUME NEW R, RootSelection(doc) \in R, \A s \in R \cap SelectedIn(doc) : Below(s) \subseteq R
       PROVE  SelectedIn(doc) \subseteq R
  <2> DEFINE N == {e \in Nat : L[e] \subseteq R}
  <2>1. 0 \in N
    BY <1>2, <1>12
  <2>2. ASSUME NEW e \in 0..MaxDepth - 1, e \in N PROVE e + 1 \in N
    <3>1. \A s \in L[e] : s \in R \cap SelectedIn(doc)
      BY <1>5, <1>7, <2>2
    <3>2. L[e + 1] \subseteq R
      BY <1>2, <1>12, <2>2, <3>1 DEF BelowThem
    <3>3. e + 1 \in Nat
      BY <2>2
    <3> QED BY <3>2, <3>3
  <2>3. 0..MaxDepth \subseteq N
    <3> HIDE DEF N
    <3> QED BY <2>1, <2>2, InductionFrom, DepthIsNatural
  <2> QED BY <1>1, <2>3
<1>13. RootSelection(doc) \in SelectedIn(doc)
  BY <1>2, <1>5, <1>7
<1> QED BY <1>4, <1>8, <1>10, <1>11, <1>12, <1>13
-----------------------------------------------------------------------------
(* Going through the directives of a field.                                *)

\* The directives that a connection takes, and those that a node takes.
ForConnection == {"optional", "recurse", "fold"}
ForNode == {"filter", "output", "tag"}

\* The connection: at most one of each so far, no @fold or @transform yet; or just
\* a @fold; or a @transform right after it.
Connecting(ds, m, p, tk) ==
  /\ tk \in Seq(Nat)
  /\ Elements(tk) = {i \in Places(ds, ForConnection) : i < p}
  /\ \A i, j \in DOMAIN ds :
       i < p /\ j < p /\ ds[i].name = ds[j].name /\ ds[i].name \in {"optional", "recurse"} => i = j
  /\ \/ m = "directives" /\ \A i \in DOMAIN ds : i < p => ds[i].name \notin {"fold", "transform"}
     \/ /\ m = "fold" /\ p - 1 \in DOMAIN ds /\ ds[p - 1].name = "fold"
        /\ \A i \in DOMAIN ds : i < p /\ ds[i].name \in {"fold", "transform"} => i = p - 1
     \/ /\ m = "transform"
        /\ \E f \in DOMAIN ds :
             /\ f + 1 < p /\ ds[f].name = "fold" /\ ds[f + 1].name = "transform"
             /\ \A i \in DOMAIN ds : i < p /\ ds[i].name = "fold" => i = f
             /\ \A i \in DOMAIN ds : i < p /\ ds[i].name = "transform" => f < i
             /\ \A i \in DOMAIN ds : i < p /\ ds[i].name \in {"optional", "recurse"} => i < f

\* The node: what is for it, before the first @transform.
Noding(ds, m, p, tk) ==
  /\ WellPlaced(ds)
  /\ tk \in Seq(Nat)
  /\ Elements(tk) = {i \in Places(ds, ForNode) : i < p /\ \A j \in Places(ds, {"transform"}) : i < j}
  /\ \/ m = "directives" /\ \A i \in DOMAIN ds : i < p => ds[i].name # "transform"
     \/ m = "transform" /\ \E i \in DOMAIN ds : i < p /\ ds[i].name = "transform"

\* What is placed before p, and then at p.
LEMMA TakenAt ==
  ASSUME NEW ds, IsSequence(ds), NEW p \in DOMAIN ds, NEW names
  PROVE  /\ p \in Nat /\ DOMAIN ds \subseteq Nat
         /\ \A i \in DOMAIN ds : i < p + 1 <=> i < p \/ i = p
         /\ {i \in Places(ds, names) : i < p + 1} =
              IF ds[p].name \in names THEN {i \in Places(ds, names) : i < p} \cup {p}
              ELSE {i \in Places(ds, names) : i < p}
<1>1. p \in Nat /\ DOMAIN ds \subseteq Nat
  BY SequenceFacts
<1>2. \A i \in DOMAIN ds : i < p + 1 <=> i < p \/ i = p
  BY <1>1
<1> QED BY <1>1, <1>2 DEF Places

\* It takes the first @optional and the first @recurse.
LEMMA ConnectionTakes ==
  ASSUME NEW ds, IsSequence(ds), NEW p \in DOMAIN ds, NEW tk, Connecting(ds, "directives", p, tk),
         ds[p].name \in {"optional", "recurse"}, ~ \E i \in Elements(tk) : ds[i].name = ds[p].name
  PROVE  Connecting(ds, "directives", p + 1, Append(tk, p))
<1>1. p \in Nat /\ DOMAIN ds \subseteq Nat /\ \A i \in DOMAIN ds : i < p + 1 <=> i < p \/ i = p
  BY TakenAt
<1>2. tk \in Seq(Nat) /\ Append(tk, p) \in Seq(Nat)
  BY <1>1 DEF Connecting
<1>3. Elements(Append(tk, p)) = {i \in Places(ds, ForConnection) : i < p + 1}
  <2>1. Elements(Append(tk, p)) = Elements(tk) \cup {p}
    BY <1>2, ElementsOfAppend
  <2>2. ds[p].name \in ForConnection
    BY DEF ForConnection
  <2> QED BY <2>1, <2>2, TakenAt DEF Connecting
<1>4. \A i \in DOMAIN ds : i < p => ds[i].name # ds[p].name
  <2>1. \A i \in DOMAIN ds : i < p /\ ds[i].name = ds[p].name => i \in Elements(tk)
    BY DEF Connecting, Places, ForConnection
  <2> QED BY <2>1
<1>5. \A i, j \in DOMAIN ds :
        i < p + 1 /\ j < p + 1 /\ ds[i].name = ds[j].name /\ ds[i].name \in {"optional", "recurse"} => i = j
  BY <1>1, <1>4 DEF Connecting
<1>6. \A i \in DOMAIN ds : i < p + 1 => ds[i].name \notin {"fold", "transform"}
  BY <1>1 DEF Connecting
<1> QED BY <1>2, <1>3, <1>5, <1>6 DEF Connecting

\* It takes a @fold.
LEMMA ConnectionTakesFold ==
  ASSUME NEW ds, IsSequence(ds), NEW p \in DOMAIN ds, NEW tk, Connecting(ds, "directives", p, tk),
         ds[p].name = "fold"
  PROVE  Connecting(ds, "fold", p + 1, Append(tk, p))
<1>1. p \in Nat /\ DOMAIN ds \subseteq Nat /\ \A i \in DOMAIN ds : i < p + 1 <=> i < p \/ i = p
  BY TakenAt
<1>2. tk \in Seq(Nat) /\ Append(tk, p) \in Seq(Nat)
  BY <1>1 DEF Connecting
<1>3. Elements(Append(tk, p)) = {i \in Places(ds, ForConnection) : i < p + 1}
  <2>1. Elements(Append(tk, p)) = Elements(tk) \cup {p}
    BY <1>2, ElementsOfAppend
  <2>2. ds[p].name \in ForConnection
    BY DEF ForConnection
  <2> QED BY <2>1, <2>2, TakenAt DEF Connecting
<1>4. \A i, j \in DOMAIN ds :
        i < p + 1 /\ j < p + 1 /\ ds[i].name = ds[j].name /\ ds[i].name \in {"optional", "recurse"} => i = j
  BY <1>1 DEF Connecting
<1>5. (p + 1) - 1 = p
  BY <1>1
<1>6. \A i \in DOMAIN ds : i < p + 1 /\ ds[i].name \in {"fold", "transform"} => i = p
  BY <1>1 DEF Connecting
<1> QED BY <1>2, <1>3, <1>4, <1>5, <1>6 DEF Connecting

\* It leaves what is for the node.
LEMMA ConnectionSkips ==
  ASSUME NEW ds, IsSequence(ds), NEW p \in DOMAIN ds, NEW tk, Connecting(ds, "directives", p, tk),
         ds[p].name \in ForNode
  PROVE  Connecting(ds, "directives", p + 1, tk)
<1>1. p \in Nat /\ DOMAIN ds \subseteq Nat /\ \A i \in DOMAIN ds : i < p + 1 <=> i < p \/ i = p
  BY TakenAt
<1>2. ds[p].name \notin ForConnection /\ ds[p].name \notin {"fold", "transform", "optional", "recurse"}
  BY DEF ForNode, ForConnection
<1>3. Elements(tk) = {i \in Places(ds, ForConnection) : i < p + 1}
  BY <1>2, TakenAt DEF Connecting
<1>4. \A i, j \in DOMAIN ds :
        i < p + 1 /\ j < p + 1 /\ ds[i].name = ds[j].name /\ ds[i].name \in {"optional", "recurse"} => i = j
  BY <1>1, <1>2 DEF Connecting
<1>5. \A i \in DOMAIN ds : i < p + 1 => ds[i].name \notin {"fold", "transform"}
  BY <1>1, <1>2 DEF Connecting
<1> QED BY <1>3, <1>4, <1>5 DEF Connecting

\* Right after the @fold there may be a @transform.
LEMMA FoldTransforms ==
  ASSUME NEW ds, IsSequence(ds), NEW p \in DOMAIN ds, NEW tk, Connecting(ds, "fold", p, tk),
         ds[p].name = "transform"
  PROVE  Connecting(ds, "transform", p + 1, tk)
<1>1. p \in Nat /\ DOMAIN ds \subseteq Nat /\ \A i \in DOMAIN ds : i < p + 1 <=> i < p \/ i = p
  BY TakenAt
<1>2. Elements(tk) = {i \in Places(ds, ForConnection) : i < p + 1}
  <2>1. ds[p].name \notin ForConnection
    BY DEF ForConnection
  <2> QED BY <2>1, TakenAt DEF Connecting
<1>3. \A i, j \in DOMAIN ds :
        i < p + 1 /\ j < p + 1 /\ ds[i].name = ds[j].name /\ ds[i].name \in {"optional", "recurse"} => i = j
  BY <1>1 DEF Connecting
<1> DEFINE f == p - 1
<1>4. f \in DOMAIN ds /\ ds[f].name = "fold" /\ f \in Nat /\ f + 1 = p /\ f < p
  BY <1>1 DEF Connecting
<1>5. \A i \in DOMAIN ds : i < p /\ ds[i].name \in {"fold", "transform"} => i = f
  BY DEF Connecting
<1> HIDE DEF f
<1>6. \A i \in DOMAIN ds : i < p + 1 /\ ds[i].name = "fold" => i = f
  BY <1>1, <1>5
<1>7. \A i \in DOMAIN ds : i < p + 1 /\ ds[i].name = "transform" => f < i
  BY <1>1, <1>4, <1>5
<1>8. ASSUME NEW i \in DOMAIN ds, i < p + 1, ds[i].name \in {"optional", "recurse"} PROVE i < f
  <2>1. i \in Nat /\ i # p /\ i # f
    BY <1>1, <1>4, <1>8
  <2> QED BY <1>1, <1>4, <1>8, <2>1
<1>9. f + 1 < p + 1 /\ ds[f + 1].name = "transform"
  BY <1>1, <1>4
<1>10. \E g \in DOMAIN ds :
         /\ g + 1 < p + 1 /\ ds[g].name = "fold" /\ ds[g + 1].name = "transform"
         /\ \A i \in DOMAIN ds : i < p + 1 /\ ds[i].name = "fold" => i = g
         /\ \A i \in DOMAIN ds : i < p + 1 /\ ds[i].name = "transform" => g < i
         /\ \A i \in DOMAIN ds : i < p + 1 /\ ds[i].name \in {"optional", "recurse"} => i < g
  BY <1>4, <1>6, <1>7, <1>8, <1>9
<1> QED BY <1>2, <1>3, <1>10 DEF Connecting

\* Then what is for the node, and other transforms, may follow.
LEMMA GroupGoesOn ==
  ASSUME NEW ds, IsSequence(ds), NEW p \in DOMAIN ds, NEW tk, Connecting(ds, "transform", p, tk),
         ds[p].name \in ForNode \cup {"transform"}
  PROVE  Connecting(ds, "transform", p + 1, tk)
<1>1. p \in Nat /\ DOMAIN ds \subseteq Nat /\ \A i \in DOMAIN ds : i < p + 1 <=> i < p \/ i = p
  BY TakenAt
<1>2. ds[p].name \notin ForConnection /\ ds[p].name \notin {"fold", "optional", "recurse"}
  BY DEF ForNode, ForConnection
<1>3. Elements(tk) = {i \in Places(ds, ForConnection) : i < p + 1}
  BY <1>2, TakenAt DEF Connecting
<1>4. \A i, j \in DOMAIN ds :
        i < p + 1 /\ j < p + 1 /\ ds[i].name = ds[j].name /\ ds[i].name \in {"optional", "recurse"} => i = j
  BY <1>1, <1>2 DEF Connecting
<1>5. PICK f \in DOMAIN ds :
             /\ f + 1 < p /\ ds[f].name = "fold" /\ ds[f + 1].name = "transform"
             /\ \A i \in DOMAIN ds : i < p /\ ds[i].name = "fold" => i = f
             /\ \A i \in DOMAIN ds : i < p /\ ds[i].name = "transform" => f < i
             /\ \A i \in DOMAIN ds : i < p /\ ds[i].name \in {"optional", "recurse"} => i < f
  BY DEF Connecting
<1>6. f \in Nat /\ f < p /\ f + 1 < p + 1
  BY <1>1, <1>5
<1>7. \E g \in DOMAIN ds :
         /\ g + 1 < p + 1 /\ ds[g].name = "fold" /\ ds[g + 1].name = "transform"
         /\ \A i \in DOMAIN ds : i < p + 1 /\ ds[i].name = "fold" => i = g
         /\ \A i \in DOMAIN ds : i < p + 1 /\ ds[i].name = "transform" => g < i
         /\ \A i \in DOMAIN ds : i < p + 1 /\ ds[i].name \in {"optional", "recurse"} => i < g
  BY <1>1, <1>2, <1>5, <1>6
<1> QED BY <1>3, <1>4, <1>7 DEF Connecting

\* What the connection refuses is misplaced.
LEMMA ConnectionRefuses ==
  ASSUME NEW ds, IsSequence(ds), NEW p \in DOMAIN ds, NEW m, NEW tk, Connecting(ds, m, p, tk), WellPlaced(ds),
         \/ /\ m = "directives" /\ ds[p].name \in {"optional", "recurse"}
            /\ \E i \in Elements(tk) : ds[i].name = ds[p].name
         \/ m = "directives" /\ ds[p].name = "transform"
         \/ m = "fold" /\ ds[p].name # "transform"
         \/ m = "transform" /\ ds[p].name \in ForConnection
  PROVE  FALSE
<1>1. p \in Nat /\ DOMAIN ds \subseteq Nat
  BY TakenAt
<1>2. \A i, j \in DOMAIN ds : ds[i].name = ds[j].name /\ ds[i].name \in ForConnection => i = j
  BY DEF WellPlaced, Places, ForConnection
<1>3. \A i \in DOMAIN ds : ds[i].name = "transform" => \E j \in DOMAIN ds : ds[j].name = "fold" /\ j < i
  BY DEF WellPlaced, Places
<1>4. \A i, j \in DOMAIN ds : ds[i].name \in {"optional", "recurse"} /\ ds[j].name \in {"fold", "transform"} => i < j
  BY DEF WellPlaced, Places
<1>5. CASE /\ m = "directives" /\ ds[p].name \in {"optional", "recurse"}
           /\ \E i \in Elements(tk) : ds[i].name = ds[p].name
  <2>1. PICK i \in Elements(tk) : ds[i].name = ds[p].name
    BY <1>5
  <2>2. i \in DOMAIN ds /\ i < p
    BY <2>1 DEF Connecting, Places
  <2>3. i = p
    BY <1>2, <1>5, <2>1, <2>2 DEF ForConnection
  <2> QED BY <1>1, <2>2, <2>3
<1>6. CASE m = "directives" /\ ds[p].name = "transform"
  <2>1. PICK j \in DOMAIN ds : ds[j].name = "fold" /\ j < p
    BY <1>3, <1>6
  <2> QED BY <1>6, <2>1 DEF Connecting
<1>7. CASE m = "fold" /\ ds[p].name # "transform"
  <2>1. p - 1 \in DOMAIN ds /\ ds[p - 1].name = "fold"
    BY <1>7 DEF Connecting
  <2>2. p - 1 = Len(ds) \/ ds[(p - 1) + 1].name = "transform"
    BY <2>1 DEF WellPlaced, Places
  <2>3. (p - 1) + 1 = p /\ p <= Len(ds) /\ Len(ds) \in Nat
    BY <1>1, SequenceFacts
  <2> QED BY <1>1, <1>7, <2>2, <2>3
<1>8. CASE m = "transform" /\ ds[p].name \in ForConnection
  <2>1. PICK f \in DOMAIN ds : f + 1 < p /\ ds[f].name = "fold"
    BY <1>8 DEF Connecting
  <2>2. f \in Nat /\ f # p /\ ~ (p < f)
    BY <1>1, <2>1
  <2> QED BY <1>2, <1>4, <1>8, <2>1, <2>2 DEF ForConnection
<1> QED BY <1>5, <1>6, <1>7, <1>8

\* What gets through is in its place.
LEMMA ConnectionIsRead ==
  ASSUME NEW ds, IsSequence(ds), NEW m, NEW tk, Connecting(ds, m, Len(ds) + 1, tk)
  PROVE  WellPlaced(ds) /\ Elements(tk) = Places(ds, ForConnection)
<1> DEFINE p == Len(ds) + 1
<1>1. p \in Nat /\ DOMAIN ds = 1..p - 1 /\ DOMAIN ds \subseteq Nat /\ Len(ds) = p - 1
  BY SequenceFacts
<1>2. \A i \in DOMAIN ds : i < p
  BY <1>1
<1>3. Elements(tk) = Places(ds, ForConnection)
  <2>1. {i \in Places(ds, ForConnection) : i < p} = Places(ds, ForConnection)
    BY <1>2 DEF Places
  <2> QED BY <2>1 DEF Connecting
<1>4. Connecting(ds, m, p, tk)
  OBVIOUS
<1> HIDE DEF p
<1>5. \A n \in {"optional", "recurse"} : \A i, j \in Places(ds, {n}) : i = j
  BY <1>2, <1>4 DEF Connecting, Places
<1>6. CASE m = "directives"
  <2>1. Places(ds, {"fold"}) = {} /\ Places(ds, {"transform"}) = {} /\ Places(ds, {"fold", "transform"}) = {}
    BY <1>2, <1>4, <1>6 DEF Connecting, Places
  <2> QED BY <1>3, <1>5, <2>1 DEF WellPlaced
<1>7. CASE m = "fold"
  <2>1. p - 1 \in DOMAIN ds /\ ds[p - 1].name = "fold"
        /\ \A i \in DOMAIN ds : ds[i].name \in {"fold", "transform"} => i = p - 1
    BY <1>2, <1>4, <1>7 DEF Connecting
  <2>2. Places(ds, {"fold", "transform"}) = {p - 1} /\ Places(ds, {"fold"}) = {p - 1} /\ Places(ds, {"transform"}) = {}
    BY <2>1 DEF Places
  <2>3. \A i \in Places(ds, {"optional", "recurse"}) : i < p - 1
    <3>1. \A i \in Places(ds, {"optional", "recurse"}) : i \in 1..p - 1 /\ i # p - 1
      BY <1>1, <2>1 DEF Places
    <3> QED BY <1>1, <3>1
  <2> QED BY <1>1, <1>3, <1>5, <2>2, <2>3 DEF WellPlaced
<1>8. CASE m = "transform"
  <2>1. PICK f \in DOMAIN ds :
             /\ ds[f].name = "fold" /\ ds[f + 1].name = "transform"
             /\ \A i \in DOMAIN ds : ds[i].name = "fold" => i = f
             /\ \A i \in DOMAIN ds : ds[i].name = "transform" => f < i
             /\ \A i \in DOMAIN ds : ds[i].name \in {"optional", "recurse"} => i < f
    BY <1>2, <1>4, <1>8 DEF Connecting
  <2>2. Places(ds, {"fold"}) = {f}
    BY <2>1 DEF Places
  <2>3. \A i \in Places(ds, {"optional", "recurse"}), j \in Places(ds, {"fold", "transform"}) : i < j
    <3>1. \A i \in Places(ds, {"optional", "recurse"}) : i \in Nat /\ i < f
      BY <1>1, <2>1 DEF Places
    <3>2. \A j \in Places(ds, {"fold", "transform"}) : j \in Nat /\ (j = f \/ f < j)
      BY <1>1, <2>1 DEF Places
    <3>3. f \in Nat
      BY <1>1
    <3> QED BY <3>1, <3>2, <3>3
  <2>4. \A i \in Places(ds, {"transform"}) : \E j \in Places(ds, {"fold"}) : j < i
    BY <2>1, <2>2 DEF Places
  <2> QED BY <1>3, <1>5, <2>1, <2>2, <2>3, <2>4 DEF WellPlaced
<1>9. m \in {"directives", "fold", "transform"}
  BY DEF Connecting
<1> QED BY <1>6, <1>7, <1>8, <1>9

\* The same for the node: which refuses nothing that the connection did not.
LEMMA NodeTakes ==
  ASSUME NEW ds, IsSequence(ds), NEW p \in DOMAIN ds, NEW tk, Noding(ds, "directives", p, tk),
         ds[p].name \in ForNode
  PROVE  Noding(ds, "directives", p + 1, Append(tk, p))
<1>1. p \in Nat /\ DOMAIN ds \subseteq Nat /\ \A i \in DOMAIN ds : i < p + 1 <=> i < p \/ i = p
  BY TakenAt
<1>2. tk \in Seq(Nat) /\ Append(tk, p) \in Seq(Nat)
  BY <1>1 DEF Noding
<1>3. ds[p].name # "transform"
  BY DEF ForNode
<1>4. \A i \in DOMAIN ds : i < p + 1 => ds[i].name # "transform"
  BY <1>1, <1>3 DEF Noding
<1>5. \A j \in Places(ds, {"transform"}) : p < j
  <2>1. \A j \in Places(ds, {"transform"}) : j \in Nat /\ ~ (j < p + 1)
    BY <1>1, <1>4 DEF Places
  <2> QED BY <1>1, <2>1
<1>6. Elements(Append(tk, p)) = {i \in Places(ds, ForNode) : i < p + 1 /\ \A j \in Places(ds, {"transform"}) : i < j}
  <2>1. Elements(Append(tk, p)) = Elements(tk) \cup {p}
    BY <1>2, ElementsOfAppend
  <2>2. Elements(tk) = {i \in Places(ds, ForNode) : i < p /\ \A j \in Places(ds, {"transform"}) : i < j}
    BY DEF Noding
  <2>3. p \in Places(ds, ForNode)
    BY DEF Places
  <2>4. \A i \in Places(ds, ForNode) : i < p + 1 <=> i < p \/ i = p
    BY <1>1 DEF Places
  <2> QED BY <1>5, <2>1, <2>2, <2>3, <2>4
<1> QED BY <1>2, <1>4, <1>6 DEF Noding

\* It leaves what is for the connection.
LEMMA NodeSkips ==
  ASSUME NEW ds, IsSequence(ds), NEW p \in DOMAIN ds, NEW tk, Noding(ds, "directives", p, tk),
         ds[p].name \in ForConnection
  PROVE  Noding(ds, "directives", p + 1, tk)
<1>1. p \in Nat /\ DOMAIN ds \subseteq Nat /\ \A i \in DOMAIN ds : i < p + 1 <=> i < p \/ i = p
  BY TakenAt
<1>2. ds[p].name # "transform" /\ ds[p].name \notin ForNode
  BY DEF ForConnection, ForNode
<1>3. \A i \in DOMAIN ds : i < p + 1 => ds[i].name # "transform"
  BY <1>1, <1>2 DEF Noding
<1>4. \A i \in Places(ds, ForNode) : i < p + 1 <=> i < p
  BY <1>1, <1>2 DEF Places
<1> QED BY <1>3, <1>4 DEF Noding

\* From the first @transform on, it takes nothing any more.
LEMMA NodeTransforms ==
  ASSUME NEW ds, IsSequence(ds), NEW p \in DOMAIN ds, NEW m, NEW tk, Noding(ds, m, p, tk),
         \/ ds[p].name = "transform"
         \/ m = "transform" /\ ds[p].name \in ForNode
  PROVE  Noding(ds, "transform", p + 1, tk)
<1>1. p \in Nat /\ DOMAIN ds \subseteq Nat /\ \A i \in DOMAIN ds : i < p + 1 <=> i < p \/ i = p
  BY TakenAt
<1>2. \E t \in DOMAIN ds : t < p + 1 /\ ds[t].name = "transform" /\ ~ (p < t)
  <2>1. CASE ds[p].name = "transform"
    BY <1>1, <2>1
  <2>2. CASE m = "transform"
    <3>1. PICK t \in DOMAIN ds : t < p /\ ds[t].name = "transform"
      BY <2>2 DEF Noding
    <3>2. t < p + 1 /\ ~ (p < t)
      BY <1>1, <3>1
    <3> QED BY <3>1, <3>2
  <2> QED BY <2>1, <2>2
<1>3. ~ \A j \in Places(ds, {"transform"}) : p < j
  BY <1>2 DEF Places
<1>4. \A i \in Places(ds, ForNode) : i < p + 1 <=> i < p \/ i = p
  BY <1>1 DEF Places
<1>5. {i \in Places(ds, ForNode) : i < p + 1 /\ \A j \in Places(ds, {"transform"}) : i < j} =
      {i \in Places(ds, ForNode) : i < p /\ \A j \in Places(ds, {"transform"}) : i < j}
  BY <1>3, <1>4
<1>6. Elements(tk) = {i \in Places(ds, ForNode) : i < p + 1 /\ \A j \in Places(ds, {"transform"}) : i < j}
  BY <1>5 DEF Noding
<1> QED BY <1>2, <1>6 DEF Noding

\* It refuses what is for a connection after a @transform, but the connection already
\* did.
LEMMA NodeRefuses ==
  ASSUME NEW ds, IsSequence(ds), NEW p \in DOMAIN ds, NEW tk, Noding(ds, "transform", p, tk),
         ds[p].name \in ForConnection
  PROVE  FALSE
<1>1. p \in Nat /\ DOMAIN ds \subseteq Nat /\ p \in Places(ds, {ds[p].name})
  BY TakenAt DEF Places
<1>2. PICK t \in Places(ds, {"transform"}) : t < p /\ t \in Nat
  BY <1>1 DEF Noding, Places
<1>3. CASE ds[p].name \in {"optional", "recurse"}
  <2>1. p < t
    BY <1>3, <1>2 DEF Noding, WellPlaced, Places
  <2> QED BY <1>1, <1>2, <2>1
<1>4. CASE ds[p].name = "fold"
  <2>1. PICK j \in Places(ds, {"fold"}) : j < t /\ j \in Nat
    BY <1>1, <1>2 DEF Noding, WellPlaced, Places
  <2>2. j = p
    BY <1>1, <1>4, <2>1 DEF Noding, WellPlaced
  <2> QED BY <1>1, <1>2, <2>1, <2>2
<1> QED BY <1>3, <1>4 DEF ForConnection

\* In the end it has what is for it before the first @transform.
LEMMA NodeIsRead ==
  ASSUME NEW ds, IsSequence(ds), NEW m, NEW tk, Noding(ds, m, Len(ds) + 1, tk)
  PROVE  Elements(tk) = {i \in Places(ds, ForNode) : \A j \in Places(ds, {"transform"}) : i < j}
<1>1. \A i \in Places(ds, ForNode) : i < Len(ds) + 1
  <2>1. DOMAIN ds = 1..Len(ds) /\ Len(ds) \in Nat
    BY SequenceFacts
  <2> QED BY <2>1 DEF Places
<1> QED BY <1>1 DEF Noding
-----------------------------------------------------------------------------
(* Going through the fields.                                               *)

\* What make_field_connection() checks first, and what make_field_node() does.
Accepted(s) ==
  /\ s.kind = "field"
  /\ Odd(s.args, {a.name : a \in Elements(s.args)}) = {}
  /\ \A a \in Elements(s.args) : a.value.kind # "variable"
  /\ \A d \in Elements(s.directives) : WellFormed(d)
ItemsFit(s) == Kinds(s.items) \subseteq {"field"} \/ (Len(s.items) = 1 /\ Kinds(s.items) = {"inline"})

\* Reading r of a field s is in mode m, at directive p.
Walk(s, r, m, p, tk, gs) ==
  /\ Accepted(s)
  /\ p \in 1..Len(s.directives) + 1
  /\ gs = GroupsOf(s.directives)[p]
  /\ m \in {"directives", "fold"} => gs = << >>
  /\ m = "transform" => gs # << >>
  /\ r = "connection" => Connecting(s.directives, m, p, tk)
  /\ r # "connection" => Noding(s.directives, m, p, tk) /\ ItemsFit(s)

\* A connection, and a field, that have been read.
HasConnection(x, fs) ==
  /\ Accepted(x.of) /\ WellPlaced(x.of.directives)
  /\ x.path \in DOMAIN fs
  /\ Elements(fs[x.path].connection.taken) = Places(x.of.directives, ForConnection)
  /\ fs[x.path].connection.groups = GroupsOf(x.of.directives)[Len(x.of.directives) + 1]
HasNode(x, fs) ==
  /\ HasConnection(x, fs) /\ ItemsFit(x.of)
  /\ "node" \in DOMAIN fs[x.path]
  /\ Elements(fs[x.path].node.taken) =
       {i \in Places(x.of.directives, ForNode) : \A j \in Places(x.of.directives, {"transform"}) : i < j}
  /\ fs[x.path].node.groups = GroupsOf(x.of.directives)[Len(x.of.directives) + 1]

\* What is selected has been read, or still has to be.
ReadIn(doc, fs) == {x \in SelectedIn(doc) : HasNode(x, fs)}
Pending(doc, td, fs) ==
  /\ td \in Seq(SelectedIn(doc))
  /\ RootSelection(doc) \in ReadIn(doc, fs) \cup Elements(td)
  /\ \A x \in ReadIn(doc, fs) : Below(x) \subseteq ReadIn(doc, fs) \cup Elements(td)

\* What DecidesByGrammar says of a document that is parsed or rejected, and of one that
\* parsing panics about.
IsGrammatical(doc) == RootOutcome(doc) = None /\ \A s \in SelectedIn(doc) : GoodField(s.of)
PanicsOn(doc) ==
  \E s \in SelectedIn(doc) : s.of.kind = "field" /\ \E d \in Elements(s.of.directives) :
    d.name = "filter" /\ \E v \in Elements(FilterList(d)) : Nameless(v)

\* The inductive invariant: while a field is read, Walk says how far; between fields,
\* Pending says that nothing selected is forgotten; a document that is rejected really
\* is not grammatical.
ParseInv ==
  /\ document \in Documents
  /\ stage = "root" => mode = "start" /\ reading = "connection" /\ fields = << >>
  /\ stage \in {"fields", "parsed"} => RootOutcome(document) = None /\ Pending(document, todo, fields)
  /\ stage = "fields" /\ mode # "start" =>
       todo # << >> /\ Walk(todo[1].of, reading, mode, place, taken, groups)
  /\ stage = "fields" /\ reading # "connection" => todo # << >> /\ HasConnection(todo[1], fields)
  /\ stage = "parsed" => todo = << >>
  /\ stage = "rejected" => ~ IsGrammatical(document)
  /\ stage = "panicked" => PanicsOn(document)

\* The selection being read.
LEMMA FirstIsSelected ==
  ASSUME ParseInv, stage = "fields", todo # << >>
  PROVE  /\ todo[1] \in SelectedIn(document) /\ todo[1] \in Elements(todo)
         /\ IsSelection(Field) /\ todo[1].path \in Seq(Nat)
         /\ Field.kind = "field" =>
              /\ IsSequence(Directives) /\ IsSequence(Field.args) /\ IsSequence(Field.items)
              /\ \A d \in Elements(Directives) : IsDirective(d)
<1>1. todo \in Seq(SelectedIn(document))
  BY DEF ParseInv, Pending
<1>2. 1 \in DOMAIN todo /\ todo[1] \in SelectedIn(document)
  BY <1>1
<1>3. IsDocument(document)
  BY DocumentsAreDocuments DEF ParseInv
<1>4. IsSelection(todo[1].of) /\ todo[1].path \in Seq(Nat)
  BY <1>2, <1>3, SelectedFacts
<1> QED BY <1>2, <1>4 DEF Elements, Field, Directives, IsSelection

\* It may end here.
LEMMA Fails ==
  ASSUME ParseInv, NEW outcome, Fail(outcome),
         outcome = "panic" => PanicsOn(document), outcome # "panic" => ~ IsGrammatical(document)
  PROVE  ParseInv'
<1>1. document' = document /\ stage' \in {"panicked", "rejected"}
  BY DEF Fail
<1>2. (stage' = "rejected" => ~ IsGrammatical(document')) /\ (stage' = "panicked" => PanicsOn(document'))
  BY <1>1 DEF Fail
<1> QED BY <1>1, <1>2 DEF ParseInv

\* Or it goes on with the same field.
LEMMA Walks ==
  ASSUME ParseInv, stage = "fields", todo # << >>, UNCHANGED <<document, stage, todo, reading, fields>>,
         Walk(Field, reading, mode', place', taken', groups')
  PROVE  ParseInv'
<1>1. todo'[1] = todo[1] /\ Field = todo[1].of
  BY DEF Field
<1>2. Walk(todo'[1].of, reading', mode', place', taken', groups')
  BY <1>1
<1> QED BY <1>1, <1>2 DEF ParseInv

\* A field that is refused is no good.
LEMMA NotGood ==
  ASSUME ParseInv, stage = "fields", todo # << >>, ~ GoodField(Field)
  PROVE  ~ IsGrammatical(document)
BY FirstIsSelected DEF IsGrammatical, Field

\* Parsing begins with nothing read.
LEMMA InitParses == ParseInit => ParseInv
BY DEF ParseInit, ParseInv

\* The root is the first selection to read.
LEMMA ReadRootParses ==
  ASSUME ParseInv, ReadRoot PROVE ParseInv'
<1> DEFINE r == RootSelection(document)
<1>1. todo' = <<r>> /\ stage = "root" /\ stage' = "fields" /\ RootOutcome(document) = None
      /\ UNCHANGED <<document, reading, mode, fields>>
  BY DEF ReadRoot, RootSelection
<1>2. fields = << >> /\ mode = "start" /\ reading = "connection"
  BY <1>1 DEF ParseInv
<1>3. r \in SelectedIn(document)
  <2>1. IsDocument(document)
    BY DocumentsAreDocuments DEF ParseInv
  <2> QED BY <2>1, SelectedFacts
<1>4. ReadIn(document, fields) = {}
  BY <1>2 DEF ReadIn, HasNode, HasConnection
<1> HIDE DEF r
<1>5. <<r>> \in Seq(SelectedIn(document)) /\ r \in Elements(<<r>>)
  BY <1>3 DEF Elements
<1>6. Pending(document', todo', fields')
  BY <1>1, <1>4, <1>5 DEF Pending, r
<1> QED BY <1>1, <1>2, <1>6 DEF ParseInv

\* What is refused at the root is not grammatical.
LEMMA RefuseRootParses ==
  ASSUME ParseInv, RefuseRoot PROVE ParseInv'
<1>1. Fail(RootOutcome(document)) /\ RootOutcome(document) # None
  BY DEF RefuseRoot
<1>2. RootOutcome(document) # "panic"
  BY RootOutcomeIsError
<1>3. ~ IsGrammatical(document)
  BY <1>1 DEF IsGrammatical
<1> QED BY <1>1, <1>2, <1>3, Fails

\* A reading begins with no group.
LEMMA BeginningHasNoGroup ==
  ASSUME NEW ds, IsSequence(ds)
  PROVE  /\ 1 \in 1..Len(ds) + 1 /\ GroupsOf(ds)[1] = << >>
         /\ Connecting(ds, "directives", 1, << >>)
         /\ WellPlaced(ds) => Noding(ds, "directives", 1, << >>)
<1>1. Len(ds) \in Nat /\ DOMAIN ds = 1..Len(ds)
  BY SequenceFacts
<1>2. \A i \in DOMAIN ds : ~ (i < 1)
  BY <1>1
<1>3. << >> \in Seq(Nat) /\ Elements(<< >>) = {}
  BY DEF Elements
<1>4. \A names : \A i \in Places(ds, names) : ~ (i < 1)
  BY <1>2 DEF Places
<1>5. Connecting(ds, "directives", 1, << >>)
  BY <1>2, <1>3, <1>4 DEF Connecting
<1>6. WellPlaced(ds) => Noding(ds, "directives", 1, << >>)
  BY <1>2, <1>3, <1>4 DEF Noding
<1> QED BY <1>1, <1>5, <1>6, GroupsAre

\* A connection begins with all its directives parsed; if one does not parse, or an
\* argument is refused, the field is no good.
LEMMA BeginConnectionParses ==
  ASSUME ParseInv, BeginConnection PROVE ParseInv'
<1>1. stage = "fields" /\ todo # << >> /\ reading = "connection" /\ Field.kind = "field"
  BY DEF BeginConnection, Reading
<1>2. /\ IsSequence(Directives) /\ IsSequence(Field.args)
      /\ \A d \in Elements(Directives) : IsDirective(d)
      /\ todo[1] \in SelectedIn(document)
  BY <1>1, FirstIsSelected
<1>3. ConnectionOutcome = None <=> Accepted(Field)
  BY <1>1, <1>2, ArgumentsOutcomeIs, MakeDirectivesOutcome DEF ConnectionOutcome, Accepted, Directives
<1>4. CASE ConnectionOutcome = None
  <2>1. mode' = "directives" /\ place' = 1 /\ taken' = << >> /\ groups' = << >>
        /\ UNCHANGED <<document, stage, todo, reading, fields>>
    BY <1>4 DEF BeginConnection, Begin
  <2>2. Walk(Field, reading, "directives", 1, << >>, << >>)
    BY <1>1, <1>2, <1>3, <1>4, BeginningHasNoGroup DEF Walk, Directives
  <2> QED BY <1>1, <2>1, <2>2, Walks
<1>5. CASE ConnectionOutcome # None
  <2>1. Fail(ConnectionOutcome)
    BY <1>5 DEF BeginConnection
  <2>2. ~ IsGrammatical(document)
    BY <1>1, <1>3, <1>5, NotGood DEF GoodField, Accepted
  <2>3. ConnectionOutcome = "panic" => PanicsOn(document)
    <3>1. ASSUME ConnectionOutcome = "panic"
          PROVE  \E d \in Elements(Directives) : d.name = "filter" /\ \E v \in Elements(FilterList(d)) : Nameless(v)
      BY <1>2, <3>1, ArgumentsOutcomeIs, MakeDirectivesOutcome DEF ConnectionOutcome
    <3> QED BY <1>1, <1>2, <3>1 DEF PanicsOn, Directives, Field
  <2> QED BY <2>1, <2>2, <2>3, Fails
<1> QED BY <1>4, <1>5

\* What is checked of the selections.
LEMMA SelectionOutcomeIs ==
  ASSUME NEW items, IsSequence(items), Kinds(items) \subseteq {"field", "spread", "inline"}
  PROVE  /\ "spread" \notin Kinds(items) /\ ~ ("inline" \in Kinds(items) /\ Len(items) > 1) <=>
              Kinds(items) \subseteq {"field"} \/ (Len(items) = 1 /\ Kinds(items) = {"inline"})
         /\ Kinds(items) \subseteq {"field"} \/ (Len(items) = 1 /\ Kinds(items) = {"inline"}) =>
              ((items # << >> /\ items[1].kind = "inline") <=> Kinds(items) = {"inline"})
<1>1. Len(items) \in Nat /\ DOMAIN items = 1..Len(items) /\ (items = << >> <=> Len(items) = 0)
  BY SequenceFacts
<1>2. Kinds(items) = {items[i].kind : i \in DOMAIN items}
  BY DEF Kinds, Elements
<1>3. CASE Len(items) = 0
  <2>1. Kinds(items) = {}
    BY <1>1, <1>2, <1>3
  <2> QED BY <1>1, <1>3, <2>1
<1>4. CASE Len(items) = 1
  <2>1. DOMAIN items = {1}
    BY <1>1, <1>4
  <2>2. Kinds(items) = {items[1].kind}
    BY <1>2, <2>1
  <2> QED BY <1>1, <1>4, <2>2
<1>5. CASE Len(items) > 1
  <2>1. 1 \in DOMAIN items /\ Len(items) # 1 /\ items # << >>
    BY <1>1, <1>5
  <2>2. items[1].kind \in Kinds(items)
    BY <1>2, <2>1
  <2> QED BY <1>5, <2>1, <2>2
<1> QED BY <1>1, <1>3, <1>4, <1>5

\* A node begins after its connection, whose directives have all been parsed: all it
\* can refuse is a coercion beside other selections, or a fragment.
LEMMA BeginNodeParses ==
  ASSUME ParseInv, BeginNode PROVE ParseInv'
<1>1. stage = "fields" /\ todo # << >> /\ reading = "node"
  BY DEF BeginNode, Reading
<1>2. Accepted(Field) /\ WellPlaced(Directives) /\ Field.kind = "field"
  BY <1>1 DEF ParseInv, HasConnection, Field, Directives, Accepted
<1>3. /\ IsSequence(Directives) /\ IsSequence(Field.items)
      /\ \A d \in Elements(Directives) : IsDirective(d)
      /\ Kinds(Field.items) \subseteq {"field", "spread", "inline"}
  BY <1>1, <1>2, FirstIsSelected DEF IsSelection
<1>4. MakeDirectives(Directives) = None
  BY <1>2, <1>3, MakeDirectivesOutcome DEF Accepted, Directives
<1>5. /\ SelectionOutcome = None <=> ItemsFit(Field)
      /\ SelectionOutcome # "panic"
  <2>1. "UnsupportedSyntax" # None /\ "TypeCoercionWithSiblingFields" # None /\ "panic" # None
    BY NoneIsNoError DEF Errors
  <2> QED BY <1>3, <1>4, <2>1, SelectionOutcomeIs DEF SelectionOutcome, ItemsFit
<1>6. CASE SelectionOutcome = None
  <2>1. mode' = "directives" /\ place' = 1 /\ taken' = << >> /\ groups' = << >>
        /\ UNCHANGED <<document, stage, todo, reading, fields>>
    BY <1>6 DEF BeginNode, Begin
  <2>2. Walk(Field, reading, "directives", 1, << >>, << >>)
    BY <1>1, <1>2, <1>3, <1>5, <1>6, BeginningHasNoGroup DEF Walk, Directives
  <2> QED BY <1>1, <2>1, <2>2, Walks
<1>7. CASE SelectionOutcome # None
  <2>1. Fail(SelectionOutcome)
    BY <1>7 DEF BeginNode
  <2>2. ~ IsGrammatical(document)
    BY <1>1, <1>5, <1>7, NotGood DEF GoodField, ItemsFit
  <2> QED BY <1>5, <2>1, <2>2, Fails
<1> QED BY <1>6, <1>7

\* A selection that is no field is refused rightly.
LEMMA RefuseSelectionParses ==
  ASSUME ParseInv, RefuseSelection PROVE ParseInv'
<1>1. stage = "fields" /\ todo # << >> /\ Field.kind # "field"
  BY DEF RefuseSelection, Reading
<1>2. ~ IsGrammatical(document)
  BY <1>1, NotGood DEF GoodField
<1>3. PICK outcome \in {"UnsupportedSyntax", "NestedTypeCoercion"} : Fail(outcome)
  BY DEF RefuseSelection
<1>4. outcome # "panic"
  OBVIOUS
<1> QED BY <1>2, <1>3, <1>4, Fails
-----------------------------------------------------------------------------
(* One directive, and the end of them.                                     *)

\* The directive being read.
LEMMA AtOne ==
  ASSUME ParseInv, stage = "fields", mode # "start", place \in DOMAIN Directives
  PROVE  /\ todo # << >> /\ Walk(Field, reading, mode, place, taken, groups)
         /\ IsSequence(Directives) /\ place + 1 \in 1..Len(Directives) + 1
         /\ Directives[place].name \in ForConnection \cup ForNode \cup {"transform"}
         /\ groups = GroupsOf(Directives)[place]
         /\ GroupsOf(Directives)[place + 1] = GroupsAfter(groups, Directives, place)
<1>1. todo # << >> /\ Walk(Field, reading, mode, place, taken, groups)
  BY DEF ParseInv, Field
<1>2. Field.kind = "field"
  BY <1>1 DEF Walk, Accepted
<1>3. IsSequence(Directives) /\ \A d \in Elements(Directives) : IsDirective(d)
  BY <1>1, <1>2, FirstIsSelected
<1>4. place \in 1..Len(Directives) /\ Len(Directives) \in Nat /\ Directives[place] \in Elements(Directives)
  BY <1>3, SequenceFacts
<1>5. place + 1 \in 1..Len(Directives) + 1
  BY <1>4
<1>6. Directives[place].name \in ForConnection \cup ForNode \cup {"transform"}
  <2>1. WellFormed(Directives[place])
    BY <1>1, <1>4 DEF Walk, Accepted, Directives
  <2> QED BY <1>3, <1>4, <2>1, ParseDirectiveOutcome DEF ForConnection, ForNode
<1>7. groups = GroupsOf(Directives)[place]
  BY <1>1 DEF Walk, Directives
<1>8. GroupsOf(Directives)[place + 1] = GroupsAfter(groups, Directives, place)
  BY <1>3, <1>4, <1>7, GroupsAre
<1> QED BY <1>1, <1>3, <1>5, <1>6, <1>7, <1>8

\* What is left of a walk to show.
LEMMA WalksOn ==
  ASSUME ParseInv, stage = "fields", mode # "start", place \in DOMAIN Directives,
         UNCHANGED <<document, stage, todo, reading, fields>>, place' = place + 1,
         groups' = GroupsAfter(groups, Directives, place),
         mode' \in {"directives", "fold"} => groups' = << >>,
         mode' = "transform" => groups' # << >>,
         reading = "connection" => Connecting(Directives, mode', place + 1, taken'),
         reading # "connection" => Noding(Directives, mode', place + 1, taken')
  PROVE  ParseInv'
<1>1. todo # << >> /\ Walk(Field, reading, mode, place, taken, groups)
      /\ place' \in 1..Len(Directives) + 1 /\ groups' = GroupsOf(Directives)[place']
  BY AtOne
<1>2. Walk(Field, reading, mode', place', taken', groups')
  BY <1>1 DEF Walk, Directives
<1> QED BY <1>1, <1>2, Walks

\* Take, Skip and BeginGroup leave the groups as GroupsAfter has them.
LEMMA GroupsOnTheWay ==
  ASSUME ParseInv, stage = "fields", mode # "start", place \in DOMAIN Directives
  PROVE  /\ mode \in {"directives", "fold"} /\ DirectiveKind # "transform" =>
              groups = << >> /\ GroupsAfter(groups, Directives, place) = << >>
         /\ DirectiveKind = "transform" =>
              /\ GroupsAfter(groups, Directives, place) = Append(groups, [transform |-> place, taken |-> << >>])
              /\ GroupsAfter(groups, Directives, place) # << >>
         /\ mode = "transform" /\ DirectiveKind # "transform" =>
              /\ GroupsAfter(groups, Directives, place) = [groups EXCEPT ![Len(groups)].taken = Append(@, place)]
              /\ GroupsAfter(groups, Directives, place) # << >>
<1>1. mode \in {"directives", "fold"} => groups = << >>
  BY AtOne DEF Walk
<1>2. mode = "transform" => groups # << >>
  BY AtOne DEF Walk
<1>3. GroupFacts(groups, Directives, place)
  <2>1. IsSequence(Directives) /\ groups = GroupsOf(Directives)[place]
    BY AtOne
  <2>2. place \in 1..Len(Directives) + 1
    BY AtOne DEF Walk, Directives
  <2> QED BY <2>1, <2>2, GroupsHaveAll
<1>4. groups \in Seq(Group)
  BY <1>3 DEF GroupFacts
<1> DEFINE g == [transform |-> place, taken |-> << >>]
           b == [groups EXCEPT ![Len(groups)].taken = Append(@, place)]
<1>5. g \in Group
  <2>1. place \in Nat \ {0}
    <3>1. place \in 1..Len(Directives) + 1 /\ Len(Directives) \in Nat
      BY AtOne, SequenceFacts DEF Walk, Directives
    <3> QED BY <3>1
  <2> QED BY <2>1 DEF Group
<1>6. Append(groups, g) # << >>
  <2> HIDE DEF g
  <2> QED BY <1>4, <1>5
<1>7. groups # << >> => b # << >>
  <2>1. DOMAIN b = DOMAIN groups
    OBVIOUS
  <2>2. groups # << >> => 1 \in DOMAIN groups
    BY <1>4
  <2> HIDE DEF b
  <2> QED BY <2>1, <2>2
<1> QED BY <1>1, <1>2, <1>6, <1>7 DEF GroupsAfter, DirectiveKind

\* The next directive, as the connection has it,
LEMMA ConnectionDirectiveParses ==
  ASSUME ParseInv, ConnectionDirective PROVE ParseInv'
<1>1. stage = "fields" /\ todo # << >> /\ reading = "connection" /\ mode = "directives" /\ place \in DOMAIN Directives
  BY DEF ConnectionDirective, AtDirective, Reading
<1>2. IsSequence(Directives) /\ Connecting(Directives, "directives", place, taken)
  BY <1>1, AtOne DEF Walk, Directives
<1>3. CASE DirectiveKind \in {"optional", "recurse"} /\ ~ \E i \in Elements(taken) : Directives[i].name = DirectiveKind
  <2>1. Take("directives")
    BY <1>3 DEF ConnectionDirective
  <2>2. Connecting(Directives, "directives", place + 1, Append(taken, place))
    BY <1>1, <1>2, <1>3, ConnectionTakes DEF DirectiveKind
  <2>3. groups = << >> /\ GroupsAfter(groups, Directives, place) = << >>
    BY <1>1, <1>3, GroupsOnTheWay
  <2> QED BY <1>1, <2>1, <2>2, <2>3, WalksOn DEF Take
<1>4. CASE DirectiveKind \in {"optional", "recurse"} /\ \E i \in Elements(taken) : Directives[i].name = DirectiveKind
  <2>1. Fail("UnsupportedDuplicatedDirective")
    BY <1>4 DEF ConnectionDirective
  <2>2. ~ GoodField(Field)
    BY <1>1, <1>2, <1>4, ConnectionRefuses DEF GoodField, Directives, DirectiveKind
  <2>3. "UnsupportedDuplicatedDirective" # "panic"
    OBVIOUS
  <2> QED BY <1>1, <2>1, <2>2, <2>3, NotGood, Fails
<1>5. CASE DirectiveKind = "fold"
  <2>1. Take("fold")
    BY <1>5 DEF ConnectionDirective
  <2>2. Connecting(Directives, "fold", place + 1, Append(taken, place))
    BY <1>1, <1>2, <1>5, ConnectionTakesFold DEF DirectiveKind
  <2>3. groups = << >> /\ GroupsAfter(groups, Directives, place) = << >>
    BY <1>1, <1>5, GroupsOnTheWay
  <2> QED BY <1>1, <2>1, <2>2, <2>3, WalksOn DEF Take
<1>6. CASE DirectiveKind = "transform"
  <2>1. Fail("OtherError")
    BY <1>6 DEF ConnectionDirective
  <2>2. ~ GoodField(Field)
    BY <1>1, <1>2, <1>6, ConnectionRefuses DEF GoodField, Directives, DirectiveKind
  <2>3. "OtherError" # "panic"
    OBVIOUS
  <2> QED BY <1>1, <2>1, <2>2, <2>3, NotGood, Fails
<1>7. CASE DirectiveKind \in ForNode
  <2>1. Skip
    BY <1>7 DEF ConnectionDirective, ForNode
  <2>2. Connecting(Directives, "directives", place + 1, taken)
    BY <1>1, <1>2, <1>7, ConnectionSkips DEF DirectiveKind
  <2>3. groups = << >> /\ GroupsAfter(groups, Directives, place) = << >>
    BY <1>1, <1>7, GroupsOnTheWay DEF ForNode
  <2> QED BY <1>1, <2>1, <2>2, <2>3, WalksOn DEF Skip
<1> QED BY <1>1, <1>3, <1>4, <1>5, <1>6, <1>7, AtOne DEF ForConnection, DirectiveKind

\* after a @fold,
LEMMA FoldDirectiveParses ==
  ASSUME ParseInv, FoldDirective PROVE ParseInv'
<1>1. stage = "fields" /\ mode = "fold" /\ place \in DOMAIN Directives
  BY DEF FoldDirective
<1>2. todo # << >> /\ IsSequence(Directives) /\ Walk(Field, reading, "fold", place, taken, groups)
  BY <1>1, AtOne
<1>3. reading = "connection" /\ Connecting(Directives, "fold", place, taken)
  BY <1>2 DEF Walk, Noding, Directives
<1>4. CASE DirectiveKind = "transform"
  <2>1. BeginGroup
    BY <1>4 DEF FoldDirective
  <2>2. Connecting(Directives, "transform", place + 1, taken)
    BY <1>1, <1>2, <1>3, <1>4, FoldTransforms DEF DirectiveKind
  <2>3. /\ GroupsAfter(groups, Directives, place) = Append(groups, [transform |-> place, taken |-> << >>])
        /\ GroupsAfter(groups, Directives, place) # << >>
    BY <1>1, <1>4, GroupsOnTheWay
  <2> QED BY <1>1, <1>3, <2>1, <2>2, <2>3, WalksOn DEF BeginGroup
<1>5. CASE DirectiveKind # "transform"
  <2>1. PICK outcome \in {"UnsupportedDuplicatedDirective", "UnsupportedDirectivePosition"} : Fail(outcome)
    BY <1>5 DEF FoldDirective
  <2>2. ~ GoodField(Field)
    BY <1>1, <1>2, <1>3, <1>5, ConnectionRefuses DEF GoodField, Directives, DirectiveKind
  <2>3. outcome # "panic"
    OBVIOUS
  <2> QED BY <1>1, <1>2, <2>1, <2>2, <2>3, NotGood, Fails
<1> QED BY <1>4, <1>5

\* as the node has it,
LEMMA NodeDirectiveParses ==
  ASSUME ParseInv, NodeDirective PROVE ParseInv'
<1>1. stage = "fields" /\ todo # << >> /\ reading = "node" /\ mode = "directives" /\ place \in DOMAIN Directives
  BY DEF NodeDirective, AtDirective, Reading
<1>2. IsSequence(Directives) /\ Noding(Directives, "directives", place, taken)
  BY <1>1, AtOne DEF Walk, Directives
<1>3. CASE DirectiveKind \in ForNode
  <2>1. Take("directives")
    BY <1>3 DEF NodeDirective, ForNode
  <2>2. Noding(Directives, "directives", place + 1, Append(taken, place))
    BY <1>1, <1>2, <1>3, NodeTakes DEF DirectiveKind
  <2>3. groups = << >> /\ GroupsAfter(groups, Directives, place) = << >>
    BY <1>1, <1>3, GroupsOnTheWay DEF ForNode
  <2> QED BY <1>1, <2>1, <2>2, <2>3, WalksOn DEF Take
<1>4. CASE DirectiveKind = "transform"
  <2>1. BeginGroup
    BY <1>4 DEF NodeDirective
  <2>2. Noding(Directives, "transform", place + 1, taken)
    BY <1>1, <1>2, <1>4, NodeTransforms DEF DirectiveKind
  <2>3. /\ GroupsAfter(groups, Directives, place) = Append(groups, [transform |-> place, taken |-> << >>])
        /\ GroupsAfter(groups, Directives, place) # << >>
    BY <1>1, <1>4, GroupsOnTheWay
  <2> QED BY <1>1, <2>1, <2>2, <2>3, WalksOn DEF BeginGroup
<1>5. CASE DirectiveKind \in ForConnection
  <2>1. Skip
    BY <1>5 DEF NodeDirective, ForConnection
  <2>2. Noding(Directives, "directives", place + 1, taken)
    BY <1>1, <1>2, <1>5, NodeSkips DEF DirectiveKind
  <2>3. groups = << >> /\ GroupsAfter(groups, Directives, place) = << >>
    BY <1>1, <1>5, GroupsOnTheWay DEF ForConnection
  <2> QED BY <1>1, <2>1, <2>2, <2>3, WalksOn DEF Skip
<1> QED BY <1>1, <1>3, <1>4, <1>5, AtOne DEF DirectiveKind

\* and after a @transform.
LEMMA TransformDirectiveParses ==
  ASSUME ParseInv, TransformDirective PROVE ParseInv'
<1>1. stage = "fields" /\ mode = "transform" /\ place \in DOMAIN Directives
  BY DEF TransformDirective
<1>2. todo # << >> /\ IsSequence(Directives) /\ Walk(Field, reading, "transform", place, taken, groups)
      /\ DirectiveKind \in ForConnection \cup ForNode \cup {"transform"}
  BY <1>1, AtOne DEF DirectiveKind
<1>3. /\ reading = "connection" => Connecting(Directives, "transform", place, taken)
      /\ reading # "connection" => Noding(Directives, "transform", place, taken)
  BY <1>2 DEF Walk, Directives
<1>4. DirectiveKind \in ForNode \cup {"transform"} =>
        /\ reading = "connection" => Connecting(Directives, "transform", place + 1, taken)
        /\ reading # "connection" => Noding(Directives, "transform", place + 1, taken)
  BY <1>1, <1>2, <1>3, GroupGoesOn, NodeTransforms DEF DirectiveKind
<1>5. CASE DirectiveKind \in ForNode
  <2>1. TakeIntoGroup /\ place' = place + 1 /\ UNCHANGED <<document, stage, todo, reading, mode, taken, fields>>
    BY <1>5 DEF TransformDirective, ForNode, FollowTransform
  <2>2. /\ GroupsAfter(groups, Directives, place) = [groups EXCEPT ![Len(groups)].taken = Append(@, place)]
        /\ GroupsAfter(groups, Directives, place) # << >>
    BY <1>1, <1>5, GroupsOnTheWay DEF ForNode
  <2> QED BY <1>1, <1>4, <1>5, <2>1, <2>2, WalksOn DEF TakeIntoGroup
<1>6. CASE DirectiveKind = "transform"
  <2>1. BeginGroup
    BY <1>6 DEF TransformDirective, FollowTransform
  <2>2. /\ GroupsAfter(groups, Directives, place) = Append(groups, [transform |-> place, taken |-> << >>])
        /\ GroupsAfter(groups, Directives, place) # << >>
    BY <1>1, <1>6, GroupsOnTheWay
  <2> QED BY <1>1, <1>4, <1>6, <2>1, <2>2, WalksOn DEF BeginGroup
<1>7. CASE DirectiveKind \in ForConnection
  <2>1. Fail("UnsupportedDirectivePosition")
    BY <1>7 DEF TransformDirective, FollowTransform, ForConnection
  <2>2. ~ GoodField(Field)
    BY <1>1, <1>2, <1>3, <1>7, ConnectionRefuses, NodeRefuses DEF GoodField, Directives, DirectiveKind
  <2>3. "UnsupportedDirectivePosition" # "panic"
    OBVIOUS
  <2> QED BY <1>1, <1>2, <2>1, <2>2, <2>3, NotGood, Fails
<1> QED BY <1>2, <1>5, <1>6, <1>7

\* At the end of a reading.
LEMMA AtEnd ==
  ASSUME ParseInv, stage = "fields", mode # "start", place \notin DOMAIN Directives
  PROVE  /\ todo # << >> /\ IsSequence(Directives) /\ place = Len(Directives) + 1
         /\ Walk(Field, reading, mode, place, taken, groups)
<1>1. todo # << >> /\ Walk(Field, reading, mode, place, taken, groups)
  BY DEF ParseInv, Field
<1>2. IsSequence(Directives)
  BY <1>1, FirstIsSelected DEF Walk, Accepted
<1>3. DOMAIN Directives = 1..Len(Directives) /\ Len(Directives) \in Nat
  BY <1>2, SequenceFacts
<1>4. place \in 1..Len(Directives) + 1
  BY <1>1 DEF Walk, Directives
<1>5. place = Len(Directives) + 1
  BY <1>3, <1>4
<1> QED BY <1>1, <1>2, <1>5

\* Reading a connection leaves other fields alone, and its own to be read.
LEMMA EndConnectionParses ==
  ASSUME ParseInv, EndConnection PROVE ParseInv'
<1> DEFINE x == todo[1]
           h == [connection |-> [taken |-> taken, groups |-> groups]]
<1>1. stage = "fields" /\ reading = "connection" /\ mode # "start" /\ place \notin DOMAIN Directives
  BY DEF EndConnection, Exhausted
<1>2. /\ todo # << >> /\ IsSequence(Directives) /\ place = Len(Directives) + 1
      /\ Walk(Field, reading, mode, place, taken, groups)
  BY <1>1, AtEnd
<1>3. /\ WellPlaced(Directives) /\ Elements(taken) = Places(Directives, ForConnection)
      /\ groups = GroupsOf(Directives)[Len(Directives) + 1] /\ Accepted(Field)
  BY <1>1, <1>2, ConnectionIsRead DEF Walk, Directives
<1>4. /\ fields' = [p \in DOMAIN fields \cup {x.path} |-> IF p = x.path THEN h ELSE fields[p]]
      /\ reading' = "node" /\ mode' = "start"
      /\ UNCHANGED <<document, stage, todo>>
  BY DEF EndConnection, Put
<1>5. x \in SelectedIn(document) /\ x \in Elements(todo)
  BY <1>1, <1>2, FirstIsSelected
<1>6. /\ x.path \in DOMAIN fields' /\ fields'[x.path] = h
      /\ \A p : p # x.path => (p \in DOMAIN fields' <=> p \in DOMAIN fields)
      /\ \A p \in DOMAIN fields : p # x.path => fields'[p] = fields[p]
  <2> HIDE DEF x, h
  <2> QED BY <1>4
<1>7. HasConnection(x, fields')
  <2>1. x.of = Field /\ x.of.directives = Directives
    BY DEF Field, Directives
  <2>2. h.connection.taken = taken /\ h.connection.groups = groups
    OBVIOUS
  <2> HIDE DEF x, h
  <2> QED BY <1>3, <1>6, <2>1, <2>2 DEF HasConnection
<1>8. ~ HasNode(x, fields')
  <2>1. "node" \notin DOMAIN h
    OBVIOUS
  <2> HIDE DEF h, x
  <2> QED BY <1>6, <2>1 DEF HasNode
<1>9. ReadIn(document, fields') = ReadIn(document, fields) \ {x}
  <2>1. \A s, t \in SelectedIn(document) : s.path = t.path => s = t
    BY DocumentsAreDocuments, SelectedFacts DEF ParseInv
  <2>2. ASSUME NEW s \in SelectedIn(document), s # x
        PROVE  HasNode(s, fields') <=> HasNode(s, fields)
    <3>1. s.path # x.path
      BY <1>5, <2>1, <2>2
    <3> HIDE DEF x
    <3>2. s.path \in DOMAIN fields' <=> s.path \in DOMAIN fields
      BY <1>6, <3>1
    <3>3. s.path \in DOMAIN fields => fields'[s.path] = fields[s.path]
      BY <1>6, <3>1
    <3> QED BY <3>2, <3>3 DEF HasNode, HasConnection
  <2> HIDE DEF x
  <2> QED BY <1>8, <2>2 DEF ReadIn
<1>10. Pending(document, todo, fields)
  BY <1>1 DEF ParseInv
<1>11. Pending(document, todo, fields')
  <2> HIDE DEF x
  <2> QED BY <1>5, <1>9, <1>10 DEF Pending
<1>12. Pending(document', todo', fields') /\ HasConnection(todo'[1], fields')
  BY <1>4, <1>7, <1>11
<1>13. RootOutcome(document') = None
  BY <1>1, <1>4 DEF ParseInv
<1> HIDE DEF x, h
<1> QED BY <1>1, <1>2, <1>4, <1>12, <1>13 DEF ParseInv

\* An element, by its place.
LEMMA InElements ==
  ASSUME NEW s, NEW i \in DOMAIN s PROVE s[i] \in Elements(s)
BY DEF Elements

\* The selections of a field go before what is still to be read.
Listed(path, items) == [i \in DOMAIN items |-> [path |-> Append(path, i), of |-> items[i]]]

\* Nothing is forgotten when they do.
LEMMA SelectionsGoFirst ==
  ASSUME NEW S, NEW td \in Seq(S), td # << >>, NEW items, IsSequence(items), NEW path,
         WithPaths(path, items) \subseteq S,
         NEW new, new = Listed(path, items) \o Tail(td)
  PROVE  /\ new \in Seq(S)
         /\ Elements(new) \cup {td[1]} = WithPaths(path, items) \cup Elements(td)
         /\ WithPaths(path, items) \subseteq Elements(new)
<1> DEFINE s == [i \in DOMAIN items |-> [path |-> Append(path, i), of |-> items[i]]]
           t == Tail(td)
           n == Len(items)
<1>0. new = s \o t
  BY DEF Listed
<1>1. n \in Nat /\ DOMAIN items = 1..n
  BY SequenceFacts
<1>2. \A i \in 1..n : s[i] \in WithPaths(path, items)
  BY <1>1 DEF WithPaths
<1>3. \A x \in WithPaths(path, items) : \E i \in 1..n : x = s[i]
  BY <1>1 DEF WithPaths
<1>4. DOMAIN s = 1..n
  BY <1>1
<1>5. s \in [1..n -> S]
  <2>1. \A i \in 1..n : s[i] \in S
    BY <1>2
  <2>2. s = [i \in 1..n |-> s[i]]
    BY <1>1
  <2> HIDE DEF s, n
  <2> QED BY <2>1, <2>2
<1>6. s \in Seq(S) /\ Len(s) = n
  <2> HIDE DEF s, n
  <2> QED BY <1>1, <1>5
<1>7. t \in Seq(S) /\ Len(td) \in Nat /\ Len(t) = Len(td) - 1 /\ \A i \in 1..Len(td) - 1 : t[i] = td[i + 1]
      /\ Len(td) >= 1 /\ DOMAIN td = 1..Len(td)
  OBVIOUS
<1> HIDE DEF s, t, n
<1>8. /\ new \in Seq(S) /\ Len(new) = n + Len(t) /\ DOMAIN new = 1..n + Len(t)
      /\ \A i \in 1..n : new[i] = s[i]
      /\ \A i \in n + 1..n + Len(t) : new[i] = t[i - n]
  <2>1. s \in Seq(S) /\ t \in Seq(S) /\ Len(s) = n
    BY <1>6, <1>7
  <2>2. new \in Seq(S) /\ Len(new) = n + Len(t)
    BY <1>0, <2>1, ConcatProperties
  <2>3. DOMAIN new = 1..n + Len(t)
    BY <2>2
  <2>4. \A i \in 1..n + Len(t) : new[i] = IF i <= n THEN s[i] ELSE t[i - n]
    <3> DEFINE c == s \o t
    <3>1. \A i \in 1..Len(s) + Len(t) : c[i] = IF i <= Len(s) THEN s[i] ELSE t[i - Len(s)]
      BY <2>1, ConcatProperties
    <3>2. new = c
      BY <1>0
    <3> HIDE DEF c
    <3> QED BY <2>1, <3>1, <3>2
  <2>5. Len(t) \in Nat
    BY <2>1
  <2>6. ASSUME NEW i \in 1..n PROVE new[i] = s[i]
    <3>1. i \in 1..n + Len(t) /\ i <= n
      BY <1>1, <2>5
    <3> QED BY <2>4, <3>1
  <2>7. ASSUME NEW i \in n + 1..n + Len(t) PROVE new[i] = t[i - n]
    <3>1. i \in 1..n + Len(t) /\ ~ (i <= n)
      BY <1>1, <2>5
    <3> QED BY <2>4, <3>1
  <2> QED BY <2>2, <2>3, <2>6, <2>7
<1>9. WithPaths(path, items) \subseteq Elements(new)
  <2>1. ASSUME NEW x \in WithPaths(path, items) PROVE x \in Elements(new)
    <3>1. PICK i \in 1..n : x = s[i]
      BY <1>3
    <3>2. i \in DOMAIN new /\ new[i] = x
      BY <1>1, <1>7, <1>8, <3>1
    <3> QED BY <3>2, InElements
  <2> QED BY <2>1
<1>10. \A x \in Elements(td) : x = td[1] \/ x \in Elements(new)
  <2>1. ASSUME NEW i \in DOMAIN td, i # 1 PROVE td[i] \in Elements(new)
    <3> DEFINE k == n + (i - 1)
    <3>1. i \in 2..Len(td) /\ i - 1 \in 1..Len(td) - 1 /\ (i - 1) + 1 = i
      BY <1>7, <2>1
    <3>2. t[i - 1] = td[i]
      BY <1>7, <3>1
    <3>3. k \in n + 1..n + Len(t) /\ k - n = i - 1 /\ k \in DOMAIN new
      BY <1>1, <1>7, <1>8, <3>1
    <3> HIDE DEF k
    <3>4. new[k] = t[k - n]
      BY <1>8, <3>3
    <3> QED BY <3>2, <3>3, <3>4, InElements
  <2> QED BY <2>1 DEF Elements
<1>11. \A i \in DOMAIN new : new[i] \in WithPaths(path, items) \cup Elements(td)
  <2>1. ASSUME NEW i \in 1..n + Len(t) PROVE new[i] \in WithPaths(path, items) \cup Elements(td)
    <3>1. CASE i \in 1..n
      BY <1>2, <1>8, <3>1
    <3>2. CASE i \in n + 1..n + Len(t)
      <4> DEFINE k == (i - n) + 1
      <4>1. i - n \in 1..Len(td) - 1 /\ k \in 1..Len(td)
        BY <1>1, <1>7, <3>2
      <4>2. new[i] = t[i - n] /\ t[i - n] = td[k]
        BY <1>7, <1>8, <3>2, <4>1
      <4> HIDE DEF k
      <4>3. k \in DOMAIN td
        BY <1>7, <4>1
      <4>4. td[k] \in Elements(td)
        BY <4>3, InElements
      <4> QED BY <4>2, <4>4
    <3>3. i \in 1..n \/ i \in n + 1..n + Len(t)
      <4>1. Len(t) \in Nat
        BY <1>7
      <4> QED BY <1>1, <4>1
    <3> QED BY <3>1, <3>2, <3>3
  <2> QED BY <1>8, <2>1
<1>12. td[1] \in Elements(td)
  <2>1. 1 \in DOMAIN td
    BY <1>7
  <2> QED BY <2>1, InElements
<1>13. \A x \in Elements(new) : x \in WithPaths(path, items) \cup Elements(td)
  BY <1>11 DEF Elements
<1>14. Elements(new) \cup {td[1]} = WithPaths(path, items) \cup Elements(td)
  BY <1>9, <1>10, <1>12, <1>13
<1> QED BY <1>8, <1>9, <1>14

\* Once the node is read, what is below it has still to be.
LEMMA EndNodeParses ==
  ASSUME ParseInv, EndNode PROVE ParseInv'
<1> DEFINE x == todo[1]
           h == [connection |-> fields[x.path].connection,
                 coercedTo |-> IF Fragment THEN Field.items[1].on ELSE None,
                 node |-> [taken |-> taken, groups |-> groups]]
<1>1. stage = "fields" /\ reading = "node" /\ mode # "start" /\ place \notin DOMAIN Directives
  BY DEF EndNode, Exhausted
<1>2. /\ todo # << >> /\ IsSequence(Directives) /\ place = Len(Directives) + 1
      /\ Walk(Field, reading, mode, place, taken, groups)
  BY <1>1, AtEnd
<1>3. /\ Elements(taken) =
           {i \in Places(Directives, ForNode) : \A j \in Places(Directives, {"transform"}) : i < j}
      /\ groups = GroupsOf(Directives)[Len(Directives) + 1] /\ Accepted(Field) /\ ItemsFit(Field)
  BY <1>1, <1>2, NodeIsRead DEF Walk, Directives
<1>4. /\ fields' = [p \in DOMAIN fields \cup {x.path} |-> IF p = x.path THEN h ELSE fields[p]]
      /\ todo' = [i \in DOMAIN Selections |-> [path |-> Append(x.path, i), of |-> Selections[i]]] \o Tail(todo)
      /\ reading' = "connection" /\ mode' = "start"
      /\ UNCHANGED <<document, stage>>
  BY DEF EndNode, Put
<1>5. /\ x \in SelectedIn(document) /\ x \in Elements(todo) /\ IsSelection(Field) /\ Field.kind = "field"
      /\ IsSequence(Field.items) /\ Field = x.of /\ Directives = x.of.directives
      /\ HasConnection(x, fields)
  <2>1. Field = x.of /\ Directives = x.of.directives
    BY DEF Field, Directives
  <2>2. HasConnection(x, fields)
    BY <1>1 DEF ParseInv
  <2>3. Field.kind = "field"
    BY <1>3 DEF Accepted
  <2> QED BY <1>1, <1>2, <2>1, <2>2, <2>3, FirstIsSelected
<1>6. /\ x.path \in DOMAIN fields' /\ fields'[x.path] = h
      /\ \A p : p # x.path => (p \in DOMAIN fields' <=> p \in DOMAIN fields)
      /\ \A p \in DOMAIN fields : p # x.path => fields'[p] = fields[p]
  <2> HIDE DEF x, h
  <2> QED BY <1>4
<1>7. HasNode(x, fields')
  <2>1. /\ h.connection = fields[x.path].connection /\ "node" \in DOMAIN h
        /\ h.node.taken = taken /\ h.node.groups = groups
    OBVIOUS
  <2> HIDE DEF x, h
  <2>2. HasConnection(x, fields')
    BY <1>5, <1>6, <2>1 DEF HasConnection
  <2> QED BY <1>3, <1>5, <1>6, <2>1, <2>2 DEF HasNode
<1>8. ReadIn(document, fields') = ReadIn(document, fields) \cup {x}
  <2>1. \A s, t \in SelectedIn(document) : s.path = t.path => s = t
    BY DocumentsAreDocuments, SelectedFacts DEF ParseInv
  <2>2. ASSUME NEW s \in SelectedIn(document), s # x
        PROVE  HasNode(s, fields') <=> HasNode(s, fields)
    <3>1. s.path # x.path
      BY <1>5, <2>1, <2>2
    <3> HIDE DEF x
    <3>2. s.path \in DOMAIN fields' <=> s.path \in DOMAIN fields
      BY <1>6, <3>1
    <3>3. s.path \in DOMAIN fields => fields'[s.path] = fields[s.path]
      BY <1>6, <3>1
    <3> QED BY <3>2, <3>3 DEF HasNode, HasConnection
  <2> HIDE DEF x
  <2> QED BY <1>5, <1>7, <2>2 DEF ReadIn
<1>9. Pending(document, todo, fields)
  BY <1>1 DEF ParseInv
<1>10. Selections = Chosen(x)
  <2>1. Fragment <=> Kinds(Field.items) = {"inline"}
    BY <1>3, <1>5, SelectionOutcomeIs DEF ItemsFit, Fragment, IsSelection
  <2> QED BY <1>5, <2>1 DEF Selections, Chosen
<1>11. /\ Below(x) = WithPaths(x.path, Selections) /\ IsSequence(Selections)
       /\ Below(x) \subseteq SelectedIn(document)
  <2>1. IsSelection(x.of) /\ x.of.kind = "field"
    BY <1>5
  <2>2. Below(x) = WithPaths(x.path, Chosen(x)) /\ IsSequence(Chosen(x))
    BY <2>1, BelowIs
  <2>3. Below(x) \subseteq SelectedIn(document)
    BY <1>5, DocumentsAreDocuments, SelectedFacts DEF ParseInv
  <2> QED BY <1>10, <2>2, <2>3
<1>12. /\ todo' \in Seq(SelectedIn(document))
       /\ Elements(todo') \cup {x} = Below(x) \cup Elements(todo)
       /\ Below(x) \subseteq Elements(todo')
  <2>1. todo \in Seq(SelectedIn(document)) /\ todo # << >>
    BY <1>2, <1>9 DEF Pending
  <2>2. todo' = Listed(x.path, Selections) \o Tail(todo)
    BY <1>4 DEF Listed
  <2>3. WithPaths(x.path, Selections) \subseteq SelectedIn(document) /\ IsSequence(Selections)
    BY <1>11
  <2>4. x = todo[1]
    OBVIOUS
  <2> HIDE DEF x
  <2>5. /\ todo' \in Seq(SelectedIn(document))
        /\ Elements(todo') \cup {todo[1]} = WithPaths(x.path, Selections) \cup Elements(todo)
        /\ WithPaths(x.path, Selections) \subseteq Elements(todo')
    <3> DEFINE S == SelectedIn(document)
               p == x.path
    <3>1. todo \in Seq(S) /\ todo # << >> /\ WithPaths(p, Selections) \subseteq S /\ IsSequence(Selections)
          /\ todo' = Listed(p, Selections) \o Tail(todo)
      BY <2>1, <2>2, <2>3
    <3> HIDE DEF S, p
    <3>2. \A new : new = Listed(p, Selections) \o Tail(todo) =>
                     /\ new \in Seq(S)
                     /\ Elements(new) \cup {todo[1]} = WithPaths(p, Selections) \cup Elements(todo)
                     /\ WithPaths(p, Selections) \subseteq Elements(new)
      BY <3>1, SelectionsGoFirst
    <3> QED BY <3>1, <3>2 DEF S, p
  <2> QED BY <1>11, <2>4, <2>5
<1>13. Pending(document, todo', fields')
  <2> HIDE DEF x
  <2>1. RootSelection(document) \in ReadIn(document, fields') \cup Elements(todo')
    BY <1>8, <1>9, <1>12 DEF Pending
  <2>2. \A s \in ReadIn(document, fields') : Below(s) \subseteq ReadIn(document, fields') \cup Elements(todo')
    BY <1>8, <1>9, <1>12 DEF Pending
  <2> QED BY <1>12, <2>1, <2>2 DEF Pending
<1>14. Pending(document', todo', fields') /\ RootOutcome(document') = None
  BY <1>1, <1>4, <1>13 DEF ParseInv
<1> HIDE DEF x, h
<1> QED BY <1>1, <1>4, <1>14 DEF ParseInv

\* With nothing left to read, the document is parsed.
LEMMA AllReadParses ==
  ASSUME ParseInv, AllRead PROVE ParseInv'
BY DEF AllRead, ParseInv

\* The invariant of parsing.
LEMMA Parses == ParseSpec => []ParseInv
<1>1. ASSUME ParseInv, [ParseNext]_parseVars PROVE ParseInv'
  <2>1. CASE ReadRoot
    BY <1>1, <2>1, ReadRootParses
  <2>2. CASE RefuseRoot
    BY <1>1, <2>2, RefuseRootParses
  <2>3. CASE BeginConnection
    BY <1>1, <2>3, BeginConnectionParses
  <2>4. CASE BeginNode
    BY <1>1, <2>4, BeginNodeParses
  <2>5. CASE RefuseSelection
    BY <1>1, <2>5, RefuseSelectionParses
  <2>6. CASE ConnectionDirective
    BY <1>1, <2>6, ConnectionDirectiveParses
  <2>7. CASE NodeDirective
    BY <1>1, <2>7, NodeDirectiveParses
  <2>8. CASE FoldDirective
    BY <1>1, <2>8, FoldDirectiveParses
  <2>9. CASE TransformDirective
    BY <1>1, <2>9, TransformDirectiveParses
  <2>10. CASE EndConnection
    BY <1>1, <2>10, EndConnectionParses
  <2>11. CASE EndNode
    BY <1>1, <2>11, EndNodeParses
  <2>12. CASE AllRead
    BY <1>1, <2>12, AllReadParses
  <2>13. CASE UNCHANGED parseVars
    BY <1>1, <2>13 DEF ParseInv, parseVars
  <2>14. CASE ParseDone
    BY <2>13, <2>14 DEF ParseDone
  <2> QED BY <1>1, <2>1, <2>2, <2>3, <2>4, <2>5, <2>6, <2>7, <2>8, <2>9, <2>10, <2>11, <2>12, <2>13, <2>14 DEF ParseNext
<1> QED BY <1>1, InitParses, PTL DEF ParseSpec

\* When all is parsed, all has been read.
LEMMA AllIsRead ==
  ASSUME ParseInv, stage = "parsed"
  PROVE  \A s \in SelectedIn(document) : HasNode(s, fields) /\ IsSelection(s.of)
<1> DEFINE R == ReadIn(document, fields)
<1>1. Pending(document, todo, fields) /\ todo = << >> /\ IsDocument(document)
  BY DocumentsAreDocuments DEF ParseInv
<1>2. Elements(<< >>) = {}
  BY DEF Elements
<1>3. RootSelection(document) \in R /\ \A s \in R \cap SelectedIn(document) : Below(s) \subseteq R
  BY <1>1, <1>2 DEF Pending
<1>4. SelectedIn(document) \subseteq R
  <2> HIDE DEF R
  <2> QED BY <1>1, <1>3, SelectedFacts
<1>5. \A s \in SelectedIn(document) : IsSelection(s.of)
  BY <1>1, SelectedFacts
<1> QED BY <1>4, <1>5 DEF ReadIn

\* parse_document() accepts a document if, and only if, it is grammatical: the two
\* readings of a field, of which each skips what is for the other, refuse together
\* what no place is for, and nothing else; and it panics only about an operand
\* without a name.
THEOREM DecidesByGrammarHolds == ParseSpec => []DecidesByGrammar
<1>1. ParseInv => DecidesByGrammar
  <2>1. ASSUME ParseInv, stage = "parsed" PROVE Grammatical
    <3>1. \A s \in SelectedIn(document) : GoodField(s.of)
      BY <2>1, AllIsRead DEF HasNode, HasConnection, Accepted, ItemsFit, GoodField
    <3>2. RootOutcome(document) = None
      BY <2>1 DEF ParseInv
    <3> QED BY <3>1, <3>2 DEF Grammatical, Selected
  <2>2. ASSUME ParseInv, stage = "rejected" PROVE ~ Grammatical
    BY <2>2 DEF ParseInv, IsGrammatical, Grammatical, Selected
  <2>3. ASSUME ParseInv, stage = "panicked" PROVE PanicsOn(document)
    BY <2>3 DEF ParseInv
  <2> QED BY <2>1, <2>2, <2>3 DEF DecidesByGrammar, PanicsOn, Selected
<1> QED BY <1>1, Parses, PTL

\* Every directive of a parsed document is in the connection, the node or a group,
\* and in one of them only; the groups of the connection and of the node, which are
\* made twice, are the same.
THEOREM EveryDirectiveOnceHolds == ParseSpec => []EveryDirectiveOnce
<1>1. ASSUME ParseInv PROVE EveryDirectiveOnce
  <2> SUFFICES ASSUME stage = "parsed", NEW s \in SelectedIn(document)
               PROVE  LET c == fields[s.path].connection
                          n == fields[s.path].node
                          ds == s.of.directives
                          begins == {g.transform : g \in Elements(c.groups)}
                          In(g) == {i \in g.transform + 1..Len(ds) : \A j \in begins : j > i \/ j <= g.transform}
                      IN  /\ Elements(c.taken) = Places(ds, {"optional", "recurse", "fold"})
                          /\ Elements(n.taken) = {i \in Places(ds, {"filter", "output", "tag"}) : \A j \in begins : i < j}
                          /\ begins = Places(ds, {"transform"})
                          /\ n.groups = c.groups
                          /\ \A g \in Elements(c.groups) : Elements(g.taken) = In(g)
    BY DEF EveryDirectiveOnce, Selected
  <2> DEFINE c == fields[s.path].connection
             n == fields[s.path].node
             ds == s.of.directives
             gs == GroupsOf(ds)[Len(ds) + 1]
             T == Places(ds, {"transform"})
  <2>1. HasNode(s, fields) /\ IsSelection(s.of)
    BY <1>1, AllIsRead
  <2>2. IsSequence(ds) /\ s.of.kind = "field"
    BY <2>1 DEF HasNode, HasConnection, Accepted, IsSelection
  <2>3. /\ Elements(c.taken) = Places(ds, ForConnection) /\ c.groups = gs /\ n.groups = gs
        /\ Elements(n.taken) = {i \in Places(ds, ForNode) : \A j \in T : i < j}
    BY <2>1 DEF HasNode, HasConnection
  <2> HIDE DEF c, n
  <2>4. Len(ds) \in Nat /\ DOMAIN ds = 1..Len(ds) /\ Len(ds) + 1 \in 1..Len(ds) + 1
    BY <2>2, SequenceFacts
  <2>5. GroupFacts(gs, ds, Len(ds) + 1)
    BY <2>2, <2>4, GroupsHaveAll
  <2> HIDE DEF gs
  <2>6. T \subseteq Nat /\ \A i \in T : i < Len(ds) + 1
    BY <2>4 DEF Places
  <2>7. {g.transform : g \in Elements(gs)} = T
    BY <2>5, <2>6 DEF GroupFacts, Elements
  <2>8. ASSUME NEW g \in Elements(gs)
        PROVE  Elements(g.taken) = {i \in g.transform + 1..Len(ds) : \A j \in T : j > i \/ j <= g.transform}
    <3>1. PICK k \in DOMAIN gs : g = gs[k]
      BY DEF Elements
    <3>2. Elements(g.taken) = InGroup(ds, g.transform, Len(ds) + 1)
      BY <2>5, <3>1 DEF GroupFacts
    <3>3. (Len(ds) + 1) - 1 = Len(ds)
      BY <2>4
    <3> QED BY <2>6, <3>2, <3>3 DEF InGroup
  <2> HIDE DEF ds, T
  <2> QED BY <2>3, <2>7, <2>8 DEF ForConnection, ForNode, ds, T, c, n
<1> QED BY <1>1, Parses, PTL
-----------------------------------------------------------------------------
(* Type correctness.                                                       *)

\* An outcome is None or an error.
Outcomes == {None} \cup Errors

\* A @filter comes to one,
LEMMA FilterOutcomes ==
  ASSUME NEW d, IsDirective(d) PROVE ParseFilter(d) \in Outcomes
<1> DEFINE list == FilterList(d)
           wrong == {i \in DOMAIN list : FilterArgument(list[i]) # None}
<1>1. \A s : FilterArgument(s) \in Outcomes
  BY DEF FilterArgument, Outcomes, Errors
<1>2. {"MissingRequiredDirectiveArgument", "InappropriateTypeForDirectiveArgument", "OtherError",
       "UnsupportedFilterOperator", None} \subseteq Outcomes
  BY DEF Outcomes, Errors
<1> HIDE DEF wrong, list
<1> QED BY <1>1, <1>2 DEF ParseFilter, wrong, list

\* and so does any directive,
LEMMA DirectiveOutcomes ==
  ASSUME NEW d, IsDirective(d) PROVE ParseDirective(d) \in Outcomes
<1>1. {"UnrecognizedDirectiveArgument", "DuplicatedDirectiveArgument", "InappropriateTypeForDirectiveArgument",
       "InvalidOutputName", "InvalidTagName", "MissingRequiredDirectiveArgument", "UnsupportedTransformOperator",
       "UnrecognizedDirective", None} \subseteq Outcomes
  BY DEF Outcomes, Errors
<1>2. \A n : NameCheck(d, {n}) \in Outcomes
  BY <1>1 DEF NameCheck
<1>3. \A v, e : e \in Outcomes => EnsureNameIsValid(v, e) \in Outcomes
  BY <1>1 DEF EnsureNameIsValid
<1>4. ParseOutput(d) \in Outcomes /\ ParseTag(d) \in Outcomes
  BY <1>1, <1>2, <1>3 DEF ParseOutput, ParseTag, ParseNamed
<1>5. ParseTransform(d) \in Outcomes /\ ParseRecurse(d) \in Outcomes /\ ParseBare(d) \in Outcomes
  BY <1>1, <1>2 DEF ParseTransform, ParseRecurse, ParseBare
<1>6. ParseFilter(d) \in Outcomes
  BY FilterOutcomes
<1> QED BY <1>1, <1>4, <1>5, <1>6 DEF ParseDirective

\* a list of them,
LEMMA ListOutcomes ==
  ASSUME NEW ds, IsSequence(ds), \A d \in Elements(ds) : IsDirective(d)
  PROVE  MakeDirectives(ds) \in Outcomes
<1> DEFINE wrong == {i \in DOMAIN ds : ParseDirective(ds[i]) # None}
<1>1. CASE wrong = {}
  BY <1>1 DEF MakeDirectives, Outcomes
<1>2. CASE wrong # {}
  <2>1. wrong \subseteq Nat
    BY SequenceFacts
  <2>2. Least(wrong) \in DOMAIN ds
    <3>1. wrong \subseteq DOMAIN ds
      OBVIOUS
    <3> HIDE DEF wrong
    <3> QED BY <1>2, <2>1, <3>1, LeastIsMember
  <2>3. ds[Least(wrong)] \in Elements(ds)
    BY <2>2, SequenceFacts
  <2>4. MakeDirectives(ds) = ParseDirective(ds[Least(wrong)])
    BY <1>2 DEF MakeDirectives
  <2> HIDE DEF wrong
  <2> QED BY <2>3, <2>4, DirectiveOutcomes
<1> QED BY <1>1, <1>2

\* and what is read beside them.
LEMMA OtherOutcomes ==
  /\ \A doc : RootOutcome(doc) \in Outcomes
  /\ \A args : ArgumentsOutcome(args) \in Outcomes
<1>1. \A doc : RootOutcome(doc) \in Outcomes
  BY DEF RootOutcome, Outcomes, Errors
<1>2. {"InvalidFieldArgument", "DuplicatedEdgeParameter", None} \subseteq Outcomes
  BY DEF Outcomes, Errors
<1>3. \A args : ArgumentsOutcome(args) \in Outcomes
  BY <1>2 DEF ArgumentsOutcome
<1> QED BY <1>1, <1>3

\* What a step leaves of the fields read so far, if it ends none.
LEMMA KeepsTypes ==
  ASSUME ParseTypeOK, stage' \in {"root", "fields", "parsed", "rejected", "panicked"},
         error' \in Outcomes, UNCHANGED <<reading, fields>>,
         mode' \in {"start", "directives", "fold", "transform"}, place' \in Nat \ {0},
         taken' \in Seq(Nat \ {0}), groups' \in Seq(Group)
  PROVE  ParseTypeOK'
BY DEF ParseTypeOK, Outcomes, Held

\* What the types say of each thing, and of what is made of them.
LEMMA TypesKept ==
  ASSUME ParseTypeOK
  PROVE  /\ stage \in {"root", "fields", "parsed", "rejected", "panicked"}
         /\ error \in Outcomes /\ place \in Nat \ {0} /\ place + 1 \in Nat \ {0}
         /\ mode \in {"start", "directives", "fold", "transform"} /\ reading \in {"connection", "node"}
         /\ taken \in Seq(Nat \ {0}) /\ groups \in Seq(Group)
         /\ << >> \in Seq(Nat \ {0}) /\ << >> \in Seq(Group)
         /\ Append(taken, place) \in Seq(Nat \ {0})
         /\ Append(groups, [transform |-> place, taken |-> << >>]) \in Seq(Group)
         /\ [groups EXCEPT ![Len(groups)].taken = Append(@, place)] \in Seq(Group)
<1>1. /\ error \in Outcomes /\ place \in Nat \ {0} /\ place + 1 \in Nat \ {0}
      /\ taken \in Seq(Nat \ {0}) /\ groups \in Seq(Group)
  BY DEF ParseTypeOK, Outcomes, Held
<1>2. << >> \in Seq(Nat \ {0}) /\ << >> \in Seq(Group)
  OBVIOUS
<1>3. Append(taken, place) \in Seq(Nat \ {0})
  BY <1>1
<1> DEFINE g == [transform |-> place, taken |-> << >>]
<1>4. g \in Group
  BY <1>1, <1>2 DEF Group
<1>5. Append(groups, g) \in Seq(Group)
  <2> HIDE DEF g
  <2> QED BY <1>1, <1>4
<1> DEFINE n == Len(groups)
           h == [groups EXCEPT ![n].taken = Append(@, place)]
<1>6. h \in Seq(Group)
  <2>1. DOMAIN groups = 1..n /\ n \in Nat /\ \A k \in 1..n : groups[k] \in Group
    BY <1>1
  <2>2. ASSUME NEW k \in 1..n PROVE h[k] \in Group
    <3>1. groups[k].transform \in Nat \ {0} /\ groups[k].taken \in Seq(Nat \ {0}) /\ groups[k] \in Group
      BY <2>1 DEF Group
    <3>2. Append(groups[k].taken, place) \in Seq(Nat \ {0})
      BY <1>1, <3>1
    <3> HIDE DEF n
    <3>3. [groups[k] EXCEPT !.taken = Append(groups[k].taken, place)] \in Group
      BY <3>1, <3>2 DEF Group
    <3> QED BY <2>1, <3>1, <3>3
  <2>3. h \in [1..n -> Group]
    <3>1. DOMAIN h = 1..n /\ h = [k \in 1..n |-> h[k]]
      <4> HIDE DEF n
      <4> QED BY <2>1
    <3> HIDE DEF h, n
    <3> QED BY <2>2, <3>1
  <2> HIDE DEF h, n
  <2> QED BY <2>1, <2>3
<1> QED BY <1>1, <1>2, <1>3, <1>5, <1>6 DEF ParseTypeOK

\* A failure leaves an error.
LEMMA FailKeepsTypes ==
  ASSUME ParseTypeOK, NEW outcome \in Outcomes, Fail(outcome) PROVE ParseTypeOK'
<1>1. stage' \in {"panicked", "rejected"} /\ error' = outcome
      /\ UNCHANGED <<reading, mode, place, taken, groups, fields>>
  BY DEF Fail
<1> QED BY <1>1, TypesKept, KeepsTypes

\* So do the other things that a directive or a selection can come to.
LEMMA PartsKeepTypes ==
  ASSUME ParseTypeOK
  PROVE  /\ Begin => ParseTypeOK'
         /\ \A to \in {"directives", "fold"} : Take(to) => ParseTypeOK'
         /\ Skip => ParseTypeOK'
         /\ BeginGroup => ParseTypeOK'
<1>1. ASSUME Begin PROVE ParseTypeOK'
  BY <1>1, TypesKept, KeepsTypes DEF Begin
<1>2. ASSUME NEW to \in {"directives", "fold"}, Take(to) PROVE ParseTypeOK'
  BY <1>2, TypesKept, KeepsTypes DEF Take
<1>3. ASSUME Skip PROVE ParseTypeOK'
  BY <1>3, TypesKept, KeepsTypes DEF Skip
<1>4. ASSUME BeginGroup PROVE ParseTypeOK'
  BY <1>4, TypesKept, KeepsTypes DEF BeginGroup
<1> QED BY <1>1, <1>2, <1>3, <1>4

\* What is put at a path has its types, if what is held there has.
LEMMA PutKeepsTypes ==
  ASSUME ParseTypeOK, UNCHANGED <<stage, error, place, taken, groups>>, mode' = "start",
         reading' \in {"connection", "node"}, NEW path, NEW value, value.connection \in Held,
         "node" \in DOMAIN value => value.node \in Held, fields' = Put(path, value)
  PROVE  ParseTypeOK'
<1>1. DOMAIN fields' = DOMAIN fields \cup {path}
  BY DEF Put
<1>2. \A p \in DOMAIN fields' : fields'[p] = IF p = path THEN value ELSE fields[p]
  BY DEF Put
<1>3. \A p \in DOMAIN fields' :
        /\ fields'[p].connection \in Held
        /\ "node" \in DOMAIN fields'[p] => fields'[p].node \in Held
  BY <1>1, <1>2 DEF ParseTypeOK
<1> QED BY <1>3 DEF ParseTypeOK

\* A connection,
LEMMA EndConnectionKeepsTypes ==
  ASSUME ParseTypeOK, EndConnection PROVE ParseTypeOK'
<1> DEFINE h == [connection |-> [taken |-> taken, groups |-> groups]]
<1>1. h.connection \in Held /\ "node" \notin DOMAIN h
  BY DEF ParseTypeOK
<1>2. /\ fields' = Put(todo[1].path, h) /\ reading' = "node" /\ mode' = "start"
      /\ UNCHANGED <<stage, error, place, taken, groups>>
  BY DEF EndConnection
<1> HIDE DEF h
<1> QED BY <1>1, <1>2, PutKeepsTypes

\* and a node, which keeps the connection.
LEMMA EndNodeKeepsTypes ==
  ASSUME ParseInv, ParseTypeOK, EndNode PROVE ParseTypeOK'
<1> DEFINE path == todo[1].path
           h == [connection |-> fields[path].connection,
                 coercedTo |-> IF Fragment THEN Field.items[1].on ELSE None,
                 node |-> [taken |-> taken, groups |-> groups]]
<1>1. path \in DOMAIN fields
  BY DEF EndNode, Exhausted, ParseInv, HasConnection
<1>2. h.connection = fields[path].connection /\ h.node = [taken |-> taken, groups |-> groups]
  OBVIOUS
<1>3. /\ fields' = Put(path, h) /\ reading' = "connection" /\ mode' = "start"
      /\ UNCHANGED <<stage, error, place, taken, groups>>
  BY DEF EndNode
<1> HIDE DEF h, path
<1>4. h.connection \in Held /\ h.node \in Held
  BY <1>1, <1>2 DEF ParseTypeOK
<1> QED BY <1>3, <1>4, PutKeepsTypes

\* An error is one of those that the parser reports; what is parsed is made of
\* places of directives; and the node of a field is made when its connection is.
THEOREM ParseTypeCorrect == ParseSpec => []ParseTypeOK
<1>1. ParseInit => ParseTypeOK
  <2>1. << >> \in Seq(Nat \ {0}) /\ << >> \in Seq(Group) /\ DOMAIN << >> = {} /\ 1 \in Nat \ {0}
    OBVIOUS
  <2> QED BY <2>1 DEF ParseInit, ParseTypeOK, Held
<1>2. ASSUME ParseInv, ParseTypeOK, [ParseNext]_parseVars PROVE ParseTypeOK'
  <2> USE <1>2
  <2>0. {"UnsupportedSyntax", "NestedTypeCoercion", "TypeCoercionWithSiblingFields", "OtherError",
         "UnsupportedDuplicatedDirective", "UnsupportedDirectivePosition"} \subseteq Outcomes
    BY DEF Outcomes, Errors
  <2>1. CASE ReadRoot
    <3>1. stage' = "fields" /\ UNCHANGED <<error, reading, mode, place, taken, groups, fields>>
      BY <2>1 DEF ReadRoot
    <3> QED BY <3>1, TypesKept, KeepsTypes
  <2>2. CASE RefuseRoot
    BY <2>2, FailKeepsTypes, OtherOutcomes DEF RefuseRoot
  <2>3. CASE BeginConnection
    <3>1. stage = "fields" /\ todo # << >> /\ Field.kind = "field"
      BY <2>3 DEF BeginConnection, Reading
    <3>2. ConnectionOutcome \in Outcomes
      BY <3>1, FirstIsSelected, OtherOutcomes, ListOutcomes DEF ConnectionOutcome
    <3> QED BY <2>3, <3>2, FailKeepsTypes, PartsKeepTypes DEF BeginConnection
  <2>4. CASE BeginNode
    <3>1. stage = "fields" /\ todo # << >> /\ reading = "node"
      BY <2>4 DEF BeginNode, Reading
    <3>2. Field.kind = "field"
      BY <3>1 DEF ParseInv, HasConnection, Accepted, Field
    <3>3. SelectionOutcome \in Outcomes
      BY <2>0, <3>1, <3>2, FirstIsSelected, ListOutcomes DEF SelectionOutcome
    <3> QED BY <2>4, <3>3, FailKeepsTypes, PartsKeepTypes DEF BeginNode
  <2>5. CASE RefuseSelection
    BY <2>0, <2>5, FailKeepsTypes DEF RefuseSelection
  <2>6. CASE ConnectionDirective
    BY <2>0, <2>6, FailKeepsTypes, PartsKeepTypes DEF ConnectionDirective
  <2>7. CASE NodeDirective
    BY <2>7, PartsKeepTypes DEF NodeDirective
  <2>8. CASE FoldDirective
    BY <2>0, <2>8, FailKeepsTypes, PartsKeepTypes DEF FoldDirective
  <2>9. CASE TransformDirective
    <3>1. ASSUME TakeIntoGroup, place' = place + 1,
                 UNCHANGED <<document, stage, error, todo, reading, mode, taken, fields>>
          PROVE  ParseTypeOK'
      BY <3>1, TypesKept, KeepsTypes DEF TakeIntoGroup
    <3> QED BY <2>0, <2>9, <3>1, FailKeepsTypes, PartsKeepTypes DEF TransformDirective
  <2>10. CASE EndConnection
    BY <2>10, EndConnectionKeepsTypes
  <2>11. CASE EndNode
    BY <2>11, EndNodeKeepsTypes
  <2>12. CASE AllRead
    <3>1. stage' = "parsed" /\ UNCHANGED <<error, reading, mode, place, taken, groups, fields>>
      BY <2>12 DEF AllRead
    <3> QED BY <3>1, TypesKept, KeepsTypes
  <2>13. CASE UNCHANGED parseVars
    BY <2>13 DEF ParseTypeOK, parseVars
  <2>14. CASE ParseDone
    BY <2>13, <2>14 DEF ParseDone
  <2> QED BY <2>1, <2>2, <2>3, <2>4, <2>5, <2>6, <2>7, <2>8, <2>9, <2>10, <2>11, <2>12, <2>13, <2>14 DEF ParseNext
<1> QED BY <1>1, <1>2, Parses, PTL DEF ParseSpec
=============================================================================
