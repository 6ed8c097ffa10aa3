---------------------------- MODULE FilterTypes -----------------------------
(***************************************************************************)
(* The types of filters and of the query's variables.  The frontend checks *)
(* each filter and infers the type of its variable (make_filter_expr of    *)
(* frontend/mod.rs, operand_types_valid of ir/mod.rs), intersects the      *)
(* types of all uses of a variable (fill_in_query_variables), and the      *)
(* interpreter checks the arguments against the result                     *)
(* (InterpretedQuery::from_query_and_arguments).  Filters then run on the  *)
(* values of properties (filtering.rs), where a kind of value that does    *)
(* not belong there is a panic.                                            *)
(* Types are those of module Types.                                        *)
(***************************************************************************)
EXTENDS Types

CONSTANTS Variable,  \* names of variables
          Queries,   \* the filters of each query to process
          Values,    \* values of properties, tags and arguments
          Arguments  \* the arguments a query may be run with

\* An operator stands for its negation as well; "order" for the four comparisons,
\* "string" for those on prefixes, suffixes and substrings.
Operator == {"is_null", "equality", "order", "contains", "one_of", "string", "regex"}
Operand == [kind : {"variable"}, name : Variable] \cup [kind : {"tag"}, type : Type]
             \cup [kind : {"number", "none"}]
Filter == [type : Type, op : Operator, right : Operand]

ASSUME FiltersAreFilters ==
  \A q \in Queries : q \in Seq(Filter)
    /\ \A i \in DOMAIN q : q[i].op = "is_null" <=> q[i].right.kind = "none"
ASSUME ValuesAreValues == Values \subseteq Value
ASSUME ArgumentsAreValues ==
  \A a \in Arguments : DOMAIN a \subseteq Variable /\ \A n \in DOMAIN a : a[n] \in Values

VARIABLES query,     \* the filters, in the order of fill_in_query_variables
          phase,
          at,        \* the next filter, or the next use of a variable
          uses,      \* the variables of the filters made
          failed,    \* an error was found
          variables, \* IRQuery.variables
          arguments

vars == <<query, phase, at, uses, failed, variables, arguments>>

Use == [name : Variable, type : Type]

-----------------------------------------------------------------------------
(* The frontend makes the filters.                                         *)

Init ==
  /\ query \in Queries
  /\ phase = "filters"
  /\ at = 1
  /\ uses = << >>
  /\ failed = FALSE
  /\ variables = << >>
  /\ arguments = << >>

\* infer_variable_type
Infer(f) == CASE f.op = "equality" -> f.type
              [] f.op = "order" -> NonNull(f.type)
              [] f.op = "contains" -> Inner(f.type)
              [] f.op = "one_of" -> NonNullListOf(f.type)
              [] f.op \in {"string", "regex"} -> NonNullScalar("String")

CannotInfer(f) == f.right.kind = "variable" /\ f.op = "contains" /\ ~ IsList(f.type)

RightType(f) == CASE f.right.kind = "variable" -> Infer(f)
                  [] f.right.kind = "tag" -> f.right.type
                  [] f.right.kind = "number" -> NonNullScalar("Int")

IsString(t) == t.base = "String" /\ ~ IsList(t)

\* operand_types_valid: the left operand is not one for this operator.
LeftMisfits(f) ==
  \/ f.op = "is_null" /\ ~ f.type.nullable[1]
  \/ f.op = "order" /\ ~ Orderable(f.type)
  \/ f.op = "contains" /\ ~ IsList(f.type)
  \/ f.op \in {"string", "regex"} /\ ~ IsString(f.type)

\* Mutant of RightMisfits: an ordering only looks at each operand by itself.
RightMisfitsAlone(f) ==
  \/ f.op = "equality" /\ ~ Compatible(f.type, RightType(f))
  \/ f.op = "order" /\ ~ Orderable(RightType(f))
  \/ f.op = "contains" /\ IsList(f.type) /\ ~ Compatible(Inner(f.type), RightType(f))
  \/ /\ f.op = "one_of"
     /\ ~ IsList(RightType(f)) \/ ~ Compatible(f.type, Inner(RightType(f)))
  \/ f.op \in {"string", "regex"} /\ ~ IsString(RightType(f))

\* operand_types_valid: the right operand is not, or not with this left one.  The
\* error is about a tag: as_tag() is unwrapped.
RightMisfits(f) ==
  \/ f.op = "equality" /\ ~ Compatible(f.type, RightType(f))
  \/ /\ f.op = "order"
     /\ ~ Orderable(RightType(f)) \/ ~ Compatible(f.type, RightType(f))
  \/ f.op = "contains" /\ IsList(f.type) /\ ~ Compatible(Inner(f.type), RightType(f))
  \/ /\ f.op = "one_of"
     /\ ~ IsList(RightType(f)) \/ ~ Compatible(f.type, Inner(RightType(f)))
  \/ f.op \in {"string", "regex"} /\ ~ IsString(RightType(f))

Making == phase = "filters" /\ at \in DOMAIN query

Misfits(f) == LeftMisfits(f) \/ RightMisfits(f)

MakeFilter ==
  /\ Making
  /\ ~ CannotInfer(query[at]) /\ ~ Misfits(query[at])
  /\ uses' = IF query[at].right.kind = "variable"
               THEN Append(uses, [name |-> query[at].right.name, type |-> Infer(query[at])])
               ELSE uses
  /\ at' = at + 1
  /\ UNCHANGED <<query, phase, failed, variables, arguments>>

ReportFilter ==
  /\ Making
  /\ \/ CannotInfer(query[at])
     \/ /\ Misfits(query[at])
        /\ RightMisfits(query[at]) => query[at].right.kind = "tag"
  /\ failed' = TRUE
  /\ at' = at + 1
  /\ UNCHANGED <<query, phase, uses, variables, arguments>>

UnwrapNoTag ==
  /\ Making
  /\ ~ CannotInfer(query[at]) /\ RightMisfits(query[at])
  /\ query[at].right.kind # "tag"
  /\ phase' = "frontend panicked"
  /\ UNCHANGED <<query, at, uses, failed, variables, arguments>>

\* make_ir_for_query goes on to the variables if the components have no error.
FiltersMade ==
  /\ phase = "filters" /\ at \notin DOMAIN query
  /\ phase' = IF failed THEN "bad filters" ELSE "variables"
  /\ at' = 1
  /\ UNCHANGED <<query, uses, failed, variables, arguments>>

\* The type a variable has so far, given this use.
Existing(use) == IF use.name \in DOMAIN variables THEN variables[use.name] ELSE use.type

Narrowed(use) == IF Compatible(Existing(use), use.type)
                   THEN Intersection(Existing(use), use.type) ELSE Existing(use)

WithVariable(name, type) ==
  [n \in DOMAIN variables \cup {name} |-> IF n = name THEN type ELSE variables[n]]

\* Mutant of FillInVariable: only the last error is returned.
FillInVariableOrFail ==
  /\ phase = "variables" /\ at \in DOMAIN uses
  /\ variables' = WithVariable(uses[at].name, Narrowed(uses[at]))
  /\ failed' = ~ Compatible(Existing(uses[at]), uses[at].type)
  /\ at' = at + 1
  /\ UNCHANGED <<query, phase, uses, arguments>>

\* fill_in_query_variables, of one use.
FillInVariable ==
  /\ phase = "variables" /\ at \in DOMAIN uses
  /\ variables' = WithVariable(uses[at].name, Narrowed(uses[at]))
  /\ failed' = (failed \/ ~ Compatible(Existing(uses[at]), uses[at].type))
  /\ at' = at + 1
  /\ UNCHANGED <<query, phase, uses, arguments>>

VariablesFilledIn ==
  /\ phase = "variables" /\ at \notin DOMAIN uses
  /\ phase' = IF failed THEN "bad variables" ELSE "ready"
  /\ UNCHANGED <<query, at, uses, failed, variables, arguments>>

-----------------------------------------------------------------------------
(* The interpreter runs the query with arguments.                          *)

\* Mutant of Acceptable: a variable that is not given is not looked at.
AcceptableIfGiven(given) ==
  \A n \in DOMAIN given : n \in DOMAIN variables /\ Valid(variables[n], given[n])

\* No argument is missing, none is unused, each is valid.
Acceptable(given) ==
  /\ DOMAIN given = DOMAIN variables
  /\ \A n \in DOMAIN given : Valid(variables[n], given[n])

\* from_query_and_arguments
FromQueryAndArguments ==
  /\ phase = "ready"
  /\ arguments' \in Arguments
  /\ phase' = IF Acceptable(arguments') THEN "running" ELSE "bad arguments"
  /\ UNCHANGED <<query, at, uses, failed, variables>>

\* The kind of a value is its part at depth 1.
IsA(v, kinds) == \E part \in v : part.depth = 1 /\ part.kind \in kinds

\* apply_filter of a filter on these values ends in a panic.
Panics(f, left, right) ==
  \/ /\ f.op = "order"
     /\ ~ IsA(left, {"null"}) /\ ~ IsA(right, {"null"})
     /\ ~ \E kinds \in {{"regex", "text"}, {"date"}, {"int"}, {"float"}} :
            IsA(left, kinds) /\ IsA(right, kinds)
  \/ f.op = "contains" /\ ~ IsA(left, {"null", "list"})
  \/ f.op = "one_of" /\ ~ IsA(right, {"null", "list"})
  \/ f.op \in {"string", "regex"} /\ ~ IsA(left, {"null", "regex", "text"})
  \/ f.op = "string" /\ ~ IsA(right, {"null", "regex", "text"})
  \/ /\ f.op = "regex"
     /\ ~ IsA(right, IF f.right.kind = "tag" THEN {"null", "regex", "text"} ELSE {"regex"})

\* What a filter's right operand may be in this run.
RightValues(f) ==
  CASE f.right.kind = "variable" -> {arguments[f.right.name]}
    [] f.right.kind = "tag" -> {v \in Values : Valid(f.right.type, v)}
    [] f.right.kind = "number" -> {{[depth |-> 1, kind |-> "int"]}}
    [] f.right.kind = "none" -> {{}}

\* Filters run on values that are of their types, as adapters must provide.
ApplyFilter ==
  /\ phase = "running"
  /\ \E i \in DOMAIN query : \E left \in Values, right \in RightValues(query[i]) :
       /\ Valid(query[i].type, left)
       /\ Panics(query[i], left, right)
       /\ at' = i
       /\ phase' = "filter panicked"
  /\ UNCHANGED <<query, uses, failed, variables, arguments>>

\* Running filters without a panic changes nothing here.
Done ==
  /\ phase \in {"bad filters", "frontend panicked", "bad variables", "bad arguments",
                "running", "filter panicked"}
  /\ UNCHANGED vars

Next == \/ MakeFilter \/ ReportFilter \/ UnwrapNoTag \/ FiltersMade
        \/ FillInVariable \/ VariablesFilledIn
        \/ FromQueryAndArguments \/ ApplyFilter \/ Done

Spec == Init /\ [][Next]_vars

-----------------------------------------------------------------------------

Phase == {"filters", "bad filters", "frontend panicked", "variables", "bad variables",
          "ready", "bad arguments", "running", "filter panicked"}

\* Every variable holds what its field in the code may hold, and each loop is
\* within what it goes through.
TypeOK ==
  /\ query \in Queries
  /\ phase \in Phase
  /\ at \in Nat \ {0}
  /\ phase = "filters" => at =< Len(query) + 1
  /\ phase = "variables" => at =< Len(uses) + 1
  /\ uses \in Seq(Use)
  /\ failed \in BOOLEAN
  /\ DOMAIN variables \subseteq Variable /\ \A n \in DOMAIN variables : variables[n] \in Type
  /\ DOMAIN arguments \subseteq Variable /\ \A n \in DOMAIN arguments : arguments[n] \in Values

\* The uses of a variable.
UsesOf(n) == {i \in DOMAIN uses : uses[i].name = n}

VariablesKnown == phase \in {"ready", "bad arguments", "running", "filter panicked"}

\* The type inferred for a variable has exactly the values that every use of it
\* takes, in whatever order intersect_types came by the uses.
InferredExactly ==
  VariablesKnown =>
    /\ DOMAIN variables = {uses[i].name : i \in DOMAIN uses}
    /\ \A n \in DOMAIN variables : \A v \in Values :
         Valid(variables[n], v) <=> \A i \in UsesOf(n) : Valid(uses[i].type, v)

\* IncompatibleVariableTypeRequirements is reported if, and only if, two uses of a
\* variable have no type in common, although each use is only compared with what
\* the uses before it have left.
ConflictsAreConflicts ==
  /\ phase = "bad variables" =>
       \E i, j \in DOMAIN uses : uses[i].name = uses[j].name
                                  /\ ~ Compatible(uses[i].type, uses[j].type)
  /\ VariablesKnown =>
       \A i, j \in DOMAIN uses : uses[i].name = uses[j].name
                                  => Compatible(uses[i].type, uses[j].type)

\* A query runs with arguments if, and only if, they are those of its variables
\* and each is valid for each filter that uses it.
RunsWithFittingArguments ==
  LET fitting == /\ DOMAIN arguments = {uses[i].name : i \in DOMAIN uses}
                 /\ \A i \in DOMAIN uses : Valid(uses[i].type, arguments[uses[i].name])
  IN /\ phase \in {"running", "filter panicked"} => fitting
     /\ phase = "bad arguments" => ~ fitting

\* The filters of a query that passed these checks meet no value they are not
\* made for, but for two: lists are ordered, and a variable may be no regex.
TypesPreventPanics ==
  phase = "filter panicked" =>
    \/ query[at].op = "order" /\ IsList(query[at].type)
    \/ query[at].op = "regex" /\ query[at].right.kind # "tag"

\* "The right argument must be a tag at this point": operand_types_valid unwraps
\* no tag where there is none.
OnlyTagsMismatch == phase # "frontend panicked"
=============================================================================
