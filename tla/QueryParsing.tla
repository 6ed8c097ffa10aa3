----------------------------- MODULE QueryParsing -----------------------------
(***************************************************************************)
(* Parsing a query: parse_document() in graphql_query/query.rs and the     *)
(* directives in graphql_query/directives.rs.  What it is given has been   *)
(* parsed as GraphQL.                                                      *)
(*                                                                         *)
(* Fields are read depth first.  Each is read twice, for its connection    *)
(* and for its node, and both go through all its directives, one by one:   *)
(* each skips what the other takes, up to a @fold or a @transform, which   *)
(* changes what may follow.  A directive is identified by its place in the *)
(* list.  The first error ends it all.                                     *)
(***************************************************************************)
EXTENDS Integers, Sequences

CONSTANTS
  None,
  Documents, \* the documents considered
  MaxDepth   \* how deep their selections are at most

VARIABLES
  document,
  stage,     \* "root", "fields", "parsed", "rejected" or "panicked"
  error,
  todo,      \* fields and other selections still to read, with their paths
  reading,   \* "connection" or "node" of the first of those
  mode,      \* "start", "directives", "fold" or "transform"
  place,        \* the next directive
  taken,     \* the directives of this connection or node
  groups,    \* its transform groups, each within the one before
  fields     \* by path, the connection and node of a field

parseVars == <<document, stage, error, todo, reading, mode, place, taken, groups, fields>>

\* TransformGroup, whose retransform is the next one, and FoldGroup's transform
Group == [transform : Nat \ {0}, taken : Seq(Nat \ {0})]

\* FieldConnection and FieldNode: the directives in it, and its groups.
Held == [taken : Seq(Nat \ {0}), groups : Seq(Group)]

Elements(s) == {s[i] : i \in DOMAIN s}
Least(S) == CHOOSE i \in S : \A j \in S : i <= j

Kinds(items) == {i.kind : i \in Elements(items)}

-----------------------------------------------------------------------------
(* Documents.                                                              *)

\* The fields of a document and what else was selected, by path: at each depth.
WithPaths(path, items) == {[path |-> Append(path, i), of |-> items[i]] : i \in DOMAIN items}
Below(s) ==
  IF s.of.kind # "field" THEN {}
  ELSE IF Kinds(s.of.items) = {"inline"} THEN WithPaths(s.path, s.of.items[1].items)
  ELSE WithPaths(s.path, s.of.items)
Levels(doc) ==
  LET level[d \in 0..MaxDepth] ==
        IF d = 0 THEN {[path |-> << >>, of |-> doc.items[1]]} ELSE UNION {Below(s) : s \in level[d - 1]}
  IN  level
SelectedIn(doc) == UNION {Levels(doc)[d] : d \in 0..MaxDepth}

\* ParseError, and where unwrap() and a slice of a string panic.
Errors ==
  {"UnrecognizedDirective", "UnsupportedDirectivePosition", "UnsupportedDuplicatedDirective",
   "UnrecognizedDirectiveArgument", "MissingRequiredDirectiveArgument", "DuplicatedDirectiveArgument",
   "InappropriateTypeForDirectiveArgument", "UnsupportedFilterOperator", "UnsupportedTransformOperator",
   "InvalidOutputName", "InvalidTagName", "UnsupportedSyntax", "InvalidFieldArgument",
   "DuplicatedEdgeParameter", "NestedTypeCoercion", "TypeCoercionWithSiblingFields",
   "DocumentContainsNonInlineFragments", "MultipleOperationsInDocument", "DocumentNotAQuery",
   "MultipleQueryRoots", "UnsupportedQueryRoot", "DirectiveNotInsideQueryRoot", "OtherError", "panic"}

\* What async_graphql_parser makes of a query's text.
IsSequence(s) == s \in Seq(Elements(s))
IsValue(v) ==
  /\ v.kind = "list" => IsSequence(v.list)
  /\ v.kind = "number" => v.number \in Int
IsDirective(d) == IsSequence(d.args) /\ \A a \in Elements(d.args) : IsValue(a.value)
IsSelection(s) ==
  /\ s.kind \in {"field", "spread", "inline"}
  /\ s.kind = "field" =>
       /\ IsSequence(s.args) /\ IsSequence(s.directives) /\ IsSequence(s.items)
       /\ \A d \in Elements(s.directives) : IsDirective(d)
       /\ Kinds(s.items) \subseteq {"field", "spread", "inline"}
       /\ \A i \in Elements(s.items) : i.kind = "inline" => IsSequence(i.items)
IsDocument(doc) ==
  /\ IsSequence(doc.items) /\ doc.items # << >>
  /\ \A s \in SelectedIn(doc) : IsSelection(s.of)
  /\ \A s \in Levels(doc)[MaxDepth] : Below(s) = {}

ASSUME NoneIsNoError == None \notin Errors
ASSUME DepthIsNatural == MaxDepth \in Nat
ASSUME DocumentsAreDocuments == \A doc \in Documents : IsDocument(doc)

-----------------------------------------------------------------------------
(* Directives and arguments.  An outcome is None, an error or "panic".     *)

\* get_argument(): the first argument of that name.
Given(d, n) == {i \in DOMAIN d.args : d.args[i].name = n}
Argument(d, n) == d.args[Least(Given(d, n))].value

\* Arguments of another name than the one expected, or that are repeated.
Odd(args, expected) ==
  {i \in DOMAIN args : args[i].name \notin expected \/ \E j \in 1..i - 1 : args[j].name = args[i].name}

NameCheck(d, expected) ==
  IF Odd(d.args, expected) = {} THEN None
  ELSE IF d.args[Least(Odd(d.args, expected))].name \notin expected THEN "UnrecognizedDirectiveArgument"
  ELSE "DuplicatedDirectiveArgument"

\* A string in a filter's list: its first character, and what the rest is like:
\* empty, with symbols, a name, a number, or digits of a number that is too large.
\* Only numbers may begin with a digit, and their text has to be one.
FilterArgument(s) ==
  IF s.kind # "string" THEN "InappropriateTypeForDirectiveArgument"
  ELSE IF s.prefix \notin {"$", "%", "!"} \/ s.rest = "symbols" THEN "OtherError"
  ELSE IF s.rest = "empty" THEN "panic"
  ELSE IF s.prefix \in {"$", "%"} THEN IF s.rest = "name" THEN None ELSE "OtherError"
  ELSE IF s.rest = "number" THEN None ELSE "panic"

UnaryOperators == {"is_null", "is_not_null"}
BinaryOperators ==
  {"=", "!=", "<", "<=", ">", ">=", "contains", "not_contains", "one_of", "not_one_of",
   "has_prefix", "not_has_prefix", "has_suffix", "not_has_suffix", "has_substring",
   "not_has_substring", "regex", "not_regex"}

FilterList(d) == IF Given(d, "value") = {} THEN << >> ELSE Argument(d, "value").list

ParseFilter(d) ==
  IF Given(d, "op") = {} THEN "MissingRequiredDirectiveArgument"
  ELSE IF Argument(d, "op").kind # "string" THEN "InappropriateTypeForDirectiveArgument"
  ELSE IF Given(d, "value") # {} /\ Argument(d, "value").kind # "list" THEN "InappropriateTypeForDirectiveArgument"
  ELSE LET list == FilterList(d)
           wrong == {i \in DOMAIN list : FilterArgument(list[i]) # None}
           op == Argument(d, "op").text
       IN  IF wrong # {} THEN FilterArgument(list[Least(wrong)])
           ELSE IF Len(list) # (IF op \in UnaryOperators THEN 0 ELSE 1) THEN "OtherError"
           ELSE IF op \notin UnaryOperators \cup BinaryOperators THEN "UnsupportedFilterOperator"
           ELSE None

EnsureNameIsValid(v, invalid) == IF v.rest = "symbols" THEN invalid ELSE None

\* The name is optional.
ParseNamed(d, invalid) ==
  IF NameCheck(d, {"name"}) # None THEN NameCheck(d, {"name"})
  ELSE IF d.args = << >> THEN None
  ELSE IF Argument(d, "name").kind # "string" THEN "InappropriateTypeForDirectiveArgument"
  ELSE EnsureNameIsValid(Argument(d, "name"), invalid)

ParseOutput(d) == ParseNamed(d, "InvalidOutputName")
ParseTag(d) == ParseNamed(d, "InvalidTagName")

ParseTransform(d) ==
  IF NameCheck(d, {"op"}) # None THEN NameCheck(d, {"op"})
  ELSE IF d.args = << >> THEN "MissingRequiredDirectiveArgument"
  ELSE IF Argument(d, "op").kind # "string" THEN "InappropriateTypeForDirectiveArgument"
  ELSE IF Argument(d, "op").text # "count" THEN "UnsupportedTransformOperator"
  ELSE None

\* A number is given as itself; only positive integers are depths.
ParseRecurse(d) ==
  IF NameCheck(d, {"depth"}) # None THEN NameCheck(d, {"depth"})
  ELSE IF d.args = << >> THEN "MissingRequiredDirectiveArgument"
  ELSE IF Argument(d, "depth").kind # "number" \/ Argument(d, "depth").number <= 0
  THEN "InappropriateTypeForDirectiveArgument"
  ELSE None

\* @optional and @fold
ParseBare(d) == IF d.args = << >> THEN None ELSE "UnrecognizedDirectiveArgument"

ParseDirective(d) ==
  CASE d.name = "filter" -> ParseFilter(d)
    [] d.name = "output" -> ParseOutput(d)
    [] d.name = "tag" -> ParseTag(d)
    [] d.name = "transform" -> ParseTransform(d)
    [] d.name = "recurse" -> ParseRecurse(d)
    [] d.name \in {"optional", "fold"} -> ParseBare(d)
    [] OTHER -> "UnrecognizedDirective"

\* make_directives: the outcome of the first one that does not parse.
MakeDirectives(ds) ==
  LET wrong == {i \in DOMAIN ds : ParseDirective(ds[i]) # None}
  IN  IF wrong = {} THEN None ELSE ParseDirective(ds[Least(wrong)])

\* The arguments of an edge.  A value may be one that no property can have.
ArgumentsOutcome(args) ==
  LET wrong == {i \in DOMAIN args : args[i].value.kind = "variable"}
      again == {i \in DOMAIN args : \E j \in 1..i - 1 : args[j].name = args[i].name}
  IN  IF wrong \cup again = {} THEN None
      ELSE IF Least(wrong \cup again) \in wrong THEN "InvalidFieldArgument"
      ELSE "DuplicatedEdgeParameter"

-----------------------------------------------------------------------------
\* try_get_query_root(), and that the root has no directives.
RootOutcome(doc) ==
  IF doc.fragments THEN "DocumentContainsNonInlineFragments"
  ELSE IF doc.operations = "multiple" THEN "MultipleOperationsInDocument"
  ELSE IF doc.type # "query" THEN "DocumentNotAQuery"
  ELSE IF doc.variables THEN "OtherError"
  ELSE IF doc.directives # << >> THEN "DirectiveNotInsideQueryRoot"
  ELSE IF Len(doc.items) # 1 THEN "MultipleQueryRoots"
  ELSE IF doc.items[1].kind # "field" THEN "UnsupportedQueryRoot"
  ELSE IF doc.items[1].directives # << >> THEN "DirectiveNotInsideQueryRoot"
  ELSE None

ParseInit ==
  /\ document \in Documents
  /\ stage = "root"
  /\ error = None
  /\ todo = << >>
  /\ reading = "connection"
  /\ mode = "start"
  /\ place = 1
  /\ taken = << >>
  /\ groups = << >>
  /\ fields = << >>

Fail(outcome) ==
  /\ stage' = IF outcome = "panic" THEN "panicked" ELSE "rejected"
  /\ error' = outcome
  /\ UNCHANGED <<document, todo, reading, mode, place, taken, groups, fields>>

ReadRoot ==
  /\ stage = "root" /\ RootOutcome(document) = None
  /\ todo' = <<[path |-> << >>, of |-> document.items[1]]>>
  /\ stage' = "fields"
  /\ UNCHANGED <<document, error, reading, mode, place, taken, groups, fields>>

RefuseRoot ==
  /\ stage = "root" /\ RootOutcome(document) # None
  /\ Fail(RootOutcome(document))

-----------------------------------------------------------------------------
Reading(what, how) == stage = "fields" /\ todo # << >> /\ reading = what /\ mode = how
Field == todo[1].of
Directives == Field.directives

\* Both begin by parsing all directives.
Begin ==
  /\ mode' = "directives"
  /\ place' = 1
  /\ taken' = << >>
  /\ groups' = << >>
  /\ UNCHANGED <<document, stage, error, todo, reading, fields>>

ConnectionOutcome ==
  IF ArgumentsOutcome(Field.args) # None THEN ArgumentsOutcome(Field.args) ELSE MakeDirectives(Directives)

\* make_field_connection
BeginConnection ==
  /\ Reading("connection", "start") /\ Field.kind = "field"
  /\ IF ConnectionOutcome = None THEN Begin ELSE Fail(ConnectionOutcome)

\* An inline fragment has to be the only selection.
Fragment == Field.items # << >> /\ Field.items[1].kind = "inline"
SelectionOutcome ==
  IF "spread" \in Kinds(Field.items) THEN "UnsupportedSyntax"
  ELSE IF "inline" \in Kinds(Field.items) /\ Len(Field.items) > 1 THEN "TypeCoercionWithSiblingFields"
  ELSE MakeDirectives(Directives)

\* make_field_node
BeginNode ==
  /\ Reading("node", "start")
  /\ IF SelectionOutcome = None THEN Begin ELSE Fail(SelectionOutcome)

\* A selection of a type coercion that is no field.
RefuseSelection ==
  /\ Reading("connection", "start") /\ Field.kind # "field"
  /\ Fail(IF Field.kind = "spread" THEN "UnsupportedSyntax" ELSE "NestedTypeCoercion")

DirectiveKind == Directives[place].name

Take(to) ==
  /\ taken' = Append(taken, place)
  /\ mode' = to
  /\ place' = place + 1
  /\ UNCHANGED <<document, stage, error, todo, reading, groups, fields>>

Skip ==
  /\ place' = place + 1
  /\ UNCHANGED <<document, stage, error, todo, reading, mode, taken, groups, fields>>

\* A transform group, which takes everything that follows.
BeginGroup ==
  /\ groups' = Append(groups, [transform |-> place, taken |-> << >>])
  /\ mode' = "transform"
  /\ place' = place + 1
  /\ UNCHANGED <<document, stage, error, todo, reading, taken, fields>>

AtDirective(what) == Reading(what, "directives") /\ place \in DOMAIN Directives

ConnectionDirective ==
  /\ AtDirective("connection")
  /\ \/ /\ DirectiveKind \in {"optional", "recurse"}
        /\ IF \E i \in Elements(taken) : Directives[i].name = DirectiveKind
           THEN Fail("UnsupportedDuplicatedDirective") ELSE Take("directives")
     \/ DirectiveKind = "fold" /\ Take("fold")
     \/ DirectiveKind = "transform" /\ Fail("OtherError")
     \/ DirectiveKind \in {"filter", "output", "tag"} /\ Skip

NodeDirective ==
  /\ AtDirective("node")
  /\ \/ DirectiveKind \in {"filter", "output", "tag"} /\ Take("directives")
     \/ DirectiveKind = "transform" /\ BeginGroup
     \/ DirectiveKind \in {"optional", "recurse", "fold"} /\ Skip

\* make_fold_group: only a @transform may follow.
FoldDirective ==
  /\ stage = "fields" /\ mode = "fold" /\ place \in DOMAIN Directives
  /\ CASE DirectiveKind = "transform" -> BeginGroup
       [] DirectiveKind = "fold" -> Fail("UnsupportedDuplicatedDirective")
       [] OTHER -> Fail("UnsupportedDirectivePosition")

\* Mutant of FollowTransform: a @fold may follow a @transform.
FollowTransformOrFold == {"filter", "output", "tag", "fold"}

FollowTransform == {"filter", "output", "tag"}

\* Mutant of TakeIntoGroup: it is taken into the first group.
TakeIntoFirst == groups' = [groups EXCEPT ![1].taken = Append(@, place)]

TakeIntoGroup == groups' = [groups EXCEPT ![Len(groups)].taken = Append(@, place)]

\* make_transform_group
TransformDirective ==
  /\ stage = "fields" /\ mode = "transform" /\ place \in DOMAIN Directives
  /\ \/ /\ DirectiveKind \in FollowTransform
        /\ TakeIntoGroup
        /\ place' = place + 1
        /\ UNCHANGED <<document, stage, error, todo, reading, mode, taken, fields>>
     \/ DirectiveKind = "transform" /\ BeginGroup
     \/ DirectiveKind \notin FollowTransform \cup {"transform"} /\ Fail("UnsupportedDirectivePosition")

Exhausted(what) == stage = "fields" /\ reading = what /\ mode # "start" /\ place \notin DOMAIN Directives

Put(path, value) == [p \in DOMAIN fields \cup {path} |-> IF p = path THEN value ELSE fields[p]]

EndConnection ==
  /\ Exhausted("connection")
  /\ fields' = Put(todo[1].path, [connection |-> [taken |-> taken, groups |-> groups]])
  /\ reading' = "node"
  /\ mode' = "start"
  /\ UNCHANGED <<document, stage, error, todo, place, taken, groups>>

\* The selections of the coercion, if there is one.
Selections == IF Fragment THEN Field.items[1].items ELSE Field.items

\* Then the selections are read.
EndNode ==
  /\ Exhausted("node")
  /\ LET path == todo[1].path IN
       /\ fields' = Put(path, [connection |-> fields[path].connection,
                               coercedTo |-> IF Fragment THEN Field.items[1].on ELSE None,
                               node |-> [taken |-> taken, groups |-> groups]])
       /\ todo' = [i \in DOMAIN Selections |-> [path |-> Append(path, i), of |-> Selections[i]]] \o Tail(todo)
  /\ reading' = "connection"
  /\ mode' = "start"
  /\ UNCHANGED <<document, stage, error, place, taken, groups>>

AllRead ==
  /\ stage = "fields" /\ todo = << >>
  /\ stage' = "parsed"
  /\ UNCHANGED <<document, error, todo, reading, mode, place, taken, groups, fields>>

ParseDone == stage \in {"parsed", "rejected", "panicked"} /\ UNCHANGED parseVars

ParseNext ==
  \/ ReadRoot \/ RefuseRoot \/ BeginConnection \/ BeginNode \/ RefuseSelection
  \/ ConnectionDirective \/ NodeDirective \/ FoldDirective \/ TransformDirective
  \/ EndConnection \/ EndNode \/ AllRead \/ ParseDone

ParseSpec == ParseInit /\ [][ParseNext]_parseVars

-----------------------------------------------------------------------------
(* What the two readings of every field have to come to.                   *)

\* Type correctness: what has been parsed, and the field being read.
ParseTypeOK ==
  /\ stage \in {"root", "fields", "parsed", "rejected", "panicked"}
  /\ error \in {None} \cup Errors
  /\ reading \in {"connection", "node"}
  /\ mode \in {"start", "directives", "fold", "transform"}
  /\ place \in Nat \ {0}
  /\ [taken |-> taken, groups |-> groups] \in Held
  /\ \A path \in DOMAIN fields :
       /\ fields[path].connection \in Held
       /\ "node" \in DOMAIN fields[path] => fields[path].node \in Held

Selected == SelectedIn(document)

Places(ds, names) == {i \in DOMAIN ds : ds[i].name \in names}

\* Any @filter, @output and @tag, an @optional and a @recurse, in any order; then
\* perhaps a @fold; right after it, perhaps a @transform; after that, no others
\* than @filter, @output, @tag and @transform.
WellPlaced(ds) ==
  /\ \A n \in {"optional", "recurse", "fold"} : \A i, j \in Places(ds, {n}) : i = j
  /\ \A i \in Places(ds, {"fold"}) : i = Len(ds) \/ ds[i + 1].name = "transform"
  /\ \A i \in Places(ds, {"transform"}) : \E j \in Places(ds, {"fold"}) : j < i
  /\ \A i \in Places(ds, {"optional", "recurse"}), j \in Places(ds, {"fold", "transform"}) : i < j

IsText(v) == v.kind = "string"
Sole(d, n) == Len(d.args) = 1 /\ d.args[1].name = n

WellFormed(d) ==
  \/ /\ d.name = "filter" /\ Given(d, "op") # {} /\ IsText(Argument(d, "op"))
     /\ Given(d, "value") # {} => Argument(d, "value").kind = "list"
     /\ \A s \in Elements(FilterList(d)) :
          IsText(s) /\ <<s.prefix, s.rest>> \in {<<"$", "name">>, <<"%", "name">>, <<"!", "number">>}
     /\ \/ Argument(d, "op").text \in UnaryOperators /\ FilterList(d) = << >>
        \/ Argument(d, "op").text \in BinaryOperators /\ Len(FilterList(d)) = 1
  \/ /\ d.name \in {"output", "tag"}
     /\ d.args = << >> \/ (Sole(d, "name") /\ IsText(d.args[1].value) /\ d.args[1].value.rest # "symbols")
  \/ /\ d.name = "transform" /\ Sole(d, "op")
     /\ IsText(d.args[1].value) /\ d.args[1].value.text = "count"
  \/ /\ d.name = "recurse" /\ Sole(d, "depth")
     /\ d.args[1].value.kind = "number" /\ d.args[1].value.number > 0
  \/ d.name \in {"optional", "fold"} /\ d.args = << >>

GoodField(s) ==
  /\ s.kind = "field"
  /\ Odd(s.args, {a.name : a \in Elements(s.args)}) = {}
  /\ \A a \in Elements(s.args) : a.value.kind # "variable"
  /\ \A d \in Elements(s.directives) : WellFormed(d)
  /\ WellPlaced(s.directives)
  /\ Kinds(s.items) \subseteq {"field"} \/ (Len(s.items) = 1 /\ Kinds(s.items) = {"inline"})

Grammatical == RootOutcome(document) = None /\ \A s \in Selected : GoodField(s.of)

\* The filter arguments that are not expected to get as far as they do.
Nameless(s) ==
  /\ IsText(s)
  /\ \/ s.prefix \in {"$", "%"} /\ s.rest = "empty"
     \/ s.prefix = "!" /\ s.rest \notin {"number", "symbols"}

\* A document is parsed if, and only if, it is grammatical: though each reading
\* alone skips what the other would refuse.
DecidesByGrammar ==
  /\ stage = "parsed" => Grammatical
  /\ stage = "rejected" => ~ Grammatical
  /\ stage = "panicked" =>
       \E s \in Selected : s.of.kind = "field" /\ \E d \in Elements(s.of.directives) :
         d.name = "filter" /\ \E v \in Elements(FilterList(d)) : Nameless(v)

\* Every directive of every field ends in one place: those before a @fold in the
\* connection or in the node, whichever is for it, and those after a @transform,
\* as far as the next one, in its group, which the connection and the node have
\* alike.
EveryDirectiveOnce ==
  stage = "parsed" => \A s \in Selected :
    LET c == fields[s.path].connection
        n == fields[s.path].node
        ds == s.of.directives
        begins == {g.transform : g \in Elements(c.groups)}
        InGroup(g) == {i \in g.transform + 1..Len(ds) : \A j \in begins : j > i \/ j <= g.transform}
    IN  /\ Elements(c.taken) = Places(ds, {"optional", "recurse", "fold"})
        /\ Elements(n.taken) = {i \in Places(ds, {"filter", "output", "tag"}) : \A j \in begins : i < j}
        /\ begins = Places(ds, {"transform"})
        /\ n.groups = c.groups
        /\ \A g \in Elements(c.groups) : Elements(g.taken) = InGroup(g)

\* "directive @filter(op: String!, value: [String!]) on FIELD | INLINE_FRAGMENT":
\* a filter on an inline fragment is a part of the query.
NoFilterIsLost ==
  stage = "parsed" => \A s \in Selected :
    Kinds(s.of.items) = {"inline"} => Places(s.of.items[1].directives, {"filter"}) = {}

\* "Empty names handled above already."
EmptyNamesHandled ==
  stage = "panicked" =>
    ~ \E s \in Selected : s.of.kind = "field" /\ \E d \in Elements(s.of.directives) :
        \E v \in Elements(FilterList(d)) : v.prefix \in {"$", "%"} /\ v.rest = "empty"
=============================================================================
