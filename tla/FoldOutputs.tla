---------------------------- MODULE FoldOutputs -----------------------------
(***************************************************************************)
(* The rows of Fold, and the types that IndexedQuery declares for them.    *)
(*                                                                         *)
(* Component c has the vertices 2c + 1, its own, and 2c + 2, at the end of *)
(* its @optional edge.  Their properties are of type Int!.                 *)
(***************************************************************************)
EXTENDS Fold

Index == INSTANCE IndexedQuery

\* IREdge and IRFold lead to the vertex after them.
VidOf(c, at) == IF at = "own" THEN 2 * c + 1 ELSE 2 * c + 2
EidTo(vid) == vid - 1

OutputsOf(c) == IF c = Root THEN {"own"} ELSE folds[c].outputs \ {"count"}

\* IRQueryComponent, with what is output of it under the names Fold uses
ComponentOf(c) ==
  [root |-> VidOf(c, "own"),
   vertices |-> {VidOf(c, "own"), VidOf(c, "optional")},
   edges |-> [eid \in {EidTo(VidOf(c, "optional"))} |->
     [from |-> VidOf(c, "own"), to |-> VidOf(c, "optional"), optional |-> TRUE]],
   folds |-> [eid \in {EidTo(VidOf(f, "own")) : f \in InnerFolds(c)} |->
     LET f == CHOOSE f \in InnerFolds(c) : EidTo(VidOf(f, "own")) = eid
     IN  [from |-> VidOf(c, folds[f].from), to |-> VidOf(f, "own"), component |-> f,
          counts |-> {f} \X (folds[f].outputs \cap {"count"})]],
   outputs |-> [name \in {c} \X OutputsOf(c) |->
     [vid |-> VidOf(c, name[2]), nullable |-> <<FALSE>>]]]

IR == [c \in DOMAIN folds \cup {Root} |-> ComponentOf(c)]

\* What is at each depth of a nested value: at depth 1, itself.
Depths(value, depth) ==
  LET At[d \in 1..depth] ==
        IF d = 1 THEN {value} ELSE UNION {Seqs!ToSet(v) : v \in At[d - 1] \ {Null}}
  IN  At

\* A value is null only where its type may be, and an integer at its core.
IsOfType(value, nullable) ==
  LET depth == Len(nullable)
      at == Depths(value, depth)
  IN  /\ \A d \in 1..depth : Null \in at[d] => nullable[d]
      /\ at[depth] \ {Null} \subseteq Int

\* construct_outputs(): the row made of a context of the root component.
Row(ctx) ==
  [name \in {<<Root, "own">>} \cup DOMAIN ctx.values |->
     IF name[1] = Root THEN ctx.own ELSE ctx.values[name]]

\* A row has exactly the outputs that the indexed query declares, which
\* interpret_ir() only asserts in debug builds, and every value is of the type
\* declared: clients read rows by it.  indexed.rs decides what may be null from
\* the edges around the output; execution.rs makes values null where a fold or
\* an @optional turns out not to exist, and lists for every fold around.
OutputsFitTheirTypes ==
  /\ Index!Indexable(IR)
  /\ LET declared == Index!Outputs(IR)
     IN  \A i \in DOMAIN stack[1].elements :
           LET row == Row(stack[1].elements[i])
           IN  /\ DOMAIN row = DOMAIN declared
               /\ \A name \in DOMAIN row : IsOfType(row[name], declared[name].nullable)
=============================================================================
