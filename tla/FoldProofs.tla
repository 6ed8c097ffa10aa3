------------------------------ MODULE FoldProofs ------------------------------
(***************************************************************************)
(* What Fold promises, proved for every tree of folds, graph and query     *)
(* that FoldAssumption allows.                                             *)
(*                                                                         *)
(* Around() is a recursive function; that folds are in components of       *)
(* smaller number makes it the least set of components closed under "is    *)
(* in", and nothing below needs more of it than that.  The components of   *)
(* sibling folds are then disjoint.  A fold's imports are tags of the      *)
(* component it is in, so they are not among those imported further out.   *)
(*                                                                         *)
(* The invariant, IInv, follows from these two facts: each frame's context *)
(* has exactly the tags that its component's folds imported, the folds     *)
(* that are before the frame's, and the outputs of those folds.  Importing *)
(* and recording are then inverse to each other, no key is entered twice,  *)
(* and every tag and count that is read has been entered.                  *)
(*                                                                         *)
(* The invariant also has every value be of the part of its declared type  *)
(* that is inside the component it has got to.  A fold then adds a list    *)
(* around it, or null, and indexed.rs a layer for that fold.               *)
(***************************************************************************)
EXTENDS FoldOutputs, FiniteSetTheorems, SequenceTheorems, WellFoundedInduction, TLAPS

\* The folds of a query form a tree: each is in a component of smaller number.
IsTree(p) ==
  \A f \in DOMAIN p : f \in Nat /\ f # Root /\ p[f].in \in Nat /\ p[f].in < f
                        /\ p[f].in \in Semantics!Components(p)

\* A set of components that has, with each fold, the component it is in.
IsClosed(p, S) == \A f \in S \ {Root} : p[f].in \in S

\* The components around c, c included, as the least such set with c.
Least(p, c) ==
  {d \in Semantics!Components(p) :
     \A S \in SUBSET Semantics!Components(p) : c \in S /\ IsClosed(p, S) => d \in S}

-----------------------------------------------------------------------------
(* Smallest and largest members.                                           *)

\* A nonempty set of naturals has a least member.
LEMMA LeastNatural ==
  ASSUME NEW N, N \subseteq Nat, N # {}
  PROVE  \E m \in N : \A n \in N : m <= n
<1> DEFINE Up == {0..n : n \in N}
<1>1. Up \subseteq FiniteSubsetsOf(Nat) /\ Up # {}
  <2>1. \A n \in Nat : IsFiniteSet(0..n) /\ 0..n \subseteq Nat
    BY FS_Interval
  <2> QED BY <2>1 DEF FiniteSubsetsOf
<1>2. PICK s \in Up : \A t \in Up : ~ (<<t, s>> \in StrictSubsetOrdering(Nat))
  <2> HIDE DEF Up
  <2> QED BY <1>1, FS_StrictSubsetOrderingWellFounded, WFMin
<1>3. PICK m \in N : s = 0..m
  BY <1>2
<1>4. ASSUME NEW n \in N, ~(m <= n) PROVE FALSE
  <2>1. n < m /\ m \in Nat /\ n \in Nat
    BY <1>4
  <2>2. 0..n \in Up
    BY <2>1
  <2>3. <<0..n, s>> \in StrictSubsetOrdering(Nat)
    BY <1>3, <2>1 DEF StrictSubsetOrdering
  <2> QED BY <1>2, <2>2, <2>3
<1> QED BY <1>4

\* A finite nonempty set of numbers has a least member, which Min() is.
LEMMA LeastMember ==
  ASSUME NEW S, S \subseteq Int, IsFiniteSet(S), S # {}
  PROVE  Sets!Min(S) \in S /\ \A x \in S : Sets!Min(S) <= x
<1> DEFINE Less(x) == {y \in S : y < x}
           T == {Less(x) : x \in S}
<1>1. T \subseteq FiniteSubsetsOf(S) /\ T # {}
  <2>1. \A x \in S : Less(x) \subseteq S /\ IsFiniteSet(Less(x))
    BY FS_Subset
  <2> QED BY <2>1 DEF FiniteSubsetsOf
<1>2. PICK s \in T : \A t \in T : ~ (<<t, s>> \in StrictSubsetOrdering(S))
  <2> HIDE DEF T
  <2> QED BY <1>1, FS_StrictSubsetOrderingWellFounded, WFMin
<1>3. PICK x \in S : s = Less(x)
  BY <1>2
<1>4. ASSUME NEW y \in S, ~(x <= y) PROVE FALSE
  <2>0. y \in Int /\ x \in Int /\ y < x
    BY <1>4
  <2>1. y \in Less(x) /\ y \notin Less(y)
    BY <2>0
  <2>4. Less(y) \subseteq Less(x)
    <3>1. \A z \in S : z \in Int
      OBVIOUS
    <3>2. \A z \in S : z < y => z < x
      BY <3>1, <2>0
    <3> QED BY <3>2
  <2>2. Less(y) \in T
    OBVIOUS
  <2>3. <<Less(y), s>> \in StrictSubsetOrdering(S)
    BY <1>3, <2>1, <2>4 DEF StrictSubsetOrdering
  <2> QED BY <1>2, <2>2, <2>3
<1>5. \E m \in S : \A y \in S : m =< y
  BY <1>4
<1> QED BY <1>5 DEF Sets!Min

\* And a largest, which Max() is.
LEMMA LargestMember ==
  ASSUME NEW S, S \subseteq Int, IsFiniteSet(S), S # {}
  PROVE  Sets!Max(S) \in S /\ \A x \in S : x <= Sets!Max(S)
<1> DEFINE More(x) == {y \in S : y > x}
           T == {More(x) : x \in S}
<1>1. T \subseteq FiniteSubsetsOf(S) /\ T # {}
  <2>1. \A x \in S : More(x) \subseteq S /\ IsFiniteSet(More(x))
    BY FS_Subset
  <2> QED BY <2>1 DEF FiniteSubsetsOf
<1>2. PICK s \in T : \A t \in T : ~ (<<t, s>> \in StrictSubsetOrdering(S))
  <2> HIDE DEF T
  <2> QED BY <1>1, FS_StrictSubsetOrderingWellFounded, WFMin
<1>3. PICK x \in S : s = More(x)
  BY <1>2
<1>4. ASSUME NEW y \in S, ~(y <= x) PROVE FALSE
  <2>0. y \in Int /\ x \in Int /\ y > x
    BY <1>4
  <2>1. y \in More(x) /\ y \notin More(y)
    BY <2>0
  <2>4. More(y) \subseteq More(x)
    <3>1. \A z \in S : z \in Int
      OBVIOUS
    <3>2. \A z \in S : z > y => z > x
      BY <3>1, <2>0
    <3> QED BY <3>2
  <2>2. More(y) \in T
    OBVIOUS
  <2>3. <<More(y), s>> \in StrictSubsetOrdering(S)
    BY <1>3, <2>1, <2>4 DEF StrictSubsetOrdering
  <2> QED BY <1>2, <2>2, <2>3
<1>5. \E m \in S : \A y \in S : m >= y
  BY <1>4
<1> QED BY <1>5 DEF Sets!Max

-----------------------------------------------------------------------------
(* The components around a component.                                      *)

\* The least closed set is closed and has c.
LEMMA LeastIsClosed ==
  ASSUME NEW p, IsTree(p), NEW c \in Semantics!Components(p)
  PROVE  c \in Least(p, c) /\ IsClosed(p, Least(p, c)) /\ Least(p, c) \subseteq Semantics!Components(p)
<1>1. Semantics!Components(p) = {Root} \cup DOMAIN p
  BY DEF Semantics!Components, Semantics!RootComponent, Root
<1>2. ASSUME NEW f \in Least(p, c) \ {Root} PROVE p[f].in \in Least(p, c)
  <2>1. p[f].in \in Semantics!Components(p)
    BY <1>1 DEF Least, IsTree
  <2>2. ASSUME NEW S \in SUBSET Semantics!Components(p), c \in S, IsClosed(p, S) PROVE p[f].in \in S
    BY <2>2 DEF Least, IsClosed
  <2> QED BY <2>1, <2>2 DEF Least
<1> QED BY <1>2 DEF Least, IsClosed

\* Around a fold are the fold and what is around the component it is in.
LEMMA LeastOfFold ==
  ASSUME NEW p, IsTree(p), NEW f \in DOMAIN p
  PROVE  Least(p, f) = {f} \cup Least(p, p[f].in)
<1>1. Semantics!Components(p) = {Root} \cup DOMAIN p
  BY DEF Semantics!Components, Semantics!RootComponent, Root
<1>2. f \in Semantics!Components(p) /\ f # Root /\ p[f].in \in Semantics!Components(p)
  BY <1>1 DEF IsTree
<1>3. f \in Least(p, f) /\ IsClosed(p, Least(p, f)) /\ Least(p, f) \subseteq Semantics!Components(p)
  BY <1>2, LeastIsClosed
<1>4. /\ p[f].in \in Least(p, p[f].in) /\ IsClosed(p, Least(p, p[f].in))
      /\ Least(p, p[f].in) \subseteq Semantics!Components(p)
  BY <1>2, LeastIsClosed
<1>5. Least(p, f) \subseteq {f} \cup Least(p, p[f].in)
  <2>1. IsClosed(p, {f} \cup Least(p, p[f].in))
    BY <1>4 DEF IsClosed
  <2> QED BY <2>1, <1>2, <1>4 DEF Least
<1>6. Least(p, p[f].in) \subseteq Least(p, f)
  <2>1. p[f].in \in Least(p, f)
    BY <1>2, <1>3 DEF IsClosed
  <2> QED BY <2>1, <1>3 DEF Least
<1> QED BY <1>3, <1>5, <1>6

\* Around the root component there is only itself.
LEMMA LeastOfRoot ==
  ASSUME NEW p, IsTree(p)
  PROVE  Least(p, Root) = {Root}
<1>1. Root \in Semantics!Components(p) /\ {Root} \subseteq Semantics!Components(p)
  BY DEF Semantics!Components, Semantics!RootComponent, Root
<1>2. IsClosed(p, {Root})
  BY DEF IsClosed
<1> QED BY <1>1, <1>2 DEF Least

\* What Around() computes by recursion.
LEMMA AroundIsLeast ==
  ASSUME NEW p, IsTree(p), NEW c \in Semantics!Components(p)
  PROVE  Semantics!Around(p, c) = Least(p, c)
<1> DEFINE C == Semantics!Components(p)
           A == CHOOSE A : A = [d \in C |-> IF d = Semantics!RootComponent THEN {d} ELSE {d} \cup A[p[d].in]]
           L == [d \in C |-> Least(p, d)]
<1>0. Semantics!Components(p) = {Root} \cup DOMAIN p /\ Semantics!RootComponent = Root
  BY DEF Semantics!Components, Semantics!RootComponent, Root
<1>1. Semantics!Around(p, c) = A[c]
  BY DEF Semantics!Around
<1>2. L = [d \in C |-> IF d = Semantics!RootComponent THEN {d} ELSE {d} \cup L[p[d].in]]
  <2>1. ASSUME NEW d \in C
        PROVE Least(p, d) = IF d = Semantics!RootComponent THEN {d} ELSE {d} \cup L[p[d].in]
    <3>1. CASE d = Root
      BY <3>1, <1>0, LeastOfRoot
    <3>2. CASE d # Root
      <4>1. d \in DOMAIN p /\ p[d].in \in C
        BY <3>2, <1>0 DEF IsTree
      <4>2. Least(p, d) = {d} \cup Least(p, p[d].in)
        BY <4>1, LeastOfFold
      <4> QED BY <4>1, <4>2, <3>2, <1>0
    <3> QED BY <3>1, <3>2
  <2> QED BY <2>1
<1>3. A = [d \in C |-> IF d = Semantics!RootComponent THEN {d} ELSE {d} \cup A[p[d].in]]
  <2> HIDE DEF L, C
  <2> QED BY <1>2
<1>4. \A d \in C : A[d] = IF d = Root THEN {d} ELSE {d} \cup A[p[d].in]
  <2> HIDE DEF A, C
  <2> QED BY <1>3, <1>0
<1> HIDE DEF A, L
<1> DEFINE Bad == {d \in C : A[d] # Least(p, d)}
<1>5. ASSUME Bad # {} PROVE FALSE
  <2>1. C \subseteq Nat
    BY <1>0 DEF IsTree, Root
  <2>2. PICK m \in Bad : \A n \in Bad : m <= n
    <3>1. Bad \subseteq Nat
      BY <2>1
    <3> HIDE DEF Bad
    <3> QED BY <3>1, <1>5, LeastNatural
  <2>3. m # Root
    BY <2>2, <1>4, LeastOfRoot
  <2>4. m \in DOMAIN p /\ p[m].in \in C /\ p[m].in < m /\ m \in Nat /\ p[m].in \in Nat
    BY <2>2, <2>3, <1>0 DEF IsTree
  <2>5. p[m].in \notin Bad
    <3> HIDE DEF Bad
    <3> QED BY <2>2, <2>4
  <2>6. A[p[m].in] = Least(p, p[m].in)
    BY <2>4, <2>5
  <2>7. A[m] = {m} \cup Least(p, p[m].in)
    BY <1>4, <2>3, <2>4, <2>6, <2>2
  <2>8. Least(p, m) = {m} \cup Least(p, p[m].in)
    BY <2>4, LeastOfFold
  <2> QED BY <2>2, <2>7, <2>8
<1> QED BY <1>1, <1>5

\* What a closed set with c has: everything around c.
LEMMA AroundInClosed ==
  ASSUME NEW p, IsTree(p), NEW c \in Semantics!Components(p),
         NEW S \in SUBSET Semantics!Components(p), c \in S, IsClosed(p, S)
  PROVE  Semantics!Around(p, c) \subseteq S
BY AroundIsLeast DEF Least

\* The components around c are components, c included, each fold's with the one it
\* is in.
LEMMA AroundComponents ==
  ASSUME NEW p, IsTree(p), NEW c \in Semantics!Components(p)
  PROVE  /\ c \in Semantics!Around(p, c)
         /\ Semantics!Around(p, c) \subseteq Semantics!Components(p)
         /\ \A f \in Semantics!Around(p, c) \ {Root} :
              f \in DOMAIN p /\ p[f].in \in Semantics!Around(p, c)
<1>1. Semantics!Components(p) = {Root} \cup DOMAIN p
  BY DEF Semantics!Components, Semantics!RootComponent, Root
<1>2. c \in Least(p, c) /\ IsClosed(p, Least(p, c)) /\ Least(p, c) \subseteq Semantics!Components(p)
  BY LeastIsClosed
<1> QED BY <1>1, <1>2, AroundIsLeast DEF IsClosed

\* Around a fold are itself and the components around the one it is in.
LEMMA AroundFold ==
  ASSUME NEW p, IsTree(p), NEW f \in DOMAIN p
  PROVE  Semantics!Around(p, f) = {f} \cup Semantics!Around(p, p[f].in)
<1>1. Semantics!Components(p) = {Root} \cup DOMAIN p
  BY DEF Semantics!Components, Semantics!RootComponent, Root
<1>2. f \in Semantics!Components(p) /\ p[f].in \in Semantics!Components(p)
  BY <1>1 DEF IsTree
<1> QED BY <1>2, LeastOfFold, AroundIsLeast

\* A component is inside those of smaller number.
LEMMA AroundIsBefore ==
  ASSUME NEW p, IsTree(p), NEW c \in Semantics!Components(p), NEW d \in Semantics!Around(p, c)
  PROVE  d \in Nat /\ c \in Nat /\ d <= c
<1> DEFINE S == {e \in Semantics!Components(p) : e <= c}
<1>1. Semantics!Components(p) = {Root} \cup DOMAIN p
  BY DEF Semantics!Components, Semantics!RootComponent, Root
<1>2. Semantics!Components(p) \subseteq Nat
  BY <1>1 DEF IsTree, Root
<1>3. IsClosed(p, S)
  <2>1. ASSUME NEW f \in S \ {Root} PROVE p[f].in \in S
    <3>1. f \in DOMAIN p /\ f \in Nat /\ c \in Nat /\ f <= c
      BY <1>1, <1>2
    <3>2. p[f].in \in Nat /\ p[f].in < f /\ p[f].in \in Semantics!Components(p)
      BY <3>1 DEF IsTree
    <3>3. p[f].in <= c
      BY <3>1, <3>2
    <3> QED BY <3>2, <3>3
  <2> QED BY <2>1 DEF IsClosed
<1>4. c \in S
  BY <1>2
<1>5. Semantics!Around(p, c) \subseteq S
  <2>1. S \in SUBSET Semantics!Components(p)
    OBVIOUS
  <2> HIDE DEF S
  <2> QED BY <2>1, <1>3, <1>4, AroundInClosed
<1> QED BY <1>2, <1>5

\* What is around a component around c is around c.
LEMMA AroundIsTransitive ==
  ASSUME NEW p, IsTree(p), NEW c \in Semantics!Components(p), NEW d \in Semantics!Around(p, c)
  PROVE  Semantics!Around(p, d) \subseteq Semantics!Around(p, c)
<1>1. /\ Semantics!Around(p, c) \in SUBSET Semantics!Components(p)
      /\ IsClosed(p, Semantics!Around(p, c))
  BY AroundComponents DEF IsClosed
<1> QED BY <1>1, AroundInClosed

\* Of two components around the same one, one is around the other.
LEMMA AroundIsAChain ==
  ASSUME NEW p, IsTree(p), NEW c \in Semantics!Components(p),
         NEW d \in Semantics!Around(p, c), NEW e \in Semantics!Around(p, c)
  PROVE  d \in Semantics!Around(p, e) \/ e \in Semantics!Around(p, d)
<1> DEFINE S == {x \in Semantics!Around(p, c) :
                   \A y \in Semantics!Around(p, c) :
                     x \in Semantics!Around(p, y) \/ y \in Semantics!Around(p, x)}
<1>1. /\ Semantics!Around(p, c) \subseteq Semantics!Components(p) /\ c \in Semantics!Around(p, c)
      /\ \A f \in Semantics!Around(p, c) \ {Root} :
           f \in DOMAIN p /\ p[f].in \in Semantics!Around(p, c)
  BY AroundComponents
<1>2. S \in SUBSET Semantics!Components(p) /\ c \in S
  BY <1>1
<1>3. IsClosed(p, S)
  <2>1. ASSUME NEW f \in S \ {Root}, NEW y \in Semantics!Around(p, c)
        PROVE p[f].in \in Semantics!Around(p, y) \/ y \in Semantics!Around(p, p[f].in)
    <3>1. y \in Semantics!Components(p) /\ f \in DOMAIN p /\ f # Root
      BY <1>1
    <3>2. CASE f \in Semantics!Around(p, y)
      BY <3>1, <3>2, AroundComponents
    <3>3. CASE y \in Semantics!Around(p, f)
      <4>1. Semantics!Around(p, f) = {f} \cup Semantics!Around(p, p[f].in)
        BY <3>1, AroundFold
      <4>2. CASE y = f
        BY <4>2, <3>1, AroundComponents
      <4> QED BY <4>1, <4>2, <3>3
    <3> QED BY <3>2, <3>3
  <2> QED BY <2>1, <1>1 DEF IsClosed
<1>4. Semantics!Around(p, c) \subseteq S
  <2> HIDE DEF S
  <2> QED BY <1>2, <1>3, AroundInClosed
<1> QED BY <1>4

\* A component is inside one fold of each component around it.
LEMMA AroundOneFold ==
  ASSUME NEW p, IsTree(p), NEW c \in Semantics!Components(p),
         NEW f \in Semantics!Around(p, c) \ {Root}, NEW g \in Semantics!Around(p, c) \ {Root},
         p[f].in = p[g].in
  PROVE  f = g
<1>1. f \in DOMAIN p /\ g \in DOMAIN p
  BY AroundComponents
<1>2. /\ f \in Nat /\ g \in Nat /\ p[f].in < f /\ p[g].in < g /\ p[f].in \in Nat /\ p[g].in \in Nat
      /\ p[f].in \in Semantics!Components(p) /\ p[g].in \in Semantics!Components(p)
  BY <1>1 DEF IsTree
<1>3. f \in Semantics!Around(p, g) => f = g
  <2>1. Semantics!Around(p, g) = {g} \cup Semantics!Around(p, p[g].in)
    BY <1>1, AroundFold
  <2>2. f \in Semantics!Around(p, p[g].in) => f <= p[g].in
    BY <1>2, AroundIsBefore
  <2> QED BY <2>1, <2>2, <1>2
<1>4. g \in Semantics!Around(p, f) => f = g
  <2>1. Semantics!Around(p, f) = {f} \cup Semantics!Around(p, p[f].in)
    BY <1>1, AroundFold
  <2>2. g \in Semantics!Around(p, p[f].in) => g <= p[f].in
    BY <1>2, AroundIsBefore
  <2> QED BY <2>1, <2>2, <1>2
<1> QED BY <1>3, <1>4, AroundIsAChain

\* And of one, where the component around it is not the component itself.
LEMMA AroundSomeFold ==
  ASSUME NEW p, IsTree(p), NEW c \in Semantics!Components(p),
         NEW d \in Semantics!Around(p, c), d # c
  PROVE  \E f \in Semantics!Around(p, c) \ {Root} : p[f].in = d
<1> DEFINE S == {x \in Semantics!Around(p, c) :
                   x # c => \E f \in Semantics!Around(p, c) \ {Root} : p[f].in = x}
<1>1. /\ Semantics!Around(p, c) \subseteq Semantics!Components(p) /\ c \in Semantics!Around(p, c)
      /\ \A f \in Semantics!Around(p, c) \ {Root} :
           f \in DOMAIN p /\ p[f].in \in Semantics!Around(p, c)
  BY AroundComponents
<1>2. S \in SUBSET Semantics!Components(p) /\ c \in S
  BY <1>1
<1>3. IsClosed(p, S)
  BY <1>1 DEF IsClosed
<1>4. Semantics!Around(p, c) \subseteq S
  <2> HIDE DEF S
  <2> QED BY <1>2, <1>3, AroundInClosed
<1> QED BY <1>4

-----------------------------------------------------------------------------
(***************************************************************************)
(* The inductive invariant.                                                *)
(***************************************************************************)
\* What each fold imports.
Imported == [f \in DOMAIN folds |-> ImportedTags(f)]

\* The tags in the contexts of component c, when imp is what folds import.
Scope(p, imp, c) == UNION {imp[f] : f \in Semantics!Around(p, c) \ {Root}}

\* The keys of the outputs of fold f and of everything inside it.
Within(p, f) ==
  {key \in (DOMAIN p) \X {"count", "own", "optional"} : f \in Semantics!Around(p, key[1])}

\* The folds that a context of component c has been through before fold f.
Earlier(p, c, f) == {g \in Semantics!InnerFolds(p, c) : g < f}

\* A context, whatever it has been through.
ContextShape(x) ==
  x = [own |-> x.own, optional |-> x.optional, tags |-> x.tags,
       folded |-> x.folded, values |-> x.values]

\* A context's vertex exists; that of its @optional edge may not.
IsContext(x) ==
  /\ ContextShape(x)
  /\ x.own \in Vertex
  /\ x.optional \in Vertex \cup {None}

\* A sequence, of anything.
IsSequence(s) == \E S : s \in Seq(S)

\* For each fold around component c, outermost first, whether it starts at the end
\* of the @optional edge of the component it is in.
OptionalFolds(p, c) ==
  LET F[d \in Semantics!Components(p)] ==
        IF d = Root THEN <<>> ELSE Append(F[p[d].in], p[d].from = "optional")
  IN  F[c]

\* The declared type of an output, by its layers: the folds around it, and a property.
TypeOf(p, key) ==
  IF key[2] = "count" THEN OptionalFolds(p, key[1])
  ELSE Append(OptionalFolds(p, key[1]), key[2] = "optional")

\* What of it is left inside component c.
TypeInside(p, c, key) ==
  SubSeq(TypeOf(p, key), Len(OptionalFolds(p, c)) + 1, Len(TypeOf(p, key)))

\* None and Null are not lists: an Option is not its content, nor is one kind of
\* FieldValue another.
NotLists == \A S : None \notin Seq(S) /\ Null \notin Seq(S)

\* A value that a context of component c has for key is of the type the key is declared
\* to have, without the lists for the folds around c.
Fits(p, c, key, value) == NotLists => IsOfType(value, TypeInside(p, c, key))

\* What fold f and the folds inside it output.
OutputsWithin(p, f) == {key \in Within(p, f) : key[2] \in p[key[1]].outputs}

\* What a context of component c that is through its folds S has been given: the
\* outputs of those folds and of the folds inside them, each of its type.
HasOutputs(p, c, S, values) ==
  /\ DOMAIN values = UNION {OutputsWithin(p, g) : g \in S}
  /\ \A key \in DOMAIN values : Fits(p, c, key, values[key])

\* An element of component c, through all of its folds.
IsElement(p, c, x) ==
  /\ x.own \in Vertex
  /\ x.optional \in Vertex \cup {None}
  /\ HasOutputs(p, c, Semantics!InnerFolds(p, c), x.values)

\* Elements of component c.
AreElements(p, c, elements) ==
  IsSequence(elements) /\ \A i \in DOMAIN elements : IsElement(p, c, elements[i])

\* What a context has for fold f once that has collected: nothing, where f does not
\* exist, or elements.
IsFolded(p, f, elements) ==
  (elements = None /\ p[f].from = "optional") \/ AreElements(p, f, elements)

\* A frame has these fields and no others.
FrameShape(r) ==
  r = [fold |-> r.fold, phase |-> r.phase, ctx |-> r.ctx, remaining |-> r.remaining,
       elements |-> r.elements, filter |-> r.filter]

\* A frame has vertices left to visit and has elements of its component.
Collects(p, r) ==
  /\ FrameShape(r)
  /\ r.remaining \in Seq(Vertex)
  /\ AreElements(p, r.fold, r.elements)

\* A context of component c that is through its folds S.
Through(p, imp, c, S, x) ==
  /\ IsContext(x)
  /\ DOMAIN x.tags = Scope(p, imp, c)
  /\ DOMAIN x.folded = S
  /\ HasOutputs(p, c, S, x.values)

\* The frame of the root component never folds a context.
RootFrame(p, r) ==
  /\ Collects(p, r)
  /\ r.fold = Root
  /\ r.phase \in {"collect", "ended"}

\* A frame that folds a context of component c.
NestedFrame(p, imp, r, c) ==
  /\ Collects(p, r)
  /\ r.fold \in Semantics!InnerFolds(p, c)
  /\ r.phase \in {"import", "collect", "filter"}
  /\ IsContext(r.ctx)
  /\ DOMAIN r.ctx.tags = Scope(p, imp, IF r.phase = "collect" THEN r.fold ELSE c)
  /\ DOMAIN r.ctx.folded =
       Earlier(p, c, r.fold) \cup (IF r.phase = "filter" THEN {r.fold} ELSE {})
  /\ HasOutputs(p, c, Earlier(p, c, r.fold), r.ctx.values)
  /\ r.phase = "filter" => IsFolded(p, r.fold, r.ctx.folded[r.fold])

\* The root component is lowest, each other frame folds a context of the one below
\* it, and a frame with another above it is collecting.
Stacked(p, imp, s) ==
  /\ IsSequence(s) /\ Len(s) > 0
  /\ RootFrame(p, s[1])
  /\ \A i \in 2..Len(s) : NestedFrame(p, imp, s[i], s[i - 1].fold)
  /\ \A i \in 1..Len(s) - 1 : s[i].phase = "collect"

\* The inductive invariant
IInv == folds \in Plans /\ graph \in Graphs /\ Stacked(folds, Imported, stack)

-----------------------------------------------------------------------------
(* The folds of a query.                                                   *)

\* What FoldAssumption says of a query's folds.
LEMMA PlansAreTrees ==
  ASSUME NEW p \in Plans
  PROVE  /\ IsTree(p)
         /\ \A f \in DOMAIN p : IsFold(p[f])
         /\ Semantics!Components(p) = {Root} \cup DOMAIN p
<1>1. p \in Seq(Seqs!ToSet(p)) /\ \A f \in DOMAIN p : IsFold(p[f]) /\ p[f].in < f
  BY FoldAssumption
<1>2. Semantics!Components(p) = {Root} \cup DOMAIN p
  BY DEF Semantics!Components, Semantics!RootComponent, Root
<1>3. Len(p) \in Nat /\ DOMAIN p = 1..Len(p)
  BY <1>1
<1>4. ASSUME NEW f \in DOMAIN p
      PROVE f \in Nat /\ f # Root /\ p[f].in \in Nat /\ p[f].in < f /\ p[f].in \in Semantics!Components(p)
  <2>1. f \in Nat /\ f # 0 /\ f \in 1..Len(p) /\ p[f].in \in Nat /\ p[f].in < f
    BY <1>1, <1>3, <1>4 DEF IsFold
  <2>2. p[f].in = 0 \/ p[f].in \in 1..Len(p)
    BY <2>1, <1>3
  <2> QED BY <2>1, <2>2, <1>2, <1>3 DEF Root
<1> QED BY <1>1, <1>2, <1>4 DEF IsTree

\* The folds of a component are numbers, and its own, of which it is around.
LEMMA InnerFoldsAreFolds ==
  ASSUME NEW p \in Plans, NEW c \in Semantics!Components(p)
  PROVE  /\ Semantics!InnerFolds(p, c) \subseteq DOMAIN p
         /\ Semantics!InnerFolds(p, c) \subseteq Int
         /\ IsFiniteSet(Semantics!InnerFolds(p, c))
         /\ c \in Nat
         /\ \A f \in Semantics!InnerFolds(p, c) :
              /\ f > 0 /\ f # Root /\ p[f].in = c
              /\ Semantics!Around(p, f) = {f} \cup Semantics!Around(p, c)
<1>1. p \in Seq(Seqs!ToSet(p)) /\ IsTree(p) /\ Semantics!Components(p) = {Root} \cup DOMAIN p
  BY PlansAreTrees, FoldAssumption
<1>2. Len(p) \in Nat /\ DOMAIN p = 1..Len(p)
  BY <1>1
<1>3. Semantics!InnerFolds(p, c) \subseteq DOMAIN p
  BY DEF Semantics!InnerFolds
<1>4. IsFiniteSet(Semantics!InnerFolds(p, c))
  <2>1. IsFiniteSet(DOMAIN p)
    BY <1>2, FS_Interval
  <2> HIDE DEF Semantics!InnerFolds
  <2> QED BY <2>1, <1>3, FS_Subset
<1>5. ASSUME NEW f \in Semantics!InnerFolds(p, c)
      PROVE f > 0 /\ f # Root /\ p[f].in = c /\ Semantics!Around(p, f) = {f} \cup Semantics!Around(p, c)
  <2>1. f \in DOMAIN p /\ p[f].in = c
    BY DEF Semantics!InnerFolds
  <2>2. f \in 1..Len(p)
    BY <2>1, <1>2
  <2> QED BY <2>1, <2>2, <1>1, AroundFold DEF Root
<1> QED BY <1>1, <1>2, <1>3, <1>4, <1>5 DEF Root

\* A fold's outputs are within it, and so are those of the folds inside it.
LEMMA WithinOuter ==
  ASSUME NEW p \in Plans, NEW c \in Semantics!Components(p), NEW f \in Semantics!InnerFolds(p, c)
  PROVE  Within(p, f) \subseteq Within(p, c)
<1>1. IsTree(p) /\ Semantics!Components(p) = {Root} \cup DOMAIN p
  BY PlansAreTrees
<1>2. c \in Semantics!Around(p, f)
  BY <1>1, InnerFoldsAreFolds, AroundComponents
<1>3. ASSUME NEW key \in Within(p, f) PROVE c \in Semantics!Around(p, key[1])
  <2>1. key[1] \in DOMAIN p /\ f \in Semantics!Around(p, key[1])
    BY DEF Within
  <2> QED BY <2>1, <1>1, <1>2, AroundIsTransitive
<1> QED BY <1>3 DEF Within

\* No output is within two folds of the same component.
LEMMA WithinOneFold ==
  ASSUME NEW p \in Plans, NEW c \in Semantics!Components(p),
         NEW f \in Semantics!InnerFolds(p, c), NEW g \in Semantics!InnerFolds(p, c), f # g
  PROVE  Within(p, f) \cap Within(p, g) = {}
<1>1. IsTree(p) /\ Semantics!Components(p) = {Root} \cup DOMAIN p
  BY PlansAreTrees
<1>2. f # Root /\ g # Root /\ p[f].in = p[g].in
  BY InnerFoldsAreFolds
<1>3. ASSUME NEW key \in Within(p, f), key \in Within(p, g) PROVE FALSE
  <2>1. key[1] \in DOMAIN p /\ f \in Semantics!Around(p, key[1]) /\ g \in Semantics!Around(p, key[1])
    BY <1>3 DEF Within
  <2> QED BY <2>1, <1>1, <1>2, AroundOneFold
<1> QED BY <1>3

\* What Keys() and the fold's own outputs are.
LEMMA OutputsAreWithin ==
  ASSUME NEW p \in Plans, NEW f \in DOMAIN p
  PROVE  /\ Semantics!Keys(p, f) \subseteq Within(p, f)
         /\ {f} \X p[f].outputs \subseteq Within(p, f)
<1>1. IsTree(p) /\ Semantics!Components(p) = {Root} \cup DOMAIN p /\ IsFold(p[f])
  BY PlansAreTrees
<1>2. ASSUME NEW key \in Semantics!Keys(p, f) PROVE key \in Within(p, f)
  <2>1. /\ key \in (DOMAIN p) \X {"count", "own", "optional"}
        /\ f \in Semantics!Around(p, p[key[1]].in) /\ key[1] \in DOMAIN p
    BY <1>2 DEF Semantics!Keys
  <2>2. Semantics!Around(p, key[1]) = {key[1]} \cup Semantics!Around(p, p[key[1]].in)
    BY <2>1, <1>1, AroundFold
  <2> QED BY <2>1, <2>2 DEF Within
<1>3. f \in Semantics!Around(p, f)
  BY <1>1, AroundComponents
<1>4. p[f].outputs \subseteq {"count", "own", "optional"}
  BY <1>1 DEF IsFold
<1> QED BY <1>2, <1>3, <1>4 DEF Within

-----------------------------------------------------------------------------
(***************************************************************************)
(* Nested values and their types.                                          *)
(***************************************************************************)
\* Induction from m to n.
LEMMA InductionFrom ==
  ASSUME NEW m \in Nat, NEW n \in Nat, NEW N, m \in N, \A d \in m..n - 1 : d \in N => d + 1 \in N
  PROVE  m..n \subseteq N
<1> DEFINE Bad == (m..n) \ N
<1>1. ASSUME Bad # {} PROVE FALSE
  <2>1. PICK k \in Bad : \A d \in Bad : k <= d
    <3>1. Bad \subseteq Nat
      OBVIOUS
    <3> HIDE DEF Bad
    <3> QED BY <3>1, <1>1, LeastNatural
  <2>2. k \in m..n /\ k \notin N /\ k # m
    BY <2>1
  <2>3. k - 1 \in m..n - 1 /\ k - 1 \in m..n /\ k = (k - 1) + 1 /\ ~(k <= k - 1)
    BY <2>2
  <2>4. k - 1 \in N
    BY <2>1, <2>3
  <2> QED BY <2>2, <2>3, <2>4
<1> QED BY <1>1

\* What is in the lists of S.
Members(S) == UNION {Seqs!ToSet(v) : v \in S \ {Null}}

\* A sequence of sets, each of the members of the one before.
IsDepths(f, value, n) ==
  f = [d \in 1..n |-> IF d = 1 THEN {value} ELSE Members(f[d - 1])]

LEMMA DepthsExist ==
  ASSUME NEW value, NEW n \in Nat
  PROVE  \E f : IsDepths(f, value, n)
<1> DEFINE N == {k \in Nat : \E f : IsDepths(f, value, k)}
<1>1. 1 \in N
  <2> DEFINE f == [d \in 1..1 |-> {value}]
  <2>1. f = [d \in 1..1 |-> IF d = 1 THEN {value} ELSE Members(f[d - 1])]
    OBVIOUS
  <2> HIDE DEF f
  <2>2. IsDepths(f, value, 1)
    BY <2>1 DEF IsDepths
  <2> QED BY <2>2
<1>2. ASSUME NEW k \in 1..n - 1, k \in N PROVE k + 1 \in N
  <2>1. k \in Nat /\ k + 1 \in Nat /\ k >= 1
    OBVIOUS
  <2>2. PICK f : IsDepths(f, value, k)
    BY <1>2
  <2> DEFINE g == [d \in 1..k + 1 |-> IF d = k + 1 THEN Members(f[k]) ELSE f[d]]
  <2>3. \A d \in 1..k : f[d] = IF d = 1 THEN {value} ELSE Members(f[d - 1])
    BY <2>2 DEF IsDepths
  <2>4. ASSUME NEW d \in 1..k + 1 PROVE g[d] = IF d = 1 THEN {value} ELSE Members(g[d - 1])
    <3>1. CASE d = k + 1
      <4>1. d # 1 /\ d - 1 = k /\ k \in 1..k + 1 /\ k # k + 1
        BY <2>1, <3>1
      <4>2. g[d] = Members(f[k]) /\ g[d - 1] = f[k]
        BY <3>1, <4>1
      <4> HIDE DEF g
      <4> QED BY <4>1, <4>2
    <3>2. CASE d # k + 1
      <4>1. d \in 1..k
        BY <2>1, <3>2
      <4>2. g[d] = f[d]
        BY <3>2
      <4>3. d # 1 => d - 1 \in 1..k + 1 /\ d - 1 # k + 1
        BY <2>1, <4>1
      <4>4. d # 1 => g[d - 1] = f[d - 1]
        BY <4>3
      <4> HIDE DEF g
      <4> QED BY <2>3, <4>1, <4>2, <4>4
    <3> QED BY <3>1, <3>2
  <2>5. g = [d \in 1..k + 1 |-> g[d]]
    OBVIOUS
  <2> HIDE DEF g
  <2>6. g = [d \in 1..k + 1 |-> IF d = 1 THEN {value} ELSE Members(g[d - 1])]
    BY <2>4, <2>5
  <2>7. IsDepths(g, value, k + 1)
    BY <2>6 DEF IsDepths
  <2> QED BY <2>1, <2>7
<1>3. CASE n = 0
  <2> DEFINE f == [d \in 1..0 |-> {value}]
  <2>1. f = [d \in 1..0 |-> IF d = 1 THEN {value} ELSE Members(f[d - 1])]
    OBVIOUS
  <2> HIDE DEF f
  <2> QED BY <2>1, <1>3 DEF IsDepths
<1>4. CASE n # 0
  <2>1. n \in 1..n
    BY <1>4
  <2> HIDE DEF N
  <2>2. 1..n \subseteq N
    BY <1>1, <1>2, InductionFrom
  <2> QED BY <2>1, <2>2 DEF N
<1> QED BY <1>3, <1>4

\* Depths() is that sequence.
LEMMA DepthsAre ==
  ASSUME NEW value, NEW n \in Nat
  PROVE  /\ n >= 1 => Depths(value, n)[1] = {value}
         /\ \A d \in 2..n : Depths(value, n)[d] = Members(Depths(value, n)[d - 1])
<1> DEFINE A == CHOOSE f : f = [d \in 1..n |-> IF d = 1 THEN {value}
                                     ELSE UNION {Seqs!ToSet(v) : v \in f[d - 1] \ {Null}}]
<1>1. Depths(value, n) = A
  BY DEF Depths
<1>2. A = [d \in 1..n |-> IF d = 1 THEN {value} ELSE UNION {Seqs!ToSet(v) : v \in A[d - 1] \ {Null}}]
  <2>1. \E f : f = [d \in 1..n |-> IF d = 1 THEN {value}
                                     ELSE UNION {Seqs!ToSet(v) : v \in f[d - 1] \ {Null}}]
    <3>1. PICK f : IsDepths(f, value, n)
      BY DepthsExist
    <3>2. f = [d \in 1..n |-> IF d = 1 THEN {value} ELSE UNION {Seqs!ToSet(v) : v \in f[d - 1] \ {Null}}]
      BY <3>1 DEF IsDepths, Members
    <3> QED BY <3>2
  <2> QED BY <2>1
<1> HIDE DEF A
<1>3. n >= 1 => A[1] = {value}
  <2>1. n >= 1 => 1 \in 1..n
    OBVIOUS
  <2> QED BY <2>1, <1>2
<1>4. ASSUME NEW d \in 2..n PROVE A[d] = Members(A[d - 1])
  <2>1. d \in 1..n /\ d # 1
    OBVIOUS
  <2> QED BY <2>1, <1>2 DEF Members
<1> QED BY <1>1, <1>3, <1>4

\* What is at a depth of a value is, one less deep, in one of its members.
LEMMA DepthsOfMembers ==
  ASSUME NEW value, NEW n \in Nat, NEW e \in 1..n
  PROVE  Depths(value, n + 1)[e + 1] = UNION {Depths(w, n)[e] : w \in Members({value})}
<1> DEFINE W == Members({value})
           N == {d \in 1..n : Depths(value, n + 1)[d + 1] = UNION {Depths(w, n)[d] : w \in W}}
<1>0. n + 1 \in Nat /\ n >= 1 /\ n + 1 >= 1 /\ 1 \in 1..n /\ 2 \in 2..n + 1
  OBVIOUS
<1>1. 1 \in N
  <2>1. Depths(value, n + 1)[1] = {value}
    BY <1>0, DepthsAre
  <2>2. Depths(value, n + 1)[2] = Members(Depths(value, n + 1)[2 - 1])
    BY <1>0, DepthsAre
  <2>3. Depths(value, n + 1)[1 + 1] = W
    BY <2>1, <2>2
  <2>4. \A w \in W : Depths(w, n)[1] = {w}
    BY <1>0, DepthsAre
  <2> HIDE DEF W
  <2>5. W = UNION {Depths(w, n)[1] : w \in W}
    BY <2>4
  <2> QED BY <1>0, <2>3, <2>5
<1>2. ASSUME NEW d \in 1..n - 1, d \in N PROVE d + 1 \in N
  <2>1. d + 1 \in 1..n /\ d + 2 \in 2..n + 1 /\ d + 1 \in 2..n /\ (d + 2) - 1 = d + 1 /\ (d + 1) - 1 = d
        /\ (d + 1) + 1 = d + 2
    BY <1>2
  <2>2. Depths(value, n + 1)[d + 2] = Members(Depths(value, n + 1)[d + 1])
    BY <1>0, <2>1, DepthsAre
  <2>3. Depths(value, n + 1)[d + 1] = UNION {Depths(w, n)[d] : w \in W}
    BY <1>2
  <2>4. \A w \in W : Depths(w, n)[d + 1] = Members(Depths(w, n)[d])
    BY <1>0, <2>1, DepthsAre
  <2> DEFINE At(w) == Depths(w, n)[d]
  <2> HIDE DEF W
  <2>5. Members(UNION {At(w) : w \in W}) = UNION {Members(At(w)) : w \in W}
    <3> HIDE DEF At
    <3> QED BY DEF Members
  <2>6. UNION {Members(At(w)) : w \in W} = UNION {Depths(w, n)[d + 1] : w \in W}
    BY <2>4
  <2>7. Depths(value, n + 1)[d + 2] = UNION {Depths(w, n)[d + 1] : w \in W}
    BY <2>2, <2>3, <2>5, <2>6
  <2> QED BY <2>1, <2>7
<1> HIDE DEF N
<1>3. 1..n \subseteq N
  BY <1>1, <1>2, InductionFrom
<1> QED BY <1>3 DEF N

\* A value is of a type of one layer.
LEMMA ScalarFits ==
  ASSUME NEW value, NEW nullable \in Seq(BOOLEAN), Len(nullable) = 1,
         value = Null => nullable[1], value # Null => value \in Int
  PROVE  IsOfType(value, nullable)
<1>1. Depths(value, 1)[1] = {value}
  BY DepthsAre
<1>2. \A d \in 1..1 : d = 1
  OBVIOUS
<1> QED BY <1>1, <1>2 DEF IsOfType

\* A value is of a type of more layers if its members are of the layers inside.
LEMMA ListFits ==
  ASSUME NEW value, NEW nullable \in Seq(BOOLEAN), Len(nullable) > 1,
         value = Null => nullable[1],
         \A w \in Members({value}) : IsOfType(w, Tail(nullable))
  PROVE  IsOfType(value, nullable)
<1> DEFINE n == Len(nullable) - 1
           rest == Tail(nullable)
           W == Members({value})
<1>1. n \in Nat /\ n >= 1 /\ Len(nullable) = n + 1 /\ Len(rest) = n /\ n \in 1..n
      /\ \A d \in 1..n : rest[d] = nullable[d + 1]
  OBVIOUS
<1>2. \A w \in W : /\ \A d \in 1..n : Null \in Depths(w, n)[d] => rest[d]
                   /\ Depths(w, n)[n] \ {Null} \subseteq Int
  <2> HIDE DEF W, n, rest
  <2> SUFFICES ASSUME NEW w \in W
               PROVE  /\ \A d \in 1..n : Null \in Depths(w, n)[d] => rest[d]
                      /\ Depths(w, n)[n] \ {Null} \subseteq Int
    OBVIOUS
  <2>1. IsOfType(w, rest)
    BY DEF W, rest
  <2> QED BY <2>1, <1>1 DEF IsOfType
<1>3. \A d \in 1..n : Depths(value, n + 1)[d + 1] = UNION {Depths(w, n)[d] : w \in W}
  <2> HIDE DEF n
  <2> SUFFICES ASSUME NEW d \in 1..n
               PROVE  Depths(value, n + 1)[d + 1] = UNION {Depths(w, n)[d] : w \in W}
    OBVIOUS
  <2>1. n \in Nat
    BY <1>1
  <2> QED BY <2>1, DepthsOfMembers
<1>4. Depths(value, n + 1)[1] = {value}
  <2> HIDE DEF n
  <2>1. n + 1 \in Nat /\ n + 1 >= 1
    BY <1>1
  <2> QED BY <2>1, DepthsAre
<1> HIDE DEF n, rest, W
<1>5. ASSUME NEW d \in 1..n + 1, Null \in Depths(value, n + 1)[d] PROVE nullable[d]
  <2>1. CASE d = 1
    BY <2>1, <1>4, <1>5
  <2>2. CASE d # 1
    <3>1. d - 1 \in 1..n /\ (d - 1) + 1 = d
      BY <2>2, <1>1
    <3>2. PICK e \in 1..n : e + 1 = d
      BY <3>1
    <3>3. PICK w \in W : Null \in Depths(w, n)[e]
      BY <3>2, <1>3, <1>5
    <3>4. rest[e]
      BY <3>3, <1>2
    <3> QED BY <3>2, <3>4, <1>1
  <2> QED BY <2>1, <2>2
<1>6. Depths(value, n + 1)[n + 1] \ {Null} \subseteq Int
  <2>1. Depths(value, n + 1)[n + 1] = UNION {Depths(w, n)[n] : w \in W}
    BY <1>1, <1>3
  <2> QED BY <2>1, <1>2
<1> QED BY <1>1, <1>5, <1>6 DEF IsOfType

-----------------------------------------------------------------------------
(* The types of outputs.                                                   *)

\* The first n of such lists.
AreOptionalFolds(p, F, n) ==
  /\ F \in [0..n -> Seq(BOOLEAN)]
  /\ \A d \in 0..n : F[d] = IF d = Root THEN <<>> ELSE Append(F[p[d].in], p[d].from = "optional")

\* There are such lists.
LEMMA OptionalFoldsExist ==
  ASSUME NEW p \in Plans
  PROVE  \E F : AreOptionalFolds(p, F, Len(p))
<1> DEFINE N == {k \in Nat : \E F : AreOptionalFolds(p, F, k)}
<1>0. Len(p) \in Nat /\ \A d \in 1..Len(p) : p[d].in \in 0..d - 1
  <2>1. p \in Seq(Seqs!ToSet(p)) /\ \A f \in DOMAIN p : p[f].in \in Nat /\ p[f].in < f
    BY FoldAssumption DEF IsFold
  <2>2. Len(p) \in Nat /\ DOMAIN p = 1..Len(p)
    BY <2>1
  <2> QED BY <2>1, <2>2
<1>1. 0 \in N
  <2> DEFINE F == [d \in 0..0 |-> <<>>]
  <2>1. F \in [0..0 -> Seq(BOOLEAN)] /\ \A d \in 0..0 : d = 0 /\ F[d] = <<>>
    OBVIOUS
  <2> HIDE DEF F
  <2>2. AreOptionalFolds(p, F, 0)
    BY <2>1 DEF AreOptionalFolds, Root
  <2> QED BY <2>2
<1>2. ASSUME NEW k \in 0..Len(p) - 1, k \in N PROVE k + 1 \in N
  <2>1. k \in Nat /\ k + 1 \in Nat /\ k + 1 \in 1..Len(p) /\ k + 1 # 0
    BY <1>0
  <2>2. PICK F : AreOptionalFolds(p, F, k)
    BY <1>2
  <2>3. /\ F \in [0..k -> Seq(BOOLEAN)]
        /\ \A d \in 0..k : F[d] = IF d = Root THEN <<>> ELSE Append(F[p[d].in], p[d].from = "optional")
    BY <2>2 DEF AreOptionalFolds
  <2>4. p[k + 1].in \in 0..k
    <3>1. p[k + 1].in \in 0..(k + 1) - 1 /\ (k + 1) - 1 = k
      BY <2>1, <1>0
    <3> QED BY <3>1
  <2> DEFINE new == Append(F[p[k + 1].in], p[k + 1].from = "optional")
             G == [d \in 0..k + 1 |-> IF d = k + 1 THEN new ELSE F[d]]
  <2>5. new \in Seq(BOOLEAN)
    <3>1. F[p[k + 1].in] \in Seq(BOOLEAN) /\ (p[k + 1].from = "optional") \in BOOLEAN
      BY <2>3, <2>4
    <3> QED BY <3>1
  <2>6. \A d \in 0..k : d # k + 1 /\ d \in 0..k + 1 /\ G[d] = F[d]
    BY <2>1
  <2>7. G[k + 1] = new
    BY <2>1
  <2>8. G \in [0..k + 1 -> Seq(BOOLEAN)]
    <3>1. ASSUME NEW d \in 0..k + 1, d # k + 1 PROVE F[d] \in Seq(BOOLEAN)
      <4>1. d \in 0..k
        BY <2>1, <3>1
      <4> QED BY <4>1, <2>3
    <3> HIDE DEF new
    <3> QED BY <2>5, <3>1
  <2>9. ASSUME NEW d \in 0..k + 1
        PROVE  G[d] = IF d = Root THEN <<>> ELSE Append(G[p[d].in], p[d].from = "optional")
    <3>1. CASE d = k + 1
      <4>1. G[p[k + 1].in] = F[p[k + 1].in]
        BY <2>4, <2>6
      <4> HIDE DEF G
      <4> QED BY <3>1, <4>1, <2>1, <2>7 DEF Root
    <3>2. CASE d # k + 1
      <4>1. d \in 0..k
        BY <2>1, <3>2
      <4>2. d # 0 => p[d].in \in 0..k
        <5>1. d # 0 => d \in 1..Len(p) /\ p[d].in \in 0..d - 1
          BY <4>1, <2>1, <1>0
        <5> QED BY <5>1, <4>1, <2>1
      <4>3. G[d] = F[d] /\ (d # 0 => G[p[d].in] = F[p[d].in])
        BY <4>1, <4>2, <2>6
      <4> HIDE DEF G
      <4> QED BY <4>1, <4>3, <2>3 DEF Root
    <3> QED BY <3>1, <3>2
  <2> HIDE DEF G
  <2>10. AreOptionalFolds(p, G, k + 1)
    BY <2>8, <2>9 DEF AreOptionalFolds
  <2> QED BY <2>1, <2>10
<1>3. Len(p) \in 0..Len(p)
  BY <1>0
<1> HIDE DEF N
<1>4. 0..Len(p) \subseteq N
  <2>1. 0 \in Nat
    OBVIOUS
  <2> QED BY <2>1, <1>0, <1>1, <1>2, InductionFrom
<1> QED BY <1>3, <1>4 DEF N

\* OptionalFolds() is what its definition says.
LEMMA OptionalFoldsAre ==
  ASSUME NEW p \in Plans
  PROVE  /\ OptionalFolds(p, Root) = <<>>
         /\ \A f \in DOMAIN p :
              OptionalFolds(p, f) = Append(OptionalFolds(p, p[f].in), p[f].from = "optional")
         /\ \A c \in Semantics!Components(p) : OptionalFolds(p, c) \in Seq(BOOLEAN)
<1> DEFINE C == Semantics!Components(p)
           A == CHOOSE F : F = [d \in C |-> IF d = Root THEN <<>>
                                            ELSE Append(F[p[d].in], p[d].from = "optional")]
<1>1. \A c : OptionalFolds(p, c) = A[c]
  BY DEF OptionalFolds
<1>2. /\ C = {Root} \cup DOMAIN p /\ DOMAIN p = 1..Len(p) /\ Len(p) \in Nat /\ C = 0..Len(p)
      /\ \A f \in DOMAIN p : p[f].in \in C /\ p[f].in \in Nat /\ f \in Nat /\ p[f].in < f /\ f # Root
  <2>1. p \in Seq(Seqs!ToSet(p)) /\ C = {Root} \cup DOMAIN p /\ IsTree(p)
    BY FoldAssumption, PlansAreTrees
  <2>2. Len(p) \in Nat /\ DOMAIN p = 1..Len(p)
    BY <2>1
  <2>3. C = 0..Len(p)
    BY <2>1, <2>2 DEF Root
  <2> QED BY <2>1, <2>2, <2>3 DEF IsTree
<1>3. A = [d \in C |-> IF d = Root THEN <<>> ELSE Append(A[p[d].in], p[d].from = "optional")]
  <2>1. PICK F : AreOptionalFolds(p, F, Len(p))
    BY OptionalFoldsExist
  <2>2. F = [d \in C |-> F[d]]
        /\ \A d \in C : F[d] = IF d = Root THEN <<>> ELSE Append(F[p[d].in], p[d].from = "optional")
    BY <2>1, <1>2 DEF AreOptionalFolds
  <2> HIDE DEF C
  <2>3. F = [d \in C |-> IF d = Root THEN <<>> ELSE Append(F[p[d].in], p[d].from = "optional")]
    BY <2>2
  <2> QED BY <2>3
<1> HIDE DEF A
<1>4. \A d \in C : A[d] = IF d = Root THEN <<>> ELSE Append(A[p[d].in], p[d].from = "optional")
  <2> HIDE DEF C
  <2> QED BY <1>3
<1>5. Root \in C /\ A[Root] = <<>>
  BY <1>2, <1>4
<1>6. \A f \in DOMAIN p : A[f] = Append(A[p[f].in], p[f].from = "optional")
  BY <1>2, <1>4
<1> DEFINE Bad == {d \in C : A[d] \notin Seq(BOOLEAN)}
<1>7. ASSUME Bad # {} PROVE FALSE
  <2>1. PICK m \in Bad : \A n \in Bad : m <= n
    <3>1. Bad \subseteq Nat
      BY <1>2
    <3> HIDE DEF Bad
    <3> QED BY <3>1, <1>7, LeastNatural
  <2>2. m # Root
    <3>1. <<>> \in Seq(BOOLEAN) /\ A[m] \notin Seq(BOOLEAN)
      BY <2>1
    <3> QED BY <3>1, <1>5
  <2>3. m \in DOMAIN p /\ p[m].in \in C /\ p[m].in < m /\ m \in Nat /\ p[m].in \in Nat
    BY <2>1, <2>2, <1>2
  <2>4. A[p[m].in] \in Seq(BOOLEAN)
    <3>1. p[m].in \notin Bad
      <4> HIDE DEF Bad
      <4> QED BY <2>1, <2>3
    <3> QED BY <3>1, <2>3
  <2>5. A[m] = Append(A[p[m].in], p[m].from = "optional") /\ (p[m].from = "optional") \in BOOLEAN
    BY <2>3, <1>6
  <2>6. A[m] \in Seq(BOOLEAN)
    BY <2>4, <2>5
  <2> QED BY <2>1, <2>6
<1> QED BY <1>1, <1>5, <1>6, <1>7

\* The first layers of s.
Begins(r, s) == Len(r) <= Len(s) /\ \A i \in 1..Len(r) : s[i] = r[i]

\* The folds around c are the outermost of those around g inside c.
LEMMA OptionalFoldsBegin ==
  ASSUME NEW p \in Plans, NEW g \in Semantics!Components(p), NEW c \in Semantics!Around(p, g)
  PROVE  Begins(OptionalFolds(p, c), OptionalFolds(p, g))
<1> DEFINE C == Semantics!Components(p)
           S == {d \in C : Begins(OptionalFolds(p, d), OptionalFolds(p, g))}
<1>1. IsTree(p) /\ C = {Root} \cup DOMAIN p
  BY PlansAreTrees
<1>2. g \in S
  <2>1. OptionalFolds(p, g) \in Seq(BOOLEAN)
    BY OptionalFoldsAre
  <2>2. Len(OptionalFolds(p, g)) \in Nat
    BY <2>1
  <2> QED BY <2>2 DEF Begins
<1>3. ASSUME NEW f \in S \ {Root} PROVE p[f].in \in S
  <2>1. f \in DOMAIN p /\ p[f].in \in C
    BY <1>1 DEF IsTree
  <2> DEFINE r == OptionalFolds(p, p[f].in)
             b == p[f].from = "optional"
             s == OptionalFolds(p, g)
  <2>2. r \in Seq(BOOLEAN) /\ OptionalFolds(p, f) = Append(r, b) /\ s \in Seq(BOOLEAN) /\ b \in BOOLEAN
    BY <2>1, OptionalFoldsAre
  <2>3. Begins(Append(r, b), s)
    BY <2>2
  <2> HIDE DEF r, b, s
  <2>4. Begins(r, s)
    BY <2>2, <2>3 DEF Begins
  <2> QED BY <2>1, <2>4 DEF r, s
<1>4. S \in SUBSET C /\ IsClosed(p, S)
  BY <1>3 DEF IsClosed
<1> HIDE DEF S
<1>5. Semantics!Around(p, g) \subseteq S
  BY <1>1, <1>2, <1>4, AroundInClosed
<1> QED BY <1>5 DEF S

\* Inside c, the outermost layer of the type of what fold f of c outputs tells whether f
\* may not exist, and the layers within it are those inside f.
LEMMA TypeOfFold ==
  ASSUME NEW p \in Plans, NEW c \in Semantics!Components(p),
         NEW f \in Semantics!InnerFolds(p, c), NEW key \in Within(p, f)
  PROVE  /\ TypeInside(p, c, key) \in Seq(BOOLEAN) /\ Len(TypeInside(p, c, key)) > 0
         /\ TypeInside(p, c, key)[1] = (p[f].from = "optional")
         /\ Tail(TypeInside(p, c, key)) = TypeInside(p, f, key)
         /\ key = <<f, "count">> => Len(TypeInside(p, c, key)) = 1
         /\ key # <<f, "count">> => Len(TypeInside(p, c, key)) > 1
         /\ key[1] = f /\ key[2] # "count" =>
              TypeInside(p, f, key) \in Seq(BOOLEAN) /\ Len(TypeInside(p, f, key)) = 1
              /\ TypeInside(p, f, key)[1] = (key[2] = "optional")
<1> DEFINE g == key[1]
           r == OptionalFolds(p, c)
           b == p[f].from = "optional"
           s == OptionalFolds(p, g)
           N == TypeOf(p, key)
           last == key[2] = "optional"
<1>1. /\ IsTree(p) /\ Semantics!Components(p) = {Root} \cup DOMAIN p
      /\ g \in DOMAIN p /\ f \in Semantics!Around(p, g) /\ f \in DOMAIN p /\ p[f].in = c
      /\ key = <<g, key[2]>>
  BY PlansAreTrees, InnerFoldsAreFolds DEF Within
<1>2. /\ r \in Seq(BOOLEAN) /\ s \in Seq(BOOLEAN) /\ b \in BOOLEAN /\ last \in BOOLEAN
      /\ OptionalFolds(p, f) = Append(r, b)
  BY <1>1, OptionalFoldsAre
<1>3. Begins(Append(r, b), s)
  BY <1>1, <1>2, OptionalFoldsBegin
<1>4. g # f => Len(s) > Len(r) + 1
  <2>1. SUFFICES ASSUME g # f PROVE Len(s) > Len(r) + 1
    OBVIOUS
  <2>2. f \in Semantics!Around(p, p[g].in)
    BY <1>1, <2>1, AroundFold
  <2>3. p[g].in \in Semantics!Components(p)
    BY <1>1 DEF IsTree
  <2> DEFINE q == OptionalFolds(p, p[g].in)
             d == p[g].from = "optional"
  <2>4. q \in Seq(BOOLEAN) /\ s = Append(q, d) /\ d \in BOOLEAN
    BY <1>1, <2>3, OptionalFoldsAre
  <2>5. Begins(Append(r, b), q)
    BY <1>2, <2>2, <2>3, OptionalFoldsBegin
  <2> HIDE DEF q, r, s, b, d
  <2> QED BY <1>2, <2>4, <2>5 DEF Begins
<1>5. g = f => s = Append(r, b)
  BY <1>2
<1>6. /\ key[2] = "count" => N = s
      /\ key[2] # "count" => N = Append(s, last)
  BY DEF TypeOf
<1>7. /\ TypeInside(p, c, key) = SubSeq(N, Len(r) + 1, Len(N))
      /\ TypeInside(p, f, key) = SubSeq(N, Len(Append(r, b)) + 1, Len(N))
  BY <1>2 DEF TypeInside
<1> HIDE DEF g, r, b, s, N, last
<1>8. /\ N \in Seq(BOOLEAN) /\ Len(N) >= Len(r) + 1 /\ N[Len(r) + 1] = b
      /\ Len(r) \in Nat /\ Len(Append(r, b)) = Len(r) + 1 /\ Len(N) \in Nat
  <2>1. /\ Len(s) >= Len(r) + 1 /\ s[Len(r) + 1] = b /\ Len(r) \in Nat /\ Len(s) \in Nat
        /\ Len(Append(r, b)) = Len(r) + 1
    BY <1>2, <1>3 DEF Begins
  <2>2. CASE key[2] = "count"
    BY <2>1, <2>2, <1>2, <1>6
  <2>3. CASE key[2] # "count"
    <3>1. N = Append(s, last)
      BY <2>3, <1>6
    <3>2. N \in Seq(BOOLEAN) /\ Len(N) = Len(s) + 1 /\ \A i \in 1..Len(s) : N[i] = s[i]
      BY <3>1, <1>2
    <3>3. Len(r) + 1 \in 1..Len(s)
      BY <2>1
    <3>4. N[Len(r) + 1] = b
      BY <2>1, <3>2, <3>3
    <3>5. Len(N) >= Len(r) + 1 /\ Len(N) \in Nat
      BY <2>1, <3>2
    <3> QED BY <2>1, <3>2, <3>4, <3>5
  <2> QED BY <2>1, <2>2, <2>3
<1>9. key = <<f, "count">> => Len(N) = Len(r) + 1
  BY <1>1, <1>2, <1>5, <1>6 DEF g
<1>10. key # <<f, "count">> => Len(N) > Len(r) + 1
  <2>1. CASE g = f
    <3>1. key # <<f, "count">> => key[2] # "count"
      BY <1>1, <2>1
    <3> QED BY <3>1, <2>1, <1>2, <1>5, <1>6
  <2>2. CASE g # f
    <3>1. Len(s) > Len(r) + 1 /\ Len(s) \in Nat /\ Len(r) \in Nat
      BY <2>2, <1>4, <1>2
    <3>2. Len(N) >= Len(s)
      BY <1>2, <1>6
    <3> QED BY <3>1, <3>2, <1>8
  <2> QED BY <2>1, <2>2
<1>11. g = f /\ key[2] # "count" => Len(N) = Len(r) + 2 /\ N[Len(r) + 2] = last
  BY <1>2, <1>5, <1>6
<1> DEFINE k == Len(r) + 1
           T == SubSeq(N, k, Len(N))
           U == SubSeq(N, k + 1, Len(N))
<1>12. k \in Nat /\ k >= 1 /\ Len(N) \in Nat /\ Len(N) >= k
  BY <1>8
<1>13. T \in Seq(BOOLEAN) /\ Len(T) = Len(N) - k + 1 /\ T[1] = N[k]
  <2> HIDE DEF k
  <2> QED BY <1>8, <1>12
<1>14. U \in Seq(BOOLEAN) /\ Len(U) = Len(N) - k /\ \A i \in 1..Len(N) - k : U[i] = N[k + i]
  <2> HIDE DEF k
  <2> QED BY <1>8, <1>12
<1>15. Tail(T) = U
  <2> HIDE DEF k
  <2> QED BY <1>8, <1>12
<1>16. /\ TypeInside(p, c, key) = T /\ TypeInside(p, f, key) = U
  BY <1>7, <1>8
<1>17. Len(T) > 0 /\ T[1] = b
  <2>1. Len(T) > 0
    <3> HIDE DEF T, k
    <3> QED BY <1>12, <1>13
  <2>2. T[1] = b
    BY <1>8, <1>13
  <2> QED BY <2>1, <2>2
<1>18. /\ key = <<f, "count">> => Len(T) = 1
       /\ key # <<f, "count">> => Len(T) > 1
  <2>1. Len(T) = Len(N) - k + 1 /\ k = Len(r) + 1 /\ Len(N) \in Nat /\ Len(r) \in Nat
    BY <1>8, <1>13
  <2> HIDE DEF T, k
  <2> QED BY <2>1, <1>9, <1>10
<1>19. key[1] = f /\ key[2] # "count" => U \in Seq(BOOLEAN) /\ Len(U) = 1 /\ U[1] = last
  <2>1. SUFFICES ASSUME key[1] = f, key[2] # "count"
                 PROVE  U \in Seq(BOOLEAN) /\ Len(U) = 1 /\ U[1] = last
    OBVIOUS
  <2>2. Len(N) = k + 1 /\ N[k + 1] = last
    <3>1. Len(N) = Len(r) + 2 /\ N[Len(r) + 2] = last
      BY <2>1, <1>11 DEF g
    <3>2. k + 1 = Len(r) + 2
      BY <1>8
    <3> HIDE DEF k
    <3> QED BY <3>1, <3>2
  <2>3. Len(N) - k = 1 /\ 1 \in 1..1
    <3> HIDE DEF k
    <3> QED BY <2>2, <1>12
  <2> HIDE DEF U, k
  <2>4. Len(U) = 1 /\ U[1] = N[k + 1]
    BY <2>3, <1>14
  <2> QED BY <1>14, <2>2, <2>4
<1> HIDE DEF T, U, k
<1> QED BY <1>13, <1>15, <1>16, <1>17, <1>18, <1>19 DEF b, last

\* Where a fold does not exist, what is output of it and of the folds inside is null.
LEMMA NullFits ==
  ASSUME NEW p \in Plans, NEW c \in Semantics!Components(p),
         NEW f \in Semantics!InnerFolds(p, c), p[f].from = "optional", NEW key \in Within(p, f)
  PROVE  Fits(p, c, key, Null)
<1> DEFINE T == TypeInside(p, c, key)
<1>1. T \in Seq(BOOLEAN) /\ Len(T) > 0 /\ T[1]
  BY TypeOfFold
<1> HIDE DEF T
<1>2. Len(T) = 1 \/ Len(T) > 1
  <2>1. \A n \in Nat : n > 0 => n = 1 \/ n > 1
    OBVIOUS
  <2>2. Len(T) \in Nat
    BY <1>1
  <2> QED BY <1>1, <2>1, <2>2
<1>3. IsOfType(Null, T)
  <2>1. CASE Len(T) = 1
    BY <1>1, <2>1, ScalarFits
  <2>2. CASE Len(T) > 1
    <3>1. Members({Null}) = {}
      BY DEF Members
    <3>2. \A w \in Members({Null}) : IsOfType(w, Tail(T))
      BY <3>1
    <3> DEFINE null == Null
    <3> HIDE DEF null
    <3>3. null = Null => IsOfType(null, T)
      <4>1. SUFFICES ASSUME null = Null PROVE IsOfType(null, T)
        OBVIOUS
      <4> QED BY <1>1, <2>2, <3>2, <4>1, ListFits
    <3> QED BY <3>3 DEF null
  <2> QED BY <1>2, <2>1, <2>2
<1> QED BY <1>3 DEF Fits, T

\* A count is a number.
LEMMA CountFits ==
  ASSUME NEW p \in Plans, NEW c \in Semantics!Components(p),
         NEW f \in Semantics!InnerFolds(p, c), <<f, "count">> \in Within(p, f), NEW n \in Int
  PROVE  Fits(p, c, <<f, "count">>, n)
<1> DEFINE key == <<f, "count">>
           T == TypeInside(p, c, key)
<1>1. T \in Seq(BOOLEAN) /\ Len(T) = 1
  BY TypeOfFold
<1>2. n # Null
  BY FoldAssumption
<1> HIDE DEF T
<1>3. IsOfType(n, T)
  BY <1>1, <1>2, ScalarFits
<1> QED BY <1>3 DEF Fits, T

\* So is a property, and it is null only at the end of an @optional edge.
LEMMA PropertyFits ==
  ASSUME NEW p \in Plans, NEW c \in Semantics!Components(p),
         NEW f \in Semantics!InnerFolds(p, c), NEW key \in Within(p, f),
         key[1] = f, key[2] # "count",
         NEW value, value \in Int \/ (value = Null /\ key[2] = "optional")
  PROVE  Fits(p, f, key, value)
<1> DEFINE T == TypeInside(p, f, key)
<1>1. T \in Seq(BOOLEAN) /\ Len(T) = 1 /\ T[1] = (key[2] = "optional")
  BY TypeOfFold
<1>2. Null \notin Int
  BY FoldAssumption
<1> HIDE DEF T
<1>3. (value = Null => T[1]) /\ (value # Null => value \in Int)
  BY <1>1, <1>2
<1>4. IsOfType(value, T)
  BY <1>1, <1>3, ScalarFits
<1> QED BY <1>4 DEF Fits, T

\* A list of an output of fold f fits outside of f if its values do inside.
LEMMA SequenceFits ==
  ASSUME NEW p \in Plans, NEW c \in Semantics!Components(p),
         NEW f \in Semantics!InnerFolds(p, c), NEW key \in Within(p, f), key # <<f, "count">>,
         NEW value, IsSequence(value), \A i \in DOMAIN value : Fits(p, f, key, value[i])
  PROVE  Fits(p, c, key, value)
<1> DEFINE T == TypeInside(p, c, key)
           U == TypeInside(p, f, key)
<1>1. T \in Seq(BOOLEAN) /\ Len(T) > 1 /\ Tail(T) = U
  BY TypeOfFold
<1>2. SUFFICES ASSUME NotLists PROVE IsOfType(value, T)
  BY DEF Fits
<1> HIDE DEF T
<1>3. value # Null
  <2>1. PICK S : value \in Seq(S)
    BY DEF IsSequence
  <2>2. Null \notin Seq(S)
    BY <1>2 DEF NotLists
  <2> QED BY <2>1, <2>2
<1>4. ASSUME NEW w \in Members({value}) PROVE IsOfType(w, Tail(T))
  <2>1. PICK i \in DOMAIN value : w = value[i]
    BY <1>3 DEF Members, Seqs!ToSet
  <2>2. Fits(p, f, key, value[i])
    OBVIOUS
  <2>3. IsOfType(w, U)
    BY <1>2, <2>1, <2>2 DEF Fits
  <2> QED BY <1>1, <2>3
<1> QED BY <1>1, <1>3, <1>4, ListFits

-----------------------------------------------------------------------------
(* The outputs of contexts.                                                *)

\* Those of the folds in a component and inside them are the keys of that component.
LEMMA OutputsInside ==
  ASSUME NEW p \in Plans, NEW f \in Semantics!Components(p)
  PROVE  UNION {OutputsWithin(p, g) : g \in Semantics!InnerFolds(p, f)} = Semantics!Keys(p, f)
<1>1. IsTree(p) /\ Semantics!Components(p) = {Root} \cup DOMAIN p /\ f \in Nat
  BY PlansAreTrees DEF IsTree, Root
<1>2. ASSUME NEW key \in Semantics!Keys(p, f)
      PROVE  \E g \in Semantics!InnerFolds(p, f) : key \in OutputsWithin(p, g)
  <2>1. /\ key \in (DOMAIN p) \X {"count", "own", "optional"} /\ key[1] \in DOMAIN p
        /\ f \in Semantics!Around(p, p[key[1]].in) /\ key[2] \in p[key[1]].outputs
    BY <1>2 DEF Semantics!Keys
  <2> DEFINE h == key[1]
  <2>2. /\ h \in Semantics!Components(p) /\ p[h].in \in Semantics!Components(p) /\ p[h].in \in Nat
        /\ p[h].in < h /\ h \in Nat /\ f \in Nat
    BY <2>1, <1>1 DEF IsTree
  <2>3. f <= p[h].in
    BY <2>1, <2>2, <1>1, AroundIsBefore
  <2>4. f # h
    <3> HIDE DEF h
    <3> QED BY <2>2, <2>3
  <2>5. f \in Semantics!Around(p, h)
    BY <2>1, <1>1, AroundFold
  <2>6. PICK g \in Semantics!Around(p, h) \ {Root} : p[g].in = f
    BY <2>2, <2>4, <2>5, <1>1, AroundSomeFold
  <2>7. g \in DOMAIN p
    BY <2>2, <1>1, AroundComponents
  <2>8. g \in Semantics!InnerFolds(p, f)
    BY <2>6, <2>7 DEF Semantics!InnerFolds
  <2>9. key \in OutputsWithin(p, g)
    BY <2>1, <2>6 DEF OutputsWithin, Within
  <2> QED BY <2>8, <2>9
<1>3. ASSUME NEW g \in Semantics!InnerFolds(p, f), NEW key \in OutputsWithin(p, g)
      PROVE  key \in Semantics!Keys(p, f)
  <2>1. /\ key \in (DOMAIN p) \X {"count", "own", "optional"} /\ key[1] \in DOMAIN p
        /\ g \in Semantics!Around(p, key[1]) /\ key[2] \in p[key[1]].outputs
    BY <1>3 DEF OutputsWithin, Within
  <2>2. g \in DOMAIN p /\ p[g].in = f /\ g \in Nat /\ f < g
    BY <1>1 DEF Semantics!InnerFolds, IsTree
  <2>3. f \in Semantics!Around(p, g)
    BY <1>1, <2>2, InnerFoldsAreFolds, AroundComponents
  <2>4. f \in Semantics!Around(p, key[1])
    BY <2>1, <2>2, <2>3, <1>1, AroundIsTransitive
  <2>5. f # key[1]
    <3>1. key[1] \in Semantics!Components(p) /\ key[1] \in Nat /\ f \in Nat
      BY <2>1, <1>1 DEF IsTree
    <3>2. g <= key[1]
      BY <3>1, <2>1, <1>1, AroundIsBefore
    <3> QED BY <2>2, <3>1, <3>2
  <2>6. f \in Semantics!Around(p, p[key[1]].in)
    BY <2>1, <2>4, <2>5, <1>1, AroundFold
  <2> QED BY <2>1, <2>6 DEF Semantics!Keys
<1> QED BY <1>2, <1>3

\* They are those of the fold itself and those of the folds in its component.
LEMMA OutputsOfFold ==
  ASSUME NEW p \in Plans, NEW f \in DOMAIN p
  PROVE  /\ UNION {OutputsWithin(p, g) : g \in Semantics!InnerFolds(p, f)} = Semantics!Keys(p, f)
         /\ OutputsWithin(p, f) = ({f} \X p[f].outputs) \cup Semantics!Keys(p, f)
<1>1. IsTree(p) /\ Semantics!Components(p) = {Root} \cup DOMAIN p /\ IsFold(p[f])
  BY PlansAreTrees
<1>2. ASSUME NEW key \in OutputsWithin(p, f)
      PROVE  key \in ({f} \X p[f].outputs) \cup Semantics!Keys(p, f)
  <2>1. /\ key \in (DOMAIN p) \X {"count", "own", "optional"} /\ key[1] \in DOMAIN p
        /\ f \in Semantics!Around(p, key[1]) /\ key[2] \in p[key[1]].outputs
    BY <1>2 DEF OutputsWithin, Within
  <2>2. CASE key[1] = f
    BY <2>1, <2>2
  <2>3. CASE key[1] # f
    <3>1. f \in Semantics!Around(p, p[key[1]].in)
      BY <2>1, <2>3, <1>1, AroundFold
    <3> QED BY <2>1, <3>1 DEF Semantics!Keys
  <2> QED BY <2>2, <2>3
<1>3. ASSUME NEW key \in ({f} \X p[f].outputs) \cup Semantics!Keys(p, f)
      PROVE  key \in OutputsWithin(p, f)
  <2>1. key \in Within(p, f)
    BY <1>3, OutputsAreWithin
  <2>2. key[2] \in p[key[1]].outputs
    BY <1>3 DEF Semantics!Keys
  <2> QED BY <2>1, <2>2 DEF OutputsWithin
<1>4. UNION {OutputsWithin(p, g) : g \in Semantics!InnerFolds(p, f)} = Semantics!Keys(p, f)
  BY <1>1, OutputsInside
<1>5. OutputsWithin(p, f) = ({f} \X p[f].outputs) \cup Semantics!Keys(p, f)
  BY <1>2, <1>3
<1> QED BY <1>4, <1>5

-----------------------------------------------------------------------------
(* The stack.                                                              *)

\* A sequence with one more.
LEMMA SequenceAppend ==
  ASSUME NEW s, IsSequence(s), NEW x
  PROVE  /\ IsSequence(Append(s, x))
         /\ Len(Append(s, x)) = Len(s) + 1
         /\ DOMAIN Append(s, x) = 1..Len(s) + 1
         /\ Append(s, x)[Len(s) + 1] = x
         /\ \A i \in 1..Len(s) : Append(s, x)[i] = s[i]
<1>1. PICK S : s \in Seq(S)
  BY DEF IsSequence
<1>2. s \in Seq(S \cup {x})
  BY <1>1
<1>3. Append(s, x) \in Seq(S \cup {x})
  BY <1>2
<1> QED BY <1>2, <1>3 DEF IsSequence

\* A sequence without its last.
Lower(s) == SubSeq(s, 1, Len(s) - 1)

\* Without its last a sequence keeps all the others where they are.
LEMMA SequenceFront ==
  ASSUME NEW s, IsSequence(s), Len(s) > 0
  PROVE  /\ IsSequence(Lower(s))
         /\ Len(Lower(s)) = Len(s) - 1
         /\ Len(s) \in Nat
         /\ \A i \in 1..Len(s) - 1 : Lower(s)[i] = s[i]
<1>1. PICK S : s \in Seq(S)
  BY DEF IsSequence
<1> DEFINE n == Len(s) - 1
<1>2. n \in Nat /\ n <= Len(s) /\ n + 1 = Len(s) /\ Len(s) \in Nat
  BY <1>1
<1> HIDE DEF n
<1>3. /\ SubSeq(s, 1, n) \in Seq(S)
      /\ Len(SubSeq(s, 1, n)) = n
      /\ \A i \in 1..n : SubSeq(s, 1, n)[i] = s[i]
  BY <1>1, <1>2
<1> QED BY <1>2, <1>3 DEF IsSequence, Lower, n

\* A frame on top of a stack that is collecting.
LEMMA PushKeeps ==
  ASSUME NEW p, NEW imp, NEW s, Stacked(p, imp, s), s[Len(s)].phase = "collect",
         NEW r, NestedFrame(p, imp, r, s[Len(s)].fold)
  PROVE  Stacked(p, imp, Append(s, r))
<1>1. IsSequence(s) /\ Len(s) > 0 /\ Len(s) \in Nat
  BY DEF Stacked, IsSequence
<1> DEFINE t == Append(s, r)
<1>2. /\ IsSequence(t) /\ Len(t) = Len(s) + 1 /\ t[Len(s) + 1] = r
      /\ \A i \in 1..Len(s) : t[i] = s[i]
  BY <1>1, SequenceAppend
<1> HIDE DEF t
<1>3. RootFrame(p, t[1])
  <2>1. t[1] = s[1]
    BY <1>1, <1>2
  <2> QED BY <2>1 DEF Stacked
<1>4. ASSUME NEW i \in 2..Len(t) PROVE NestedFrame(p, imp, t[i], t[i - 1].fold)
  <2>1. t[i - 1] = s[i - 1]
    BY <1>1, <1>2
  <2>2. CASE i = Len(s) + 1
    <3>1. i - 1 = Len(s) /\ t[i] = r
      BY <2>2, <1>1, <1>2
    <3> QED BY <3>1, <2>1
  <2>3. CASE i # Len(s) + 1
    <3>1. i \in 2..Len(s) /\ i \in 1..Len(s)
      BY <2>3, <1>1, <1>2
    <3> QED BY <3>1, <2>1, <1>2 DEF Stacked
  <2> QED BY <2>2, <2>3
<1>5. ASSUME NEW i \in 1..Len(t) - 1 PROVE t[i].phase = "collect"
  <2>1. i \in 1..Len(s) /\ t[i] = s[i]
    BY <1>1, <1>2
  <2>2. i = Len(s) \/ i \in 1..Len(s) - 1
    BY <2>1, <1>1
  <2> QED BY <2>1, <2>2 DEF Stacked
<1>6. IsSequence(t) /\ Len(t) > 0
  BY <1>1, <1>2
<1> QED BY <1>3, <1>4, <1>5, <1>6 DEF Stacked, t

\* A stack without its top, which is not the root component.
LEMMA PopKeeps ==
  ASSUME NEW p, NEW imp, NEW s, Stacked(p, imp, s), Len(s) > 1
  PROVE  /\ Stacked(p, imp, Lower(s))
         /\ Lower(s)[Len(Lower(s))].phase = "collect"
         /\ Lower(s)[Len(Lower(s))] = s[Len(s) - 1]
<1> DEFINE t == Lower(s)
<1>1. IsSequence(s) /\ Len(s) > 0 /\ Len(s) \in Nat /\ Len(s) > 1
  BY DEF Stacked, IsSequence
<1>2. /\ IsSequence(t) /\ Len(t) = Len(s) - 1
      /\ \A i \in 1..Len(s) - 1 : t[i] = s[i]
  BY <1>1, SequenceFront
<1> HIDE DEF t
<1>3. RootFrame(p, t[1])
  <2>1. t[1] = s[1]
    BY <1>1, <1>2
  <2> QED BY <2>1 DEF Stacked
<1>4. ASSUME NEW i \in 2..Len(t) PROVE NestedFrame(p, imp, t[i], t[i - 1].fold)
  <2>1. t[i - 1] = s[i - 1] /\ t[i] = s[i] /\ i \in 2..Len(s)
    BY <1>1, <1>2
  <2> QED BY <2>1 DEF Stacked
<1>5. ASSUME NEW i \in 1..Len(t) PROVE t[i].phase = "collect"
  <2>1. i \in 1..Len(s) - 1 /\ t[i] = s[i]
    BY <1>1, <1>2
  <2> QED BY <2>1 DEF Stacked
<1>6. IsSequence(t) /\ Len(t) > 0
  BY <1>1, <1>2
<1>7. t[Len(t)] = s[Len(s) - 1] /\ Len(t) \in 1..Len(t) /\ \A i \in 1..Len(t) - 1 : i \in 1..Len(t)
  BY <1>1, <1>2
<1>8. Stacked(p, imp, t)
  BY <1>3, <1>4, <1>5, <1>6, <1>7 DEF Stacked
<1> QED BY <1>5, <1>7, <1>8 DEF t

\* What may be the top of a stack.
IsTop(p, imp, s, r) ==
  IF Len(s) = 1 THEN RootFrame(p, r) ELSE NestedFrame(p, imp, r, s[Len(s) - 1].fold)

\* The top of a stack is what may be one.
LEMMA TopIsTop ==
  ASSUME NEW p, NEW imp, NEW s, Stacked(p, imp, s)
  PROVE  IsTop(p, imp, s, s[Len(s)])
<1>1. IsSequence(s) /\ Len(s) > 0 /\ Len(s) \in Nat
  BY DEF Stacked, IsSequence
<1>2. CASE Len(s) = 1
  BY <1>2 DEF Stacked, IsTop
<1>3. CASE Len(s) # 1
  <2>1. Len(s) \in 2..Len(s)
    BY <1>1, <1>3
  <2> QED BY <2>1, <1>3 DEF Stacked, IsTop
<1> QED BY <1>2, <1>3

\* A stack with another top.
LEMMA ReplaceKeeps ==
  ASSUME NEW p, NEW imp, NEW s, Stacked(p, imp, s), NEW r, IsTop(p, imp, s, r)
  PROVE  Stacked(p, imp, Append(Lower(s), r))
<1>1. IsSequence(s) /\ Len(s) > 0 /\ Len(s) \in Nat
  BY DEF Stacked, IsSequence
<1>2. CASE Len(s) = 1
  <2> DEFINE t == Append(Lower(s), r)
  <2>1. /\ IsSequence(t) /\ Len(t) = 1 /\ t[1] = r
    <3> DEFINE u == Lower(s)
    <3>1. IsSequence(u) /\ Len(u) = Len(s) - 1
      BY <1>1, SequenceFront
    <3>2. Len(u) = 0
      BY <3>1, <1>2
    <3> HIDE DEF u
    <3>3. IsSequence(Append(u, r)) /\ Len(Append(u, r)) = Len(u) + 1 /\ Append(u, r)[Len(u) + 1] = r
      BY <3>1, SequenceAppend
    <3> QED BY <3>2, <3>3 DEF u
  <2> HIDE DEF t
  <2>2. Stacked(p, imp, t)
    BY <2>1, <1>2 DEF Stacked, IsTop
  <2> QED BY <2>2 DEF t
<1>3. CASE Len(s) # 1
  <2> DEFINE t == Lower(s)
  <2>1. Stacked(p, imp, t) /\ t[Len(t)].phase = "collect" /\ t[Len(t)] = s[Len(s) - 1]
    <3>0. Len(s) \in Nat /\ Len(s) > 0
      BY <1>1
    <3>1. Len(s) > 1
      BY <3>0, <1>3
    <3> QED BY <3>1, PopKeeps
  <2>2. NestedFrame(p, imp, r, t[Len(t)].fold)
    BY <2>1, <1>3 DEF IsTop
  <2> HIDE DEF t
  <2>3. Stacked(p, imp, Append(t, r))
    BY <2>1, <2>2, PushKeeps
  <2> QED BY <2>3 DEF t
<1> QED BY <1>2, <1>3

\* Replacing the last of a sequence.
LEMMA ExceptLast ==
  ASSUME NEW s, IsSequence(s), Len(s) > 0, NEW r
  PROVE  [s EXCEPT ![Len(s)] = r] = Append(Lower(s), r)
<1>1. PICK S : s \in Seq(S)
  BY DEF IsSequence
<1> DEFINE t == Lower(s)
           u == [s EXCEPT ![Len(s)] = r]
<1>2. /\ IsSequence(t) /\ Len(t) = Len(s) - 1 /\ Len(s) \in Nat
      /\ \A i \in 1..Len(s) - 1 : t[i] = s[i]
  BY SequenceFront
<1>3. DOMAIN s = 1..Len(s)
  BY <1>1
<1>4. DOMAIN u = 1..Len(s) /\ u[Len(s)] = r /\ \A i \in 1..Len(s) - 1 : u[i] = s[i]
  BY <1>2, <1>3
<1>5. u = [i \in 1..Len(s) |-> u[i]]
  BY <1>3
<1> HIDE DEF t, u
<1>6. /\ Len(Append(t, r)) = Len(s) /\ DOMAIN Append(t, r) = 1..Len(s)
      /\ Append(t, r)[Len(s)] = r
      /\ \A i \in 1..Len(s) - 1 : Append(t, r)[i] = s[i]
  <2>1. /\ Len(Append(t, r)) = Len(t) + 1 /\ DOMAIN Append(t, r) = 1..Len(t) + 1
        /\ Append(t, r)[Len(t) + 1] = r /\ \A i \in 1..Len(t) : Append(t, r)[i] = t[i]
    BY <1>2, SequenceAppend
  <2> QED BY <2>1, <1>2
<1>7. Append(t, r) = [i \in 1..Len(s) |-> Append(t, r)[i]]
  <2> DEFINE v == Append(t, r)
  <2>1. IsSequence(v)
    BY <1>2, SequenceAppend
  <2>2. PICK T : v \in Seq(T)
    BY <2>1 DEF IsSequence
  <2>3. Len(v) = Len(s)
    BY <1>6
  <2> HIDE DEF v
  <2>4. v = [i \in 1..Len(s) |-> v[i]]
    BY <2>2, <2>3
  <2> QED BY <2>4 DEF v
<1>8. \A i \in 1..Len(s) : u[i] = Append(t, r)[i]
  <2>1. \A i \in 1..Len(s) : i = Len(s) \/ i \in 1..Len(s) - 1
    BY <1>2
  <2> QED BY <2>1, <1>4, <1>6
<1>9. u = Append(t, r)
  BY <1>5, <1>7, <1>8
<1> QED BY <1>9 DEF t, u

-----------------------------------------------------------------------------
(* Frames of the stack.                                                    *)

\* Every frame is of a component of the query.
LEMMA FoldsOfFrames ==
  ASSUME NEW p \in Plans, NEW imp, NEW s, Stacked(p, imp, s), NEW i \in 1..Len(s)
  PROVE  s[i].fold \in Semantics!Components(p)
<1>1. Semantics!Components(p) = {Root} \cup DOMAIN p
  BY PlansAreTrees
<1>2. IsSequence(s) /\ RootFrame(p, s[1])
      /\ \A j \in 2..Len(s) : NestedFrame(p, imp, s[j], s[j - 1].fold)
  BY DEF Stacked
<1>3. Len(s) \in Nat
  BY <1>2 DEF IsSequence
<1>4. CASE i = 1
  BY <1>1, <1>2, <1>4 DEF RootFrame
<1>5. CASE i # 1
  <2>1. i \in 2..Len(s)
    BY <1>3, <1>5
  <2>2. s[i].fold \in Semantics!InnerFolds(p, s[i - 1].fold)
    BY <2>1, <1>2 DEF NestedFrame
  <2> QED BY <2>2, <1>1 DEF Semantics!InnerFolds
<1> QED BY <1>4, <1>5

\* A top that is a fold's, and what collects its context.
LEMMA NestedTop ==
  ASSUME NEW p \in Plans, NEW imp, NEW s, Stacked(p, imp, s),
         s[Len(s)].fold # Root \/ s[Len(s)].phase \in {"import", "filter"}
  PROVE  /\ Len(s) > 1
         /\ NestedFrame(p, imp, s[Len(s)], s[Len(s) - 1].fold)
         /\ s[Len(s) - 1].fold \in Semantics!Components(p)
         /\ s[Len(s)].fold \in Semantics!InnerFolds(p, s[Len(s) - 1].fold)
         /\ s[Len(s)].fold \in DOMAIN p /\ s[Len(s)].fold # Root
         /\ p[s[Len(s)].fold].in = s[Len(s) - 1].fold
<1>1. IsSequence(s) /\ Len(s) > 0 /\ RootFrame(p, s[1])
      /\ \A j \in 2..Len(s) : NestedFrame(p, imp, s[j], s[j - 1].fold)
  BY DEF Stacked
<1>2. Len(s) \in Nat
  BY <1>1 DEF IsSequence
<1>3. Len(s) # 1
  BY <1>1 DEF RootFrame
<1>4. Len(s) > 1 /\ Len(s) \in 2..Len(s) /\ Len(s) - 1 \in 1..Len(s)
  <2>1. Len(s) > 0
    BY <1>1
  <2>2. \A n \in Nat : n > 0 /\ n # 1 => n > 1
    OBVIOUS
  <2>3. Len(s) > 1
    BY <2>1, <2>2, <1>2, <1>3
  <2> QED BY <2>3, <1>2
<1>5. s[Len(s) - 1].fold \in Semantics!Components(p)
  BY <1>4, FoldsOfFrames
<1>6. NestedFrame(p, imp, s[Len(s)], s[Len(s) - 1].fold)
  BY <1>1, <1>4
<1>7. s[Len(s)].fold \in Semantics!InnerFolds(p, s[Len(s) - 1].fold)
  BY <1>6 DEF NestedFrame
<1> QED BY <1>4, <1>5, <1>6, <1>7, InnerFoldsAreFolds

\* A frame that has changed in its elements alone.
IsWith(q, r, e) == q = [r EXCEPT !.elements = e]

\* It still collects, in the same phase, for the same context.
LEMMA CollectedFrame ==
  ASSUME NEW p, NEW r, Collects(p, r), NEW e, AreElements(p, r.fold, e), NEW q, IsWith(q, r, e)
  PROVE  Collects(p, q) /\ q.fold = r.fold /\ q.phase = r.phase /\ q.ctx = r.ctx
<1>1. q = [fold |-> r.fold, phase |-> r.phase, ctx |-> r.ctx, remaining |-> r.remaining,
           elements |-> e, filter |-> r.filter]
  BY DEF Collects, FrameShape, IsWith
<1>2. /\ q.fold = r.fold /\ q.phase = r.phase /\ q.ctx = r.ctx /\ q.remaining = r.remaining
      /\ q.elements = e /\ q.filter = r.filter
  BY <1>1
<1>3. r.remaining \in Seq(Vertex)
  BY DEF Collects
<1>4. Collects(p, q)
  BY <1>1, <1>2, <1>3 DEF Collects, FrameShape
<1> QED BY <1>2, <1>4

\* The folds that a context of component c has been through up to fold f.
UpTo(p, c, f) == {g \in Semantics!InnerFolds(p, c) : g <= f}

\* A context that is through all the folds of its component is an element of it.
LEMMA NewElement ==
  ASSUME NEW p, NEW imp, NEW c, NEW elements, AreElements(p, c, elements),
         NEW x, Through(p, imp, c, Semantics!InnerFolds(p, c), x)
  PROVE  AreElements(p, c, Append(elements, x))
<1>1. IsElement(p, c, x)
  BY DEF Through, IsContext, IsElement
<1>2. IsSequence(elements) /\ \A i \in DOMAIN elements : IsElement(p, c, elements[i])
  BY DEF AreElements
<1>3. DOMAIN elements = 1..Len(elements) /\ Len(elements) \in Nat
  BY <1>2 DEF IsSequence
<1> DEFINE t == Append(elements, x)
<1>4. /\ IsSequence(t) /\ DOMAIN t = 1..Len(elements) + 1
      /\ t[Len(elements) + 1] = x /\ \A i \in 1..Len(elements) : t[i] = elements[i]
  BY <1>2, SequenceAppend
<1> HIDE DEF t
<1>5. ASSUME NEW i \in DOMAIN t PROVE IsElement(p, c, t[i])
  <2>1. i = Len(elements) + 1 \/ i \in 1..Len(elements)
    BY <1>3, <1>4
  <2> QED BY <2>1, <1>1, <1>2, <1>3, <1>4
<1>6. AreElements(p, c, t)
  BY <1>4, <1>5 DEF AreElements
<1> QED BY <1>6 DEF t

\* A context that goes on from the folds up to after.
LEMMA PassOnKeeps ==
  ASSUME folds \in Plans, NEW imp, NEW s, Stacked(folds, imp, s), s[Len(s)].phase = "collect",
         NEW c, c = s[Len(s)].fold, NEW after \in Int,
         NEW x, Through(folds, imp, c, UpTo(folds, c, after), x)
  PROVE  Stacked(folds, imp, PassOn(s, c, after, x))
<1> DEFINE later == {f \in InnerFolds(c) : f > after}
<1>1. IsSequence(s) /\ Len(s) > 0 /\ Len(s) \in Nat
  BY DEF Stacked, IsSequence
<1>2. c \in Semantics!Components(folds)
  <2>1. Len(s) \in 1..Len(s)
    BY <1>1
  <2> QED BY <2>1, FoldsOfFrames
<1>3. /\ InnerFolds(c) = Semantics!InnerFolds(folds, c)
      /\ InnerFolds(c) \subseteq Int /\ IsFiniteSet(InnerFolds(c)) /\ InnerFolds(c) \subseteq DOMAIN folds
  <2>1. InnerFolds(c) = Semantics!InnerFolds(folds, c)
    BY DEF InnerFolds
  <2> QED BY <2>1, <1>2, InnerFoldsAreFolds
<1>4. CASE later # {}
  <2> DEFINE f == Sets!Min(later)
  <2>1. later \subseteq Int /\ IsFiniteSet(later)
    BY <1>3, FS_Subset
  <2>2. f \in later /\ \A g \in later : f <= g
    <3> HIDE DEF later
    <3> QED BY <2>1, <1>4, LeastMember
  <2>3. PassOn(s, c, after, x) = Append(s, Frame(f, x))
    BY <1>4 DEF PassOn
  <2> HIDE DEF f
  <2>4. f \in Semantics!InnerFolds(folds, c) /\ f \in Int /\ f > after
    BY <2>2, <1>3
  <2>5. Earlier(folds, c, f) = UpTo(folds, c, after)
    <3>1. \A g \in InnerFolds(c) : g < f <=> g <= after
      <4>1. \A g \in InnerFolds(c) : g \in Int /\ (g > after => f <= g)
        BY <2>2, <1>3
      <4> HIDE DEF later
      <4> QED BY <4>1, <2>4
    <3> QED BY <3>1, <1>3 DEF Earlier, UpTo
  <2> DEFINE r == Frame(f, x)
  <2>6. /\ r = [fold |-> f, phase |-> "import", ctx |-> x, remaining |-> <<>>, elements |-> <<>>, filter |-> 1]
        /\ r.fold = f /\ r.phase = "import" /\ r.ctx = x /\ r.remaining = <<>> /\ r.elements = <<>> /\ r.filter = 1
    BY DEF Frame
  <2> HIDE DEF r
  <2>7. Collects(folds, r)
    <3>1. IsSequence(<<>>)
      BY DEF IsSequence
    <3>2. AreElements(folds, f, <<>>)
      BY <3>1 DEF AreElements
    <3>3. <<>> \in Seq(Vertex)
      OBVIOUS
    <3> QED BY <3>2, <3>3, <2>6 DEF Collects, FrameShape
  <2>8. NestedFrame(folds, imp, r, c)
    <3>1. /\ IsContext(x) /\ DOMAIN x.tags = Scope(folds, imp, c)
          /\ DOMAIN x.folded = Earlier(folds, c, f)
          /\ HasOutputs(folds, c, Earlier(folds, c, f), x.values)
      BY <2>5 DEF Through
    <3> QED BY <3>1, <2>6, <2>7, <2>4 DEF NestedFrame
  <2> QED BY <2>3, <2>8, PushKeeps DEF r
<1>5. CASE later = {}
  <2> DEFINE r == s[Len(s)]
             q == [r EXCEPT !.elements = Append(@, x)]
  <2>1. PassOn(s, c, after, x) = [s EXCEPT ![Len(s)] = q]
    BY <1>5 DEF PassOn
  <2>2. UpTo(folds, c, after) = Semantics!InnerFolds(folds, c)
    <3>1. \A g \in InnerFolds(c) : g <= after
      <4>1. \A g \in InnerFolds(c) : g \in Int /\ ~(g > after)
        BY <1>3, <1>5
      <4> HIDE DEF later
      <4> QED BY <4>1
    <3> QED BY <3>1, <1>3 DEF UpTo
  <2>3. IsTop(folds, imp, s, r)
    BY TopIsTop
  <2>4. Collects(folds, r) /\ r.phase = "collect" /\ r.fold = c
    BY <2>3 DEF IsTop, RootFrame, NestedFrame
  <2> HIDE DEF r
  <2>5. AreElements(folds, c, r.elements)
    BY <2>4 DEF Collects
  <2>6. AreElements(folds, r.fold, Append(r.elements, x))
    BY <2>2, <2>4, <2>5, <1>2, NewElement
  <2>7. Collects(folds, q) /\ q.fold = r.fold /\ q.phase = r.phase /\ q.ctx = r.ctx
    <3> DEFINE e == Append(r.elements, x)
    <3>1. IsWith(q, r, e)
      BY DEF IsWith
    <3> HIDE DEF q, e
    <3>2. AreElements(folds, r.fold, e)
      BY <2>6 DEF e
    <3> QED BY <2>4, <3>1, <3>2, CollectedFrame
  <2> HIDE DEF q
  <2>8. IsTop(folds, imp, s, q)
    BY <2>3, <2>4, <2>7 DEF IsTop, RootFrame, NestedFrame
  <2>9. Stacked(folds, imp, Append(SubSeq(s, 1, Len(s) - 1), q))
    BY <2>8, ReplaceKeeps DEF Lower
  <2> QED BY <2>1, <2>9, <1>1, ExceptLast DEF Lower
<1> QED BY <1>4, <1>5

-----------------------------------------------------------------------------
(* Tags.                                                                   *)

\* A fold imports tags of the component it is in.
LEMMA ImportedFromOutside ==
  ASSUME folds \in Plans, NEW f \in DOMAIN folds
  PROVE  /\ Imported[f] = ImportedTags(f)
         /\ \A t \in Imported[f] : t.of = folds[f].in
BY DEF Imported, ImportedTags, Imports

\* What imp says that folds import is of the components they are in.
IsImport(p, imp) == \A f \in DOMAIN p : \A t \in imp[f] : t.of = p[f].in

\* Inside a fold there are the tags it imports and those around it, and it imports
\* none that is there already.
LEMMA ScopeOfFold ==
  ASSUME NEW p \in Plans, NEW imp, IsImport(p, imp), NEW f \in DOMAIN p
  PROVE  /\ Scope(p, imp, f) = imp[f] \cup Scope(p, imp, p[f].in)
         /\ imp[f] \cap Scope(p, imp, p[f].in) = {}
<1>1. IsTree(p) /\ Semantics!Components(p) = {Root} \cup DOMAIN p
  BY PlansAreTrees
<1>2. Semantics!Around(p, f) = {f} \cup Semantics!Around(p, p[f].in)
  BY <1>1, AroundFold
<1>3. f # Root /\ p[f].in \in Semantics!Components(p) /\ p[f].in \in Nat
  BY <1>1 DEF IsTree
<1>4. Scope(p, imp, f) = imp[f] \cup Scope(p, imp, p[f].in)
  BY <1>2, <1>3 DEF Scope
<1>5. ASSUME NEW t \in imp[f], NEW g \in Semantics!Around(p, p[f].in) \ {Root}, t \in imp[g]
      PROVE FALSE
  <2>1. g \in DOMAIN p /\ g <= p[f].in
    BY <1>1, <1>3, AroundComponents, AroundIsBefore
  <2>2. p[g].in < g /\ p[g].in \in Nat /\ g \in Nat
    BY <2>1, <1>1 DEF IsTree
  <2>3. p[g].in # p[f].in
    BY <2>1, <2>2, <1>3
  <2>4. t.of = p[f].in /\ t.of = p[g].in
    BY <1>5, <2>1 DEF IsImport
  <2> QED BY <2>3, <2>4
<1>6. imp[f] \cap Scope(p, imp, p[f].in) = {}
  BY <1>5 DEF Scope
<1> QED BY <1>4, <1>6

\* The root component imports nothing.
LEMMA ScopeOfRoot ==
  ASSUME NEW p \in Plans, NEW imp
  PROVE  Scope(p, imp, Root) = {}
<1>1. IsTree(p) /\ Root \in Semantics!Components(p)
  BY PlansAreTrees
<1>2. Semantics!Around(p, Root) = {Root}
  BY <1>1, AroundIsLeast, LeastOfRoot
<1> QED BY <1>2 DEF Scope

-----------------------------------------------------------------------------
(***************************************************************************)
(* Each action keeps the stack as it should be.                            *)
(***************************************************************************)

\* What is known of a stack, for the proofs about actions.
LEMMA StackFacts ==
  ASSUME IInv
  PROVE  /\ folds \in Plans /\ graph \in Graphs
         /\ Stacked(folds, Imported, stack) /\ Len(stack) \in Nat
         /\ IsImport(folds, Imported)
         /\ Below = Lower(stack)
         /\ Top = stack[Len(stack)]
         /\ IsTop(folds, Imported, stack, Top)
<1>1. folds \in Plans /\ graph \in Graphs /\ Stacked(folds, Imported, stack)
  BY DEF IInv
<1>2. IsImport(folds, Imported)
  BY <1>1, ImportedFromOutside DEF IsImport
<1>3. Below = Lower(stack) /\ Top = stack[Len(stack)]
  BY DEF Below, Top, Lower
<1>4. IsTop(folds, Imported, stack, stack[Len(stack)])
  BY <1>1, TopIsTop
<1>5. Len(stack) \in Nat
  BY <1>1 DEF Stacked, IsSequence
<1> QED BY <1>1, <1>2, <1>3, <1>4, <1>5

\* The top's fold is one inside the component that collects its context.
LEMMA NestedFacts ==
  ASSUME IInv, Top.fold # Root \/ Top.phase \in {"import", "filter"},
         NEW c, c = stack[Len(stack) - 1].fold
  PROVE  /\ Len(stack) > 1
         /\ NestedFrame(folds, Imported, Top, c)
         /\ c \in Semantics!Components(folds)
         /\ Top.fold \in Semantics!InnerFolds(folds, c)
         /\ Top.fold \in DOMAIN folds /\ Top.fold # Root
         /\ Plan = folds[Top.fold] /\ Plan.in = c
         /\ IsFold(Plan)
<1>1. folds \in Plans /\ Stacked(folds, Imported, stack) /\ Top = stack[Len(stack)]
  BY StackFacts
<1>2. /\ Len(stack) > 1
      /\ NestedFrame(folds, Imported, Top, c)
      /\ c \in Semantics!Components(folds)
      /\ Top.fold \in Semantics!InnerFolds(folds, c)
      /\ Top.fold \in DOMAIN folds /\ Top.fold # Root
      /\ folds[Top.fold].in = c
  BY <1>1, NestedTop
<1>3. Plan = folds[Top.fold]
  BY DEF Plan
<1> QED BY <1>1, <1>2, <1>3, PlansAreTrees

\* The top is replaced by another frame.
LEMMA TopReplaced ==
  ASSUME IInv, NEW q, IsTop(folds, Imported, stack, q)
  PROVE  /\ Stacked(folds, Imported, Replaced(q))
         /\ Replaced(q)[Len(Replaced(q))] = q
<1>1. Stacked(folds, Imported, stack)
  BY StackFacts
<1>2. IsSequence(stack) /\ Len(stack) > 0
  BY <1>1 DEF Stacked
<1>3. Replaced(q) = Append(Lower(stack), q)
  BY DEF Replaced, Below, Lower
<1>4. Stacked(folds, Imported, Append(Lower(stack), q))
  BY <1>1, ReplaceKeeps
<1> DEFINE t == Lower(stack)
<1>5. IsSequence(t)
  BY <1>2, SequenceFront
<1> HIDE DEF t
<1>6. Len(Append(t, q)) = Len(t) + 1 /\ Append(t, q)[Len(t) + 1] = q
  BY <1>5, SequenceAppend
<1>7. Append(t, q)[Len(Append(t, q))] = q
  BY <1>6
<1> QED BY <1>3, <1>4, <1>7 DEF t

\* The frames that the actions make of a frame.
IsImporting(q, r, tags, remaining) ==
  q = [r EXCEPT !.phase = "collect", !.ctx.tags = tags, !.remaining = remaining]

\* A frame whose elements are now its context's, which has other tags.
IsRecorded(q, r, folded, tags) ==
  q = [r EXCEPT !.phase = "filter", !.elements = <<>>, !.ctx.folded = folded, !.ctx.tags = tags]

\* What changes in a frame that imports tags, and what does not.
LEMMA ImportingFrame ==
  ASSUME NEW r, FrameShape(r), ContextShape(r.ctx), NEW tags, NEW remaining, NEW q,
         IsImporting(q, r, tags, remaining)
  PROVE  /\ FrameShape(q) /\ q.fold = r.fold /\ q.phase = "collect"
         /\ q.remaining = remaining /\ q.elements = r.elements /\ q.filter = r.filter
         /\ ContextShape(q.ctx) /\ q.ctx.own = r.ctx.own /\ q.ctx.optional = r.ctx.optional
         /\ q.ctx.tags = tags /\ q.ctx.folded = r.ctx.folded /\ q.ctx.values = r.ctx.values
<1> DEFINE x == [own |-> r.ctx.own, optional |-> r.ctx.optional, tags |-> tags,
                 folded |-> r.ctx.folded, values |-> r.ctx.values]
<1>1. q = [fold |-> r.fold, phase |-> "collect", ctx |-> x, remaining |-> remaining,
           elements |-> r.elements, filter |-> r.filter]
  BY DEF FrameShape, ContextShape, IsImporting
<1>2. /\ x.own = r.ctx.own /\ x.optional = r.ctx.optional /\ x.tags = tags
      /\ x.folded = r.ctx.folded /\ x.values = r.ctx.values
  OBVIOUS
<1>3. ContextShape(x)
  BY DEF ContextShape
<1> HIDE DEF x
<1>4. /\ q.fold = r.fold /\ q.phase = "collect" /\ q.ctx = x
      /\ q.remaining = remaining /\ q.elements = r.elements /\ q.filter = r.filter
  BY <1>1
<1>5. FrameShape(q)
  BY <1>1, <1>4 DEF FrameShape
<1> QED BY <1>2, <1>3, <1>4, <1>5

\* What changes in a frame that records its elements, and what does not.
LEMMA RecordedFrame ==
  ASSUME NEW r, FrameShape(r), ContextShape(r.ctx), NEW folded, NEW tags, NEW q,
         IsRecorded(q, r, folded, tags)
  PROVE  /\ FrameShape(q) /\ q.fold = r.fold /\ q.phase = "filter"
         /\ q.remaining = r.remaining /\ q.elements = <<>> /\ q.filter = r.filter
         /\ ContextShape(q.ctx) /\ q.ctx.own = r.ctx.own /\ q.ctx.optional = r.ctx.optional
         /\ q.ctx.tags = tags /\ q.ctx.folded = folded /\ q.ctx.values = r.ctx.values
<1> DEFINE x == [own |-> r.ctx.own, optional |-> r.ctx.optional, tags |-> tags,
                 folded |-> folded, values |-> r.ctx.values]
<1>1. q = [fold |-> r.fold, phase |-> "filter", ctx |-> x, remaining |-> r.remaining,
           elements |-> <<>>, filter |-> r.filter]
  BY DEF FrameShape, ContextShape, IsRecorded
<1>2. /\ x.own = r.ctx.own /\ x.optional = r.ctx.optional /\ x.tags = tags
      /\ x.folded = folded /\ x.values = r.ctx.values
  OBVIOUS
<1>3. ContextShape(x)
  BY DEF ContextShape
<1> HIDE DEF x
<1>4. /\ q.fold = r.fold /\ q.phase = "filter" /\ q.ctx = x
      /\ q.remaining = r.remaining /\ q.elements = <<>> /\ q.filter = r.filter
  BY <1>1
<1>5. FrameShape(q)
  BY <1>1, <1>4 DEF FrameShape
<1> QED BY <1>2, <1>3, <1>4, <1>5

\* Importing tags makes the tags of the frame's context those inside its fold.
LEMMA ImportTagsKeeps ==
  ASSUME IInv, ImportTags
  PROVE  Stacked(folds, Imported, stack')
<1> DEFINE r == Top
           f == Top.fold
           c == stack[Len(stack) - 1].fold
           tags == ImportedTags(f)
           imported == [t \in DOMAIN r.ctx.tags \cup tags |->
                          IF t \in tags THEN TagValue(Plan.in, r.ctx, t) ELSE r.ctx.tags[t]]
           start == IF Plan.from = "own" THEN r.ctx.own ELSE r.ctx.optional
           remaining == IF start = None THEN <<>> ELSE graph.next[start]
           q == [r EXCEPT !.phase = "collect", !.ctx.tags = imported, !.remaining = remaining]
<1>1. r.phase = "import" /\ stack' = Replaced(q)
  BY DEF ImportTags
<1>2. /\ NestedFrame(folds, Imported, r, c) /\ Len(stack) > 1
      /\ c \in Semantics!Components(folds) /\ f \in DOMAIN folds /\ folds[f].in = c
  BY <1>1, NestedFacts
<1>3. /\ Collects(folds, r) /\ f \in Semantics!InnerFolds(folds, c) /\ IsContext(r.ctx)
      /\ DOMAIN r.ctx.tags = Scope(folds, Imported, c)
      /\ DOMAIN r.ctx.folded = Earlier(folds, c, f)
      /\ HasOutputs(folds, c, Earlier(folds, c, f), r.ctx.values)
  BY <1>1, <1>2 DEF NestedFrame
<1>4. DOMAIN imported = Scope(folds, Imported, f)
  <2>1. Imported[f] = tags
    BY <1>2, StackFacts, ImportedFromOutside
  <2>2. Scope(folds, Imported, f) = tags \cup Scope(folds, Imported, c)
    BY <2>1, <1>2, StackFacts, ScopeOfFold
  <2> QED BY <2>2, <1>3
<1>5. remaining \in Seq(Vertex)
  <2>1. graph \in [next : [Vertex -> Seq(Vertex)], optional : [Vertex -> Vertex \cup {None}]]
    BY StackFacts, FoldAssumption
  <2>2. start # None => start \in Vertex
    BY <1>3 DEF IsContext
  <2> QED BY <2>1, <2>2
<1>6. FrameShape(r) /\ ContextShape(r.ctx) /\ IsImporting(q, r, imported, remaining)
  BY <1>3 DEF Collects, IsContext, IsImporting
<1>9. r.fold = f
  OBVIOUS
<1> HIDE DEF imported, remaining, r, q, f, c
<1>7. /\ FrameShape(q) /\ q.fold = r.fold /\ q.phase = "collect"
      /\ q.remaining = remaining /\ q.elements = r.elements
      /\ ContextShape(q.ctx) /\ q.ctx.own = r.ctx.own /\ q.ctx.optional = r.ctx.optional
      /\ q.ctx.tags = imported /\ q.ctx.folded = r.ctx.folded /\ q.ctx.values = r.ctx.values
  BY <1>6, ImportingFrame
<1>10. IsContext(q.ctx)
  BY <1>3, <1>7 DEF IsContext
<1>11. Collects(folds, q)
  BY <1>3, <1>5, <1>7 DEF Collects
<1>13. NestedFrame(folds, Imported, q, c)
  BY <1>3, <1>4, <1>7, <1>9, <1>10, <1>11 DEF NestedFrame
<1>14. IsTop(folds, Imported, stack, q)
  <2>1. Len(stack) # 1
    BY <1>2, StackFacts
  <2> QED BY <2>1, <1>13 DEF IsTop, c
<1> QED BY <1>1, <1>14, TopReplaced DEF q, imported, remaining, r, f

\* Recording the elements takes back exactly the tags that were imported: none of
\* them was in scope before, so the context has again those of its own component.
LEMMA RecordElementsKeeps ==
  ASSUME IInv, RecordElements
  PROVE  Stacked(folds, Imported, stack')
<1> DEFINE r == Top
           f == Top.fold
           c == stack[Len(stack) - 1].fold
           start == IF Plan.from = "own" THEN r.ctx.own ELSE r.ctx.optional
           elements == IF start = None THEN None ELSE r.elements
           kept == DOMAIN r.ctx.tags \ ImportedTags(f)
           tags == [t \in kept |-> r.ctx.tags[t]]
           folded == Extended(r.ctx.folded, f, elements)
           q == [r EXCEPT !.phase = "filter", !.elements = <<>>, !.ctx.folded = folded, !.ctx.tags = tags]
<1>1. r.phase = "collect" /\ f # Root
  BY DEF RecordElements
<1>a. IsRecorded(q, r, folded, tags) /\ stack' = Replaced(q)
  BY DEF RecordElements, IsRecorded
<1>2. /\ NestedFrame(folds, Imported, r, c) /\ Len(stack) > 1
      /\ c \in Semantics!Components(folds) /\ f \in DOMAIN folds /\ folds[f].in = c
  BY <1>1, NestedFacts
<1>3. /\ Collects(folds, r) /\ f \in Semantics!InnerFolds(folds, c) /\ IsContext(r.ctx)
      /\ DOMAIN r.ctx.tags = Scope(folds, Imported, f)
      /\ DOMAIN r.ctx.folded = Earlier(folds, c, f)
      /\ HasOutputs(folds, c, Earlier(folds, c, f), r.ctx.values)
  BY <1>1, <1>2 DEF NestedFrame
<1>4. DOMAIN tags = Scope(folds, Imported, c)
  <2>1. Imported[f] = ImportedTags(f)
    BY <1>2, StackFacts, ImportedFromOutside
  <2>2. /\ Scope(folds, Imported, f) = ImportedTags(f) \cup Scope(folds, Imported, c)
        /\ ImportedTags(f) \cap Scope(folds, Imported, c) = {}
    BY <2>1, <1>2, StackFacts, ScopeOfFold
  <2> QED BY <2>2, <1>3
<1>5. DOMAIN folded = Earlier(folds, c, f) \cup {f} /\ folded[f] = elements
  BY <1>3 DEF Extended
<1>6. IsFolded(folds, f, elements)
  <2>1. CASE start = None
    <3>1. r.ctx.own # None
      BY <1>3, FoldAssumption DEF IsContext
    <3>2. Plan.from # "own"
      BY <2>1, <3>1
    <3>3. IsFold(folds[f]) /\ Plan = folds[f]
      BY <1>2, StackFacts, PlansAreTrees DEF Plan
    <3>4. folds[f].from = "optional"
      BY <3>2, <3>3 DEF IsFold
    <3> QED BY <2>1, <3>4 DEF IsFolded
  <2>2. CASE start # None
    <3>1. elements = r.elements
      BY <2>2
    <3> QED BY <3>1, <1>3 DEF Collects, IsFolded
  <2> QED BY <2>1, <2>2
<1>7. FrameShape(r) /\ ContextShape(r.ctx) /\ r.remaining \in Seq(Vertex)
  BY <1>3 DEF Collects, IsContext
<1>8. AreElements(folds, f, <<>>)
  <2>1. IsSequence(<<>>)
    BY DEF IsSequence
  <2> QED BY <2>1 DEF AreElements
<1>9. r.fold = f
  OBVIOUS
<1> HIDE DEF tags, folded, elements, r, q, f, c
<1>10. /\ FrameShape(q) /\ q.fold = r.fold /\ q.phase = "filter"
       /\ q.remaining = r.remaining /\ q.elements = <<>>
       /\ ContextShape(q.ctx) /\ q.ctx.own = r.ctx.own /\ q.ctx.optional = r.ctx.optional
       /\ q.ctx.tags = tags /\ q.ctx.folded = folded /\ q.ctx.values = r.ctx.values
  BY <1>7, <1>a, RecordedFrame
<1>11. IsContext(q.ctx)
  BY <1>3, <1>10 DEF IsContext
<1>12. Collects(folds, q)
  BY <1>7, <1>8, <1>9, <1>10 DEF Collects
<1>13. NestedFrame(folds, Imported, q, c)
  BY <1>3, <1>4, <1>5, <1>6, <1>9, <1>10, <1>11, <1>12 DEF NestedFrame
<1>14. IsTop(folds, Imported, stack, q)
  <2>1. Len(stack) # 1
    BY <1>2, StackFacts
  <2> QED BY <2>1, <1>13 DEF IsTop, c
<1> QED BY <1>a, <1>14, TopReplaced

\* A frame that has changed in neither its phase nor what it has of others.
IsAdvanced(q, r, remaining, filter) ==
  /\ FrameShape(q) /\ q.fold = r.fold /\ q.phase = r.phase /\ q.ctx = r.ctx
  /\ q.remaining = remaining /\ q.elements = r.elements /\ q.filter = filter

\* A frame with other neighbors left.
HasRemaining(q, r, remaining) == q = [r EXCEPT !.remaining = remaining]

\* Nothing else of the frame changes.
LEMMA RemainingFrame ==
  ASSUME NEW r, FrameShape(r), NEW remaining, NEW q, HasRemaining(q, r, remaining)
  PROVE  IsAdvanced(q, r, remaining, r.filter)
BY DEF FrameShape, IsAdvanced, HasRemaining

\* Such a frame may be the top in place of the one there.
LEMMA AdvancedTop ==
  ASSUME IInv, NEW remaining \in Seq(Vertex), NEW filter, NEW q, IsAdvanced(q, Top, remaining, filter)
  PROVE  IsTop(folds, Imported, stack, q)
<1>1. IsTop(folds, Imported, stack, Top)
  BY StackFacts
<1>2. Collects(folds, Top)
  BY <1>1 DEF IsTop, RootFrame, NestedFrame
<1>3. Collects(folds, q)
  BY <1>2 DEF Collects, IsAdvanced
<1> QED BY <1>1, <1>3 DEF IsTop, RootFrame, NestedFrame, IsAdvanced

\* A context that passes a filter stays in the frame's filter phase.
LEMMA KeepFoldKeeps ==
  ASSUME IInv, KeepFold
  PROVE  Stacked(folds, Imported, stack')
<1> DEFINE r == Top
           q == [r EXCEPT !.filter = @ + 1]
<1>1. stack' = Replaced(q)
  BY DEF KeepFold
<1>2. FrameShape(r) /\ r.remaining \in Seq(Vertex)
  BY StackFacts DEF IsTop, RootFrame, NestedFrame, Collects
<1> HIDE DEF r
<1>3. IsAdvanced(q, r, r.remaining, r.filter + 1)
  BY <1>2 DEF FrameShape, IsAdvanced
<1> HIDE DEF q
<1>4. IsTop(folds, Imported, stack, q)
  BY <1>2, <1>3, AdvancedTop DEF r
<1> QED BY <1>1, <1>4, TopReplaced

\* The next neighbor is taken.
LEMMA AdvancedKeeps ==
  ASSUME IInv, Pulls
  PROVE  /\ Stacked(folds, Imported, Advanced)
         /\ Advanced[Len(Advanced)].phase = "collect"
         /\ Advanced[Len(Advanced)].fold = Top.fold
         /\ Head(Top.remaining) \in Vertex
<1> DEFINE r == Top
           q == [r EXCEPT !.remaining = Tail(@)]
<1>1. Advanced = Replaced(q) /\ r.phase = "collect" /\ r.remaining # <<>>
  BY DEF Advanced, Pulls
<1>2. FrameShape(r) /\ r.remaining \in Seq(Vertex)
  BY StackFacts DEF IsTop, RootFrame, NestedFrame, Collects
<1>3. Tail(r.remaining) \in Seq(Vertex) /\ Head(r.remaining) \in Vertex
  <2> HIDE DEF r
  <2> QED BY <1>1, <1>2
<1> DEFINE t == Tail(r.remaining)
<1>8. HasRemaining(q, r, t)
  BY DEF HasRemaining
<1> HIDE DEF r, t, q
<1>4. IsAdvanced(q, r, t, r.filter)
  BY <1>2, <1>8, RemainingFrame
<1>5. IsTop(folds, Imported, stack, q)
  BY <1>3, <1>4, AdvancedTop DEF r, t
<1>6. Stacked(folds, Imported, Replaced(q)) /\ Replaced(q)[Len(Replaced(q))] = q
  BY <1>5, TopReplaced
<1>7. q.phase = r.phase /\ q.fold = r.fold
  BY <1>4 DEF IsAdvanced
<1> QED BY <1>1, <1>3, <1>6, <1>7 DEF r

\* A neighbor that its own filters reject is gone, and nothing else.
LEMMA DropElementKeeps ==
  ASSUME IInv, DropElement
  PROVE  Stacked(folds, Imported, stack')
BY AdvancedKeeps DEF DropElement

\* The next neighbor's context has been through no fold.
LEMMA NextElementThrough ==
  ASSUME IInv, Pulls
  PROVE  Through(folds, Imported, Top.fold, UpTo(folds, Top.fold, 0), NextElement)
<1> DEFINE x == NextElement
           v == Head(Top.remaining)
           tags == IF Top.fold = Root THEN <<>> ELSE Top.ctx.tags
<1>0. Top.phase = "collect"
  BY DEF Pulls
<1>1. /\ x = [own |-> v, optional |-> graph.optional[v], tags |-> tags, folded |-> <<>>, values |-> <<>>]
      /\ x.own = v /\ x.optional = graph.optional[v] /\ x.tags = tags
      /\ x.folded = <<>> /\ x.values = <<>>
  BY DEF NextElement, NewContext
<1>2. v \in Vertex /\ graph.optional[v] \in Vertex \cup {None}
  <2>1. graph \in [next : [Vertex -> Seq(Vertex)], optional : [Vertex -> Vertex \cup {None}]]
    BY StackFacts, FoldAssumption
  <2>2. v \in Vertex
    BY AdvancedKeeps
  <2> QED BY <2>1, <2>2
<1>3. Top.fold \in Semantics!Components(folds)
  <2>1. Stacked(folds, Imported, stack) /\ folds \in Plans /\ Len(stack) \in 1..Len(stack) /\ Top = stack[Len(stack)]
    BY StackFacts DEF Stacked
  <2> QED BY <2>1, FoldsOfFrames
<1>4. UpTo(folds, Top.fold, 0) = {}
  <2>1. \A g \in Semantics!InnerFolds(folds, Top.fold) : g \in Int /\ g > 0
    BY <1>3, StackFacts, InnerFoldsAreFolds
  <2>2. \A g \in Semantics!InnerFolds(folds, Top.fold) : ~(g <= 0)
    BY <2>1
  <2> QED BY <2>2 DEF UpTo
<1>5. DOMAIN tags = Scope(folds, Imported, Top.fold)
  <2>1. CASE Top.fold = Root
    BY <2>1, StackFacts, ScopeOfRoot
  <2>2. CASE Top.fold # Root
    <3>1. NestedFrame(folds, Imported, Top, stack[Len(stack) - 1].fold)
      BY <2>2, NestedFacts
    <3> QED BY <3>1, <2>2, <1>0 DEF NestedFrame
  <2> QED BY <2>1, <2>2
<1> HIDE DEF x, tags
<1>6. IsContext(x)
  BY <1>1, <1>2 DEF IsContext, ContextShape
<1>7. HasOutputs(folds, Top.fold, {}, x.values)
  <2>1. DOMAIN x.values = {}
    BY <1>1
  <2> QED BY <2>1 DEF HasOutputs
<1>8. Through(folds, Imported, Top.fold, UpTo(folds, Top.fold, 0), x)
  BY <1>1, <1>4, <1>5, <1>6, <1>7 DEF Through
<1> QED BY <1>8 DEF x

\* A neighbor that is pulled becomes an element, or the context of the first fold of
\* its component.
LEMMA PullElementKeeps ==
  ASSUME IInv, PullElement
  PROVE  Stacked(folds, Imported, stack')
<1>1. Pulls /\ stack' = PassOn(Advanced, Top.fold, 0, NextElement)
  BY DEF PullElement
<1> DEFINE s == Advanced
           c == Top.fold
           x == NextElement
           z == 0
<1>2. Stacked(folds, Imported, s) /\ s[Len(s)].phase = "collect" /\ s[Len(s)].fold = c
  BY <1>1, AdvancedKeeps
<1>3. Through(folds, Imported, c, UpTo(folds, c, z), x)
  BY <1>1, NextElementThrough
<1>4. folds \in Plans /\ z \in Int /\ c = s[Len(s)].fold
  BY <1>2, StackFacts
<1> HIDE DEF s, c, x, z
<1>5. Stacked(folds, Imported, PassOn(s, c, z, x))
  BY <1>2, <1>3, <1>4, PassOnKeeps
<1> QED BY <1>1, <1>5 DEF s, c, x, z

\* Without its top, which is a fold's, the stack is collecting.
LEMMA BelowKeeps ==
  ASSUME IInv, Top.fold # Root \/ Top.phase = "filter"
  PROVE  /\ Stacked(folds, Imported, Below)
         /\ Below[Len(Below)].phase = "collect"
         /\ Below[Len(Below)].fold = Plan.in
<1> DEFINE c == stack[Len(stack) - 1].fold
<1>1. Len(stack) > 1 /\ Plan.in = c
  BY NestedFacts
<1>2. Stacked(folds, Imported, stack) /\ Below = Lower(stack)
  BY StackFacts
<1> QED BY <1>1, <1>2, PopKeeps

\* Discarding a context leaves the frames below, which wait for their next.
LEMMA DiscardKeeps ==
  ASSUME IInv, DiscardEarly \/ DiscardFold
  PROVE  Stacked(folds, Imported, stack')
<1>1. stack' = Below
  BY DEF DiscardEarly, DiscardFold
<1>2. Top.fold # Root \/ Top.phase = "filter"
  BY DEF DiscardEarly, DiscardFold, TooMany, Limit, Filters
<1> QED BY <1>1, <1>2, BelowKeeps

\* The root component ends after its last starting vertex.
LEMMA EndRowsKeeps ==
  ASSUME IInv, EndRows
  PROVE  Stacked(folds, Imported, stack')
<1> DEFINE r == Top
           q == [r EXCEPT !.phase = "ended"]
<1>1. stack' = Replaced(q) /\ r.fold = Root
  BY DEF EndRows
<1>2. IsTop(folds, Imported, stack, r) /\ Stacked(folds, Imported, stack) /\ Len(stack) \in Nat
  BY StackFacts
<1>3. Len(stack) = 1 /\ RootFrame(folds, r)
  <2>1. CASE Len(stack) = 1
    BY <2>1, <1>2 DEF IsTop
  <2>2. CASE Len(stack) # 1
    <3>1. NestedFrame(folds, Imported, r, stack[Len(stack) - 1].fold)
      BY <2>2, <1>2 DEF IsTop
    <3>2. stack[Len(stack) - 1].fold \in Semantics!Components(folds)
      <4>1. Len(stack) - 1 \in 1..Len(stack)
        <5>1. Len(stack) > 0
          BY <1>2 DEF Stacked
        <5>2. \A n \in Nat : n > 0 /\ n # 1 => n - 1 \in 1..n
          OBVIOUS
        <5> QED BY <5>1, <5>2, <2>2, <1>2
      <4> QED BY <4>1, StackFacts, FoldsOfFrames
    <3>3. r.fold # Root
      BY <3>1, <3>2, StackFacts, InnerFoldsAreFolds DEF NestedFrame
    <3> QED BY <3>3, <1>1
  <2> QED BY <2>1, <2>2
<1>4. FrameShape(r) /\ r.remaining \in Seq(Vertex) /\ AreElements(folds, r.fold, r.elements)
  BY <1>3 DEF RootFrame, Collects
<1> HIDE DEF r
<1>5. /\ FrameShape(q) /\ q.fold = r.fold /\ q.phase = "ended"
      /\ q.remaining = r.remaining /\ q.elements = r.elements
  BY <1>4 DEF FrameShape
<1> HIDE DEF q
<1>6. RootFrame(folds, q)
  BY <1>1, <1>4, <1>5 DEF RootFrame, Collects
<1>7. IsTop(folds, Imported, stack, q)
  BY <1>3, <1>6 DEF IsTop
<1> QED BY <1>1, <1>7, TopReplaced

-----------------------------------------------------------------------------
(* A fold's outputs.                                                       *)

\* When every element has a value for a key, they are collected in order.
LEMMA CollectedAll ==
  ASSUME NEW elements, IsSequence(elements), NEW key,
         \A i \in DOMAIN elements : key \in DOMAIN elements[i].values
  PROVE  Collected(elements, key) = [i \in 1..Len(elements) |-> elements[i].values[key]]
<1> DEFINE L == Len(elements)
           v(i) == elements[i].values[key]
           G == [n \in 0..L |-> [i \in 1..n |-> v(i)]]
           C == CHOOSE F : F = [n \in 0..L |->
                  IF n = 0 THEN <<>>
                  ELSE IF key \in DOMAIN elements[n].values
                       THEN Append(F[n - 1], elements[n].values[key])
                       ELSE F[n - 1]]
<1>1. L \in Nat /\ DOMAIN elements = 1..L
  BY DEF IsSequence
<1>2. Collected(elements, key) = C[L]
  BY DEF Collected
<1>3. ASSUME NEW n \in 1..L PROVE [i \in 1..n |-> v(i)] = Append([i \in 1..n - 1 |-> v(i)], v(n))
  <2> DEFINE S == {v(i) : i \in 1..L}
             s == [i \in 1..n - 1 |-> v(i)]
             t == [i \in 1..n |-> v(i)]
  <2>1. n - 1 \in Nat /\ n \in Nat /\ (n - 1) + 1 = n
    BY <1>1
  <2>2. (\A i \in 1..n - 1 : i \in 1..L /\ v(i) \in S) /\ \A i \in 1..n : i \in 1..L /\ v(i) \in S
    BY <1>1
  <2>3. s \in Seq(S) /\ t \in Seq(S) /\ v(n) \in S
    <3> HIDE DEF S, v
    <3> QED BY <2>1, <2>2
  <2>4. Len(s) = n - 1 /\ Len(t) = n /\ (\A i \in 1..n - 1 : s[i] = v(i)) /\ \A i \in 1..n : t[i] = v(i)
    <3> HIDE DEF S, v
    <3> QED BY <2>1
  <2> HIDE DEF S, s, t, v
  <2>5. Append(s, v(n)) \in Seq(S) /\ Len(Append(s, v(n))) = n
    BY <2>1, <2>3, <2>4
  <2>6. \A i \in 1..n : Append(s, v(n))[i] = t[i]
    BY <2>1, <2>3, <2>4
  <2>7. t = Append(s, v(n))
    BY <2>3, <2>4, <2>5, <2>6
  <2> QED BY <2>7 DEF s, t
<1>4. ASSUME NEW n \in 0..L, n # 0
      PROVE  n \in 1..L /\ n - 1 \in 0..L /\ key \in DOMAIN elements[n].values
  <2>1. n \in 1..L /\ n - 1 \in 0..L
    BY <1>1, <1>4
  <2> QED BY <1>1, <2>1
<1>5. [i \in 1..0 |-> v(i)] = <<>>
  OBVIOUS
<1>6. ASSUME NEW n \in 0..L
      PROVE  G[n] = IF n = 0 THEN <<>>
                    ELSE IF key \in DOMAIN elements[n].values
                         THEN Append(G[n - 1], elements[n].values[key])
                         ELSE G[n - 1]
  <2>1. CASE n = 0
    BY <2>1, <1>5
  <2>2. CASE n # 0
    <3>1. n \in 1..L /\ n - 1 \in 0..L /\ key \in DOMAIN elements[n].values
      BY <2>2, <1>4
    <3>2. G[n] = [i \in 1..n |-> v(i)] /\ G[n - 1] = [i \in 1..n - 1 |-> v(i)]
      BY <3>1
    <3>3. G[n] = Append(G[n - 1], v(n))
      <4> HIDE DEF G
      <4> QED BY <3>1, <3>2, <1>3
    <3> HIDE DEF G
    <3> QED BY <3>1, <3>3, <2>2
  <2> QED BY <2>1, <2>2
<1>7. G = [n \in 0..L |-> G[n]]
  OBVIOUS
<1>8. G[L] = [i \in 1..L |-> v(i)]
  BY <1>1
<1> HIDE DEF G
<1>9. G = [n \in 0..L |->
             IF n = 0 THEN <<>>
             ELSE IF key \in DOMAIN elements[n].values
                  THEN Append(G[n - 1], elements[n].values[key])
                  ELSE G[n - 1]]
  BY <1>6, <1>7
<1>10. C = [n \in 0..L |->
             IF n = 0 THEN <<>>
             ELSE IF key \in DOMAIN elements[n].values
                  THEN Append(C[n - 1], elements[n].values[key])
                  ELSE C[n - 1]]
  BY <1>9
<1> HIDE DEF C
<1> DEFINE N == {n \in 0..L : C[n] = G[n]}
<1>11. 0 \in N
  BY <1>1, <1>6, <1>10
<1>12. ASSUME NEW n \in 0..L - 1, n \in N PROVE n + 1 \in N
  <2>1. n + 1 \in 0..L /\ n + 1 # 0 /\ (n + 1) - 1 = n
    BY <1>1
  <2>2. C[n] = G[n]
    BY <1>12
  <2> DEFINE m == n + 1
  <2>3. key \in DOMAIN elements[m].values
    BY <2>1, <1>4
  <2>4. m \in 0..L /\ m # 0 /\ m - 1 = n
    BY <2>1
  <2> HIDE DEF m
  <2>5. C[m] = Append(C[n], elements[m].values[key]) /\ G[m] = Append(G[n], elements[m].values[key])
    BY <1>6, <1>10, <2>3, <2>4
  <2> QED BY <2>1, <2>2, <2>5 DEF m
<1>13. 0..L \subseteq N
  <2>1. 0 \in Nat
    OBVIOUS
  <2> HIDE DEF N, L
  <2> QED BY <2>1, <1>1, <1>11, <1>12, InductionFrom
<1> QED BY <1>1, <1>2, <1>8, <1>13

\* The outputs that elements of fold f have are those of the folds inside it.
LEMMA ElementOutputs ==
  ASSUME folds \in Plans, NEW f \in DOMAIN folds, NEW elements, AreElements(folds, f, elements),
         elements # <<>>
  PROVE  UNION {DOMAIN elements[i].values : i \in DOMAIN elements} = Semantics!Keys(folds, f)
<1> DEFINE nested == Semantics!Keys(folds, f)
<1>1. IsSequence(elements) /\ \A i \in DOMAIN elements : IsElement(folds, f, elements[i])
  BY DEF AreElements
<1>2. UNION {OutputsWithin(folds, g) : g \in Semantics!InnerFolds(folds, f)} = nested
  BY OutputsOfFold
<1>3. \A i \in DOMAIN elements : DOMAIN elements[i].values = nested
  BY <1>1, <1>2 DEF IsElement, HasOutputs
<1>4. DOMAIN elements # {}
  <2>1. PICK S : elements \in Seq(S)
    BY <1>1 DEF IsSequence
  <2>2. Len(elements) \in Nat /\ Len(elements) # 0 /\ DOMAIN elements = 1..Len(elements)
    BY <2>1
  <2>3. 1 \in 1..Len(elements)
    BY <2>2
  <2> QED BY <2>2, <2>3
<1> HIDE DEF nested
<1>5. UNION {DOMAIN elements[i].values : i \in DOMAIN elements} = nested
  BY <1>3, <1>4
<1> QED BY <1>5 DEF nested

\* The keys are the fold's own and those of the folds inside it.
LEMMA OutputKeys ==
  ASSUME folds \in Plans, NEW f \in DOMAIN folds, NEW elements, IsFolded(folds, f, elements)
  PROVE  /\ DOMAIN FoldedValues(f, elements) =
              ({f} \X (folds[f].outputs \ {"count"})) \cup Semantics!Keys(folds, f)
         /\ DOMAIN FoldSpecificOutputs(f, elements) = {f} \X (folds[f].outputs \cap {"count"})
         /\ DOMAIN FoldedValues(f, elements) \cup DOMAIN FoldSpecificOutputs(f, elements)
              = OutputsWithin(folds, f)
<1> DEFINE own == {f} \X (folds[f].outputs \ {"count"})
           nested == Semantics!Keys(folds, f)
           carried == UNION {DOMAIN elements[i].values : i \in DOMAIN elements}
<1>1. DOMAIN FoldSpecificOutputs(f, elements) = {f} \X (folds[f].outputs \cap {"count"})
  BY DEF FoldSpecificOutputs
<1>2. elements \in {None, <<>>} => DOMAIN FoldedValues(f, elements) = own \cup nested
  BY DEF FoldedValues
<1>3. ASSUME elements \notin {None, <<>>} PROVE carried = nested
  <2>1. AreElements(folds, f, elements) /\ elements # <<>>
    BY <1>3 DEF IsFolded
  <2> QED BY <2>1, ElementOutputs
<1>4. DOMAIN FoldedValues(f, elements) = own \cup nested
  <2>1. CASE elements \notin {None, <<>>}
    <3>1. DOMAIN FoldedValues(f, elements) = own \cup carried
      BY <2>1 DEF FoldedValues
    <3> QED BY <3>1, <2>1, <1>3
  <2> QED BY <2>1, <1>2
<1>5. OutputsWithin(folds, f) = ({f} \X folds[f].outputs) \cup nested
  BY OutputsOfFold
<1> HIDE DEF nested, carried
<1> QED BY <1>1, <1>3, <1>4, <1>5 DEF nested, carried

\* The outputs that WithOutputs() adds.
NewOutputs(f, elements) ==
  [key \in DOMAIN FoldedValues(f, elements) \cup DOMAIN FoldSpecificOutputs(f, elements) |->
     LET value == IF key[2] = "count" /\ key[1] = f
                    THEN FoldSpecificOutputs(f, elements)[key]
                    ELSE FoldedValues(f, elements)[key]
     IN  IF value = None THEN Null ELSE value]

\* A count is that of the elements, anything else a value for each.
LEMMA FoldedFits ==
  ASSUME folds \in Plans, NEW c \in Semantics!Components(folds),
         NEW f \in Semantics!InnerFolds(folds, c), NEW elements,
         AreElements(folds, f, elements), elements # None,
         NEW key \in OutputsWithin(folds, f), key # <<f, "count">>
  PROVE  Fits(folds, c, key, FoldedValues(f, elements)[key]) /\ IsSequence(FoldedValues(f, elements)[key])
<1> DEFINE value == FoldedValues(f, elements)[key]
           own == {f} \X (folds[f].outputs \ {"count"})
           nested == Semantics!Keys(folds, f)
           carried == UNION {DOMAIN elements[i].values : i \in DOMAIN elements}
<1>1. f \in DOMAIN folds /\ key \in Within(folds, f)
  BY InnerFoldsAreFolds DEF OutputsWithin
<1>2. key \in own \cup nested
  <2>1. key \in ({f} \X folds[f].outputs) \cup nested
    BY <1>1, OutputsOfFold
  <2> QED BY <2>1
<1>3. IsSequence(elements) /\ \A i \in DOMAIN elements : IsElement(folds, f, elements[i])
  BY DEF AreElements
<1>4. DOMAIN elements = 1..Len(elements) /\ Len(elements) \in Nat
  BY <1>3 DEF IsSequence
<1>5. CASE elements = <<>>
  <2>1. value = <<>>
    BY <1>2, <1>5 DEF FoldedValues
  <2>2. IsSequence(<<>>)
    BY DEF IsSequence
  <2> HIDE DEF value
  <2>3. IsSequence(value) /\ \A i \in DOMAIN value : Fits(folds, f, key, value[i])
    BY <2>1, <2>2
  <2>4. Fits(folds, c, key, value)
    BY <2>3, <1>1, SequenceFits
  <2> QED BY <2>3, <2>4 DEF value
<1>6. ASSUME elements # <<>>, NEW v, v = [i \in 1..Len(elements) |-> v[i]],
             \A i \in 1..Len(elements) : Fits(folds, f, key, v[i])
      PROVE  Fits(folds, c, key, v) /\ IsSequence(v)
  <2>1. IsSequence(v)
    <3> DEFINE S == {v[i] : i \in 1..Len(elements)}
    <3>1. v \in Seq(S)
      BY <1>4, <1>6
    <3> QED BY <3>1 DEF IsSequence
  <2>2. DOMAIN v = 1..Len(elements)
    BY <1>6
  <2>3. \A i \in DOMAIN v : Fits(folds, f, key, v[i])
    BY <2>2, <1>6
  <2> QED BY <2>1, <2>3, <1>1, SequenceFits
<1>7. CASE elements # <<>>
  <2>1. carried = nested
    BY <1>1, <1>7, ElementOutputs
  <2>2. value = IF key \in carried THEN Collected(elements, key)
                ELSE [i \in DOMAIN elements |-> Property(elements[i], key[2])]
    BY <1>2, <1>7, <2>1 DEF FoldedValues
  <2> HIDE DEF carried, nested, value
  <2>3. CASE key \in nested
    <3>1. \A i \in DOMAIN elements : key \in DOMAIN elements[i].values /\ Fits(folds, f, key, elements[i].values[key])
      <4>1. nested = UNION {OutputsWithin(folds, g) : g \in Semantics!InnerFolds(folds, f)}
        BY <1>1, OutputsOfFold DEF nested
      <4> QED BY <4>1, <1>3, <2>3 DEF IsElement, HasOutputs
    <3>2. value = [i \in 1..Len(elements) |-> elements[i].values[key]]
      BY <3>1, <1>3, <2>1, <2>2, <2>3, CollectedAll
    <3>3. value = [i \in 1..Len(elements) |-> value[i]]
          /\ \A i \in 1..Len(elements) : Fits(folds, f, key, value[i])
      BY <3>1, <3>2, <1>4
    <3> QED BY <3>3, <1>6, <1>7 DEF value
  <2>4. CASE key \notin nested
    <3>1. key[1] = f /\ key[2] # "count" /\ key[2] \in {"own", "optional"}
      <4>1. IsFold(folds[f])
        BY <1>1, PlansAreTrees
      <4> QED BY <4>1, <1>2, <2>4 DEF IsFold
    <3>2. ASSUME NEW i \in 1..Len(elements) PROVE Fits(folds, f, key, Property(elements[i], key[2]))
      <4>1. elements[i].own \in Vertex /\ elements[i].optional \in Vertex \cup {None}
        BY <1>3, <1>4 DEF IsElement
      <4>2. Vertex \subseteq Int
        BY FoldAssumption
      <4> DEFINE w == Property(elements[i], key[2])
      <4>3. w \in Int \/ (w = Null /\ key[2] = "optional")
        BY <4>1, <4>2, <3>1 DEF Property
      <4> HIDE DEF w
      <4>4. Fits(folds, f, key, w)
        BY <4>3, <3>1, <1>1, PropertyFits
      <4> QED BY <4>4 DEF w
    <3>3. value = [i \in 1..Len(elements) |-> Property(elements[i], key[2])]
      BY <2>1, <2>2, <2>4, <1>4
    <3>4. value = [i \in 1..Len(elements) |-> value[i]]
          /\ \A i \in 1..Len(elements) : Fits(folds, f, key, value[i])
      BY <3>2, <3>3
    <3> QED BY <3>4, <1>6, <1>7 DEF value
  <2> QED BY <2>3, <2>4
<1> QED BY <1>5, <1>7

\* Every output is added, and is of its type.
LEMMA NewOutputsFit ==
  ASSUME folds \in Plans, NEW c \in Semantics!Components(folds),
         NEW f \in Semantics!InnerFolds(folds, c), NEW elements, IsFolded(folds, f, elements)
  PROVE  /\ DOMAIN NewOutputs(f, elements) = OutputsWithin(folds, f)
         /\ \A key \in OutputsWithin(folds, f) :
              Fits(folds, c, key, NewOutputs(f, elements)[key])
<1> DEFINE new == NewOutputs(f, elements)
<1>1. f \in DOMAIN folds
  BY InnerFoldsAreFolds
<1>2. /\ DOMAIN FoldedValues(f, elements) =
           ({f} \X (folds[f].outputs \ {"count"})) \cup Semantics!Keys(folds, f)
      /\ DOMAIN FoldSpecificOutputs(f, elements) = {f} \X (folds[f].outputs \cap {"count"})
      /\ DOMAIN FoldedValues(f, elements) \cup DOMAIN FoldSpecificOutputs(f, elements)
           = OutputsWithin(folds, f)
  BY <1>1, OutputKeys
<1>3. DOMAIN new = OutputsWithin(folds, f)
  BY <1>2 DEF NewOutputs
<1>4. ASSUME NEW key \in OutputsWithin(folds, f) PROVE Fits(folds, c, key, new[key])
  <2> DEFINE value == IF key[2] = "count" /\ key[1] = f
                        THEN FoldSpecificOutputs(f, elements)[key]
                        ELSE FoldedValues(f, elements)[key]
  <2>1. new[key] = IF value = None THEN Null ELSE value
    BY <1>2 DEF NewOutputs
  <2>2. /\ key \in Within(folds, f) /\ key[2] \in folds[key[1]].outputs
        /\ (key[2] = "count" /\ key[1] = f <=> key = <<f, "count">>)
    BY DEF OutputsWithin, Within
  <2>3. CASE elements = None /\ folds[f].from = "optional"
    <3>1. key = <<f, "count">> => value = None
      BY <1>2, <2>2, <2>3 DEF FoldSpecificOutputs
    <3>2. key # <<f, "count">> => value = None
      <4>1. SUFFICES ASSUME key # <<f, "count">> PROVE value = None
        OBVIOUS
      <4>2. key \in DOMAIN FoldedValues(f, elements)
        BY <4>1, <1>2, <2>2
      <4>3. value = FoldedValues(f, elements)[key]
        BY <4>1, <2>2
      <4> QED BY <4>2, <4>3, <2>3 DEF FoldedValues
    <3> HIDE DEF value, new
    <3>3. new[key] = Null
      BY <3>1, <3>2, <2>1
    <3>4. Fits(folds, c, key, Null)
      BY <2>2, <2>3, NullFits
    <3> QED BY <3>3, <3>4
  <2>4. CASE elements = None /\ AreElements(folds, f, elements)
    <3>1. ~NotLists
      BY <2>4 DEF AreElements, IsSequence, NotLists
    <3> QED BY <3>1 DEF Fits
  <2>5. CASE elements # None /\ AreElements(folds, f, elements)
    <3>1. CASE key = <<f, "count">>
      <4>1. Len(elements) \in Int
        BY <2>5 DEF AreElements, IsSequence
      <4>2. value = Len(elements)
        BY <3>1, <1>2, <2>2, <2>5 DEF FoldSpecificOutputs
      <4>3. value # None
        BY <4>1, <4>2, FoldAssumption
      <4> HIDE DEF value, new
      <4>4. new[key] = Len(elements)
        BY <2>1, <4>2, <4>3
      <4>5. Fits(folds, c, <<f, "count">>, Len(elements))
        BY <2>2, <3>1, <4>1, CountFits
      <4> QED BY <3>1, <4>4, <4>5
    <3>2. CASE key # <<f, "count">>
      <4>1. value = FoldedValues(f, elements)[key]
        BY <3>2, <2>2
      <4>2. Fits(folds, c, key, value) /\ IsSequence(value)
        <5>1. Fits(folds, c, key, FoldedValues(f, elements)[key]) /\ IsSequence(FoldedValues(f, elements)[key])
          BY <2>5, <3>2, FoldedFits
        <5> HIDE DEF value
        <5> QED BY <4>1, <5>1
      <4> HIDE DEF value, new
      <4>3. NotLists => value # None
        BY <4>2 DEF IsSequence, NotLists
      <4>4. NotLists => new[key] = value
        BY <2>1, <4>3
      <4> QED BY <4>2, <4>4 DEF Fits
    <3> QED BY <3>1, <3>2
  <2> QED BY <2>3, <2>4, <2>5 DEF IsFolded
<1> QED BY <1>3, <1>4

\* A context with its fold's outputs.
HasValues(y, x, values) == y = [x EXCEPT !.values = values]

\* Nothing else of the context changes.
LEMMA WithValues ==
  ASSUME NEW x, IsContext(x), NEW values, NEW y, HasValues(y, x, values)
  PROVE  IsContext(y) /\ y.tags = x.tags /\ y.folded = x.folded /\ y.values = values
BY DEF IsContext, ContextShape, HasValues

\* A context that has been through fold f has its outputs too.
LEMMA OutputsKeep ==
  ASSUME folds \in Plans, NEW c \in Semantics!Components(folds),
         NEW f \in Semantics!InnerFolds(folds, c), NEW x, IsContext(x),
         HasOutputs(folds, c, Earlier(folds, c, f), x.values), IsFolded(folds, f, x.folded[f])
  PROVE  LET y == WithOutputs(f, x)
         IN  /\ IsContext(y) /\ y.tags = x.tags /\ y.folded = x.folded
             /\ HasOutputs(folds, c, Earlier(folds, c, f) \cup {f}, y.values)
<1> DEFINE new == NewOutputs(f, x.folded[f])
           values == [key \in DOMAIN x.values \cup DOMAIN new |->
                        IF key \in DOMAIN new THEN new[key] ELSE x.values[key]]
           y == WithOutputs(f, x)
           S == Earlier(folds, c, f)
<1>1. HasValues(y, x, values)
  BY DEF WithOutputs, HasValues, NewOutputs
<1>2. /\ DOMAIN new = OutputsWithin(folds, f)
      /\ \A key \in DOMAIN new : Fits(folds, c, key, new[key])
  <2> DEFINE elements == x.folded[f]
  <2> HIDE DEF elements
  <2>1. IsFolded(folds, f, elements)
    BY DEF elements
  <2>2. /\ DOMAIN NewOutputs(f, elements) = OutputsWithin(folds, f)
        /\ \A key \in OutputsWithin(folds, f) :
             Fits(folds, c, key, NewOutputs(f, elements)[key])
    BY <2>1, NewOutputsFit
  <2> QED BY <2>2 DEF elements
<1>3. /\ DOMAIN x.values = UNION {OutputsWithin(folds, g) : g \in S}
      /\ \A key \in DOMAIN x.values : Fits(folds, c, key, x.values[key])
  BY DEF HasOutputs
<1> HIDE DEF new, S
<1>4. DOMAIN values = UNION {OutputsWithin(folds, g) : g \in S \cup {f}}
  BY <1>2, <1>3
<1>5. ASSUME NEW key \in DOMAIN values PROVE Fits(folds, c, key, values[key])
  <2>1. CASE key \in DOMAIN new
    BY <2>1, <1>2
  <2>2. CASE key \notin DOMAIN new
    BY <2>2, <1>3
  <2> QED BY <2>1, <2>2
<1> HIDE DEF y, values
<1>6. IsContext(y) /\ y.tags = x.tags /\ y.folded = x.folded /\ y.values = values
  BY <1>1, WithValues
<1>7. HasOutputs(folds, c, S \cup {f}, y.values)
  BY <1>4, <1>5, <1>6 DEF HasOutputs
<1> QED BY <1>6, <1>7 DEF y, S

\* A context that is through a fold goes to the next one of its component, or is an
\* element of the frame below.
LEMMA ComputeOutputsKeeps ==
  ASSUME IInv, ComputeOutputs
  PROVE  Stacked(folds, Imported, stack')
<1> DEFINE f == Top.fold
           c == stack[Len(stack) - 1].fold
           s == Below
           x == Top.ctx
           y == WithOutputs(f, x)
<1>1. Top.phase = "filter" /\ stack' = PassOn(s, Plan.in, f, y)
  BY DEF ComputeOutputs
<1>2. /\ NestedFrame(folds, Imported, Top, c) /\ Plan.in = c
      /\ c \in Semantics!Components(folds) /\ f \in DOMAIN folds
  BY <1>1, NestedFacts
<1>3. /\ f \in Semantics!InnerFolds(folds, c) /\ IsContext(x)
      /\ DOMAIN x.tags = Scope(folds, Imported, c)
      /\ DOMAIN x.folded = Earlier(folds, c, f) \cup {f}
      /\ HasOutputs(folds, c, Earlier(folds, c, f), x.values)
      /\ IsFolded(folds, f, x.folded[f])
  BY <1>1, <1>2 DEF NestedFrame
<1>4. folds \in Plans
  BY StackFacts
<1>5. Stacked(folds, Imported, s) /\ s[Len(s)].phase = "collect" /\ s[Len(s)].fold = c
  BY <1>1, <1>2, BelowKeeps
<1>6. f \in Int /\ UpTo(folds, c, f) = Earlier(folds, c, f) \cup {f}
  <2>1. Semantics!InnerFolds(folds, c) \subseteq Int
    BY <1>2, <1>4, InnerFoldsAreFolds
  <2> HIDE DEF f
  <2>2. \A g \in Semantics!InnerFolds(folds, c) : g <= f <=> g < f \/ g = f
    BY <2>1, <1>3
  <2>3. f \in Int
    BY <2>1, <1>3
  <2> QED BY <2>2, <2>3, <1>3 DEF UpTo, Earlier
<1> HIDE DEF f, c, s, x
<1>7. /\ IsContext(y) /\ y.tags = x.tags /\ y.folded = x.folded
      /\ HasOutputs(folds, c, Earlier(folds, c, f) \cup {f}, y.values)
  BY <1>2, <1>3, <1>4, OutputsKeep
<1> HIDE DEF y
<1>8. HasOutputs(folds, c, UpTo(folds, c, f), y.values)
  BY <1>6, <1>7
<1>9. Through(folds, Imported, c, UpTo(folds, c, f), y)
  BY <1>3, <1>6, <1>7, <1>8 DEF Through
<1>10. c = s[Len(s)].fold
  BY <1>5
<1>11. Stacked(folds, Imported, PassOn(s, c, f, y))
  BY <1>4, <1>5, <1>6, <1>9, <1>10, PassOnKeeps
<1> QED BY <1>1, <1>2, <1>11

-----------------------------------------------------------------------------
(* The invariant holds.                                                    *)

\* Every step keeps the stack in order, and neither the folds nor the graph change.
LEMMA StackKept ==
  ASSUME IInv, Next
  PROVE  Stacked(folds, Imported, stack') /\ folds' = folds /\ graph' = graph
<1>1. folds' = folds /\ graph' = graph
  BY DEF Next, ImportTags, PullElement, DropElement, DiscardEarly, RecordElements, KeepFold,
         DiscardFold, ComputeOutputs, EndRows, Done, vars
<1>2. CASE ImportTags
  BY <1>1, <1>2, ImportTagsKeeps
<1>3. CASE PullElement
  BY <1>1, <1>3, PullElementKeeps
<1>4. CASE DropElement
  BY <1>1, <1>4, DropElementKeeps
<1>5. CASE DiscardEarly
  BY <1>1, <1>5, DiscardKeeps
<1>6. CASE RecordElements
  BY <1>1, <1>6, RecordElementsKeeps
<1>7. CASE KeepFold
  BY <1>1, <1>7, KeepFoldKeeps
<1>8. CASE DiscardFold
  BY <1>1, <1>8, DiscardKeeps
<1>9. CASE ComputeOutputs
  BY <1>1, <1>9, ComputeOutputsKeeps
<1>10. CASE EndRows
  BY <1>1, <1>10, EndRowsKeeps
<1>11. CASE Done
  BY <1>1, <1>11, StackFacts DEF Done, vars
<1> QED BY <1>2, <1>3, <1>4, <1>5, <1>6, <1>7, <1>8, <1>9, <1>10, <1>11 DEF Next

\* The root component's frame at the start.
Starts(q, r, remaining) == q = [r EXCEPT !.phase = "collect", !.remaining = remaining]

\* It has the starting vertices before it and no elements.
LEMMA StartingFrame ==
  ASSUME NEW r, FrameShape(r), NEW remaining, NEW q, Starts(q, r, remaining)
  PROVE  /\ FrameShape(q) /\ q.fold = r.fold /\ q.phase = "collect"
         /\ q.remaining = remaining /\ q.elements = r.elements
BY DEF FrameShape, Starts

\* A starting vertex is a number, and nothing has been done with it.
LEMMA InitStacked ==
  ASSUME Init
  PROVE  IInv
<1>1. PICK starting \in Starting :
        stack = << [Frame(Root, None) EXCEPT !.phase = "collect", !.remaining = starting] >>
  BY DEF Init
<1>2. folds \in Plans /\ graph \in Graphs /\ starting \in Seq(Vertex)
  BY FoldAssumption DEF Init
<1> DEFINE r == [Frame(Root, None) EXCEPT !.phase = "collect", !.remaining = starting]
<1> DEFINE b == Frame(Root, None)
<1>3. /\ b = [fold |-> Root, phase |-> "import", ctx |-> None, remaining |-> <<>>,
              elements |-> <<>>, filter |-> 1]
      /\ b.fold = Root /\ b.elements = <<>>
  BY DEF Frame
<1>9. FrameShape(b)
  BY DEF Frame, FrameShape
<1> HIDE DEF b
<1>10. Starts(r, b, starting)
  BY DEF Starts, b
<1> HIDE DEF r
<1>8. /\ FrameShape(r) /\ r.fold = Root /\ r.phase = "collect" /\ r.remaining = starting
      /\ r.elements = <<>>
  BY <1>3, <1>9, <1>10, StartingFrame
<1>4. RootFrame(folds, r)
  <2>1. AreElements(folds, Root, <<>>)
    BY DEF AreElements, IsSequence
  <2> QED BY <2>1, <1>2, <1>8 DEF RootFrame, Collects
<1>5. stack = <<r>>
  BY <1>1 DEF r
<1>6. IsSequence(stack) /\ Len(stack) = 1 /\ stack[1] = r
  <2>1. stack \in Seq({r})
    BY <1>5
  <2> QED BY <2>1, <1>5 DEF IsSequence
<1>7. Stacked(folds, Imported, stack)
  BY <1>4, <1>6 DEF Stacked
<1> QED BY <1>2, <1>7 DEF IInv

\* Every step keeps the invariant.
LEMMA NextKeeps ==
  ASSUME IInv, [Next]_vars
  PROVE  IInv'
<1>1. Stacked(folds, Imported, stack') /\ folds' = folds /\ graph' = graph
  <2>1. CASE Next
    BY <2>1, StackKept
  <2>2. CASE UNCHANGED vars
    BY <2>2, StackFacts DEF vars
  <2> QED BY <2>1, <2>2
<1>2. Imported' = Imported
  BY <1>1 DEF Imported, ImportedTags, Imports, References, VertexReferences, CountReferences
<1>3. folds \in Plans /\ graph \in Graphs
  BY StackFacts
<1> QED BY <1>1, <1>2, <1>3 DEF IInv

\* In every state of every execution, the stack holds the components that are
\* being computed, each with the tags, folds and outputs it should have.
THEOREM SpecIInv == Spec => []IInv
<1>1. Init => IInv
  BY InitStacked
<1>2. IInv /\ [Next]_vars => IInv'
  BY NextKeeps
<1> QED BY <1>1, <1>2, PTL DEF Spec

\* The frames of nested folds are well-typed, and each fold is inside the one
\* whose elements its context will be.
THEOREM TypeCorrect == Spec => []TypeOK
<1>1. IInv => TypeOK
  <2> SUFFICES ASSUME IInv PROVE TypeOK
    OBVIOUS
  <2>1. /\ IsSequence(stack) /\ Len(stack) > 0 /\ RootFrame(folds, stack[1])
        /\ \A i \in 2..Len(stack) : NestedFrame(folds, Imported, stack[i], stack[i - 1].fold)
    BY StackFacts DEF Stacked
  <2>2. Len(stack) \in Nat /\ DOMAIN stack = 1..Len(stack)
    BY <2>1 DEF IsSequence
  <2>3. folds \in Plans /\ Stacked(folds, Imported, stack)
    BY StackFacts
  <2>4. ASSUME NEW i \in DOMAIN stack
        PROVE /\ stack[i].fold \in DOMAIN folds \cup {Root}
              /\ stack[i].phase \in {"import", "collect", "filter", "ended"}
              /\ stack[i].remaining \in Seq(Vertex)
              /\ i = 1 <=> stack[i].fold = Root
              /\ i > 1 => folds[stack[i].fold].in = stack[i - 1].fold
    <3>1. CASE i = 1
      BY <3>1, <2>1 DEF RootFrame, Collects
    <3>2. CASE i # 1
      <4>1. i \in 2..Len(stack) /\ i - 1 \in 1..Len(stack) /\ i > 1
        BY <3>2, <2>2
      <4>2. NestedFrame(folds, Imported, stack[i], stack[i - 1].fold)
        BY <4>1, <2>1
      <4>3. stack[i - 1].fold \in Semantics!Components(folds)
        BY <4>1, <2>3, FoldsOfFrames
      <4>4. /\ stack[i].fold \in Semantics!InnerFolds(folds, stack[i - 1].fold)
            /\ stack[i].phase \in {"import", "collect", "filter"}
            /\ stack[i].remaining \in Seq(Vertex)
        BY <4>2 DEF NestedFrame, Collects
      <4>5. /\ stack[i].fold \in DOMAIN folds /\ stack[i].fold # Root
            /\ folds[stack[i].fold].in = stack[i - 1].fold
        BY <4>3, <4>4, <2>3, InnerFoldsAreFolds
      <4> QED BY <4>4, <4>5, <3>2
    <3> QED BY <3>1, <3>2
  <2> QED BY <2>1, <2>4 DEF TypeOK
<1> QED BY <1>1, SpecIInv, PTL

-----------------------------------------------------------------------------
(* Tags are scoped, and found.                                             *)

\* The tags that the model says are in scope are those of the invariant.
LEMMA TagsInScopeIsScope ==
  ASSUME folds \in Plans, NEW c \in Semantics!Components(folds)
  PROVE  TagsInScope(c) = Scope(folds, Imported, c)
<1>1. \A f \in Semantics!Around(folds, c) \ {Root} : Imported[f] = ImportedTags(f)
  BY PlansAreTrees, AroundComponents, ImportedFromOutside
<1> QED BY <1>1 DEF TagsInScope, Scope

\* A context has exactly the tags of the components around it, so the next
\* fold and the elements of this one see no others and miss none.
THEOREM TagsAreScoped == Spec => []TagsScoped
<1>1. IInv => TagsScoped
  <2> SUFFICES ASSUME IInv, NEW i \in 2..Len(stack)
               PROVE  DOMAIN stack[i].ctx.tags =
                        TagsInScope(IF stack[i].phase = "collect" THEN stack[i].fold
                                    ELSE stack[i - 1].fold)
    BY DEF TagsScoped
  <2>1. folds \in Plans /\ Stacked(folds, Imported, stack) /\ Len(stack) \in Nat
    BY StackFacts
  <2>2. i \in 1..Len(stack) /\ i - 1 \in 1..Len(stack)
    BY <2>1
  <2>3. NestedFrame(folds, Imported, stack[i], stack[i - 1].fold)
    BY <2>1 DEF Stacked
  <2>4. /\ stack[i].fold \in Semantics!Components(folds)
        /\ stack[i - 1].fold \in Semantics!Components(folds)
    BY <2>1, <2>2, FoldsOfFrames
  <2> QED BY <2>1, <2>3, <2>4, TagsInScopeIsScope DEF NestedFrame
<1> QED BY <1>1, SpecIInv, PTL

\* A tag that a filter of fold f refers to is imported by the fold around f
\* that is in the tag's component.
LEMMA ReferenceImported ==
  ASSUME folds \in Plans, NEW f \in DOMAIN folds,
         NEW g \in Semantics!Around(folds, f) \ {Root}, NEW t, t.of = folds[g].in,
         \/ \E r \in VertexReferences(f) : r.tag = t
         \/ f # g /\ \E r \in CountReferences(f) : r.tag = t
  PROVE  t \in ImportedTags(g)
<1>1. f \in Semantics!Inside(folds, g)
  BY DEF Semantics!Inside
<1>2. \E r \in References(g) : r.tag = t
  BY <1>1 DEF References
<1> QED BY <1>2 DEF ImportedTags, Imports

\* The tags of components around fold f that f's own filters refer to, and
\* those that filters on its number of elements do.
LEMMA ReferencesInScope ==
  ASSUME folds \in Plans, NEW f \in DOMAIN folds
  PROVE  /\ \A i \in DOMAIN folds[f].uses : folds[f].uses[i] \in Scope(folds, Imported, f)
         /\ \A i \in DOMAIN folds[f].filters :
              folds[f].filters[i].byTag =>
                \/ folds[f].filters[i].arg.of = folds[f].in
                \/ folds[f].filters[i].arg \in Scope(folds, Imported, folds[f].in)
<1>1. IsTree(folds) /\ Semantics!Components(folds) = {Root} \cup DOMAIN folds
  BY PlansAreTrees
<1> DEFINE c == folds[f].in
<1>2. c \in Semantics!Components(folds) /\ c \in Nat /\ f \in Nat /\ c < f
  BY <1>1 DEF IsTree
<1>3. Semantics!Around(folds, f) = {f} \cup Semantics!Around(folds, c)
  BY <1>1, AroundFold
<1>4. /\ \A i \in DOMAIN folds[f].uses : folds[f].uses[i].of \in Semantics!Around(folds, c)
      /\ \A i \in DOMAIN folds[f].filters :
           folds[f].filters[i].byTag => folds[f].filters[i].arg.of \in Semantics!Around(folds, c)
  BY FoldAssumption DEF IsKnown
<1>5. \A d \in Semantics!Around(folds, c) : d # f
  <2>1. \A d \in Semantics!Around(folds, c) : d \in Nat /\ d <= c
    BY <1>1, <1>2, AroundIsBefore
  <2> QED BY <2>1, <1>2
<1>6. /\ \A g \in Semantics!Around(folds, f) \ {Root} : Imported[g] = ImportedTags(g)
      /\ \A g \in Semantics!Around(folds, c) \ {Root} : Imported[g] = ImportedTags(g)
  <2>1. \A g \in Semantics!Around(folds, f) \ {Root} : g \in DOMAIN folds
    BY <1>1, AroundComponents
  <2> QED BY <2>1, <1>3, ImportedFromOutside
<1>7. ASSUME NEW i \in DOMAIN folds[f].uses PROVE folds[f].uses[i] \in Scope(folds, Imported, f)
  <2> DEFINE t == folds[f].uses[i]
             d == t.of
  <2>1. d \in Semantics!Around(folds, f) /\ d # f
    BY <1>3, <1>4, <1>5
  <2>2. PICK g \in Semantics!Around(folds, f) \ {Root} : folds[g].in = d
    <3> HIDE DEF d
    <3> QED BY <2>1, <1>1, AroundSomeFold
  <2>3. \E r \in VertexReferences(f) : r.tag = t
    <3> DEFINE r == [by |-> "vertex", fold |-> f, at |-> i, tag |-> t]
    <3>1. r \in VertexReferences(f)
      BY DEF VertexReferences
    <3>2. r.tag = t
      OBVIOUS
    <3> QED BY <3>1, <3>2
  <2>4. t \in ImportedTags(g)
    <3>1. t.of = folds[g].in
      BY <2>2
    <3> HIDE DEF t
    <3> QED BY <3>1, <2>3, ReferenceImported
  <2> QED BY <2>4, <1>6 DEF Scope
<1>8. ASSUME NEW i \in DOMAIN folds[f].filters, folds[f].filters[i].byTag,
             folds[f].filters[i].arg.of # c
      PROVE  folds[f].filters[i].arg \in Scope(folds, Imported, c)
  <2> DEFINE t == folds[f].filters[i].arg
             d == t.of
  <2>1. d \in Semantics!Around(folds, c) /\ d # c
    BY <1>4, <1>8
  <2>2. PICK g \in Semantics!Around(folds, c) \ {Root} : folds[g].in = d
    <3> HIDE DEF d, c
    <3> QED BY <2>1, <1>1, <1>2, AroundSomeFold
  <2>3. \E r \in CountReferences(f) : r.tag = t
    <3> DEFINE r == [by |-> "count", fold |-> f, at |-> i, tag |-> t]
    <3>1. r \in CountReferences(f)
      BY <1>8 DEF CountReferences
    <3>2. r.tag = t
      OBVIOUS
    <3> QED BY <3>1, <3>2
  <2>4. t \in ImportedTags(g)
    <3>1. t.of = folds[g].in /\ f # g /\ g \in Semantics!Around(folds, f) \ {Root}
      BY <2>2, <1>3, <1>5
    <3> HIDE DEF t
    <3> QED BY <3>1, <2>3, ReferenceImported
  <2> QED BY <2>4, <1>6 DEF Scope
<1> QED BY <1>7, <1>8

\* A count that fold f imports is of a fold before f.
LEMMA ImportedCounts ==
  ASSUME folds \in Plans, NEW f \in DOMAIN folds, NEW t \in ImportedTags(f), t.fold # 0
  PROVE  t.fold \in Earlier(folds, folds[f].in, f)
<1>1. PICK r \in References(f) : r.tag = t /\ t.of = folds[f].in
  BY DEF ImportedTags, Imports
<1>2. PICK g \in Semantics!Inside(folds, f) : r \in VertexReferences(g) \/ r \in CountReferences(g)
  BY <1>1 DEF References
<1>3. g \in DOMAIN folds /\ f \in Semantics!Around(folds, g) \ {Root}
  BY <1>2, PlansAreTrees DEF Semantics!Inside, IsTree
<1>4. IsKnown(folds, g, t)
  <2>1. /\ \A i \in DOMAIN folds[g].uses : IsKnown(folds, g, folds[g].uses[i])
        /\ \A i \in DOMAIN folds[g].filters :
             folds[g].filters[i].byTag => IsKnown(folds, g, folds[g].filters[i].arg)
    BY <1>3, FoldAssumption
  <2>2. CASE r \in VertexReferences(g)
    <3>1. \E i \in DOMAIN folds[g].uses : r.tag = folds[g].uses[i]
      BY <2>2 DEF VertexReferences
    <3> QED BY <3>1, <2>1, <1>1
  <2>3. CASE r \in CountReferences(g)
    <3>1. \E i \in DOMAIN folds[g].filters : folds[g].filters[i].byTag /\ r.tag = folds[g].filters[i].arg
      BY <2>3 DEF CountReferences
    <3> QED BY <3>1, <2>1, <1>1
  <2> QED BY <2>2, <2>3, <1>2
<1>5. Semantics!RootComponent = Root
  BY DEF Semantics!RootComponent, Root
<1> QED BY <1>1, <1>3, <1>4, <1>5 DEF IsKnown, Earlier

\* No index, insert_or_error() or assert_eq!() of compute_fold() fails: a tag
\* that a filter reads or a fold imports is there, a fold is recorded once, and
\* its outputs are new to the context.
THEOREM NeverPanics == Spec => []NoPanic
<1>1. IInv => NoPanic
  <2> SUFFICES ASSUME IInv PROVE NoPanic
    OBVIOUS
  <2> DEFINE f == Top.fold
             c == stack[Len(stack) - 1].fold
  <2>1. folds \in Plans
    BY StackFacts
  <2>2. ASSUME f # Root \/ Top.phase = "filter"
        PROVE  /\ NestedFrame(folds, Imported, Top, c)
               /\ c \in Semantics!Components(folds)
               /\ f \in Semantics!InnerFolds(folds, c)
               /\ f \in DOMAIN folds /\ Plan = folds[f] /\ Plan.in = c
    BY <2>2, NestedFacts
  <2>3. ASSUME Pulls, f # Root, NEW i \in DOMAIN Plan.uses
        PROVE  Plan.uses[i] \in DOMAIN Top.ctx.tags
    <3>1. Top.phase = "collect"
      BY <2>3 DEF Pulls
    <3>2. DOMAIN Top.ctx.tags = Scope(folds, Imported, f)
      BY <2>2, <2>3, <3>1 DEF NestedFrame
    <3> QED BY <2>1, <2>2, <2>3, <3>2, ReferencesInScope
  <2>4. ASSUME Filters, Plan.filters[Top.filter].byTag
        PROVE  LET tag == Plan.filters[Top.filter].arg
               IN  IF tag.of = Plan.in THEN tag.fold # 0 => tag.fold \in DOMAIN Top.ctx.folded
                   ELSE tag \in DOMAIN Top.ctx.tags
    <3> DEFINE tag == Plan.filters[Top.filter].arg
    <3>1. Top.phase = "filter" /\ Top.filter \in DOMAIN Plan.filters
      BY <2>4 DEF Filters
    <3>2. /\ DOMAIN Top.ctx.tags = Scope(folds, Imported, c)
          /\ DOMAIN Top.ctx.folded = Earlier(folds, c, f) \cup {f}
      BY <2>2, <3>1 DEF NestedFrame
    <3>3. tag.of # Plan.in => tag \in DOMAIN Top.ctx.tags
      BY <2>1, <2>2, <2>4, <3>1, <3>2, ReferencesInScope
    <3>4. ASSUME tag.of = Plan.in, tag.fold # 0 PROVE tag.fold \in DOMAIN Top.ctx.folded
      <4>1. IsKnown(folds, f, tag)
        BY <2>1, <2>2, <2>4, <3>1, FoldAssumption
      <4>2. f \in Semantics!Around(folds, f) \ {Root} /\ folds[f].in = c
        BY <2>1, <2>2, <3>1, PlansAreTrees, AroundComponents DEF IsTree
      <4>3. Semantics!RootComponent = Root
        BY DEF Semantics!RootComponent, Root
      <4>4. tag.fold \in Semantics!InnerFolds(folds, c) /\ tag.fold < f
        BY <4>1, <4>2, <4>3, <3>4, <2>2, <3>1 DEF IsKnown
      <4> QED BY <4>4, <3>2 DEF Earlier
    <3> QED BY <3>3, <3>4
  <2>7. ASSUME Top.phase = "import", NEW t \in ImportedTags(f), t.fold # 0
        PROVE  t.fold \in DOMAIN Top.ctx.folded
    <3>1. /\ NestedFrame(folds, Imported, Top, c) /\ f \in DOMAIN folds /\ folds[f].in = c
      BY <2>7, NestedFacts
    <3>2. DOMAIN Top.ctx.folded = Earlier(folds, c, f)
      BY <3>1, <2>7 DEF NestedFrame
    <3> QED BY <3>1, <3>2, <2>1, <2>7, ImportedCounts
  <2>5. ASSUME Top.phase = "collect", f # Root PROVE f \notin DOMAIN Top.ctx.folded
    <3>1. DOMAIN Top.ctx.folded = Earlier(folds, c, f)
      BY <2>2, <2>5 DEF NestedFrame
    <3>2. f \in Int
      BY <2>1, <2>2, <2>5, InnerFoldsAreFolds
    <3> QED BY <3>1, <3>2 DEF Earlier
  <2>6. ASSUME Top.phase = "filter"
        PROVE  LET elements == Top.ctx.folded[f]
                   new == DOMAIN FoldedValues(f, elements) \cup DOMAIN FoldSpecificOutputs(f, elements)
               IN  new \cap DOMAIN Top.ctx.values = {}
    <3> DEFINE elements == Top.ctx.folded[f]
    <3>1. /\ IsFolded(folds, f, elements)
          /\ DOMAIN Top.ctx.values = UNION {OutputsWithin(folds, g) : g \in Earlier(folds, c, f)}
          /\ f \in DOMAIN folds
      BY <2>1, <2>2, <2>6, InnerFoldsAreFolds DEF NestedFrame, HasOutputs
    <3>2. \A g \in Earlier(folds, c, f) : g \in Semantics!InnerFolds(folds, c) /\ g # f
      <4>1. \A g \in Semantics!InnerFolds(folds, c) : g \in Int
        BY <2>1, <2>2, <2>6, InnerFoldsAreFolds
      <4> HIDE DEF f
      <4>2. f \in Int
        BY <4>1, <2>2, <2>6
      <4> QED BY <4>1, <4>2 DEF Earlier
    <3>3. \A g \in Earlier(folds, c, f) : Within(folds, f) \cap Within(folds, g) = {}
      BY <3>2, <2>1, <2>2, <2>6, WithinOneFold
    <3> HIDE DEF elements
    <3>4. DOMAIN FoldedValues(f, elements) \cup DOMAIN FoldSpecificOutputs(f, elements)
            = OutputsWithin(folds, f)
      BY <3>1, <2>1, OutputKeys
    <3>5. (DOMAIN FoldedValues(f, elements) \cup DOMAIN FoldSpecificOutputs(f, elements))
            \cap DOMAIN Top.ctx.values = {}
      BY <3>1, <3>3, <3>4 DEF OutputsWithin
    <3> QED BY <3>5 DEF elements
  <2> QED BY <2>3, <2>4, <2>5, <2>6, <2>7 DEF NoPanic
<1> QED BY <1>1, SpecIInv, PTL

-----------------------------------------------------------------------------
(* The limit on the number of elements.                                    *)

\* A count above a filter's limit is one that the filter rejects.
LEMMA LimitRejects ==
  ASSUME NEW filter, IsFilter(filter), FilterLimit(filter) # None
  PROVE  /\ ~filter.byTag
         /\ FilterLimit(filter) \in Int
         /\ \A n \in Int : n > FilterLimit(filter) => ~Semantics!Compares(filter.op, n, filter.arg)
<1>1. ~filter.byTag
  BY DEF FilterLimit
<1> DEFINE op == filter.op
           arg == filter.arg
<1>2. \/ op \in {"=", "!=", "<", "<=", ">", ">="} /\ arg \in Int
      \/ op \in {"one_of", "not_one_of"} /\ arg \subseteq Int /\ IsFiniteSet(arg)
  BY <1>1 DEF IsFilter
<1>3. op \in {"=", "<=", "<"} \/ (op = "one_of" /\ arg # {})
  BY <1>1, <1>2 DEF FilterLimit
<1>4. CASE op \in {"=", "<="}
  <2>1. FilterLimit(filter) = arg /\ arg \in Int
    BY <1>1, <1>2, <1>4 DEF FilterLimit
  <2>2. \A n \in Int : Semantics!Compares(op, n, arg) => n = arg \/ n <= arg
    <3>1. CASE op = "="
      BY <3>1 DEF Semantics!Compares
    <3>2. CASE op = "<="
      BY <3>2 DEF Semantics!Compares
    <3> QED BY <3>1, <3>2, <1>4
  <2> HIDE DEF arg, op
  <2>3. \A n \in Int : n > arg => ~(n = arg \/ n <= arg)
    BY <2>1
  <2>4. \A n \in Int : n > FilterLimit(filter) => ~Semantics!Compares(op, n, arg)
    BY <2>1, <2>2, <2>3
  <2> QED BY <2>1, <2>4, <1>1 DEF arg, op
<1>5. CASE op = "<"
  <2>1. FilterLimit(filter) = (IF arg = 0 THEN 0 ELSE arg - 1) /\ arg \in Int
    BY <1>1, <1>2, <1>5 DEF FilterLimit
  <2>2. \A n \in Int : Semantics!Compares(op, n, arg) <=> n < arg
    BY <1>5 DEF Semantics!Compares
  <2> HIDE DEF arg, op
  <2>3. FilterLimit(filter) \in Int /\ \A n \in Int : n > FilterLimit(filter) => ~(n < arg)
    <3>1. CASE arg = 0
      BY <3>1, <2>1
    <3>2. CASE arg # 0
      BY <3>2, <2>1
    <3> QED BY <3>1, <3>2
  <2>4. \A n \in Int : n > FilterLimit(filter) => ~Semantics!Compares(op, n, arg)
    BY <2>2, <2>3
  <2> QED BY <2>3, <2>4, <1>1 DEF arg, op
<1>6. CASE op = "one_of" /\ arg # {}
  <2>1. FilterLimit(filter) = Sets!Max(arg) /\ arg \subseteq Int /\ IsFiniteSet(arg)
    BY <1>1, <1>2, <1>6 DEF FilterLimit
  <2>2. \A n \in Int : Semantics!Compares(op, n, arg) <=> n \in arg
    BY <1>6 DEF Semantics!Compares
  <2> HIDE DEF arg, op
  <2> DEFINE m == Sets!Max(arg)
  <2>3. m \in arg /\ \A x \in arg : x <= m
    BY <2>1, <1>6, LargestMember
  <2> HIDE DEF m
  <2>4. m \in Int /\ \A n \in Int : n > m => n \notin arg
    BY <2>1, <2>3
  <2>5. FilterLimit(filter) = m
    BY <2>1 DEF m
  <2>6. \A n \in Int : n > FilterLimit(filter) => ~Semantics!Compares(op, n, arg)
    BY <2>2, <2>4, <2>5
  <2> QED BY <2>4, <2>5, <2>6, <1>1 DEF arg, op
<1> QED BY <1>3, <1>4, <1>5, <1>6

\* The limit is that of a filter.
LEMMA LimitOfAFilter ==
  ASSUME NEW filters, filters \in Seq(Seqs!ToSet(filters)),
         \A i \in DOMAIN filters : IsFilter(filters[i]), MaxFoldCountLimit(filters) # None
  PROVE  \E i \in DOMAIN filters :
           FilterLimit(filters[i]) # None /\ MaxFoldCountLimit(filters) = FilterLimit(filters[i])
<1> DEFINE all == {FilterLimit(filters[i]) : i \in DOMAIN filters}
           limits == all \ {None}
<1>1. limits # {} /\ MaxFoldCountLimit(filters) = Sets!Min(limits)
  BY DEF MaxFoldCountLimit
<1>2. limits \subseteq Int
  BY LimitRejects
<1>3. IsFiniteSet(limits)
  <2>1. DOMAIN filters = 1..Len(filters) /\ Len(filters) \in Nat
    OBVIOUS
  <2> DEFINE d == DOMAIN filters
             g == [i \in d |-> FilterLimit(filters[i])]
  <2>2. IsFiniteSet(d)
    BY <2>1, FS_Interval
  <2>3. all = {g[i] : i \in d}
    OBVIOUS
  <2>4. g \in Surjection(d, all)
    BY <2>3 DEF Surjection
  <2> HIDE DEF d, all, g
  <2>5. IsFiniteSet(all)
    BY <2>2, <2>4, FS_Surjection
  <2> QED BY <2>5, FS_Subset
<1>4. Sets!Min(limits) \in limits
  <2> HIDE DEF limits
  <2> QED BY <1>1, <1>2, <1>3, LeastMember
<1> QED BY <1>1, <1>4

\* A fold discarded for its number of elements would have been discarded by a
\* filter, however many of the remaining neighbors become elements.
THEOREM OnlyRejectedAreDiscarded == Spec => []DiscardsOnlyRejected
<1>1. IInv => DiscardsOnlyRejected
  <2> SUFFICES ASSUME IInv, TooMany
               PROVE  \E i \in DOMAIN Plan.filters :
                        /\ ~Plan.filters[i].byTag
                        /\ \A n \in Len(Top.elements)..Len(Top.elements) + Len(Top.remaining) :
                             ~Semantics!Compares(Plan.filters[i].op, n, Plan.filters[i].arg)
    BY DEF DiscardsOnlyRejected
  <2> DEFINE filters == Plan.filters
             count == Len(Top.elements)
  <2>1. Top.fold # Root /\ Limit # None /\ Limit = MaxFoldCountLimit(filters) /\ count > Limit
    BY DEF TooMany, Limit
  <2>2. IsFold(Plan)
    BY <2>1, NestedFacts
  <2>3. filters \in Seq(Seqs!ToSet(filters)) /\ \A i \in DOMAIN filters : IsFilter(filters[i])
    BY <2>2 DEF IsFold
  <2>4. count \in Nat
    BY StackFacts DEF IsTop, RootFrame, NestedFrame, Collects, AreElements, IsSequence
  <2>5. PICK i \in DOMAIN filters : FilterLimit(filters[i]) # None /\ Limit = FilterLimit(filters[i])
    <3> HIDE DEF filters
    <3> QED BY <2>1, <2>3, LimitOfAFilter
  <2> DEFINE filter == filters[i]
  <2>6. /\ ~filter.byTag /\ Limit \in Int
        /\ \A n \in Int : n > Limit => ~Semantics!Compares(filter.op, n, filter.arg)
    BY <2>3, <2>5, LimitRejects
  <2>7. \A n \in count..count + Len(Top.remaining) : n \in Int /\ n > Limit
    <3> HIDE DEF count
    <3> QED BY <2>1, <2>4, <2>6
  <2>8. \A n \in count..count + Len(Top.remaining) : ~Semantics!Compares(filter.op, n, filter.arg)
    BY <2>6, <2>7
  <2> QED BY <2>6, <2>8
<1> QED BY <1>1, SpecIInv, PTL

-----------------------------------------------------------------------------
(***************************************************************************)
(* The indexed query.                                                      *)
(***************************************************************************)
\* The root component is around every component.
LEMMA RootIsAround ==
  ASSUME NEW p, IsTree(p), NEW c \in Semantics!Components(p)
  PROVE  Root \in Semantics!Around(p, c)
<1> DEFINE S == Semantics!Around(p, c)
<1>1. /\ c \in S /\ S \subseteq Semantics!Components(p)
      /\ \A f \in S \ {Root} : f \in DOMAIN p /\ p[f].in \in S
  BY AroundComponents
<1>2. S \subseteq Nat
  <2>1. Semantics!Components(p) = {Root} \cup DOMAIN p
    BY DEF Semantics!Components, Semantics!RootComponent, Root
  <2> HIDE DEF S
  <2> QED BY <2>1, <1>1 DEF IsTree, Root
<1> HIDE DEF S
<1>3. PICK m \in S : \A n \in S : m <= n
  BY <1>1, <1>2, LeastNatural
<1>4. m = Root
  <2>1. m # Root => m \in DOMAIN p /\ p[m].in \in S
    BY <1>1
  <2>2. m # Root => m \in Nat /\ p[m].in \in Nat /\ p[m].in < m /\ m <= p[m].in
    BY <2>1, <1>2, <1>3 DEF IsTree
  <2>3. \A x, y \in Nat : ~(x < y /\ y <= x)
    OBVIOUS
  <2> QED BY <2>2, <2>3
<1> QED BY <1>4 DEF S

\* Every output is a key of the root component.
LEMMA OutputsOfRoot ==
  ASSUME NEW p \in Plans
  PROVE  UNION {OutputsWithin(p, g) : g \in Semantics!InnerFolds(p, Root)}
           = {key \in (DOMAIN p) \X {"count", "own", "optional"} : key[2] \in p[key[1]].outputs}
<1>1. IsTree(p) /\ Semantics!Components(p) = {Root} \cup DOMAIN p
  BY PlansAreTrees
<1>2. ASSUME NEW key \in (DOMAIN p) \X {"count", "own", "optional"}
      PROVE  Root \in Semantics!Around(p, p[key[1]].in)
  <2>1. key[1] \in DOMAIN p
    BY <1>2
  <2>2. p[key[1]].in \in Semantics!Components(p)
    BY <2>1, <1>1 DEF IsTree
  <2> QED BY <2>2, <1>1, RootIsAround
<1>3. Semantics!Keys(p, Root)
        = {key \in (DOMAIN p) \X {"count", "own", "optional"} : key[2] \in p[key[1]].outputs}
  BY <1>2 DEF Semantics!Keys
<1>4. Root \in Semantics!Components(p)
  BY <1>1
<1> QED BY <1>3, <1>4, OutputsInside

\* The components of the query.
LEMMA Components ==
  ASSUME folds \in Plans
  PROVE  /\ DOMAIN IR = Semantics!Components(folds)
         /\ Semantics!Components(folds) = {Root} \cup DOMAIN folds
         /\ \A c \in DOMAIN IR : c \in Nat /\ IR[c] = ComponentOf(c)
         /\ \A f \in DOMAIN folds : f \in Nat /\ f # Root /\ folds[f].in \in DOMAIN IR
<1>1. IsTree(folds) /\ Semantics!Components(folds) = {Root} \cup DOMAIN folds
  BY PlansAreTrees
<1>2. DOMAIN IR = DOMAIN folds \cup {Root} /\ \A c \in DOMAIN IR : IR[c] = ComponentOf(c)
  BY DEF IR
<1> QED BY <1>1, <1>2 DEF IsTree, Root

\* The vertex and the @optional edge of a component.
LEMMA ComponentVertices ==
  ASSUME folds \in Plans, NEW c \in DOMAIN IR
  PROVE  /\ IR[c].root = 2 * c + 1
         /\ IR[c].vertices = {2 * c + 1, 2 * c + 2}
         /\ DOMAIN IR[c].edges = {2 * c + 1}
         /\ IR[c].edges[2 * c + 1].from = 2 * c + 1
         /\ IR[c].edges[2 * c + 1].to = 2 * c + 2
         /\ IR[c].edges[2 * c + 1].optional
<1>1. IR[c] = ComponentOf(c) /\ c \in Nat
  BY Components
<1>2. VidOf(c, "own") = 2 * c + 1 /\ VidOf(c, "optional") = 2 * c + 2 /\ EidTo(2 * c + 2) = 2 * c + 1
  BY <1>1 DEF VidOf, EidTo
<1>3. /\ IR[c].root = VidOf(c, "own")
      /\ IR[c].vertices = {VidOf(c, "own"), VidOf(c, "optional")}
      /\ IR[c].edges = [eid \in {EidTo(VidOf(c, "optional"))} |->
           [from |-> VidOf(c, "own"), to |-> VidOf(c, "optional"), optional |-> TRUE]]
  BY <1>1 DEF ComponentOf
<1>4. IR[c].edges[2 * c + 1] = [from |-> 2 * c + 1, to |-> 2 * c + 2, optional |-> TRUE]
  BY <1>2, <1>3
<1>5. DOMAIN IR[c].edges = {2 * c + 1}
  BY <1>2, <1>3
<1> QED BY <1>2, <1>3, <1>4, <1>5

\* The folds of a component.
LEMMA ComponentFolds ==
  ASSUME folds \in Plans, NEW c \in DOMAIN IR
  PROVE  /\ DOMAIN IR[c].folds = {2 * f : f \in Semantics!InnerFolds(folds, c)}
         /\ \A f \in Semantics!InnerFolds(folds, c) :
              /\ f \in Nat /\ f \in DOMAIN folds /\ f \in DOMAIN IR /\ folds[f].in = c
              /\ IR[c].folds[2 * f].from = VidOf(c, folds[f].from)
              /\ IR[c].folds[2 * f].to = 2 * f + 1
              /\ IR[c].folds[2 * f].component = f
              /\ IR[c].folds[2 * f].counts = {f} \X (folds[f].outputs \cap {"count"})
<1> DEFINE I == Semantics!InnerFolds(folds, c)
           The(eid) == CHOOSE f \in I : EidTo(VidOf(f, "own")) = eid
           Fold(f) == [from |-> VidOf(c, folds[f].from), to |-> VidOf(f, "own"), component |-> f,
                       counts |-> {f} \X (folds[f].outputs \cap {"count"})]
<1>1. IR[c] = ComponentOf(c) /\ InnerFolds(c) = I
  BY Components DEF InnerFolds
<1>2. \A f \in I : f \in DOMAIN folds /\ folds[f].in = c
  BY DEF Semantics!InnerFolds
<1>3. \A f \in I : f \in Nat /\ f \in DOMAIN IR
  BY <1>2, Components
<1>4. \A f \in I : VidOf(f, "own") = 2 * f + 1 /\ EidTo(VidOf(f, "own")) = 2 * f
  BY <1>3 DEF VidOf, EidTo
<1>5. IR[c].folds = [eid \in {EidTo(VidOf(f, "own")) : f \in I} |-> Fold(The(eid))]
  BY <1>1 DEF ComponentOf
<1>6. {EidTo(VidOf(f, "own")) : f \in I} = {2 * f : f \in I}
  BY <1>4
<1>7. ASSUME NEW f \in I PROVE The(2 * f) = f
  <2>1. EidTo(VidOf(f, "own")) = 2 * f
    BY <1>4
  <2>2. The(2 * f) \in I /\ EidTo(VidOf(The(2 * f), "own")) = 2 * f
    BY <2>1
  <2> DEFINE g == The(2 * f)
  <2> HIDE DEF g
  <2>3. g \in I /\ EidTo(VidOf(g, "own")) = 2 * f
    BY <2>2 DEF g
  <2>4. f \in Nat /\ g \in Nat /\ 2 * g = 2 * f
    BY <2>3, <1>3, <1>4
  <2>5. g = f
    BY <2>4
  <2> QED BY <2>5 DEF g
<1> HIDE DEF I, The, IR
<1>8. DOMAIN IR[c].folds = {2 * f : f \in I}
  BY <1>5, <1>6
<1>9. ASSUME NEW f \in I
      PROVE  /\ IR[c].folds[2 * f].from = VidOf(c, folds[f].from)
             /\ IR[c].folds[2 * f].to = 2 * f + 1
             /\ IR[c].folds[2 * f].component = f
             /\ IR[c].folds[2 * f].counts = {f} \X (folds[f].outputs \cap {"count"})
  <2>1. 2 * f \in {EidTo(VidOf(g, "own")) : g \in I}
    BY <1>6
  <2>2. IR[c].folds[2 * f] = Fold(f)
    BY <2>1, <1>5, <1>7
  <2>3. /\ IR[c].folds[2 * f].from = VidOf(c, folds[f].from)
        /\ IR[c].folds[2 * f].to = VidOf(f, "own")
        /\ IR[c].folds[2 * f].component = f
        /\ IR[c].folds[2 * f].counts = {f} \X (folds[f].outputs \cap {"count"})
    BY <2>2
  <2> QED BY <2>3, <1>4
<1> QED BY <1>2, <1>3, <1>8, <1>9 DEF I

\* The outputs of a component.
LEMMA ComponentOutputs ==
  ASSUME folds \in Plans, NEW c \in DOMAIN IR
  PROVE  /\ DOMAIN IR[c].outputs = {c} \X OutputsOf(c)
         /\ OutputsOf(c) \subseteq {"own", "optional"}
         /\ \A name \in {c} \X OutputsOf(c) :
              IR[c].outputs[name] = [vid |-> VidOf(c, name[2]), nullable |-> <<FALSE>>]
<1>1. IR[c] = ComponentOf(c)
  BY Components
<1>2. IR[c].outputs = [name \in {c} \X OutputsOf(c) |-> [vid |-> VidOf(c, name[2]), nullable |-> <<FALSE>>]]
  BY <1>1 DEF ComponentOf
<1>3. OutputsOf(c) \subseteq {"own", "optional"}
  <2>1. c = Root \/ (c \in DOMAIN folds /\ IsFold(folds[c]))
    BY Components, PlansAreTrees
  <2> QED BY <2>1 DEF OutputsOf, IsFold
<1> QED BY <1>2, <1>3

\* A property is null, and a fold may not exist, at the end of the @optional edge alone.
LEMMA EndsAreOptional ==
  ASSUME folds \in Plans, NEW c \in DOMAIN IR
  PROVE  /\ Index!OptionalVertices(IR[c]) = {2 * c + 2}
         /\ \A at \in {"own", "optional"} : VidOf(c, at) \in {2 * c + 2} <=> at = "optional"
<1> DEFINE edges == IR[c].edges
           T == CHOOSE F : F = [eid \in DOMAIN edges |->
                  \/ edges[eid].optional
                  \/ \E e \in DOMAIN edges : e < eid /\ edges[e].to = edges[eid].from /\ F[e]]
           G == [eid \in DOMAIN edges |-> TRUE]
           only == 2 * c + 1
<1>1. c \in Nat /\ DOMAIN edges = {only}
  BY Components, ComponentVertices
<1>2. edges[only].optional /\ edges[only].to = 2 * c + 2
  BY ComponentVertices
<1> HIDE DEF edges, only
<1>3. \A eid \in DOMAIN edges : edges[eid].optional
  BY <1>1, <1>2
<1>4. G = [eid \in DOMAIN edges |->
             \/ edges[eid].optional
             \/ \E e \in DOMAIN edges : e < eid /\ edges[e].to = edges[eid].from /\ G[e]]
  <2>1. \A eid \in DOMAIN edges :
          G[eid] = (\/ edges[eid].optional
                    \/ \E e \in DOMAIN edges : e < eid /\ edges[e].to = edges[eid].from /\ G[e])
    <3> SUFFICES ASSUME NEW eid \in DOMAIN edges
                 PROVE  G[eid] = (\/ edges[eid].optional
                                  \/ \E e \in DOMAIN edges : e < eid /\ edges[e].to = edges[eid].from /\ G[e])
      OBVIOUS
    <3>1. G[eid] = TRUE /\ edges[eid].optional
      BY <1>3
    <3> HIDE DEF G
    <3> QED BY <3>1
  <2>2. G = [eid \in DOMAIN edges |-> G[eid]]
    OBVIOUS
  <2> HIDE DEF G
  <2> QED BY <2>1, <2>2
<1> HIDE DEF G
<1>5. T = [eid \in DOMAIN edges |->
             \/ edges[eid].optional
             \/ \E e \in DOMAIN edges : e < eid /\ edges[e].to = edges[eid].from /\ T[e]]
  BY <1>4
<1> HIDE DEF T
<1>6. \A eid \in DOMAIN edges : T[eid]
  <2> SUFFICES ASSUME NEW eid \in DOMAIN edges PROVE T[eid]
    OBVIOUS
  <2>1. T[eid] = (\/ edges[eid].optional
                  \/ \E e \in DOMAIN edges : e < eid /\ edges[e].to = edges[eid].from /\ T[e])
    BY <1>5
  <2> QED BY <2>1, <1>3
<1>7. Index!OptionalVertices(IR[c]) = {edges[eid].to : eid \in {e \in DOMAIN edges : T[e]}}
  BY DEF Index!OptionalVertices, edges, T
<1>8. Index!OptionalVertices(IR[c]) = {2 * c + 2}
  <2>1. {e \in DOMAIN edges : T[e]} = {only}
    BY <1>1, <1>6
  <2> QED BY <2>1, <1>2, <1>7
<1>9. \A at \in {"own", "optional"} : VidOf(c, at) \in {2 * c + 2} <=> at = "optional"
  BY <1>1 DEF VidOf
<1> QED BY <1>8, <1>9

\* The fold whose component is f.
LEMMA FoldInto ==
  ASSUME folds \in Plans, NEW f \in DOMAIN folds
  PROVE  Index!FoldsInto(IR, f) = {<<folds[f].in, 2 * f>>}
<1>1. folds[f].in \in DOMAIN IR /\ f \in Semantics!InnerFolds(folds, folds[f].in)
  BY Components DEF Semantics!InnerFolds
<1> DEFINE All == UNION {{d} \X DOMAIN IR[d].folds : d \in DOMAIN IR}
<1>2. Index!FoldsInto(IR, f) = {at \in All : IR[at[1]].folds[at[2]].component = f}
  BY DEF Index!FoldsInto
<1>3. /\ <<folds[f].in, 2 * f>> \in All
      /\ IR[folds[f].in].folds[2 * f].component = f
  <2>1. /\ DOMAIN IR[folds[f].in].folds = {2 * g : g \in Semantics!InnerFolds(folds, folds[f].in)}
        /\ IR[folds[f].in].folds[2 * f].component = f
    BY <1>1, ComponentFolds
  <2> HIDE DEF IR
  <2> QED BY <2>1, <1>1
<1>4. ASSUME NEW at \in All, IR[at[1]].folds[at[2]].component = f
      PROVE  at = <<folds[f].in, 2 * f>>
  <2>1. PICK d \in DOMAIN IR : at \in {d} \X DOMAIN IR[d].folds
    OBVIOUS
  <2>2. at = <<d, at[2]>> /\ at[2] \in DOMAIN IR[d].folds /\ at[1] = d
    BY <2>1
  <2>3. DOMAIN IR[d].folds = {2 * g : g \in Semantics!InnerFolds(folds, d)}
    BY ComponentFolds
  <2>4. PICK g \in Semantics!InnerFolds(folds, d) : at[2] = 2 * g
    BY <2>2, <2>3
  <2>5. folds[g].in = d /\ IR[d].folds[2 * g].component = g
    BY ComponentFolds
  <2> HIDE DEF IR
  <2>6. g = f
    BY <2>2, <2>4, <2>5, <1>4
  <2> QED BY <2>2, <2>4, <2>5, <2>6
<1> HIDE DEF All, IR
<1> QED BY <1>2, <1>3, <1>4

\* The folds that indexed.rs takes to be optional are those that begin at the end of an
\* @optional edge.
LEMMA FoldsOptional ==
  ASSUME folds \in Plans, NEW c \in DOMAIN IR
  PROVE  Index!AreFoldsOptional(IR, c) = OptionalFolds(folds, c)
<1> DEFINE D == DOMAIN IR
           Flag(d) == LET at == CHOOSE at \in Index!FoldsInto(IR, d) : TRUE
                      IN  IR[at[1]].folds[at[2]].from \in Index!OptionalVertices(IR[at[1]])
           In(d) == LET at == CHOOSE at \in Index!FoldsInto(IR, d) : TRUE IN at[1]
           A == CHOOSE F : F = [d \in D |->
                  IF d = Index!RootIndex THEN <<>>
                  ELSE LET at == CHOOSE at \in Index!FoldsInto(IR, d) : TRUE
                       IN  Append(F[at[1]],
                                  IR[at[1]].folds[at[2]].from \in Index!OptionalVertices(IR[at[1]]))]
           G == [d \in D |-> OptionalFolds(folds, d)]
<1>1. Index!AreFoldsOptional(IR, c) = A[c]
  BY DEF Index!AreFoldsOptional
<1>2. ASSUME NEW d \in DOMAIN folds
      PROVE  In(d) = folds[d].in /\ Flag(d) = (folds[d].from = "optional") /\ In(d) \in D
  <2> DEFINE at == CHOOSE at \in Index!FoldsInto(IR, d) : TRUE
             e == folds[d].in
  <2>1. Index!FoldsInto(IR, d) = {<<e, 2 * d>>}
    BY FoldInto
  <2>2. at = <<e, 2 * d>>
    BY <2>1
  <2>3. e \in D /\ d \in Semantics!InnerFolds(folds, e)
    BY Components DEF Semantics!InnerFolds
  <2>4. IR[e].folds[2 * d].from = VidOf(e, folds[d].from)
    BY <2>3, ComponentFolds
  <2>5. folds[d].from \in {"own", "optional"}
    BY PlansAreTrees DEF IsFold
  <2>6. VidOf(e, folds[d].from) \in Index!OptionalVertices(IR[e]) <=> folds[d].from = "optional"
    BY <2>3, <2>5, EndsAreOptional
  <2>7. In(d) = at[1] /\ Flag(d) = (IR[at[1]].folds[at[2]].from \in Index!OptionalVertices(IR[at[1]]))
    OBVIOUS
  <2> HIDE DEF at, In, Flag, IR, e
  <2>8. In(d) = e /\ Flag(d) = (IR[e].folds[2 * d].from \in Index!OptionalVertices(IR[e]))
    BY <2>2, <2>7
  <2> QED BY <2>3, <2>4, <2>6, <2>8 DEF e
<1>3. /\ D = {Root} \cup DOMAIN folds /\ D = Semantics!Components(folds)
      /\ (\A d \in D : d \in Nat) /\ Root \notin DOMAIN folds /\ Index!RootIndex = Root
      /\ \A f \in DOMAIN folds : folds[f].in \in D /\ folds[f].in < f
  BY Components, PlansAreTrees DEF Index!RootIndex, Root, IsTree
<1>4. /\ OptionalFolds(folds, Root) = <<>>
      /\ \A f \in DOMAIN folds :
           OptionalFolds(folds, f) = Append(OptionalFolds(folds, folds[f].in), folds[f].from = "optional")
  BY OptionalFoldsAre
<1>5. A = CHOOSE F : F = [d \in D |-> IF d = Root THEN <<>> ELSE Append(F[In(d)], Flag(d))]
  BY <1>3
<1> HIDE DEF A, In, Flag, D
<1>6. G = [d \in D |-> IF d = Root THEN <<>> ELSE Append(G[In(d)], Flag(d))]
  <2>1. ASSUME NEW d \in D PROVE G[d] = IF d = Root THEN <<>> ELSE Append(G[In(d)], Flag(d))
    <3>1. G[d] = OptionalFolds(folds, d)
      OBVIOUS
    <3>2. CASE d = Root
      BY <3>1, <3>2, <1>4
    <3>3. CASE d # Root
      <4>1. d \in DOMAIN folds
        BY <3>3, <1>3
      <4>2. In(d) = folds[d].in /\ Flag(d) = (folds[d].from = "optional") /\ In(d) \in D
        BY <4>1, <1>2
      <4>3. G[In(d)] = OptionalFolds(folds, folds[d].in)
        BY <4>2
      <4> HIDE DEF G
      <4> QED BY <3>1, <3>3, <4>1, <4>2, <4>3, <1>4
    <3> QED BY <3>2, <3>3
  <2>2. G = [d \in D |-> G[d]]
    OBVIOUS
  <2> HIDE DEF G
  <2> QED BY <2>1, <2>2
<1>7. \A d \in D : G[d] = OptionalFolds(folds, d)
  OBVIOUS
<1> HIDE DEF G
<1>8. A = [d \in D |-> IF d = Root THEN <<>> ELSE Append(A[In(d)], Flag(d))]
  BY <1>5, <1>6
<1> DEFINE Bad == {d \in D : A[d] # G[d]}
<1>9. ASSUME Bad # {} PROVE FALSE
  <2>1. PICK m \in Bad : \A n \in Bad : m <= n
    <3>1. Bad \subseteq Nat
      BY <1>3
    <3> HIDE DEF Bad
    <3> QED BY <3>1, <1>9, LeastNatural
  <2>2. m \in D /\ A[m] # G[m]
    BY <2>1
  <2>3. /\ A[m] = IF m = Root THEN <<>> ELSE Append(A[In(m)], Flag(m))
        /\ G[m] = IF m = Root THEN <<>> ELSE Append(G[In(m)], Flag(m))
    BY <2>2, <1>6, <1>8
  <2>4. m # Root
    BY <2>2, <2>3
  <2>5. m \in DOMAIN folds /\ In(m) = folds[m].in /\ In(m) \in D /\ In(m) < m /\ m \in Nat /\ In(m) \in Nat
    <3>1. m \in DOMAIN folds
      BY <2>2, <2>4, <1>3
    <3> QED BY <3>1, <1>2, <1>3, <2>2
  <2>6. A[In(m)] = G[In(m)]
    <3>1. In(m) \notin Bad
      <4> HIDE DEF Bad
      <4> QED BY <2>1, <2>5
    <3> QED BY <3>1, <2>5
  <2> QED BY <2>2, <2>3, <2>4, <2>6
<1>10. A[c] = G[c]
  BY <1>9 DEF D
<1>11. c \in D
  BY DEF D
<1> QED BY <1>1, <1>7, <1>10, <1>11

\* A type of no lists, inside the folds around component c.
LEMMA TypeInFolds ==
  ASSUME folds \in Plans, NEW c \in DOMAIN IR, NEW at \in {"own", "optional"}
  PROVE  Index!GetOutputType(IR, c, VidOf(c, at), <<FALSE>>)
           = Append(OptionalFolds(folds, c), at = "optional")
<1> DEFINE s == OptionalFolds(folds, c)
           V == Index!OptionalVertices(IR[c])
           vid == VidOf(c, at)
<1>1. Index!AreFoldsOptional(IR, c) = s /\ s \in Seq(BOOLEAN)
  BY FoldsOptional, Components, OptionalFoldsAre
<1>2. vid \in V <=> at = "optional"
  BY EndsAreOptional
<1>3. Index!GetOutputType(IR, c, vid, <<FALSE>>)
        = Index!AreFoldsOptional(IR, c) \o <<(<<FALSE>>)[1] \/ vid \in V>> \o Tail(<<FALSE>>)
  BY DEF Index!GetOutputType
<1> HIDE DEF s, V, vid
<1>4. Tail(<<FALSE>>) = <<>> /\ (<<FALSE>>)[1] = FALSE
  OBVIOUS
<1>5. ((<<FALSE>>)[1] \/ vid \in V) = (at = "optional")
  BY <1>2, <1>4
<1> DEFINE b == at = "optional"
<1>6. b \in BOOLEAN
  OBVIOUS
<1> HIDE DEF b
<1>7. s \o <<b>> \o <<>> = Append(s, b)
  BY <1>1, <1>6
<1> QED BY <1>1, <1>3, <1>4, <1>5, <1>7 DEF b, s, vid

\* Everything that is output, by its name.
AllOutputs ==
  {<<Root, "own">>}
    \cup {key \in (DOMAIN folds) \X {"count", "own", "optional"} : key[2] \in folds[key[1]].outputs}

\* The properties that are output of component c.
LEMMA FieldsDeclared ==
  ASSUME folds \in Plans, NEW c \in DOMAIN IR
  PROVE  /\ DOMAIN Index!FieldOutputs(IR, c) = {c} \X OutputsOf(c)
         /\ \A name \in {c} \X OutputsOf(c) :
              Index!FieldOutputs(IR, c)[name].nullable = TypeOf(folds, name)
<1>1. /\ DOMAIN IR[c].outputs = {c} \X OutputsOf(c)
      /\ OutputsOf(c) \subseteq {"own", "optional"}
      /\ \A name \in {c} \X OutputsOf(c) :
           IR[c].outputs[name] = [vid |-> VidOf(c, name[2]), nullable |-> <<FALSE>>]
  BY ComponentOutputs
<1>2. DOMAIN Index!FieldOutputs(IR, c) = {c} \X OutputsOf(c)
  BY <1>1 DEF Index!FieldOutputs
<1>3. ASSUME NEW name \in {c} \X OutputsOf(c)
      PROVE  Index!FieldOutputs(IR, c)[name].nullable = TypeOf(folds, name)
  <2>1. name[1] = c /\ name[2] \in {"own", "optional"} /\ name[2] # "count"
    BY <1>1
  <2>2. IR[c].outputs[name].vid = VidOf(c, name[2]) /\ IR[c].outputs[name].nullable = <<FALSE>>
    <3> DEFINE required == <<FALSE>>
    <3>1. IR[c].outputs[name] = [vid |-> VidOf(c, name[2]), nullable |-> required]
      BY <1>1
    <3> HIDE DEF required
    <3>2. IR[c].outputs[name].vid = VidOf(c, name[2]) /\ IR[c].outputs[name].nullable = required
      BY <3>1
    <3> QED BY <3>2 DEF required
  <2>3. Index!FieldOutputs(IR, c)[name].nullable
          = Index!GetOutputType(IR, c, IR[c].outputs[name].vid, IR[c].outputs[name].nullable)
    BY <1>1 DEF Index!FieldOutputs
  <2>4. Index!GetOutputType(IR, c, VidOf(c, name[2]), <<FALSE>>)
          = Append(OptionalFolds(folds, c), name[2] = "optional")
    BY <2>1, TypeInFolds
  <2>5. TypeOf(folds, name) = Append(OptionalFolds(folds, c), name[2] = "optional")
    BY <2>1 DEF TypeOf
  <2> QED BY <2>2, <2>3, <2>4, <2>5
<1> QED BY <1>2, <1>3

\* The counts that are output of the folds of component c.
LEMMA CountsDeclared ==
  ASSUME folds \in Plans, NEW c \in DOMAIN IR, NEW f \in Semantics!InnerFolds(folds, c)
  PROVE  /\ DOMAIN Index!CountOutputs(IR, c, 2 * f) = {f} \X (folds[f].outputs \cap {"count"})
         /\ \A name \in {f} \X (folds[f].outputs \cap {"count"}) :
              Index!CountOutputs(IR, c, 2 * f)[name].nullable = TypeOf(folds, name)
<1>1. /\ IR[c].folds[2 * f].from = VidOf(c, folds[f].from)
      /\ IR[c].folds[2 * f].counts = {f} \X (folds[f].outputs \cap {"count"})
      /\ f \in DOMAIN folds /\ folds[f].in = c
  BY ComponentFolds
<1>2. DOMAIN Index!CountOutputs(IR, c, 2 * f) = {f} \X (folds[f].outputs \cap {"count"})
  BY <1>1 DEF Index!CountOutputs
<1>3. ASSUME NEW name \in {f} \X (folds[f].outputs \cap {"count"})
      PROVE  Index!CountOutputs(IR, c, 2 * f)[name].nullable = TypeOf(folds, name)
  <2>1. name[1] = f /\ name[2] = "count"
    OBVIOUS
  <2>2. Index!CountOutputs(IR, c, 2 * f)[name].nullable
          = Index!GetOutputType(IR, c, VidOf(c, folds[f].from), <<FALSE>>)
    BY <1>1 DEF Index!CountOutputs, Index!NonNull
  <2>3. folds[f].from \in {"own", "optional"}
    BY <1>1, PlansAreTrees DEF IsFold
  <2>4. Index!GetOutputType(IR, c, VidOf(c, folds[f].from), <<FALSE>>)
          = Append(OptionalFolds(folds, c), folds[f].from = "optional")
    BY <2>3, TypeInFolds
  <2>5. OptionalFolds(folds, f) = Append(OptionalFolds(folds, c), folds[f].from = "optional")
    BY <1>1, OptionalFoldsAre
  <2>6. TypeOf(folds, name) = OptionalFolds(folds, f)
    BY <2>1 DEF TypeOf
  <2> QED BY <2>2, <2>4, <2>5, <2>6
<1> QED BY <1>2, <1>3

\* The indexed query declares every output, with its type.
LEMMA OutputsDeclared ==
  ASSUME folds \in Plans
  PROVE  /\ DOMAIN Index!Outputs(IR) = AllOutputs
         /\ \A name \in AllOutputs : Index!Outputs(IR)[name].nullable = TypeOf(folds, name)
<1> DEFINE Counts(c) == [eid \in DOMAIN IR[c].folds |-> Index!CountOutputs(IR, c, eid)]
           Of(c) == {Index!FieldOutputs(IR, c)} \cup {Counts(c)[eid] : eid \in DOMAIN IR[c].folds}
           maps == UNION {Of(c) : c \in DOMAIN IR}
           O == Index!Outputs(IR)
<1>1. ASSUME NEW c \in DOMAIN IR
      PROVE  Of(c) = {Index!FieldOutputs(IR, c)}
                       \cup {Index!CountOutputs(IR, c, 2 * f) : f \in Semantics!InnerFolds(folds, c)}
  <2>1. DOMAIN IR[c].folds = {2 * f : f \in Semantics!InnerFolds(folds, c)}
    BY ComponentFolds
  <2> QED BY <2>1
<1>2. O = [name \in UNION {DOMAIN m : m \in maps} |-> (CHOOSE m \in maps : name \in DOMAIN m)[name]]
  BY DEF Index!Outputs
<1>3. ASSUME NEW m \in maps, NEW name \in DOMAIN m
      PROVE  name \in AllOutputs /\ m[name].nullable = TypeOf(folds, name)
  <2>1. PICK c \in DOMAIN IR : m \in Of(c)
    OBVIOUS
  <2>2. CASE m = Index!FieldOutputs(IR, c)
    <3>1. name \in {c} \X OutputsOf(c) /\ m[name].nullable = TypeOf(folds, name)
      BY <2>2, FieldsDeclared
    <3>2. name \in AllOutputs
      <4>1. c = Root \/ (c \in DOMAIN folds /\ c # Root)
        BY Components
      <4>2. OutputsOf(c) \subseteq {"own", "optional"}
        BY ComponentOutputs
      <4> QED BY <3>1, <4>1, <4>2 DEF AllOutputs, OutputsOf
    <3> QED BY <3>1, <3>2
  <2>3. ASSUME NEW f \in Semantics!InnerFolds(folds, c), m = Index!CountOutputs(IR, c, 2 * f)
        PROVE  name \in AllOutputs /\ m[name].nullable = TypeOf(folds, name)
    <3>1. name \in {f} \X (folds[f].outputs \cap {"count"}) /\ m[name].nullable = TypeOf(folds, name)
      BY <2>3, CountsDeclared
    <3>2. f \in DOMAIN folds
      BY ComponentFolds
    <3>3. name \in AllOutputs
      BY <3>1, <3>2 DEF AllOutputs
    <3> QED BY <3>1, <3>3
  <2> HIDE DEF Of
  <2> QED BY <2>1, <2>2, <2>3, <1>1
<1>4. ASSUME NEW name \in AllOutputs PROVE \E m \in maps : name \in DOMAIN m
  <2>1. CASE name = <<Root, "own">>
    <3>1. Root \in DOMAIN IR /\ name \in {Root} \X OutputsOf(Root)
      BY <2>1, Components DEF OutputsOf
    <3>2. name \in DOMAIN Index!FieldOutputs(IR, Root)
      BY <3>1, FieldsDeclared
    <3> QED BY <3>1, <3>2
  <2>2. CASE name # <<Root, "own">>
    <3>1. /\ name \in (DOMAIN folds) \X {"count", "own", "optional"} /\ name[1] \in DOMAIN folds
          /\ name[2] \in folds[name[1]].outputs /\ name = <<name[1], name[2]>>
      BY <2>2 DEF AllOutputs
    <3> DEFINE f == name[1]
               c == folds[f].in
    <3>2. f \in DOMAIN IR /\ f # Root /\ c \in DOMAIN IR /\ f \in Semantics!InnerFolds(folds, c)
      BY <3>1, Components DEF Semantics!InnerFolds
    <3>3. CASE name[2] = "count"
      <4>1. name \in DOMAIN Index!CountOutputs(IR, c, 2 * f)
        BY <3>1, <3>2, <3>3, CountsDeclared
      <4>2. Index!CountOutputs(IR, c, 2 * f) \in Of(c)
        BY <3>2, <1>1
      <4> HIDE DEF c, f, Of
      <4> QED BY <3>2, <4>1, <4>2
    <3>4. CASE name[2] # "count"
      <4>1. name \in {f} \X OutputsOf(f)
        BY <3>1, <3>2, <3>4 DEF OutputsOf
      <4>2. name \in DOMAIN Index!FieldOutputs(IR, f)
        BY <3>2, <4>1, FieldsDeclared
      <4>3. Index!FieldOutputs(IR, f) \in Of(f)
        OBVIOUS
      <4> HIDE DEF f, Of
      <4> QED BY <3>2, <4>2, <4>3
    <3> QED BY <3>3, <3>4
  <2> QED BY <2>1, <2>2
<1> HIDE DEF maps
<1>5. DOMAIN O = AllOutputs
  BY <1>2, <1>3, <1>4
<1>6. ASSUME NEW name \in AllOutputs PROVE O[name].nullable = TypeOf(folds, name)
  <2> DEFINE m == CHOOSE m \in maps : name \in DOMAIN m
  <2>1. m \in maps /\ name \in DOMAIN m
    BY <1>4
  <2>2. name \in UNION {DOMAIN n : n \in maps}
    BY <1>4
  <2>3. O[name] = m[name]
    BY <1>2, <2>2
  <2> HIDE DEF m, O
  <2>4. m[name].nullable = TypeOf(folds, name)
    BY <2>1, <1>3
  <2> QED BY <2>3, <2>4
<1> QED BY <1>5, <1>6

\* The indexed query is accepted.
LEMMA IsIndexable ==
  ASSUME folds \in Plans
  PROVE  Index!Indexable(IR)
<1>1. \A c \in DOMAIN IR : c \in Nat
  BY Components
<1>2. Index!VerticesValid(IR)
  <2>1. ASSUME NEW c \in DOMAIN IR
        PROVE  IR[c].root \in IR[c].vertices
    BY ComponentVertices
  <2>2. ASSUME NEW c \in DOMAIN IR, NEW d \in DOMAIN IR \ {c}
        PROVE  IR[c].vertices \cap IR[d].vertices = {}
    <3>1. IR[c].vertices = {2 * c + 1, 2 * c + 2} /\ IR[d].vertices = {2 * d + 1, 2 * d + 2}
      BY ComponentVertices
    <3>2. c \in Nat /\ d \in Nat /\ c # d
      BY <1>1
    <3>3. {2 * c + 1, 2 * c + 2} \cap {2 * d + 1, 2 * d + 2} = {}
      BY <3>2
    <3> QED BY <3>1, <3>3
  <2> QED BY <2>1, <2>2 DEF Index!VerticesValid
<1>3. Index!OutputsValid(IR)
  <2> DEFINE Counts(c) == UNION {{eid} \X IR[c].folds[eid].counts : eid \in DOMAIN IR[c].folds}
             Names(c) == DOMAIN IR[c].outputs \cup {at[2] : at \in Counts(c)}
  <2>1. ASSUME NEW c \in DOMAIN IR, NEW at \in Counts(c)
        PROVE  \E f \in Semantics!InnerFolds(folds, c) :
                 at = <<2 * f, <<f, "count">>>> /\ f # c
    <3>1. PICK eid \in DOMAIN IR[c].folds : at \in {eid} \X IR[c].folds[eid].counts
      OBVIOUS
    <3>2. DOMAIN IR[c].folds = {2 * f : f \in Semantics!InnerFolds(folds, c)}
      BY ComponentFolds
    <3>3. PICK f \in Semantics!InnerFolds(folds, c) : eid = 2 * f
      BY <3>1, <3>2
    <3>4. /\ IR[c].folds[2 * f].counts = {f} \X (folds[f].outputs \cap {"count"})
          /\ f \in DOMAIN folds /\ folds[f].in = c
      BY ComponentFolds
    <3>5. at[2] \in {f} \X (folds[f].outputs \cap {"count"}) /\ at[1] = 2 * f /\ at = <<at[1], at[2]>>
      BY <3>1, <3>3, <3>4
    <3>6. at = <<2 * f, <<f, "count">>>>
      BY <3>5
    <3>7. f # c
      BY <3>4, PlansAreTrees DEF IsTree
    <3> QED BY <3>6, <3>7
  <2>2. ASSUME NEW c \in DOMAIN IR, NEW name \in DOMAIN IR[c].outputs
        PROVE  name[1] = c /\ name[2] \in {"own", "optional"} /\ IR[c].outputs[name].vid \in IR[c].vertices
    <3>1. /\ name \in {c} \X OutputsOf(c) /\ OutputsOf(c) \subseteq {"own", "optional"}
          /\ IR[c].outputs[name] = [vid |-> VidOf(c, name[2]), nullable |-> <<FALSE>>]
      BY ComponentOutputs
    <3>2. IR[c].vertices = {2 * c + 1, 2 * c + 2}
      BY ComponentVertices
    <3> HIDE DEF IR
    <3>3. name[1] = c /\ name[2] \in {"own", "optional"} /\ IR[c].outputs[name].vid = VidOf(c, name[2])
      BY <3>1
    <3> QED BY <3>2, <3>3 DEF VidOf
  <2> HIDE DEF Counts
  <2>3. ASSUME NEW c \in DOMAIN IR, NEW at \in Counts(c), NEW other \in Counts(c), at[2] = other[2]
        PROVE  at = other
    <3>1. PICK f \in Semantics!InnerFolds(folds, c) : at = <<2 * f, <<f, "count">>>>
      BY <2>1
    <3>2. PICK g \in Semantics!InnerFolds(folds, c) : other = <<2 * g, <<g, "count">>>>
      BY <2>1
    <3>3. f = g
      BY <2>3, <3>1, <3>2
    <3> QED BY <3>1, <3>2, <3>3
  <2>4. ASSUME NEW c \in DOMAIN IR, NEW at \in Counts(c), at[2] \in DOMAIN IR[c].outputs PROVE FALSE
    <3>1. PICK f \in Semantics!InnerFolds(folds, c) : at = <<2 * f, <<f, "count">>>> /\ f # c
      BY <2>1
    <3>2. at[2] = <<f, "count">>
      BY <3>1
    <3>3. at[2][1] = c
      BY <2>2, <2>4
    <3> QED BY <3>1, <3>2, <3>3
  <2>5. ASSUME NEW c \in DOMAIN IR, NEW d \in DOMAIN IR \ {c}, NEW name \in Names(c), name \in Names(d)
        PROVE  FALSE
    <3>1. ASSUME NEW e \in DOMAIN IR, NEW n \in Names(e)
          PROVE  \/ n[1] = e /\ n[2] # "count"
                 \/ n[2] = "count" /\ n[1] \in Semantics!InnerFolds(folds, e)
      <4>1. CASE n \in DOMAIN IR[e].outputs
        BY <2>2, <4>1
      <4>2. CASE n \notin DOMAIN IR[e].outputs
        <5>1. PICK at \in Counts(e) : n = at[2]
          BY <4>2
        <5>2. PICK f \in Semantics!InnerFolds(folds, e) : at = <<2 * f, <<f, "count">>>>
          BY <2>1
        <5> QED BY <5>1, <5>2
      <4> QED BY <4>1, <4>2
    <3> HIDE DEF Names
    <3>2. \/ name[1] = c /\ name[2] # "count"
          \/ name[2] = "count" /\ name[1] \in Semantics!InnerFolds(folds, c)
      BY <3>1
    <3>3. \/ name[1] = d /\ name[2] # "count"
          \/ name[2] = "count" /\ name[1] \in Semantics!InnerFolds(folds, d)
      BY <2>5, <3>1
    <3> QED BY <3>2, <3>3 DEF Semantics!InnerFolds
  <2>6. ASSUME NEW c \in DOMAIN IR
        PROVE  /\ \A name \in DOMAIN IR[c].outputs : IR[c].outputs[name].vid \in IR[c].vertices
               /\ \A at, other \in Counts(c) : at[2] = other[2] => at = other
               /\ \A at \in Counts(c) : at[2] \notin DOMAIN IR[c].outputs
               /\ \A d \in DOMAIN IR \ {c} : Names(c) \cap Names(d) = {}
    <3>1. \A d \in DOMAIN IR \ {c} : Names(c) \cap Names(d) = {}
      <4> HIDE DEF Names
      <4> QED BY <2>5
    <3> HIDE DEF Names
    <3> QED BY <2>2, <2>3, <2>4, <3>1
  <2> QED BY <2>6 DEF Index!OutputsValid, Counts
<1>4. Index!EdgesValid(IR)
  <2>1. ASSUME NEW c \in DOMAIN IR, NEW eid \in DOMAIN IR[c].edges
        PROVE  /\ eid + 1 = IR[c].edges[eid].to
               /\ {IR[c].edges[eid].from, IR[c].edges[eid].to} \subseteq IR[c].vertices
    <3>1. /\ DOMAIN IR[c].edges = {2 * c + 1} /\ IR[c].vertices = {2 * c + 1, 2 * c + 2}
          /\ IR[c].edges[2 * c + 1].from = 2 * c + 1
          /\ IR[c].edges[2 * c + 1].to = 2 * c + 2
      BY ComponentVertices
    <3>2. eid = 2 * c + 1
      BY <3>1
    <3>3. (2 * c + 1) + 1 = 2 * c + 2
      BY <1>1
    <3> QED BY <3>1, <3>2, <3>3
  <2> QED BY <2>1 DEF Index!EdgesValid
<1>5. Index!FoldsValid(IR)
  <2>1. ASSUME NEW c \in DOMAIN IR, NEW eid \in DOMAIN IR[c].folds
        PROVE  /\ eid + 1 = IR[c].folds[eid].to
               /\ IR[c].folds[eid].from \in IR[c].vertices
               /\ IR[c].folds[eid].to = IR[IR[c].folds[eid].component].root
    <3>1. DOMAIN IR[c].folds = {2 * f : f \in Semantics!InnerFolds(folds, c)}
      BY ComponentFolds
    <3>2. PICK f \in Semantics!InnerFolds(folds, c) : eid = 2 * f
      BY <3>1
    <3>3. /\ f \in Nat /\ f \in DOMAIN folds /\ f \in DOMAIN IR
          /\ IR[c].folds[2 * f].from = VidOf(c, folds[f].from)
          /\ IR[c].folds[2 * f].to = 2 * f + 1
          /\ IR[c].folds[2 * f].component = f
      BY ComponentFolds
    <3>4. IR[f].root = 2 * f + 1 /\ IR[c].vertices = {2 * c + 1, 2 * c + 2}
      BY <3>3, ComponentVertices
    <3>5. VidOf(c, folds[f].from) \in {2 * c + 1, 2 * c + 2}
      BY DEF VidOf
    <3> QED BY <3>2, <3>3, <3>4, <3>5
  <2> QED BY <2>1 DEF Index!FoldsValid
<1> QED BY <1>2, <1>3, <1>4, <1>5 DEF Index!Indexable

\* A row has the outputs that are declared, each of its type.
LEMMA RowFits ==
  ASSUME IInv, NotLists, NEW x, IsElement(folds, Root, x)
  PROVE  /\ DOMAIN Row(x) = AllOutputs
         /\ \A name \in AllOutputs : IsOfType(Row(x)[name], TypeOf(folds, name))
<1>1. folds \in Plans /\ Root \in DOMAIN IR /\ Root \in Semantics!Components(folds)
  BY StackFacts, Components
<1>2. /\ x.own \in Vertex
      /\ DOMAIN x.values = UNION {OutputsWithin(folds, g) : g \in Semantics!InnerFolds(folds, Root)}
      /\ \A key \in DOMAIN x.values : Fits(folds, Root, key, x.values[key])
  BY DEF IsElement, HasOutputs
<1>3. DOMAIN x.values
        = {key \in (DOMAIN folds) \X {"count", "own", "optional"} : key[2] \in folds[key[1]].outputs}
  BY <1>1, <1>2, OutputsOfRoot
<1>4. DOMAIN Row(x) = AllOutputs
  BY <1>3 DEF Row, AllOutputs
<1>5. OptionalFolds(folds, Root) = <<>>
  BY <1>1, OptionalFoldsAre
<1>6. ASSUME NEW name \in AllOutputs PROVE IsOfType(Row(x)[name], TypeOf(folds, name))
  <2> DEFINE T == TypeOf(folds, name)
  <2>1. CASE name = <<Root, "own">>
    <3>1. name[1] = Root /\ name[2] = "own"
      BY <2>1
    <3>2. Row(x)[name] = x.own
      BY <2>1, <3>1 DEF Row
    <3>3. T = Append(<<>>, FALSE)
      BY <3>1, <1>5 DEF TypeOf
    <3>4. T \in Seq(BOOLEAN) /\ Len(T) = 1
      BY <3>3
    <3>5. x.own # Null /\ x.own \in Int
      BY <1>2, FoldAssumption
    <3> HIDE DEF T
    <3>6. IsOfType(x.own, T)
      BY <3>4, <3>5, ScalarFits
    <3> QED BY <3>2, <3>6 DEF T
  <2>2. CASE name # <<Root, "own">>
    <3>1. name \in DOMAIN x.values
      BY <2>2, <1>3 DEF AllOutputs
    <3>2. name[1] # Root
      BY <3>1, <1>1, <1>3, Components
    <3>3. Row(x)[name] = x.values[name]
      BY <3>1, <3>2 DEF Row
    <3>4. IsOfType(x.values[name], TypeInside(folds, Root, name))
      BY <3>1, <1>2 DEF Fits
    <3>5. T \in Seq(BOOLEAN)
      <4>1. name[1] \in Semantics!Components(folds)
        BY <3>1, <1>1, <1>3, Components
      <4> DEFINE s == OptionalFolds(folds, name[1])
                 b == name[2] = "optional"
      <4>2. s \in Seq(BOOLEAN) /\ b \in BOOLEAN
        BY <4>1, <1>1, OptionalFoldsAre
      <4>3. T = s \/ T = Append(s, b)
        BY DEF TypeOf
      <4> HIDE DEF s, b, T
      <4> QED BY <4>2, <4>3
    <3>6. TypeInside(folds, Root, name) = SubSeq(T, 1, Len(T))
      <4>1. Len(OptionalFolds(folds, Root)) + 1 = 1
        BY <1>5
      <4> QED BY <4>1 DEF TypeInside
    <3> HIDE DEF T
    <3>7. SubSeq(T, 1, Len(T)) = T
      BY <3>5
    <3> QED BY <3>3, <3>4, <3>6, <3>7 DEF T
  <2> QED BY <2>1, <2>2
<1> QED BY <1>4, <1>6

\* Every row has exactly the outputs that the indexed query declares, and every value in it
\* is of the type declared.  What fits inside a fold fits in a list around it, and what fits
\* where a fold exists may be null where it need not.
THEOREM OutputsFit == ASSUME NotLists PROVE Spec => []OutputsFitTheirTypes
<1>1. IInv => OutputsFitTheirTypes
  <2> SUFFICES ASSUME IInv PROVE OutputsFitTheirTypes
    OBVIOUS
  <2> DEFINE declared == Index!Outputs(IR)
  <2>1. folds \in Plans /\ Index!Indexable(IR)
    BY StackFacts, IsIndexable
  <2>2. /\ DOMAIN declared = AllOutputs
        /\ \A name \in AllOutputs : declared[name].nullable = TypeOf(folds, name)
    BY <2>1, OutputsDeclared
  <2>3. AreElements(folds, Root, stack[1].elements)
    BY StackFacts DEF Stacked, RootFrame, Collects
  <2> HIDE DEF declared
  <2>4. ASSUME NEW i \in DOMAIN stack[1].elements
        PROVE  LET row == Row(stack[1].elements[i])
               IN  /\ DOMAIN row = DOMAIN declared
                   /\ \A name \in DOMAIN row : IsOfType(row[name], declared[name].nullable)
    <3> DEFINE x == stack[1].elements[i]
    <3>1. IsElement(folds, Root, x)
      BY <2>3 DEF AreElements
    <3> HIDE DEF x
    <3>2. /\ DOMAIN Row(x) = AllOutputs
          /\ \A name \in AllOutputs : IsOfType(Row(x)[name], TypeOf(folds, name))
      BY <3>1, RowFits
    <3>3. \A name \in DOMAIN Row(x) : IsOfType(Row(x)[name], declared[name].nullable)
      BY <2>2, <3>2
    <3>4. DOMAIN Row(x) = DOMAIN declared
      BY <2>2, <3>2
    <3> QED BY <3>3, <3>4 DEF x
  <2> QED BY <2>1, <2>4 DEF OutputsFitTheirTypes, declared
<1> QED BY <1>1, SpecIInv, PTL
=============================================================================
