--------------------------- MODULE TagHandlerProofs ---------------------------
(***************************************************************************)
(* Whatever the query, and whatever errors make_fold returns early with,   *)
(* the component path and the stack of imported tags stay in step, and no  *)
(* assertion of tags.rs or util.rs fails.                                  *)
(*                                                                         *)
(* The second half shows that the decisions are right: the frontend        *)
(* accepts what Valid says of the fields of the query, each fold of an     *)
(* accepted query imports the tags it needs, and a use reported to be      *)
(* misplaced is.  OutcomeInv has two parts: where the handler is in the    *)
(* query, which holds whatever errors there were (Structure), and what it  *)
(* knows as long as there was none (Exact).                                *)
(***************************************************************************)
EXTENDS TagHandler, FiniteSetTheorems, SequenceTheorems, TLAPS

\* The indices and elements of a sequence.
LEMMA SeqFacts ==
  ASSUME NEW S, NEW s \in Seq(S)
  PROVE  /\ Len(s) \in Nat
         /\ DOMAIN s = 1..Len(s)
         /\ \A i \in DOMAIN s : s[i] \in S
         /\ s # << >> => 1 \in DOMAIN s /\ Len(s) \in DOMAIN s /\ Len(s) > 0
<1>1. Len(s) \in Nat /\ DOMAIN s = 1..Len(s)
  OBVIOUS
<1>2. \A i \in 1..Len(s) : s[i] \in S
  BY ElementOfSeq
<1>3. s # << >> => Len(s) # 0
  BY EmptySeq
<1> QED BY <1>1, <1>2, <1>3

\* Append adds one element after the others.
LEMMA AppendFacts ==
  ASSUME NEW S, NEW s \in Seq(S), NEW x \in S
  PROVE  /\ Append(s, x) \in Seq(S)
         /\ Len(Append(s, x)) = Len(s) + 1
         /\ Append(s, x) # << >>
         /\ \A i \in DOMAIN s : Append(s, x)[i] = s[i]
         /\ Append(s, x)[Len(s) + 1] = x
         /\ Last(Append(s, x)) = x
BY AppendProperties DEF Last

\* AllButLast takes the last element away, if there is one, and leaves the others.
LEMMA AllButLastFacts ==
  ASSUME NEW S, NEW s \in Seq(S)
  PROVE  /\ AllButLast(s) \in Seq(S)
         /\ s # << >> => Len(AllButLast(s)) = Len(s) - 1
         /\ \A i \in DOMAIN AllButLast(s) : i \in DOMAIN s /\ AllButLast(s)[i] = s[i]
<1>1. CASE s = << >>
  <2>1. AllButLast(s) = SubSeq(<< >>, 1, -1)
    BY <1>1 DEF AllButLast
  <2>2. SubSeq(<< >>, 1, -1) = << >>
    OBVIOUS
  <2> QED BY <1>1, <2>1, <2>2
<1>2. CASE s # << >>
  <2>1. Len(s) \in Nat /\ Len(s) > 0 /\ DOMAIN s = 1..Len(s)
    BY <1>2, SeqFacts
  <2> QED BY <2>1, SubSeqProperties DEF AllButLast
<1> QED BY <1>1, <1>2

\* The part of the state the assertions depend on.
Shape ==
  /\ query \in Queries
  /\ nextVid \in Vid
  /\ path \in Seq(Vid)
  /\ imported \in Seq([root : Vid, tags : Seq(Name)])
  /\ components \in Seq([root : Vid, failed : BOOLEAN])
  /\ components # << >>
  /\ \A t \in tags : t.path \in Seq(Vid) /\ Len(t.path) > 0 /\ t.name \in Name

\* Vertex ids are handed out in order, and so is every stack of them.
InOrder ==
  /\ \A i \in DOMAIN path : path[i] < nextVid
  /\ \A i, j \in DOMAIN path : i < j => path[i] < path[j]
  /\ \A k \in DOMAIN components : components[k].root < nextVid
  /\ \A k, l \in DOMAIN components : k < l => components[k].root < components[l].root
  /\ components[1].root = RootVid

\* A component without an error has nothing but the components inside it above
\* its entry in the path: an early return marks the component around it.
Placed ==
  /\ ~ Component.failed => Last(path) = Component.root
  /\ \A k \in DOMAIN components :
       k < Len(components) /\ ~ components[k].failed =>
         \E i \in DOMAIN path : /\ i < Len(path)
                                /\ path[i] = components[k].root
                                /\ path[i + 1] = components[k + 1].root

IInv == Shape /\ Lockstep /\ InOrder /\ Placed /\ NoPanic

\* What marking the component being made leaves as it is.
LEMMA FailingKeeps ==
  ASSUME Shape
  PROVE  /\ Failing \in Seq([root : Vid, failed : BOOLEAN])
         /\ Len(Failing) = Len(components)
         /\ Failing # << >>
         /\ \A k \in DOMAIN components : Failing[k].root = components[k].root
         /\ \A k \in DOMAIN components : k < Len(components) => Failing[k] = components[k]
         /\ Failing[Len(components)].failed
<1> DEFINE n == Len(components)
<1> DEFINE rec == [components[n] EXCEPT !.failed = TRUE]
<1>1. components \in Seq([root : Vid, failed : BOOLEAN]) /\ n \in DOMAIN components
  BY SeqFacts DEF Shape
<1>2. components[n] \in [root : Vid, failed : BOOLEAN]
  BY <1>1, SeqFacts
<1>3. /\ rec \in [root : Vid, failed : BOOLEAN]
      /\ rec.root = components[n].root
      /\ rec.failed = TRUE
  BY <1>2
<1>4. Failing = [components EXCEPT ![n] = rec]
  BY <1>1 DEF Failing
<1> HIDE DEF rec
<1>5. Failing \in Seq([root : Vid, failed : BOOLEAN]) /\ Len(Failing) = n
  BY <1>1, <1>3, <1>4
<1>6. Failing[n] = rec /\ \A k \in DOMAIN components : k # n => Failing[k] = components[k]
  BY <1>1, <1>4
<1> QED BY <1>1, <1>3, <1>5, <1>6

\* A step that may mark the component, and touches nothing else, is harmless.
LEMMA MarkingIsHarmless ==
  ASSUME IInv, components' \in {components, Failing},
         UNCHANGED <<query, path, imported>>, nextVid' \in {nextVid, nextVid + 1},
         (\A t \in tags : t.path \in Seq(Vid) /\ Len(t.path) > 0 /\ t.name \in Name)',
         phase' # "panicked"
  PROVE  IInv'
<1>1. /\ Len(components') = Len(components) /\ components' # << >>
      /\ components' \in Seq([root : Vid, failed : BOOLEAN])
      /\ \A k \in DOMAIN components : components'[k].root = components[k].root
      /\ \A k \in DOMAIN components : k < Len(components) => components'[k] = components[k]
      /\ components'[Len(components)].failed \/ components' = components
  BY FailingKeeps DEF IInv, Shape
<1>2. Shape'
  BY <1>1 DEF IInv, Shape, Vid
<1>3. Lockstep'
  BY DEF IInv, Lockstep
<1>6. /\ DOMAIN components' = DOMAIN components /\ 1 \in DOMAIN components
      /\ Len(components) \in DOMAIN components /\ DOMAIN components = 1..Len(components)
      /\ \A k \in DOMAIN components : components[k].root \in Nat
      /\ \A i \in DOMAIN path : path[i] \in Nat
      /\ nextVid \in Nat /\ nextVid' \in Nat /\ nextVid =< nextVid'
      /\ path' = path
  <2>1. /\ components \in Seq([root : Vid, failed : BOOLEAN]) /\ components # << >>
        /\ path \in Seq(Vid) /\ nextVid \in Nat
    BY DEF IInv, Shape, Vid
  <2>2. /\ DOMAIN components = 1..Len(components) /\ Len(components) \in Nat \ {0}
        /\ DOMAIN components' = 1..Len(components')
    BY <1>1, <2>1, SeqFacts
  <2>6. \A k \in DOMAIN components : components[k] \in [root : Vid, failed : BOOLEAN]
    BY <2>1, SeqFacts
  <2>3. \A k \in DOMAIN components : components[k].root \in Vid
    BY <2>6
  <2>4. \A i \in DOMAIN path : path[i] \in Vid
    BY <2>1, SeqFacts
  <2>5. Vid \subseteq Nat
    BY DEF Vid
  <2>7. nextVid' \in Nat /\ nextVid =< nextVid' /\ path' = path
    BY <2>1
  <2>8. 1 \in DOMAIN components /\ Len(components) \in DOMAIN components
    BY <2>2
  <2>9. DOMAIN components' = DOMAIN components
    BY <1>1, <2>2
  <2> QED BY <2>1, <2>2, <2>3, <2>4, <2>5, <2>7, <2>8, <2>9
<1>4. InOrder'
  <2>1. (\A i \in DOMAIN path : path[i] < nextVid)'
    BY <1>6 DEF IInv, InOrder
  <2>2. (\A k \in DOMAIN components : components[k].root < nextVid)'
    BY <1>1, <1>6 DEF IInv, InOrder
  <2>3. (\A k, l \in DOMAIN components : k < l => components[k].root < components[l].root)'
    BY <1>1, <1>6 DEF IInv, InOrder
  <2> QED BY <1>1, <1>6, <2>1, <2>2, <2>3 DEF IInv, InOrder
<1>5. Placed'
  <2>1. (~ Component.failed => Last(path) = Component.root)'
    BY <1>1, <1>6 DEF IInv, Placed, Component, Last
  <2>2. ASSUME NEW k \in DOMAIN components', k < Len(components'), ~ components'[k].failed
        PROVE  \E i \in DOMAIN path : /\ i < Len(path)
                                      /\ path[i] = components'[k].root
                                      /\ path[i + 1] = components'[k + 1].root
    <3>1. k \in DOMAIN components /\ k + 1 \in DOMAIN components /\ k < Len(components)
      BY <1>1, <1>6, <2>2
    <3>2. components'[k] = components[k] /\ components'[k + 1].root = components[k + 1].root
      BY <1>1, <3>1
    <3> QED BY <2>2, <3>1, <3>2 DEF IInv, Placed
  <2> QED BY <1>6, <2>1, <2>2 DEF Placed
<1> QED BY <1>2, <1>3, <1>4, <1>5 DEF IInv, NoPanic

\* The indices and numbers of a state in which the invariant holds.
LEMMA StateFacts ==
  ASSUME IInv
  PROVE  /\ DOMAIN components = 1..Len(components) /\ Len(components) \in Nat \ {0}
         /\ \A k \in DOMAIN components : components[k].root \in Nat
         /\ DOMAIN path = 1..Len(path) /\ Len(path) \in Nat \ {0}
         /\ \A i \in DOMAIN path : path[i] \in Nat
         /\ DOMAIN imported = 1..Len(imported) /\ Len(imported) \in Nat
         /\ nextVid \in Nat
<1>1. /\ components \in Seq([root : Vid, failed : BOOLEAN]) /\ components # << >>
      /\ path \in Seq(Vid) /\ imported \in Seq([root : Vid, tags : Seq(Name)])
      /\ nextVid \in Vid /\ Vid \subseteq Nat
  BY DEF IInv, Shape, Vid
<1>2. \A k \in DOMAIN components : components[k] \in [root : Vid, failed : BOOLEAN]
  BY <1>1, SeqFacts
<1>3. \A k \in DOMAIN components : components[k].root \in Vid
  BY <1>2
<1>4. DOMAIN components = 1..Len(components) /\ Len(components) \in Nat \ {0}
  BY <1>1, SeqFacts
<1>5. DOMAIN path = 1..Len(path) /\ Len(path) \in Nat /\ \A i \in DOMAIN path : path[i] \in Vid
  BY <1>1, SeqFacts
<1>6. DOMAIN imported = 1..Len(imported) /\ Len(imported) \in Nat
  BY <1>1, SeqFacts
<1>7. Len(path) # 0
  BY <1>5, <1>6 DEF IInv, Lockstep
<1> QED BY <1>1, <1>3, <1>4, <1>5, <1>6, <1>7

\* Two paths with the same elements are one path.
LEMMA SamePath ==
  ASSUME NEW p \in Seq(Vid), NEW q \in Seq(Vid), IsParent(p, q), Len(p) = Len(q)
  PROVE  p = q
BY SeqFacts, SeqEqual DEF IsParent

\* A tag of a component around this one always finds its importer.
LEMMA ImporterFound ==
  ASSUME IInv, NEW t \in tags, t.path # path, IsParent(t.path, path)
  PROVE  CanImport(t)
<1>1. t.path \in Seq(Vid) /\ Len(t.path) > 0 /\ path \in Seq(Vid)
  BY DEF IInv, Shape
<1>2. Len(t.path) \in Nat /\ Len(t.path) =< Len(path)
  BY <1>1, SeqFacts DEF IsParent
<1>3. Len(t.path) # Len(path)
  BY <1>1, SamePath
<1>4. Len(t.path) \in 1..Len(imported)
  BY <1>1, <1>2, <1>3, StateFacts DEF IInv, Lockstep
<1> QED BY <1>4, StateFacts DEF CanImport, Importer, IInv, Lockstep

\* The invariant holds when the handler begins.
LEMMA InitIInv == Init => IInv
<1> SUFFICES ASSUME Init PROVE IInv
  OBVIOUS
<1>1. /\ nextVid = 2 /\ path = <<1>> /\ imported = << >> /\ tags = {} /\ phase = "fill"
      /\ components = <<[root |-> 1, failed |-> FALSE]>> /\ query \in Queries
  BY DEF Init, RootVid
<1>2. Shape
  BY <1>1 DEF Shape, Vid
<1>3. Lockstep
  BY <1>1 DEF Lockstep, RootVid
<1>4. InOrder
  BY <1>1 DEF InOrder, RootVid
<1>5. Placed
  BY <1>1 DEF Placed, Component, Last
<1> QED BY <1>1, <1>2, <1>3, <1>4, <1>5 DEF IInv, NoPanic

\* Another, larger number at the end.
LEMMA InOrderPush ==
  ASSUME NEW m \in Nat, NEW f, NEW g, NEW x \in Nat,
         \A i \in 1..m : f[i] \in Nat /\ f[i] < x /\ g[i] = f[i],
         \A i, j \in 1..m : i < j => f[i] < f[j],
         g[m + 1] = x
  PROVE  \A i, j \in 1..m + 1 : i < j => g[i] < g[j]
<1> SUFFICES ASSUME NEW i \in 1..m + 1, NEW j \in 1..m + 1, i < j PROVE g[i] < g[j]
  OBVIOUS
<1>1. i \in 1..m /\ (j \in 1..m \/ j = m + 1)
  OBVIOUS
<1>2. CASE j \in 1..m
  BY <1>1, <1>2
<1>3. CASE j = m + 1
  BY <1>1, <1>3
<1> QED BY <1>1, <1>2, <1>3

\* make_fold begins a component.
LEMMA BeginFoldStep == ASSUME IInv, BeginFold PROVE IInv'
<1> DEFINE comp == [root |-> nextVid, failed |-> query.items[at].bad]
<1> DEFINE entry == [root |-> nextVid, tags |-> << >>]
<1> DEFINE n == Len(components)
<1>1. /\ nextVid' = nextVid + 1 /\ path' = Append(path, nextVid)
      /\ imported' = Append(imported, entry) /\ components' = Append(components, comp)
      /\ query' = query /\ tags' = tags /\ phase' = phase
  BY DEF BeginFold
<1>2. query.items[at].bad \in BOOLEAN
  <2>1. query \in Queries /\ at \in DOMAIN query.items /\ query.items[at].kind = "edge"
    BY DEF BeginFold, Field, IInv, Shape
  <2>2. query.items \in Seq(Item)
    BY <2>1, QueriesAreQueries
  <2>3. query.items[at] \in Item
    BY <2>1, <2>2, SeqFacts
  <2> QED BY <2>1, <2>3 DEF Item
<1>3. comp \in [root : Vid, failed : BOOLEAN] /\ entry \in [root : Vid, tags : Seq(Name)]
  BY <1>2 DEF IInv, Shape
<1>4. comp.root = nextVid /\ entry.root = nextVid
  OBVIOUS
<1> HIDE DEF comp, entry
<1>5. /\ components' \in Seq([root : Vid, failed : BOOLEAN]) /\ Len(components') = n + 1
      /\ components' # << >> /\ \A k \in DOMAIN components : components'[k] = components[k]
      /\ components'[n + 1] = comp
  <2> DEFINE S == [root : Vid, failed : BOOLEAN]
  <2>1. components \in Seq(S) /\ comp \in S
    BY <1>3 DEF IInv, Shape
  <2> HIDE DEF S
  <2>2. /\ Append(components, comp) \in Seq(S) /\ Len(Append(components, comp)) = n + 1
        /\ Append(components, comp) # << >>
        /\ \A k \in DOMAIN components : Append(components, comp)[k] = components[k]
        /\ Append(components, comp)[n + 1] = comp
    BY <2>1, AppendFacts
  <2> QED BY <1>1, <2>2 DEF S
<1>6. /\ path' \in Seq(Vid) /\ Len(path') = Len(path) + 1
      /\ \A i \in DOMAIN path : path'[i] = path[i]
      /\ path'[Len(path) + 1] = nextVid
  BY <1>1, AppendFacts DEF IInv, Shape
<1>7. /\ imported' \in Seq([root : Vid, tags : Seq(Name)]) /\ Len(imported') = Len(imported) + 1
      /\ \A i \in DOMAIN imported : imported'[i] = imported[i]
      /\ imported'[Len(imported) + 1] = entry
  BY <1>1, <1>3, AppendFacts DEF IInv, Shape
<1>8. /\ DOMAIN components' = 1..(n + 1) /\ DOMAIN path' = 1..(Len(path) + 1)
      /\ DOMAIN imported' = 1..(Len(imported) + 1)
  BY <1>5, <1>6, <1>7, SeqFacts
<1>9. Shape'
  BY <1>1, <1>5, <1>6, <1>7 DEF IInv, Shape, Vid
<1>10. Lockstep'
  <2>1. Len(path') = Len(imported') + 1
    BY <1>6, <1>7, StateFacts DEF IInv, Lockstep
  <2>2. path'[1] = RootVid
    BY <1>6, StateFacts DEF IInv, Lockstep
  <2>3. ASSUME NEW i \in DOMAIN imported PROVE imported'[i].root = path'[i + 1]
    <3>1. imported[i].root = path[i + 1]
      BY DEF IInv, Lockstep
    <3>2. i + 1 \in DOMAIN path
      BY StateFacts DEF IInv, Lockstep
    <3> QED BY <1>6, <1>7, <3>1, <3>2
  <2>4. imported'[Len(imported) + 1].root = path'[Len(imported) + 2]
    BY <1>4, <1>6, <1>7, StateFacts DEF IInv, Lockstep
  <2>5. \A i \in DOMAIN imported' : i \in DOMAIN imported \/ i = Len(imported) + 1
    BY <1>8, StateFacts
  <2>6. Len(imported) + 1 + 1 = Len(imported) + 2
    BY StateFacts
  <2> QED BY <2>1, <2>2, <2>3, <2>4, <2>5, <2>6 DEF Lockstep
<1>11. InOrder'
  <2>1. (\A i \in DOMAIN path : path[i] < nextVid)'
    BY <1>1, <1>6, <1>8, StateFacts DEF IInv, InOrder
  <2>2. (\A i, j \in DOMAIN path : i < j => path[i] < path[j])'
    <3>1. /\ \A i \in 1..Len(path) : path[i] \in Nat /\ path[i] < nextVid /\ path'[i] = path[i]
          /\ \A i, j \in 1..Len(path) : i < j => path[i] < path[j]
          /\ Len(path) \in Nat /\ nextVid \in Nat
      <4>1. DOMAIN path = 1..Len(path) /\ Len(path) \in Nat /\ nextVid \in Nat
        BY StateFacts
      <4>2. \A i \in DOMAIN path : path[i] \in Nat /\ path'[i] = path[i]
        BY <1>6, StateFacts
      <4>3. /\ \A i \in DOMAIN path : path[i] < nextVid
            /\ \A i, j \in DOMAIN path : i < j => path[i] < path[j]
        BY DEF IInv, InOrder
      <4> QED BY <4>1, <4>2, <4>3
    <3>2. \A i, j \in 1..Len(path) + 1 : i < j => path'[i] < path'[j]
      BY <1>6, <3>1, InOrderPush, SMTT(30)
    <3> QED BY <1>8, <3>2
  <2> DEFINE root(k) == components[k].root
             rootNext(k) == components'[k].root
  <2>3. /\ n \in Nat /\ n > 0 /\ nextVid \in Nat
        /\ \A k \in 1..n : root(k) \in Nat /\ root(k) < nextVid /\ rootNext(k) = root(k)
        /\ \A k, l \in 1..n : k < l => root(k) < root(l)
        /\ rootNext(n + 1) = nextVid /\ root(1) = RootVid
    <3>1. DOMAIN components = 1..n /\ n \in Nat /\ n > 0 /\ nextVid \in Nat
      BY StateFacts
    <3>2. \A k \in DOMAIN components : components[k].root \in Nat
      BY StateFacts
    <3>3. /\ \A k \in DOMAIN components : components[k].root < nextVid
          /\ \A k, l \in DOMAIN components : k < l => components[k].root < components[l].root
          /\ components[1].root = RootVid
      BY DEF IInv, InOrder
    <3>4. \A k \in DOMAIN components : components'[k] = components[k]
      BY <1>5
    <3>5. components'[n + 1].root = nextVid
      BY <1>4, <1>5
    <3> HIDE DEF n
    <3> QED BY <3>1, <3>2, <3>3, <3>4, <3>5
  <2>4. DOMAIN components' = 1..n + 1
    BY <1>8
  <2> HIDE DEF root, rootNext, n
  <2>5. \A k \in 1..n + 1 : rootNext(k) < nextVid + 1
    <3>1. \A k \in 1..n + 1 : k \in 1..n \/ k = n + 1
      BY <2>3
    <3>2. nextVid < nextVid + 1 /\ \A x \in Nat : x < nextVid => x < nextVid + 1
      BY <2>3
    <3> QED BY <2>3, <3>1, <3>2
  <2>6. \A k, l \in 1..n + 1 : k < l => rootNext(k) < rootNext(l)
    <3> DEFINE f == [k \in 1..n |-> root(k)]
               g == [k \in 1..n + 1 |-> rootNext(k)]
    <3>1. \A k \in 1..n : k \in 1..n + 1
      BY <2>3
    <3>2. /\ \A k \in 1..n : f[k] \in Nat /\ f[k] < nextVid /\ g[k] = f[k]
          /\ \A k, l \in 1..n : k < l => f[k] < f[l]
      BY <2>3, <3>1
    <3>3. g[n + 1] = nextVid
      BY <2>3
    <3>4. \A k \in 1..n + 1 : g[k] = rootNext(k)
      OBVIOUS
    <3> HIDE DEF f, g
    <3>5. \A k, l \in 1..n + 1 : k < l => g[k] < g[l]
      BY <2>3, <3>2, <3>3, InOrderPush
    <3> QED BY <3>4, <3>5
  <2>7. rootNext(1) = RootVid
    <3>1. 1 \in 1..n
      BY <2>3
    <3> QED BY <2>3, <3>1
  <2> QED BY <1>1, <2>1, <2>2, <2>4, <2>5, <2>6, <2>7 DEF InOrder, rootNext
<1>12. Placed'
  <2>1. Last(path') = Last(components').root
    BY <1>4, <1>5, <1>6 DEF Last
  <2>2. ASSUME NEW k \in DOMAIN components', k < Len(components'), ~ components'[k].failed
        PROVE  \E i \in DOMAIN path' : /\ i < Len(path')
                                       /\ path'[i] = components'[k].root
                                       /\ path'[i + 1] = components'[k + 1].root
    <3>1. k \in DOMAIN components /\ ~ components[k].failed /\ components'[k] = components[k]
      BY <1>5, <1>8, <2>2, StateFacts
    <3>2. CASE k = n
      <4>1. Last(path) = components[n].root
        BY <3>1, <3>2 DEF IInv, Placed, Component, Last
      <4>2. /\ Len(path) \in DOMAIN path' /\ Len(path) < Len(path')
            /\ path'[Len(path)] = components'[k].root
            /\ path'[Len(path) + 1] = components'[k + 1].root
        BY <1>4, <1>5, <1>6, <1>8, <3>1, <3>2, <4>1, StateFacts, SMTT(30) DEF Last
      <4> QED BY <4>2
    <3>3. CASE k # n
      <4>1. k < n /\ k + 1 \in DOMAIN components /\ components'[k + 1] = components[k + 1]
        BY <1>5, <1>8, <3>1, <3>3, StateFacts
      <4>2. PICK i \in DOMAIN path : /\ i < Len(path) /\ path[i] = components[k].root
                                    /\ path[i + 1] = components[k + 1].root
        BY <3>1, <4>1 DEF IInv, Placed
      <4>3. DOMAIN path = 1..Len(path) /\ Len(path) \in Nat
        BY StateFacts
      <4>4. i \in 1..Len(path) + 1 /\ i < Len(path) + 1 /\ i + 1 \in DOMAIN path
        BY <4>2, <4>3
      <4>5. /\ i \in DOMAIN path' /\ i < Len(path')
            /\ path'[i] = path[i] /\ path'[i + 1] = path[i + 1]
        BY <1>6, <1>8, <4>2, <4>4
      <4> QED BY <3>1, <4>1, <4>2, <4>5
    <3> QED BY <3>2, <3>3
  <2> QED BY <2>1, <2>2 DEF Placed, Component
<1> QED BY <1>1, <1>9, <1>10, <1>11, <1>12 DEF IInv, NoPanic

\* reference_tag of a tag of a component around this one.
LEMMA ImportTagStep == ASSUME IInv, ImportTag PROVE IInv'
<1>1. PICK t \in tags :
        /\ t.path # path
        /\ t.name = Head(pending).name
        /\ IF CanImport(t)
             THEN /\ imported' = [imported EXCEPT ![Len(t.path)].tags = Append(@, t.name)]
                  /\ UNCHANGED phase
             ELSE phase' = "panicked" /\ UNCHANGED <<imported, used>>
  BY DEF ImportTag
<1>2. ~ Refused(Head(pending)) /\ UNCHANGED <<query, nextVid, components, path, tags>>
  BY DEF ImportTag
<1>3. IsParent(t.path, path)
  BY <1>1, <1>2 DEF Refused, Misplaced
<1>4. CanImport(t)
  BY <1>1, <1>3, ImporterFound
<1> DEFINE m == Len(t.path)
<1> DEFINE rec == [imported[m] EXCEPT !.tags = Append(imported[m].tags, t.name)]
<1>5. m \in DOMAIN imported /\ imported \in Seq([root : Vid, tags : Seq(Name)]) /\ t.name \in Name
  BY <1>4 DEF CanImport, IInv, Shape
<1>6. imported[m] \in [root : Vid, tags : Seq(Name)]
  BY <1>5, SeqFacts
<1>7. Append(imported[m].tags, t.name) \in Seq(Name)
  BY <1>5, <1>6, AppendFacts
<1>8. rec \in [root : Vid, tags : Seq(Name)] /\ rec.root = imported[m].root
  BY <1>6, <1>7
<1>9. imported' = [imported EXCEPT ![m] = rec] /\ phase' = phase
  BY <1>1, <1>4
<1> HIDE DEF rec, m
<1>10. /\ imported' \in Seq([root : Vid, tags : Seq(Name)]) /\ Len(imported') = Len(imported)
       /\ DOMAIN imported' = DOMAIN imported
  BY <1>5, <1>8, <1>9
<1>11. \A i \in DOMAIN imported : imported'[i].root = imported[i].root
  BY <1>5, <1>8, <1>9
<1>12. Shape'
  BY <1>2, <1>10 DEF IInv, Shape
<1>13. Lockstep'
  BY <1>2, <1>10, <1>11 DEF IInv, Lockstep
<1>14. InOrder' /\ Placed'
  BY <1>2 DEF IInv, InOrder, Placed, Component, Last
<1> QED BY <1>9, <1>12, <1>13, <1>14 DEF IInv, NoPanic

\* The components around the one that ends, with the same roots.
LEMMA Enclosing ==
  ASSUME IInv, Len(components) > 1
  PROVE  /\ AllButLast(components) \in Seq([root : Vid, failed : BOOLEAN])
         /\ Len(AllButLast(components)) = Len(components) - 1
         /\ AllButLast(components) # << >>
         /\ DOMAIN AllButLast(components) = 1..(Len(components) - 1)
         /\ \A k \in 1..(Len(components) - 1) : AllButLast(components)[k] = components[k]
<1> DEFINE S == [root : Vid, failed : BOOLEAN]
<1>1. components \in Seq(S) /\ components # << >>
  BY DEF IInv, Shape
<1> HIDE DEF S
<1>2. /\ AllButLast(components) \in Seq(S)
      /\ Len(AllButLast(components)) = Len(components) - 1
      /\ \A k \in DOMAIN AllButLast(components) : AllButLast(components)[k] = components[k]
  BY <1>1, AllButLastFacts
<1>3. DOMAIN AllButLast(components) = 1..(Len(components) - 1)
  BY <1>2, SeqFacts
<1>4. AllButLast(components) # << >>
  BY <1>2, StateFacts
<1> QED BY <1>2, <1>3, <1>4 DEF S

\* make_fold returns early: the component around has an error now.
LEMMA AbandonFoldStep == ASSUME IInv, AbandonFold PROVE IInv'
<1> DEFINE n == Len(components)
<1> DEFINE outer == AllButLast(components)
<1> DEFINE rec == [outer[n - 1] EXCEPT !.failed = TRUE]
<1>1. /\ n > 1 /\ components' = [outer EXCEPT ![n - 1].failed = TRUE]
      /\ phase' = "fill" /\ UNCHANGED <<query, nextVid, path, imported, tags>>
  BY DEF AbandonFold
<1>2. /\ outer \in Seq([root : Vid, failed : BOOLEAN]) /\ Len(outer) = n - 1
      /\ DOMAIN outer = 1..(n - 1) /\ \A k \in 1..(n - 1) : outer[k] = components[k]
  BY <1>1, Enclosing
<1>3. n \in Nat /\ n - 1 \in DOMAIN outer /\ 1 \in DOMAIN outer
  BY <1>1, <1>2, StateFacts
<1> HIDE DEF outer
<1>4. outer[n - 1] \in [root : Vid, failed : BOOLEAN]
  BY <1>2, <1>3, SeqFacts
<1>5. rec \in [root : Vid, failed : BOOLEAN] /\ rec.root = outer[n - 1].root /\ rec.failed = TRUE
  BY <1>4
<1>6. components' = [outer EXCEPT ![n - 1] = rec]
  BY <1>1, <1>3
<1> HIDE DEF rec
<1>7. /\ components' \in Seq([root : Vid, failed : BOOLEAN]) /\ Len(components') = n - 1
      /\ DOMAIN components' = 1..(n - 1)
  BY <1>2, <1>3, <1>5, <1>6
<1>8. \A k \in 1..(n - 1) : components'[k].root = components[k].root
  BY <1>2, <1>3, <1>5, <1>6
<1>9. /\ components'[n - 1].failed = TRUE
      /\ \A k \in 1..(n - 1) : k # n - 1 => components'[k] = components[k]
  BY <1>2, <1>3, <1>5, <1>6
<1>10. Shape'
  BY <1>1, <1>3, <1>7 DEF IInv, Shape
<1>11. Lockstep'
  BY <1>1 DEF IInv, Lockstep
<1>12. InOrder'
  <2>1. \A k \in 1..(n - 1) : k \in DOMAIN components
    BY <1>3, StateFacts
  <2>2. (\A k \in DOMAIN components : components[k].root < nextVid)'
    BY <1>1, <1>7, <1>8, <2>1 DEF IInv, InOrder
  <2>3. (\A k, l \in DOMAIN components : k < l => components[k].root < components[l].root)'
    BY <1>7, <1>8, <2>1 DEF IInv, InOrder
  <2>4. components'[1].root = RootVid
    BY <1>2, <1>3, <1>8 DEF IInv, InOrder
  <2> QED BY <1>1, <2>2, <2>3, <2>4 DEF IInv, InOrder
<1>13. Placed'
  <2>1. (~ Component.failed => Last(path) = Component.root)'
    BY <1>7, <1>9 DEF Component, Last
  <2>2. ASSUME NEW k \in DOMAIN components', k < Len(components'), ~ components'[k].failed
        PROVE  \E i \in DOMAIN path' : /\ i < Len(path')
                                       /\ path'[i] = components'[k].root
                                       /\ path'[i + 1] = components'[k + 1].root
    <3>1. k \in DOMAIN components /\ k < n /\ k \in 1..(n - 1) /\ k + 1 \in 1..(n - 1)
      BY <1>3, <1>7, <2>2, StateFacts
    <3>2. components'[k] = components[k] /\ components'[k + 1].root = components[k + 1].root
      BY <1>7, <1>8, <1>9, <2>2, <3>1
    <3>3. \E i \in DOMAIN path : /\ i < Len(path)
                                 /\ path[i] = components[k].root
                                 /\ path[i + 1] = components[k + 1].root
      BY <2>2, <3>1, <3>2 DEF IInv, Placed
    <3> QED BY <1>1, <3>2, <3>3
  <2> QED BY <2>1, <2>2 DEF Placed
<1> QED BY <1>1, <1>10, <1>11, <1>12, <1>13 DEF IInv, NoPanic

\* A component without an error ends with its own entries on top of both stacks.
LEMMA OwnEntriesOnTop ==
  ASSUME IInv, Len(components) > 1, ~ Component.failed
  PROVE  /\ Last(path) = Component.root
         /\ Len(path) > 1
         /\ imported # << >>
         /\ Last(imported).root = Component.root
<1>1. Last(path) = Component.root
  BY DEF IInv, Placed
<1>2. components[1].root < Component.root /\ components[1].root = path[1]
  BY StateFacts DEF IInv, InOrder, Lockstep, Component, Last
<1>3. Len(path) # 1
  BY <1>1, <1>2, StateFacts DEF Last
<1>4. Len(path) > 1 /\ Len(imported) = Len(path) - 1 /\ Len(imported) \in DOMAIN imported
  BY <1>3, StateFacts DEF IInv, Lockstep
<1>5. imported # << >>
  BY <1>4
<1>6. imported[Len(imported)].root = path[Len(path)]
  BY <1>4, StateFacts DEF IInv, Lockstep
<1> QED BY <1>1, <1>4, <1>5, <1>6 DEF Last

\* make_query_component returned the fold's component.
LEMMA EndSubcomponentStep == ASSUME IInv, EndSubcomponent PROVE IInv'
<1> DEFINE n == Len(components)
<1> DEFINE p == Len(path)
<1>1. /\ n > 1 /\ ~ Component.failed /\ components' = AllButLast(components)
      /\ UNCHANGED <<query, nextVid, tags>>
  BY DEF EndSubcomponent
<1>2. /\ Last(path) = Component.root /\ p > 1
      /\ imported # << >> /\ Last(imported).root = Component.root
  BY <1>1, OwnEntriesOnTop
<1>3. path' = AllButLast(path) /\ imported' = AllButLast(imported) /\ phase' = "post"
  BY <1>2 DEF EndSubcomponent
<1>4. /\ components' \in Seq([root : Vid, failed : BOOLEAN]) /\ Len(components') = n - 1
      /\ components' # << >> /\ DOMAIN components' = 1..(n - 1)
      /\ \A k \in 1..(n - 1) : components'[k] = components[k]
  BY <1>1, Enclosing
<1>5. path \in Seq(Vid) /\ path # << >>
  BY <1>2, StateFacts DEF IInv, Shape
<1>6. /\ path' \in Seq(Vid) /\ Len(path') = p - 1
      /\ \A i \in DOMAIN path' : path'[i] = path[i]
  BY <1>3, <1>5, AllButLastFacts
<1>7. DOMAIN path' = 1..(p - 1)
  BY <1>6, SeqFacts
<1>8. /\ imported' \in Seq([root : Vid, tags : Seq(Name)])
      /\ Len(imported') = Len(imported) - 1
      /\ \A i \in DOMAIN imported' : i \in DOMAIN imported /\ imported'[i] = imported[i]
  <2> DEFINE S == [root : Vid, tags : Seq(Name)]
  <2>1. imported \in Seq(S)
    BY DEF IInv, Shape
  <2> HIDE DEF S
  <2>2. /\ AllButLast(imported) \in Seq(S)
        /\ Len(AllButLast(imported)) = Len(imported) - 1
        /\ \A i \in DOMAIN AllButLast(imported) :
             i \in DOMAIN imported /\ AllButLast(imported)[i] = imported[i]
    BY <1>2, <2>1, AllButLastFacts
  <2> QED BY <1>3, <2>2 DEF S
<1>9. DOMAIN imported' = 1..(Len(imported) - 1)
  BY <1>8, SeqFacts
<1>10. Shape'
  BY <1>1, <1>4, <1>6, <1>8 DEF IInv, Shape
<1>11. Lockstep'
  <2>1. Len(path') = Len(imported') + 1
    BY <1>6, <1>8, StateFacts DEF IInv, Lockstep
  <2>2. 1 \in DOMAIN path' /\ path'[1] = RootVid
    BY <1>2, <1>6, <1>7, StateFacts DEF IInv, Lockstep
  <2>3. ASSUME NEW i \in DOMAIN imported' PROVE imported'[i].root = path'[i + 1]
    <3>1. i \in DOMAIN imported /\ imported'[i] = imported[i] /\ imported[i].root = path[i + 1]
      BY <1>8 DEF IInv, Lockstep
    <3>2. i + 1 \in DOMAIN path'
      BY <1>7, <1>9, StateFacts DEF IInv, Lockstep
    <3> QED BY <1>6, <3>1, <3>2
  <2> QED BY <2>1, <2>2, <2>3 DEF Lockstep
<1>12. InOrder'
  <2>1. /\ \A k \in 1..(n - 1) : k \in DOMAIN components
        /\ \A i \in 1..(p - 1) : i \in DOMAIN path
        /\ 1 \in 1..(n - 1)
    BY <1>1, StateFacts
  <2>2. (\A i \in DOMAIN path : path[i] < nextVid)'
    BY <1>1, <1>6, <1>7, <2>1 DEF IInv, InOrder
  <2>3. (\A i, j \in DOMAIN path : i < j => path[i] < path[j])'
    BY <1>6, <1>7, <2>1 DEF IInv, InOrder
  <2>4. (\A k \in DOMAIN components : components[k].root < nextVid)'
    BY <1>1, <1>4, <2>1 DEF IInv, InOrder
  <2>5. (\A k, l \in DOMAIN components : k < l => components[k].root < components[l].root)'
    BY <1>4, <2>1, SMTT(30) DEF IInv, InOrder
  <2>6. components'[1].root = RootVid
    BY <1>4, <2>1 DEF IInv, InOrder
  <2> QED BY <2>2, <2>3, <2>4, <2>5, <2>6 DEF InOrder
<1>13. ASSUME NEW k \in 1..(n - 1), ~ components[k].failed
       PROVE  \E i \in DOMAIN path : /\ i < p /\ i \in 1..(p - 1)
                                      /\ path[i] = components[k].root
                                      /\ path[i + 1] = components[k + 1].root
  <2>1. k \in DOMAIN components /\ k < n
    BY StateFacts
  <2>2. PICK i \in DOMAIN path : /\ i < p
                                 /\ path[i] = components[k].root
                                 /\ path[i + 1] = components[k + 1].root
    BY <1>13, <2>1 DEF IInv, Placed
  <2>3. i \in 1..(p - 1)
    BY <2>2, StateFacts
  <2> QED BY <2>2, <2>3
<1>14. Placed'
  <2>1. ASSUME ~ components'[n - 1].failed PROVE path'[p - 1] = components'[n - 1].root
    <3>1. n - 1 \in 1..(n - 1) /\ n - 1 + 1 = n
      BY <1>1, StateFacts
    <3>2. PICK i \in DOMAIN path : /\ i < p /\ i \in 1..(p - 1)
                                   /\ path[i] = components[n - 1].root
                                   /\ path[i + 1] = components[n].root
      BY <1>4, <1>13, <2>1, <3>1
    <3>3. path[p] = components[n].root
      BY <1>2 DEF Component, Last
    <3>4. ~ i + 1 < p
      <4>1. DOMAIN path = 1..p /\ p \in Nat /\ \A h \in DOMAIN path : path[h] \in Nat
        BY StateFacts
      <4>2. i + 1 \in DOMAIN path /\ p \in DOMAIN path
        BY <1>2, <3>2, <4>1
      <4>3. i + 1 \in DOMAIN path /\ p \in DOMAIN path /\ path[p] \in Nat
        BY <4>1, <4>2
      <4> QED BY <3>2, <3>3, <4>3 DEF IInv, InOrder
    <3>5. i = p - 1
      BY <3>2, <3>4, StateFacts
    <3> QED BY <1>4, <1>6, <1>7, <3>1, <3>2, <3>5
  <2>2. (~ Component.failed => Last(path) = Component.root)'
    BY <1>4, <1>6, <2>1 DEF Component, Last
  <2>3. ASSUME NEW k \in DOMAIN components', k < Len(components'), ~ components'[k].failed
        PROVE  \E i \in DOMAIN path' : /\ i < Len(path')
                                       /\ path'[i] = components'[k].root
                                       /\ path'[i + 1] = components'[k + 1].root
    <3>1. /\ k \in 1..(n - 1) /\ k + 1 \in 1..(n - 1) /\ k + 1 < n
          /\ k + 1 \in DOMAIN components /\ n \in DOMAIN components
      BY <1>4, <2>3, StateFacts
    <3>2. PICK i \in DOMAIN path : /\ i < p /\ i \in 1..(p - 1)
                                   /\ path[i] = components[k].root
                                   /\ path[i + 1] = components[k + 1].root
      BY <1>4, <1>13, <2>3, <3>1
    <3>3. path[i + 1] < path[p]
      BY <1>2, <3>1, <3>2 DEF Component, Last, IInv, InOrder
    <3>4. i + 1 # p
      <4>1. path[p] \in Nat
        BY <1>5, StateFacts
      <4> QED BY <3>3, <4>1
    <3>5. i \in DOMAIN path' /\ i + 1 \in DOMAIN path' /\ i < Len(path')
      BY <1>6, <1>7, <3>2, <3>4, StateFacts
    <3> QED BY <1>4, <1>6, <3>1, <3>2, <3>5
  <2> QED BY <2>2, <2>3 DEF Placed
<1> QED BY <1>3, <1>10, <1>11, <1>12, <1>14 DEF IInv, NoPanic

\* The tags stay tags, each with the path of its component.
LEMMA TagsStay ==
  ASSUME IInv, NEW name \in Name, NEW vid,
         tags' = tags \cup {[name |-> name, vid |-> vid, path |-> path]}
  PROVE  (\A t \in tags : t.path \in Seq(Vid) /\ Len(t.path) > 0 /\ t.name \in Name)'
<1>1. path \in Seq(Vid) /\ Len(path) > 0
  BY StateFacts DEF IInv, Shape
<1> QED BY <1>1 DEF IInv, Shape

\* Registering a tag keeps the invariant.
LEMMA RegisterTagStep == ASSUME IInv, RegisterTag PROVE IInv'
<1>1. /\ components' \in {components, Failing} /\ UNCHANGED <<query, path, imported, nextVid>>
      /\ phase' = "fill"
  BY DEF RegisterTag, Field
<1>2. (\A t \in tags : t.path \in Seq(Vid) /\ Len(t.path) > 0 /\ t.name \in Name)'
  <2>1. query \in Queries /\ at \in DOMAIN query.items /\ query.items[at].kind = "tag"
    BY DEF RegisterTag, Field, IInv, Shape
  <2>2. query.items \in Seq(Item)
    BY <2>1, QueriesAreQueries
  <2>3. query.items[at] \in Item
    BY <2>1, <2>2, SeqFacts
  <2>4. query.items[at].name \in Name
    BY <2>1, <2>3 DEF Item
  <2> QED BY <2>4, TagsStay DEF RegisterTag, IInv, Shape
<1> QED BY <1>1, <1>2, MarkingIsHarmless

\* Leaving a fold keeps the invariant.
LEMMA EndFoldStep == ASSUME IInv, EndFold PROVE IInv'
<1>1. /\ components' \in {components, Failing} /\ UNCHANGED <<query, path, imported, nextVid>>
      /\ phase' = "fill"
  BY DEF EndFold
<1>2. (\A t \in tags : t.path \in Seq(Vid) /\ Len(t.path) > 0 /\ t.name \in Name)'
  <2>1. CASE tags' = tags
    BY <2>1 DEF IInv, Shape
  <2>2. CASE folding \in DOMAIN query.count
             /\ tags' = tags \cup {[name |-> query.count[folding], vid |-> folding, path |-> path]}
    <3>1. query.count[folding] \in Name
      BY <2>2, QueriesAreQueries DEF IInv, Shape
    <3> QED BY <2>2, <3>1, TagsStay
  <2> QED BY <2>1, <2>2 DEF EndFold
<1> QED BY <1>1, <1>2, MarkingIsHarmless

\* The other steps leave the stacks alone, and at most mark the component.
LEMMA OtherSteps ==
  ASSUME IInv, VisitEdge \/ CloseVertex \/ StartFilters \/ RefuseUse \/ UseLocalTag \/ Finish
  PROVE  IInv'
<1>1. /\ components' \in {components, Failing} /\ UNCHANGED <<query, path, imported, tags>>
      /\ nextVid' \in {nextVid, nextVid + 1} /\ phase' # "panicked"
  BY DEF IInv, NoPanic, VisitEdge, CloseVertex, StartFilters, RefuseUse, UseLocalTag, Finish, Field
<1>2. (\A t \in tags : t.path \in Seq(Vid) /\ Len(t.path) > 0 /\ t.name \in Name)'
  BY <1>1 DEF IInv, Shape
<1> QED BY <1>1, <1>2, MarkingIsHarmless

\* Every step keeps the invariant.
LEMMA Inductive == IInv /\ [Next]_vars => IInv'
<1> SUFFICES ASSUME IInv, [Next]_vars PROVE IInv'
  OBVIOUS
<1>1. CASE BeginFold
  BY <1>1, BeginFoldStep
<1>2. CASE RegisterTag
  BY <1>2, RegisterTagStep
<1>3. CASE ImportTag
  BY <1>3, ImportTagStep
<1>4. CASE AbandonFold
  BY <1>4, AbandonFoldStep
<1>5. CASE EndSubcomponent
  BY <1>5, EndSubcomponentStep
<1>6. CASE EndFold
  BY <1>6, EndFoldStep
<1>7. CASE VisitEdge \/ CloseVertex \/ StartFilters \/ RefuseUse \/ UseLocalTag \/ Finish
  BY <1>7, OtherSteps
<1>8. CASE UNCHANGED vars
  BY <1>8 DEF vars, IInv, Shape, Lockstep, InOrder, Placed, NoPanic, Component, Last
<1> QED BY <1>1, <1>2, <1>3, <1>4, <1>5, <1>6, <1>7, <1>8 DEF Next, Done

\* The component path and the stack of imported tags hold the same folds, also
\* after make_fold has returned early.
THEOREM StacksInLockstep == Spec => []Lockstep
<1>1. IInv => Lockstep
  BY DEF IInv
<1> QED BY <1>1, InitIInv, Inductive, PTL DEF Spec

\* No unwrap or assertion of TagHandler and ComponentPath fails, whatever the query.
THEOREM NeverPanics == Spec => []NoPanic
<1>1. IInv => NoPanic
  BY DEF IInv
<1> QED BY <1>1, InitIInv, Inductive, PTL DEF Spec

-----------------------------------------------------------------------------
(* Induction over sets of numbers, and functions defined by recursion.     *)

\* A set of naturals with 0 and every successor has them all: otherwise a
\* smallest interval 0..n would end at an n outside of it.
LEMMA Induction ==
  ASSUME NEW N, N \subseteq Nat, 0 \in N, \A n \in N : n + 1 \in N
  PROVE  N = Nat
<1> DEFINE Up == {0..n : n \in Nat \ N}
<1> SUFFICES ASSUME Nat \ N # {} PROVE FALSE
  OBVIOUS
<1>1. Up \subseteq FiniteSubsetsOf(Nat) /\ Up # {}
  <2>1. \A n \in Nat : IsFiniteSet(0..n) /\ 0..n \subseteq Nat
    BY FS_Interval
  <2> QED BY <2>1 DEF FiniteSubsetsOf
<1>2. PICK s \in Up : \A t \in Up : ~ (<<t, s>> \in StrictSubsetOrdering(Nat))
  <2> HIDE DEF Up
  <2> QED BY <1>1, FS_StrictSubsetOrderingWellFounded, WFMin
<1>3. PICK n \in Nat \ N : s = 0..n
  BY <1>2
<1>4. n > 0 /\ n - 1 \in Nat /\ n - 1 \notin N
  BY <1>3
<1>5. 0..(n-1) \in Up
  BY <1>4
<1>6. <<0..(n-1), s>> \in StrictSubsetOrdering(Nat)
  BY <1>3, <1>4 DEF StrictSubsetOrdering
<1> QED BY <1>2, <1>5, <1>6

\* The same up to a bound.
LEMMA BoundedInduction ==
  ASSUME NEW n \in Nat, NEW N, 0 \in N, \A k \in N : k \in 0..n - 1 => k + 1 \in N
  PROVE  0..n \subseteq N
<1> DEFINE M == {k \in Nat : k \in 0..n => k \in N}
<1>1. 0 \in M
  OBVIOUS
<1>2. ASSUME NEW k \in M PROVE k + 1 \in M
  <2>1. k \in Nat /\ (k \in 0..n => k \in N)
    BY <1>2
  <2>2. k + 1 \in 0..n => k \in 0..n - 1 /\ k \in 0..n
    BY <2>1
  <2> QED BY <2>1, <2>2
<1>3. M = Nat
  <2> HIDE DEF M
  <2>1. M \subseteq Nat
    BY DEF M
  <2> QED BY <1>1, <1>2, <2>1, Induction
<1> QED BY <1>3

AreSteps(Steps, n, S) == Steps \in [1..n -> [S -> S]]

\* f is what the first n of the steps make of base, one after the other.
IsRecursion(f, n, S, base, Steps) ==
  /\ f \in [0..n -> S]
  /\ f[0] = base
  /\ \A k \in 1..n : f[k] = Steps[k][f[k - 1]]

\* A value for 0 and a step to each next number determine a sequence of values.
LEMMA RecursionExists ==
  ASSUME NEW S, NEW n \in Nat, NEW base \in S, NEW Steps, AreSteps(Steps, n, S)
  PROVE  \E f : IsRecursion(f, n, S, base, Steps)
<1> USE DEF AreSteps
<1> DEFINE Upto(m, f) == /\ f \in [0..m -> S] /\ f[0] = base
                         /\ \A k \in 1..m : f[k] = Steps[k][f[k - 1]]
           N == {m \in Nat : \E f : Upto(m, f)}
<1>1. 0 \in N
  <2>1. Upto(0, [k \in 0..0 |-> base])
    OBVIOUS
  <2> HIDE DEF Upto
  <2> QED BY <2>1
<1>2. ASSUME NEW m \in N, m \in 0..n - 1 PROVE m + 1 \in N
  <2>0. m \in Nat
    BY <1>2
  <2>1. PICK f : Upto(m, f)
    BY <1>2
  <2> DEFINE g == [k \in 0..m + 1 |-> IF k \in 0..m THEN f[k] ELSE Steps[m + 1][f[m]]]
  <2>2. \A k \in 0..m : g[k] = f[k] /\ g[k] \in S
    BY <2>0, <2>1
  <2>3. g[m + 1] = Steps[m + 1][g[m]] /\ g[m + 1] \in S
    <3>1. m \in 0..m /\ m + 1 \notin 0..m /\ m + 1 \in 0..m + 1 /\ m + 1 \in 1..n
      BY <2>0, <1>2
    <3>2. f[m] \in S /\ Steps[m + 1] \in [S -> S]
      BY <3>1, <2>1
    <3> QED BY <3>1, <3>2, <2>2
  <2>4. g \in [0..m + 1 -> S]
    <3>1. \A k \in 0..m + 1 : g[k] \in S
      <4> SUFFICES ASSUME NEW k \in 0..m + 1 PROVE g[k] \in S
        OBVIOUS
      <4>1. k \in 0..m \/ k = m + 1
        BY <2>0
      <4> HIDE DEF g
      <4> QED BY <4>1, <2>2, <2>3
    <3> QED BY <3>1
  <2>5. g[0] = base
    BY <2>0, <2>1, <2>2
  <2>6. \A k \in 1..m + 1 : g[k] = Steps[k][g[k - 1]]
    <3> SUFFICES ASSUME NEW k \in 1..m + 1 PROVE g[k] = Steps[k][g[k - 1]]
      OBVIOUS
    <3>1. CASE k = m + 1
      <4>1. k - 1 = m
        BY <2>0, <3>1
      <4> HIDE DEF g
      <4> QED BY <4>1, <3>1, <2>3
    <3>2. CASE k \in 1..m
      <4>1. k \in 0..m /\ k - 1 \in 0..m
        BY <2>0, <3>2
      <4>2. f[k] = Steps[k][f[k - 1]]
        BY <2>1, <3>2
      <4> HIDE DEF g
      <4> QED BY <4>1, <4>2, <2>2
    <3> QED BY <2>0, <3>1, <3>2
  <2>7. Upto(m + 1, g)
    <3> HIDE DEF g
    <3> QED BY <2>4, <2>5, <2>6
  <2> HIDE DEF Upto
  <2> QED BY <2>0, <2>7
<1>3. n \in N
  <2> HIDE DEF N
  <2>1. 0..n \subseteq N
    BY <1>1, <1>2, BoundedInduction
  <2> QED BY <2>1
<1> QED BY <1>3 DEF IsRecursion

-----------------------------------------------------------------------------
(* The fields of a query.                                                  *)

Fields(i, j, kind) == Cardinality({k \in i..j : query.items[k].kind = kind})

\* How many fields of a kind there are up to the next field.
LEMMA FieldsStep ==
  ASSUME NEW i \in Nat, NEW j \in Nat, i <= j + 1, NEW kind
  PROVE  /\ Fields(i, j, kind) \in Nat
         /\ i = j + 1 => Fields(i, j, kind) = 0
         /\ Fields(i, j + 1, kind) =
              IF query.items[j + 1].kind = kind THEN Fields(i, j, kind) + 1 ELSE Fields(i, j, kind)
<1> DEFINE S == {k \in i..j : query.items[k].kind = kind}
           T == {k \in i..(j + 1) : query.items[k].kind = kind}
<1>1. IsFiniteSet(S)
  <2>1. IsFiniteSet(i..j) /\ S \subseteq i..j
    BY FS_Interval
  <2> QED BY <2>1, FS_Subset
<1>2. T = IF query.items[j + 1].kind = kind THEN S \cup {j + 1} ELSE S
  OBVIOUS
<1>3. j + 1 \notin S
  OBVIOUS
<1>4. i = j + 1 => S = {}
  OBVIOUS
<1> HIDE DEF S, T
<1>5. Cardinality(S) \in Nat /\ Cardinality(S \cup {j + 1}) = Cardinality(S) + 1
  BY <1>1, <1>3, FS_CardinalityType, FS_AddElement
<1>6. i = j + 1 => Cardinality(S) = 0
  BY <1>4, FS_EmptySet
<1>7. Fields(i, j, kind) = Cardinality(S) /\ Fields(i, j + 1, kind) = Cardinality(T)
  BY DEF Fields, S, T
<1> QED BY <1>2, <1>5, <1>6, <1>7

\* What the fields of a query are.
LEMMA QueryFacts ==
  ASSUME query \in Queries
  PROVE  /\ query.items \in Seq(Item) /\ Len(query.items) \in Nat /\ Len(query.items) > 0
         /\ DOMAIN query.items = 1..Len(query.items)
         /\ \A i \in 1..Len(query.items) :
              /\ query.items[i].kind \in {"edge", "tag", "close"}
              /\ query.items[i].kind = "edge" =>
                   query.items[i].fold \in BOOLEAN /\ query.items[i].bad \in BOOLEAN
              /\ query.items[i].kind = "tag" => query.items[i].name \in Name
         /\ \A j \in 0..Len(query.items) : j < Len(query.items) <=> Fields(1, j, "close") <= Fields(1, j, "edge")
<1>1. query.items \in Seq(Item)
  BY QueriesAreQueries
<1>2. Len(query.items) \in Nat /\ DOMAIN query.items = 1..Len(query.items)
  BY <1>1
<1>3. \A i \in 1..Len(query.items) : query.items[i] \in Item
  BY <1>1, ElementOfSeq
<1>4. \A j \in 0..Len(query.items) : j < Len(query.items) <=> Fields(1, j, "close") <= Fields(1, j, "edge")
  BY QueriesAreTrees DEF Fields
<1>5. Len(query.items) > 0
  <2>1. Fields(1, 0, "close") = 0 /\ Fields(1, 0, "edge") = 0
    BY FieldsStep
  <2>2. 0 \in 0..Len(query.items)
    BY <1>2
  <2> QED BY <1>4, <2>1, <2>2
<1>6. ASSUME NEW i \in 1..Len(query.items)
      PROVE  /\ query.items[i].kind \in {"edge", "tag", "close"}
             /\ query.items[i].kind = "edge" =>
                  query.items[i].fold \in BOOLEAN /\ query.items[i].bad \in BOOLEAN
             /\ query.items[i].kind = "tag" => query.items[i].name \in Name
  <2>1. query.items[i] \in Item
    BY <1>3
  <2> QED BY <2>1 DEF Item
<1> QED BY <1>1, <1>2, <1>4, <1>5, <1>6

\* The edges that are open after each field, by what the field is.
LEMMA OpenedStep ==
  ASSUME query \in Queries
  PROVE  /\ Opened[0] = << >>
         /\ \A j \in 0..Len(query.items) : Opened[j] \in Seq(Nat)
         /\ \A j \in 1..Len(query.items) :
              /\ query.items[j].kind = "edge" => Opened[j] = Append(Opened[j - 1], j)
              /\ query.items[j].kind = "close" => Opened[j] = AllButLast(Opened[j - 1])
              /\ query.items[j].kind = "tag" => Opened[j] = Opened[j - 1]
<1> DEFINE n == Len(query.items)
           Step(j, s) == CASE query.items[j].kind = "edge" -> Append(s, j)
                           [] query.items[j].kind = "close" -> AllButLast(s)
                           [] query.items[j].kind = "tag" -> s
           Eq(h) == h = [i \in 0..n |-> IF i = 0 THEN << >> ELSE Step(i, h[i - 1])]
           F == CHOOSE h : Eq(h)
           Steps == [j \in 1..n |-> [s \in Seq(Nat) |-> Step(j, s)]]
<1>1. n \in Nat /\ \A j \in 1..n : query.items[j].kind \in {"edge", "tag", "close"}
  BY QueryFacts
<1>2. ASSUME NEW j \in 1..n, NEW s \in Seq(Nat) PROVE Step(j, s) \in Seq(Nat)
  <2>1. AllButLast(s) \in Seq(Nat) /\ Append(s, j) \in Seq(Nat)
    BY AllButLastFacts
  <2> QED BY <1>1, <2>1
<1> HIDE DEF Step
<1>3. AreSteps(Steps, n, Seq(Nat)) /\ << >> \in Seq(Nat)
  BY <1>2 DEF AreSteps
<1>4. PICK f : IsRecursion(f, n, Seq(Nat), << >>, Steps)
  <2> HIDE DEF Steps
  <2> QED BY <1>1, <1>3, RecursionExists
<1>5. ASSUME NEW j \in 1..n PROVE f[j] = Step(j, f[j - 1])
  <2>1. j - 1 \in 0..n
    BY <1>1
  <2>2. f[j - 1] \in Seq(Nat) /\ f[j] = Steps[j][f[j - 1]]
    BY <2>1, <1>4 DEF IsRecursion
  <2> QED BY <2>2
<1> HIDE DEF Steps
<1>6. f \in [0..n -> Seq(Nat)] /\ f[0] = << >>
  BY <1>4 DEF IsRecursion
<1>7. Eq(f)
  <2>1. ASSUME NEW i \in 0..n PROVE f[i] = IF i = 0 THEN << >> ELSE Step(i, f[i - 1])
    BY <1>1, <1>5, <1>6
  <2> QED BY <1>6, <2>1
<1>8. Eq(F)
  <2> HIDE DEF Eq
  <2> QED BY <1>7
<1>9. Opened = F
  BY DEF Opened, Step
<1> HIDE DEF F
<1>10. \A i \in 0..n : Opened[i] = IF i = 0 THEN << >> ELSE Step(i, Opened[i - 1])
  BY <1>8, <1>9
<1>11. \A j \in 1..n : Opened[j] = Step(j, Opened[j - 1]) /\ j - 1 \in 0..n /\ j \in 0..n
  BY <1>1, <1>10
<1> DEFINE N == {j \in 0..n : Opened[j] \in Seq(Nat)}
<1>12. 0 \in 0..n /\ Opened[0] = << >>
  BY <1>1, <1>10
<1>13. ASSUME NEW k \in N, k \in 0..n - 1 PROVE k + 1 \in N
  <2>1. k + 1 \in 1..n /\ (k + 1) - 1 = k
    BY <1>1, <1>13
  <2>2. Opened[k + 1] = Step(k + 1, Opened[k])
    BY <2>1, <1>11
  <2> QED BY <2>1, <2>2, <1>2, <1>11
<1>14. \A j \in 0..n : Opened[j] \in Seq(Nat)
  <2>1. 0 \in N
    BY <1>3, <1>12
  <2> HIDE DEF N
  <2>2. 0..n \subseteq N
    BY <1>1, <1>13, <2>1, BoundedInduction
  <2> QED BY <2>2 DEF N
<1>15. ASSUME NEW j \in 1..n
       PROVE  /\ query.items[j].kind = "edge" => Opened[j] = Append(Opened[j - 1], j)
              /\ query.items[j].kind = "close" => Opened[j] = AllButLast(Opened[j - 1])
              /\ query.items[j].kind = "tag" => Opened[j] = Opened[j - 1]
  BY <1>11 DEF Step
<1> QED BY <1>12, <1>14, <1>15

\* Every open edge was opened when exactly those outside of it were open.
NestsIn(s) ==
  \A d \in DOMAIN s :
    /\ s[d] \in Edges /\ s[d] \in 1..Len(query.items)
    /\ Len(Opened[s[d] - 1]) = d - 1
    /\ \A e \in 1..(d - 1) : Opened[s[d] - 1][e] = s[e]

LEMMA OpenedNests ==
  ASSUME query \in Queries
  PROVE  \A j \in 0..Len(query.items) :
           /\ NestsIn(Opened[j])
           /\ \A d \in DOMAIN Opened[j] : Opened[j][d] <= j
<1> DEFINE n == Len(query.items)
           Holds(j) == NestsIn(Opened[j]) /\ \A d \in DOMAIN Opened[j] : Opened[j][d] <= j
           N == {j \in 0..n : Holds(j)}
<1>1. n \in Nat /\ \A j \in 1..n : query.items[j].kind \in {"edge", "tag", "close"}
  BY QueryFacts
<1>2. 0 \in N
  <2>1. DOMAIN Opened[0] = {} /\ 0 \in 0..n
    BY <1>1, OpenedStep
  <2> QED BY <2>1 DEF NestsIn
<1>3. ASSUME NEW k \in N, k \in 0..n - 1 PROVE k + 1 \in N
  <2> DEFINE j == k + 1
             s == Opened[k]
             t == Opened[j]
  <2>1. k \in Nat /\ j \in 1..n /\ j \in 0..n /\ j - 1 = k /\ k \in 0..n
    BY <1>1, <1>3
  <2>2. NestsIn(s) /\ \A d \in DOMAIN s : s[d] <= k
    BY <1>3
  <2>3. s \in Seq(Nat) /\ t \in Seq(Nat)
    BY <2>1, OpenedStep
  <2>4. /\ query.items[j].kind = "edge" => t = Append(s, j)
        /\ query.items[j].kind = "close" => t = AllButLast(s)
        /\ query.items[j].kind = "tag" => t = s
        /\ query.items[j].kind \in {"edge", "tag", "close"}
    BY <1>1, <2>1, OpenedStep
  <2> HIDE DEF N
  <2>5. CASE t = s
    BY <2>1, <2>2, <2>3, <2>5 DEF N
  <2>6. CASE query.items[j].kind = "edge"
    <3>1. /\ t = Append(s, j) /\ Len(s) \in Nat /\ DOMAIN s = 1..Len(s)
          /\ DOMAIN t = 1..Len(s) + 1 /\ t[Len(s) + 1] = j
          /\ \A d \in 1..Len(s) : t[d] = s[d]
      <4>1. t = Append(s, j) /\ j \in Nat
        BY <1>1, <2>1, <2>4, <2>6
      <4> HIDE DEF j, s, t
      <4> QED BY <4>1, <2>3
    <3>2. j \in Edges
      BY <2>1, <2>6, QueryFacts DEF Edges
    <3> HIDE DEF j, s, t
    <3>3. ASSUME NEW d \in DOMAIN t
          PROVE  /\ t[d] \in Edges /\ t[d] \in 1..n /\ t[d] <= j
                 /\ Len(Opened[t[d] - 1]) = d - 1
                 /\ \A e \in 1..(d - 1) : Opened[t[d] - 1][e] = t[e]
      <4>1. CASE d = Len(s) + 1
        <5>1. t[d] = j /\ Opened[t[d] - 1] = s /\ d - 1 = Len(s)
          BY <2>1, <3>1, <4>1 DEF s
        <5> QED BY <2>1, <3>1, <3>2, <5>1
      <4>2. CASE d \in 1..Len(s)
        <5>1. d \in DOMAIN s /\ t[d] = s[d] /\ \A e \in 1..(d - 1) : t[e] = s[e]
          BY <3>1, <4>2
        <5>2. /\ s[d] \in Edges /\ s[d] \in 1..n /\ s[d] <= k
              /\ Len(Opened[s[d] - 1]) = d - 1
              /\ \A e \in 1..(d - 1) : Opened[s[d] - 1][e] = s[e]
          BY <2>2, <5>1 DEF NestsIn
        <5>3. s[d] <= j
          BY <1>1, <2>1, <5>2
        <5> QED BY <5>1, <5>2, <5>3
      <4> QED BY <3>1, <4>1, <4>2
    <3>4. NestsIn(t) /\ \A d \in DOMAIN t : t[d] <= j
      BY <3>3 DEF NestsIn
    <3> QED BY <2>1, <3>4 DEF N, j, t
  <2>7. CASE query.items[j].kind = "close"
    <3>1. t = AllButLast(s) /\ DOMAIN s = 1..Len(s) /\ Len(s) \in Nat
      BY <2>3, <2>4, <2>7
    <3>2. \A d \in DOMAIN t : d \in DOMAIN s /\ t[d] = s[d]
      BY <2>3, <3>1, AllButLastFacts
    <3>3. DOMAIN t = 1..Len(t) /\ Len(t) \in Nat
      BY <2>3
    <3> HIDE DEF j, s, t
    <3>4. ASSUME NEW d \in DOMAIN t
          PROVE  /\ t[d] \in Edges /\ t[d] \in 1..n /\ t[d] <= j
                 /\ Len(Opened[t[d] - 1]) = d - 1
                 /\ \A e \in 1..(d - 1) : Opened[t[d] - 1][e] = t[e]
      <4>1. d \in DOMAIN s /\ t[d] = s[d]
        BY <3>2
      <4>2. /\ s[d] \in Edges /\ s[d] \in 1..n /\ s[d] <= k
            /\ Len(Opened[s[d] - 1]) = d - 1
            /\ \A e \in 1..(d - 1) : Opened[s[d] - 1][e] = s[e]
        BY <2>2, <4>1 DEF NestsIn
      <4>3. s[d] <= j
        BY <1>1, <2>1, <4>2
      <4>4. \A e \in 1..(d - 1) : t[e] = s[e]
        BY <3>2, <3>3
      <4> QED BY <4>1, <4>2, <4>3, <4>4
    <3>5. NestsIn(t) /\ \A d \in DOMAIN t : t[d] <= j
      BY <3>4 DEF NestsIn
    <3> QED BY <2>1, <3>5 DEF N, j, t
  <2> QED BY <2>4, <2>5, <2>6, <2>7
<1>4. 0..n \subseteq N
  <2> HIDE DEF N
  <2> QED BY <1>1, <1>2, <1>3, BoundedInduction
<1> QED BY <1>4

\* The open edges go up from the outermost to the innermost.
LEMMA OpenFacts ==
  ASSUME query \in Queries, NEW j \in 0..Len(query.items)
  PROVE  /\ Opened[j] \in Seq(Nat) /\ Len(Opened[j]) \in Nat
         /\ DOMAIN Opened[j] = 1..Len(Opened[j])
         /\ \A d \in DOMAIN Opened[j] :
              /\ Opened[j][d] \in Edges /\ Opened[j][d] \in 1..j
              /\ \A e \in DOMAIN Opened[j] : e < d => Opened[j][e] < Opened[j][d]
<1> DEFINE s == Opened[j]
<1>1. s \in Seq(Nat) /\ Len(s) \in Nat /\ DOMAIN s = 1..Len(s)
  BY OpenedStep
<1>2. Len(query.items) \in Nat
  BY QueryFacts
<1>3. NestsIn(s) /\ \A d \in DOMAIN s : s[d] <= j
  BY OpenedNests
<1>4. ASSUME NEW d \in DOMAIN s
      PROVE  /\ s[d] \in Edges /\ s[d] \in 1..j
             /\ \A e \in DOMAIN s : e < d => s[e] < s[d]
  <2> DEFINE i == s[d]
             t == Opened[i - 1]
  <2>1. /\ i \in Edges /\ i \in 1..Len(query.items) /\ i <= j
        /\ \A e \in 1..(d - 1) : t[e] = s[e]
        /\ Len(t) = d - 1
    BY <1>3 DEF NestsIn
  <2>2. i - 1 \in 0..Len(query.items)
    BY <1>2, <2>1
  <2>3. DOMAIN t = 1..(d - 1) /\ \A e \in DOMAIN t : t[e] <= i - 1 /\ t[e] \in 1..Len(query.items)
    <3>1. t \in Seq(Nat) /\ NestsIn(t) /\ \A e \in DOMAIN t : t[e] <= i - 1
      BY <2>2, OpenedStep, OpenedNests
    <3>2. \A e \in DOMAIN t : t[e] \in 1..Len(query.items)
      BY <3>1 DEF NestsIn
    <3> QED BY <2>1, <3>1, <3>2
  <2> HIDE DEF s, i, t
  <2>4. ASSUME NEW e \in DOMAIN s, e < d PROVE s[e] < i
    <3>1. e \in DOMAIN t /\ t[e] = s[e]
      BY <1>1, <2>1, <2>3, <2>4
    <3> QED BY <1>2, <2>1, <2>3, <3>1
  <2>5. i \in 1..j
    BY <1>2, <2>1
  <2> QED BY <2>1, <2>4, <2>5 DEF i
<1> HIDE DEF s
<1> QED BY <1>1, <1>4 DEF s

\* How the set of the open edges changes with each field.
LEMMA OpenedSets ==
  ASSUME query \in Queries, NEW j \in 1..Len(query.items)
  PROVE  /\ query.items[j].kind = "edge" => ToSet(Opened[j]) = ToSet(Opened[j - 1]) \cup {j}
         /\ query.items[j].kind = "tag" => ToSet(Opened[j]) = ToSet(Opened[j - 1])
         /\ query.items[j].kind = "close" /\ Opened[j - 1] = << >> => Opened[j] = << >>
         /\ query.items[j].kind = "close" /\ Opened[j - 1] # << >> =>
              /\ ToSet(Opened[j]) = ToSet(Opened[j - 1]) \ {Last(Opened[j - 1])}
              /\ Last(Opened[j - 1]) \in ToSet(Opened[j - 1])
<1> DEFINE s == Opened[j - 1]
           t == Opened[j]
           n == Len(s)
<1>1. j \in Nat /\ j - 1 \in 0..Len(query.items)
  BY QueryFacts
<1>2. /\ s \in Seq(Nat) /\ n \in Nat /\ DOMAIN s = 1..n
      /\ \A d \in DOMAIN s : \A e \in DOMAIN s : e < d => s[e] < s[d]
      /\ \A d \in DOMAIN s : s[d] \in 1..(j - 1)
  BY <1>1, OpenFacts
<1>3. /\ query.items[j].kind = "edge" => t = Append(s, j)
      /\ query.items[j].kind = "close" => t = AllButLast(s)
      /\ query.items[j].kind = "tag" => t = s
  BY OpenedStep
<1> HIDE DEF s, t
<1>4. CASE query.items[j].kind = "edge"
  <2>1. DOMAIN t = 1..n + 1 /\ t[n + 1] = j /\ \A d \in 1..n : t[d] = s[d]
    <3>1. t = Append(s, j) /\ s \in Seq(Nat) /\ j \in Nat
      BY <1>1, <1>2, <1>3, <1>4
    <3> QED BY <3>1
  <2>2. 1..n + 1 = 1..n \cup {n + 1}
    BY <1>2
  <2>3. ToSet(t) = ToSet(s) \cup {j}
    BY <1>2, <2>1, <2>2 DEF ToSet
  <2> QED BY <1>4, <2>3 DEF s, t
<1>5. CASE query.items[j].kind = "tag"
  BY <1>3, <1>5 DEF s, t
<1>6. CASE query.items[j].kind = "close" /\ s = << >>
  <2>1. t = << >>
    <3>1. AllButLast(<< >>) = << >>
      BY DEF AllButLast
    <3> QED BY <1>3, <1>6, <3>1
  <2> QED BY <1>6, <2>1 DEF s, t
<1>7. CASE query.items[j].kind = "close" /\ s # << >>
  <2>1. n > 0 /\ n \in DOMAIN s /\ Last(s) = s[n]
    BY <1>2, <1>7, SeqFacts DEF Last
  <2>2. /\ t \in Seq(Nat) /\ Len(t) = n - 1
        /\ \A d \in DOMAIN t : d \in DOMAIN s /\ t[d] = s[d]
    BY <1>2, <1>3, <1>7, AllButLastFacts
  <2>3. DOMAIN t = 1..n - 1
    BY <2>2, SeqFacts
  <2>4. \A d \in 1..n - 1 : s[d] # s[n]
    <3>1. \A d \in 1..n - 1 : d \in DOMAIN s /\ d < n /\ s[d] \in Nat /\ s[n] \in Nat
      BY <1>2, <2>1, ElementOfSeq
    <3>2. \A d \in 1..n - 1 : s[d] < s[n]
      BY <1>2, <2>1, <3>1
    <3> QED BY <3>1, <3>2
  <2>5. 1..n = 1..n - 1 \cup {n}
    BY <1>2, <2>1
  <2>6. ToSet(t) = ToSet(s) \ {Last(s)} /\ Last(s) \in ToSet(s)
    BY <1>2, <2>1, <2>2, <2>3, <2>4, <2>5 DEF ToSet
  <2> QED BY <1>7, <2>6 DEF s, t
<1>8. query.items[j].kind \in {"edge", "tag", "close"}
  BY QueryFacts
<1> QED BY <1>4, <1>5, <1>6, <1>7, <1>8

\* As many edges are open as there were edges more than closes; at the end of the
\* query none is.
LEMMA OpenDepth ==
  ASSUME query \in Queries
  PROVE  /\ \A j \in 0..Len(query.items) - 1 :
              Len(Opened[j]) + Fields(1, j, "close") = Fields(1, j, "edge")
         /\ query.items[Len(query.items)].kind = "close"
         /\ Opened[Len(query.items) - 1] = << >> /\ Opened[Len(query.items)] = << >>
         /\ \A j \in 1..Len(query.items) :
              query.items[j].kind = "close" /\ Opened[j - 1] = << >> => j = Len(query.items)
<1> DEFINE n == Len(query.items)
           Holds(j) == Len(Opened[j]) + Fields(1, j, "close") = Fields(1, j, "edge")
           N == {j \in 0..(n - 1) : Holds(j)}
<1>1. n \in Nat /\ n > 0 /\ n - 1 \in Nat
      /\ \A j \in 1..n : query.items[j].kind \in {"edge", "tag", "close"}
  BY QueryFacts
<1>2. \A j \in 0..n : j < n <=> Fields(1, j, "close") <= Fields(1, j, "edge")
  BY QueryFacts
<1>3. \A j \in 0..n : Fields(1, j, "close") \in Nat /\ Fields(1, j, "edge") \in Nat
  BY <1>1, FieldsStep
<1>4. ASSUME NEW j \in 0..n - 1
      PROVE  /\ query.items[j + 1].kind = "edge" => /\ Fields(1, j + 1, "edge") = Fields(1, j, "edge") + 1
                                              /\ Fields(1, j + 1, "close") = Fields(1, j, "close")
             /\ query.items[j + 1].kind = "close" => /\ Fields(1, j + 1, "edge") = Fields(1, j, "edge")
                                               /\ Fields(1, j + 1, "close") = Fields(1, j, "close") + 1
             /\ query.items[j + 1].kind = "tag" => /\ Fields(1, j + 1, "edge") = Fields(1, j, "edge")
                                                /\ Fields(1, j + 1, "close") = Fields(1, j, "close")
  <2>1. j \in Nat /\ 1 <= j + 1
    BY <1>1
  <2> QED BY <2>1, FieldsStep, SMTT(30)
<1>5. ASSUME NEW j \in 0..n - 1
      PROVE  /\ Len(Opened[j]) \in Nat /\ j + 1 \in 1..n /\ j \in 0..n /\ j + 1 \in 0..n
             /\ query.items[j + 1].kind = "edge" => Len(Opened[j + 1]) = Len(Opened[j]) + 1
             /\ query.items[j + 1].kind = "close" =>
                  /\ Len(Opened[j]) # 0 => Len(Opened[j + 1]) = Len(Opened[j]) - 1
                  /\ Len(Opened[j]) = 0 => Opened[j + 1] = << >>
             /\ query.items[j + 1].kind = "tag" => Len(Opened[j + 1]) = Len(Opened[j])
  <2>1. j + 1 \in 1..n /\ j \in 0..n /\ j + 1 \in 0..n /\ (j + 1) - 1 = j
    BY <1>1
  <2>2. Opened[j] \in Seq(Nat)
    BY <2>1, OpenedStep
  <2>3. /\ query.items[j + 1].kind = "edge" => Opened[j + 1] = Append(Opened[j], j + 1)
        /\ query.items[j + 1].kind = "close" => Opened[j + 1] = AllButLast(Opened[j])
        /\ query.items[j + 1].kind = "tag" => Opened[j + 1] = Opened[j]
    <3>1. /\ query.items[j + 1].kind = "edge" => Opened[j + 1] = Append(Opened[(j + 1) - 1], j + 1)
          /\ query.items[j + 1].kind = "close" => Opened[j + 1] = AllButLast(Opened[(j + 1) - 1])
          /\ query.items[j + 1].kind = "tag" => Opened[j + 1] = Opened[(j + 1) - 1]
      BY <2>1, OpenedStep
    <3> QED BY <2>1, <3>1
  <2>4. Len(Append(Opened[j], j + 1)) = Len(Opened[j]) + 1
    BY <2>2
  <2>5. /\ Len(Opened[j]) # 0 => Len(AllButLast(Opened[j])) = Len(Opened[j]) - 1
        /\ Len(Opened[j]) = 0 => AllButLast(Opened[j]) = << >>
    <3>1. Len(Opened[j]) = 0 <=> Opened[j] = << >>
      BY <2>2, EmptySeq
    <3>2. AllButLast(<< >>) = << >>
      BY DEF AllButLast
    <3> QED BY <2>2, <3>1, <3>2, AllButLastFacts
  <2>6. Len(Opened[j]) \in Nat
    BY <2>2
  <2> QED BY <2>1, <2>3, <2>4, <2>5, <2>6
<1>6. 0 \in N
  <2>1. Fields(1, 0, "close") = 0 /\ Fields(1, 0, "edge") = 0
    BY FieldsStep
  <2>2. Len(Opened[0]) = 0 /\ 0 \in 0..n - 1
    BY <1>1, OpenedStep
  <2> QED BY <2>1, <2>2
<1>7. ASSUME NEW k \in N, k \in 0..(n - 1) - 1 PROVE k + 1 \in N
  <2>1. k \in 0..n - 1 /\ k + 1 \in 0..n - 1 /\ k + 1 \in 1..n /\ k + 1 < n /\ k + 1 \in 0..n
    BY <1>1, <1>7
  <2>2. Holds(k)
    OBVIOUS
  <2>3. Fields(1, k + 1, "close") <= Fields(1, k + 1, "edge")
    BY <1>2, <2>1
  <2>4. /\ Fields(1, k, "close") \in Nat /\ Fields(1, k, "edge") \in Nat
        /\ query.items[k + 1].kind \in {"edge", "tag", "close"}
        /\ Len(Opened[k]) \in Nat
    BY <1>1, <1>3, <1>5, <2>1
  <2>5. Holds(k + 1)
    <3>1. CASE query.items[k + 1].kind = "edge"
      BY <1>4, <1>5, <2>1, <2>2, <2>4, <3>1
    <3>2. CASE query.items[k + 1].kind = "tag"
      BY <1>4, <1>5, <2>1, <2>2, <2>4, <3>2
    <3>3. CASE query.items[k + 1].kind = "close"
      <4>1. Len(Opened[k]) # 0
        BY <1>4, <2>1, <2>2, <2>3, <2>4, <3>3
      <4>2. Len(Opened[k + 1]) = Len(Opened[k]) - 1
        BY <1>5, <2>1, <3>3, <4>1
      <4>3. /\ Fields(1, k + 1, "edge") = Fields(1, k, "edge")
            /\ Fields(1, k + 1, "close") = Fields(1, k, "close") + 1
        BY <1>4, <2>1, <3>3
      <4> QED BY <2>2, <2>4, <4>1, <4>2, <4>3, SMTT(30)
    <3> QED BY <2>4, <3>1, <3>2, <3>3
  <2> QED BY <2>1, <2>5
<1>8. \A j \in 0..n - 1 : Holds(j)
  <2>1. 0..(n - 1) \subseteq N
    <3> HIDE DEF N
    <3> QED BY <1>1, <1>6, <1>7, BoundedInduction
  <2> QED BY <2>1
<1>9. query.items[n].kind = "close" /\ Opened[n - 1] = << >> /\ Opened[n] = << >>
  <2> DEFINE j == n - 1
  <2>1. j \in 0..n - 1 /\ j + 1 = n /\ j \in 0..n /\ n \in 0..n /\ n \in 1..n
    BY <1>1
  <2>2. ~ (Fields(1, n, "close") <= Fields(1, n, "edge"))
    BY <1>1, <1>2, <2>1
  <2>3. Len(Opened[j]) + Fields(1, j, "close") = Fields(1, j, "edge")
    BY <1>8, <2>1
  <2>4. /\ Fields(1, j, "close") \in Nat /\ Fields(1, j, "edge") \in Nat
        /\ Len(Opened[j]) \in Nat /\ query.items[n].kind \in {"edge", "tag", "close"}
    BY <1>1, <1>3, <1>5, <2>1
  <2> HIDE DEF j
  <2>5. query.items[n].kind = "close" /\ Len(Opened[j]) = 0
    BY <1>4, <2>1, <2>2, <2>3, <2>4
  <2>6. Opened[j] = << >>
    BY <2>1, <2>5, OpenedStep, EmptySeq
  <2>7. Opened[n] = << >>
    BY <1>5, <2>1, <2>5
  <2> QED BY <2>5, <2>6, <2>7 DEF j
<1>10. ASSUME NEW j \in 1..n, query.items[j].kind = "close", Opened[j - 1] = << >> PROVE j = n
  <2> DEFINE i == j - 1
  <2>1. i \in 0..n - 1 /\ i + 1 = j /\ j \in 0..n
    BY <1>1
  <2>2. Len(Opened[i]) = 0
    BY <1>10
  <2>3. Fields(1, i, "close") = Fields(1, i, "edge") /\ Fields(1, i, "close") \in Nat
    <3>1. Holds(i)
      BY <1>8, <2>1
    <3>2. Fields(1, i, "close") \in Nat /\ Fields(1, i, "edge") \in Nat
      BY <1>1, <1>3, <2>1
    <3> QED BY <2>2, <3>1, <3>2
  <2>4. Fields(1, j, "close") = Fields(1, i, "close") + 1 /\ Fields(1, j, "edge") = Fields(1, i, "edge")
    BY <1>4, <1>10, <2>1
  <2> HIDE DEF i
  <2>5. ~ (j < n)
    BY <1>2, <2>1, <2>3, <2>4
  <2> QED BY <1>1, <2>5
<1> QED BY <1>8, <1>9, <1>10

\* What has been closed stays closed.
LEMMA StaysClosed ==
  ASSUME query \in Queries, NEW j \in 0..Len(query.items), NEW k \in 0..Len(query.items), NEW i \in 1..j,
         i \notin ToSet(Opened[j]), j <= k
  PROVE  i \notin ToSet(Opened[k])
<1> DEFINE n == Len(query.items)
           N == {m \in 0..n : j <= m => i \notin ToSet(Opened[m])}
<1>1. n \in Nat /\ \A m \in 1..n : query.items[m].kind \in {"edge", "tag", "close"}
  BY QueryFacts
<1>2. ASSUME NEW m \in 1..n
      PROVE  /\ ToSet(Opened[m]) \subseteq ToSet(Opened[m - 1]) \cup {m}
  <2>1. query.items[m].kind = "close" /\ Opened[m - 1] = << >> => ToSet(Opened[m]) = {}
    BY OpenedSets DEF ToSet
  <2> QED BY <1>1, <2>1, OpenedSets
<1>3. 0 \in N
  BY <1>1
<1>4. ASSUME NEW m \in N, m \in 0..n - 1 PROVE m + 1 \in N
  <2>1. m + 1 \in 1..n /\ (m + 1) - 1 = m /\ m + 1 \in 0..n
    BY <1>1, <1>4
  <2>2. ASSUME j <= m + 1 PROVE i \notin ToSet(Opened[m + 1])
    <3>1. CASE j = m + 1
      BY <3>1
    <3>2. CASE j <= m
      <4>1. i \notin ToSet(Opened[m]) /\ i # m + 1
        BY <1>1, <2>1, <3>2
      <4>2. ToSet(Opened[m + 1]) \subseteq ToSet(Opened[m]) \cup {m + 1}
        BY <1>2, <2>1
      <4> QED BY <4>1, <4>2
    <3> QED BY <1>1, <2>1, <2>2, <3>1, <3>2
  <2> QED BY <2>1, <2>2
<1>5. 0..n \subseteq N
  <2> HIDE DEF N
  <2> QED BY <1>1, <1>3, <1>4, BoundedInduction
<1> QED BY <1>5

\* The fields up to one, and from it.
LEMMA FieldsSplit ==
  ASSUME NEW i \in Nat \ {0}, NEW j \in Nat, i <= j + 1, NEW kind
  PROVE  /\ Fields(1, j, kind) = Fields(1, i - 1, kind) + Fields(i, j, kind)
         /\ Fields(1, i - 1, kind) \in Nat /\ Fields(i, j, kind) \in Nat
<1> DEFINE S == {k \in 1..(i - 1) : query.items[k].kind = kind}
           T == {k \in i..j : query.items[k].kind = kind}
           U == {k \in 1..j : query.items[k].kind = kind}
<1>1. IsFiniteSet(S) /\ IsFiniteSet(T)
  <2>1. IsFiniteSet(1..(i - 1)) /\ IsFiniteSet(i..j) /\ S \subseteq 1..(i - 1) /\ T \subseteq i..j
    BY FS_Interval
  <2> QED BY <2>1, FS_Subset
<1>2. U = S \cup T /\ S \cap T = {}
  OBVIOUS
<1> HIDE DEF S, T, U
<1>3. Cardinality(U) = Cardinality(S) + Cardinality(T) /\ Cardinality(S) \in Nat /\ Cardinality(T) \in Nat
  <2>1. Cardinality(S \cup T) = Cardinality(S) + Cardinality(T) - Cardinality(S \cap T)
    BY <1>1, FS_Union
  <2>2. Cardinality(S \cap T) = 0
    BY <1>2, FS_EmptySet
  <2>3. Cardinality(S) \in Nat /\ Cardinality(T) \in Nat
    BY <1>1, FS_CardinalityType
  <2> QED BY <1>2, <2>1, <2>2, <2>3
<1> QED BY <1>3 DEF Fields, S, T, U

-----------------------------------------------------------------------------
(* The vertices, scopes and closing fields of a query, as functions of the *)
(* fields.                                                                 *)

Vids == [i \in 0..Len(query.items) |-> VidAt(i)]
Scopes == [i \in 0..Len(query.items) |-> Scope(i)]

\* Every edge is closed by a close.
LEMMA EveryEdgeCloses ==
  ASSUME query \in Queries, NEW k \in Edges
  PROVE  \E j \in 1..Len(query.items) :
           query.items[j].kind = "close" /\ Opened[j - 1] # << >> /\ Last(Opened[j - 1]) = k
<1> SUFFICES ASSUME \A j \in 1..Len(query.items) : ~ (/\ query.items[j].kind = "close" /\ Opened[j - 1] # << >>
                                               /\ Last(Opened[j - 1]) = k)
             PROVE  FALSE
  OBVIOUS
<1> DEFINE n == Len(query.items)
           N == {m \in 0..n : k <= m => k \in ToSet(Opened[m])}
<1>1. n \in Nat /\ n > 0 /\ k \in 1..n /\ query.items[k].kind = "edge"
      /\ \A m \in 1..n : query.items[m].kind \in {"edge", "tag", "close"}
  BY QueryFacts DEF Edges
<1>2. 0 \in N
  BY <1>1
<1>3. ASSUME NEW m \in N, m \in 0..n - 1 PROVE m + 1 \in N
  <2>1. m + 1 \in 1..n /\ (m + 1) - 1 = m /\ m + 1 \in 0..n /\ m \in Nat
    BY <1>1, <1>3
  <2>2. CASE k = m + 1
    BY <1>1, <2>1, <2>2, OpenedSets
  <2>3. CASE k <= m
    <3>1. k \in ToSet(Opened[m])
      BY <2>3
    <3>2. Opened[m] # << >>
      BY <3>1 DEF ToSet
    <3>3. ~ (query.items[m + 1].kind = "close" /\ Last(Opened[m]) = k)
      BY <2>1, <3>2
    <3>4. k \in ToSet(Opened[m + 1])
      <4>1. /\ query.items[m + 1].kind = "edge" => ToSet(Opened[m + 1]) = ToSet(Opened[m]) \cup {m + 1}
            /\ query.items[m + 1].kind = "tag" => ToSet(Opened[m + 1]) = ToSet(Opened[m])
            /\ query.items[m + 1].kind = "close" /\ Opened[m] # << >> =>
                  ToSet(Opened[m + 1]) = ToSet(Opened[m]) \ {Last(Opened[m])}
        BY <2>1, OpenedSets
      <4> QED BY <1>1, <2>1, <3>1, <3>2, <3>3, <4>1
    <3> QED BY <2>1, <3>4
  <2>4. CASE ~ (k <= m + 1)
    BY <2>1, <2>4
  <2> QED BY <1>1, <2>1, <2>2, <2>3, <2>4
<1>4. 0..n \subseteq N
  <2> HIDE DEF N
  <2> QED BY <1>1, <1>2, <1>3, BoundedInduction
<1>5. k \in ToSet(Opened[n])
  BY <1>1, <1>4
<1>6. ToSet(Opened[n]) = {}
  BY OpenDepth DEF ToSet
<1> QED BY <1>5, <1>6

\* Every edge has a vertex of its own, and they go up.
LEMMA VidFacts ==
  ASSUME query \in Queries
  PROVE  /\ Vids[0] = RootVid
         /\ \A i \in 0..Len(query.items) : Vids[i] \in Nat /\ Vids[i] > 0 /\ VidAt(i) = Vids[i]
         /\ \A i \in 1..Len(query.items) :
              Vids[i] = IF query.items[i].kind = "edge" THEN Vids[i - 1] + 1 ELSE Vids[i - 1]
         /\ \A j \in Edges : /\ j \in 1..Len(query.items) /\ query.items[j].kind = "edge"
                             /\ \A i \in 0..Len(query.items) : i < j => Vids[i] < Vids[j]
<1> DEFINE n == Len(query.items)
           V(i) == RootVid + Fields(1, i, "edge")
<1>1. n \in Nat /\ DOMAIN query.items = 1..n
  BY QueryFacts
<1>2. \A i : VidAt(i) = V(i)
  BY DEF VidAt, Fields
<1>3. \A i \in 0..n : Vids[i] = V(i)
  BY <1>2 DEF Vids
<1>4. \A i \in 0..n : Fields(1, i, "edge") \in Nat
  BY <1>1, FieldsStep
<1>5. V(0) = RootVid
  <2>1. Fields(1, 0, "edge") = 0
    BY FieldsStep
  <2> QED BY <2>1 DEF RootVid
<1>6. ASSUME NEW i \in 1..n
      PROVE  Vids[i] = IF query.items[i].kind = "edge" THEN Vids[i - 1] + 1 ELSE Vids[i - 1]
  <2> DEFINE k == i - 1
  <2>1. k \in Nat /\ k \in 0..n /\ k + 1 = i /\ 1 <= k + 1 /\ i \in 0..n
    BY <1>1
  <2> HIDE DEF k
  <2>2. Fields(1, k + 1, "edge") = IF query.items[k + 1].kind = "edge" THEN Fields(1, k, "edge") + 1
                                   ELSE Fields(1, k, "edge")
    BY <2>1, FieldsStep
  <2>3. Vids[i] = IF query.items[i].kind = "edge" THEN Vids[k] + 1 ELSE Vids[k]
    BY <1>3, <1>4, <2>1, <2>2 DEF RootVid
  <2> QED BY <2>3 DEF k
<1>7. ASSUME NEW j \in Edges
      PROVE  /\ j \in 1..n /\ query.items[j].kind = "edge"
             /\ \A i \in 0..n : i < j => Vids[i] < Vids[j]
  <2>1. j \in 1..n /\ query.items[j].kind = "edge"
    BY <1>1 DEF Edges
  <2>2. ASSUME NEW i \in 0..n, i < j PROVE Vids[i] < Vids[j]
    <3> DEFINE k == j - 1
               m == i + 1
    <3>1. k \in Nat /\ k \in 0..n /\ m \in Nat \ {0} /\ m <= k + 1 /\ m - 1 = i /\ 0 \in 0..n
      BY <1>1, <2>1, <2>2
    <3>2. Vids[j] = Vids[k] + 1
      BY <1>6, <2>1
    <3> HIDE DEF k, m
    <3>3. /\ Fields(1, k, "edge") = Fields(1, i, "edge") + Fields(m, k, "edge")
          /\ Fields(m, k, "edge") \in Nat
      <4>1. /\ Fields(1, k, "edge") = Fields(1, m - 1, "edge") + Fields(m, k, "edge")
            /\ Fields(m, k, "edge") \in Nat
        BY <3>1, FieldsSplit
      <4> QED BY <3>1, <4>1
    <3>4. Vids[i] = V(i) /\ Vids[k] = V(k)
      BY <1>3, <3>1
    <3> QED BY <1>4, <3>1, <3>2, <3>3, <3>4 DEF RootVid
  <2> QED BY <2>1, <2>2
<1>8. \A i \in 0..n : Vids[i] \in Nat /\ Vids[i] > 0 /\ VidAt(i) = Vids[i]
  BY <1>2, <1>3, <1>4 DEF RootVid
<1>9. Vids[0] = RootVid
  <2>1. 0 \in 0..n
    BY <1>1
  <2> QED BY <1>3, <1>5, <2>1
<1> QED BY <1>6, <1>7, <1>8, <1>9

\* Different edges have different vertices, and none has the root's.
LEMMA VidsDiffer ==
  ASSUME query \in Queries
  PROVE  /\ \A i, j \in Edges : Vids[i] = Vids[j] => i = j
         /\ \A i \in Edges : Vids[i] # RootVid /\ Vids[i] > RootVid
         /\ \A i, j \in Edges : Vids[i] <= Vids[j] => i <= j
<1>1. Len(query.items) \in Nat /\ 0 \in 0..Len(query.items)
  BY QueryFacts
<1>2. ASSUME NEW i \in Edges, NEW j \in Edges
      PROVE  /\ i \in 1..Len(query.items) /\ j \in 1..Len(query.items)
             /\ Vids[i] \in Nat /\ Vids[j] \in Nat
             /\ i < j => Vids[i] < Vids[j]
             /\ j < i => Vids[j] < Vids[i]
             /\ Vids[0] < Vids[i] /\ Vids[0] = RootVid
  <2>1. i \in 1..Len(query.items) /\ j \in 1..Len(query.items)
    BY VidFacts
  <2>2. i \in 0..Len(query.items) /\ j \in 0..Len(query.items) /\ 0 < i
    BY <1>1, <2>1
  <2>3. Vids[i] \in Nat /\ Vids[j] \in Nat /\ Vids[0] = RootVid
    BY <2>2, VidFacts
  <2>4. (i < j => Vids[i] < Vids[j]) /\ (j < i => Vids[j] < Vids[i]) /\ Vids[0] < Vids[i]
    BY <1>1, <2>2, VidFacts
  <2> QED BY <2>1, <2>3, <2>4
<1>3. ASSUME NEW i \in Edges, NEW j \in Edges PROVE Vids[i] <= Vids[j] => i <= j
  <2>1. i \in Int /\ j \in Int
    BY <1>1, <1>2
  <2> QED BY <1>2, <2>1
<1>4. ASSUME NEW i \in Edges, NEW j \in Edges PROVE Vids[i] = Vids[j] => i = j
  <2>1. i \in Int /\ j \in Int
    BY <1>1, <1>2
  <2> QED BY <1>2, <2>1
<1>5. ASSUME NEW i \in Edges PROVE Vids[i] # RootVid /\ Vids[i] > RootVid
  BY <1>2 DEF RootVid
<1> QED BY <1>3, <1>4, <1>5

\* Nothing is open, or the innermost edge is.
LEMMA InnermostIs ==
  ASSUME query \in Queries, NEW j \in 0..Len(query.items)
  PROVE  /\ Innermost(Opened[j]) = 0 <=> Opened[j] = << >>
         /\ Opened[j] # << >> => /\ Innermost(Opened[j]) = Last(Opened[j])
                                 /\ Innermost(Opened[j]) \in ToSet(Opened[j])
                                 /\ Innermost(Opened[j]) \in Edges /\ Innermost(Opened[j]) \in 1..j
<1> DEFINE s == Opened[j]
<1>1. s \in Seq(Nat) /\ DOMAIN s = 1..Len(s) /\ Len(s) \in Nat
  BY OpenFacts
<1>2. CASE s # << >>
  <2>1. Len(s) \in DOMAIN s
    BY <1>1, <1>2, SeqFacts
  <2>2. Last(s) = s[Len(s)] /\ Last(s) \in ToSet(s)
    BY <2>1 DEF Last, ToSet
  <2>3. Last(s) \in Edges /\ Last(s) \in 1..j
    BY <2>1, <2>2, OpenFacts
  <2>4. Last(s) # 0
    BY <2>3, QueryFacts
  <2> QED BY <1>2, <2>2, <2>3, <2>4 DEF Innermost
<1> QED BY <1>2 DEF Innermost

\* A close closes what is innermost, and nothing else is closed by it.
LEMMA Closes ==
  ASSUME query \in Queries, NEW j \in 1..Len(query.items), query.items[j].kind = "close"
  PROVE  /\ ClosedBy(Innermost(Opened[j - 1])) = j
         /\ \A i : ClosedBy(i) = j /\ (i = 0 \/ i \in Edges) => i = Innermost(Opened[j - 1])
<1> DEFINE Closing(k, i) == query.items[k].kind = "close" /\ Innermost(Opened[k - 1]) = i
<1>1. Len(query.items) \in Nat /\ DOMAIN query.items = 1..Len(query.items)
  BY QueryFacts
<1>2. ASSUME NEW k \in 1..Len(query.items), NEW l \in 1..Len(query.items), k < l, NEW i,
             Closing(k, i), Closing(l, i)
      PROVE  FALSE
  <2>1. k - 1 \in 0..Len(query.items) /\ l - 1 \in 0..Len(query.items) /\ k <= l - 1
        /\ k \in 0..Len(query.items)
    BY <1>1, <1>2
  <2>2. CASE Opened[k - 1] = << >>
    <3>1. k = Len(query.items)
      BY <1>2, <2>2, OpenDepth
    <3> QED BY <1>1, <1>2, <3>1
  <2>3. CASE Opened[k - 1] # << >>
    <3>1. i = Last(Opened[k - 1]) /\ i \in 1..k - 1 /\ i # 0
      BY <1>1, <1>2, <2>1, <2>3, InnermostIs
    <3>2. i \notin ToSet(Opened[k])
      BY <1>2, <2>3, <3>1, OpenedSets
    <3>3. i \in 1..k
      BY <1>1, <3>1
    <3>4. i \notin ToSet(Opened[l - 1])
      BY <2>1, <3>2, <3>3, StaysClosed
    <3>5. i \in ToSet(Opened[l - 1])
      BY <1>2, <2>1, <3>1, InnermostIs
    <3> QED BY <3>4, <3>5
  <2> QED BY <2>2, <2>3
<1>3. ASSUME NEW k \in 1..Len(query.items), NEW l \in 1..Len(query.items), NEW i,
             Closing(k, i), Closing(l, i)
      PROVE  k = l
  <2>1. k < l \/ l < k \/ k = l
    BY <1>1
  <2> HIDE DEF Closing
  <2> QED BY <1>2, <1>3, <2>1
<1>4. \A i : ClosedBy(i) = CHOOSE k \in 1..Len(query.items) : Closing(k, i)
  BY <1>1 DEF ClosedBy
<1>5. ASSUME NEW i, NEW k \in 1..Len(query.items), Closing(k, i)
      PROVE  ClosedBy(i) \in 1..Len(query.items) /\ Closing(ClosedBy(i), i)
  <2> HIDE DEF Closing
  <2> QED BY <1>4, <1>5
<1>6. Closing(j, Innermost(Opened[j - 1]))
  OBVIOUS
<1>7. ClosedBy(Innermost(Opened[j - 1])) = j
  <2> HIDE DEF Closing
  <2> QED BY <1>3, <1>5, <1>6
<1>8. ASSUME NEW i, ClosedBy(i) = j, i = 0 \/ i \in Edges
      PROVE  i = Innermost(Opened[j - 1])
  <2>1. \E k \in 1..Len(query.items) : Closing(k, i)
    <3>1. CASE i = 0
      <4>1. /\ query.items[Len(query.items)].kind = "close" /\ Opened[Len(query.items) - 1] = << >>
            /\ Len(query.items) \in 1..Len(query.items)
        BY <1>1, OpenDepth, QueryFacts
      <4> QED BY <3>1, <4>1 DEF Innermost
    <3>2. CASE i \in Edges
      <4>1. PICK k \in 1..Len(query.items) : query.items[k].kind = "close" /\ Opened[k - 1] # << >>
                                             /\ Last(Opened[k - 1]) = i
        BY <3>2, EveryEdgeCloses
      <4> QED BY <4>1 DEF Innermost
    <3> QED BY <1>8, <3>1, <3>2
  <2>2. Closing(ClosedBy(i), i)
    BY <1>5, <2>1
  <2> QED BY <1>8, <2>2
<1> QED BY <1>7, <1>8

\* The scope of a field are the folds among the open edges.
LEMMA ScopeIs ==
  ASSUME query \in Queries, NEW j \in 0..Len(query.items)
  PROVE  /\ Scopes[j] = {i \in ToSet(Opened[j]) : i \in Folds} /\ Scopes[j] = Scope(j)
         /\ \A i \in Scopes[j] : i \in Folds /\ i \in Edges /\ i \in 1..j
<1>1. Scopes[j] = Scope(j)
  BY DEF Scopes
<1>2. \A i \in ToSet(Opened[j]) : i \in 1..j /\ i \in Edges
  BY OpenFacts DEF ToSet
<1> QED BY <1>1, <1>2 DEF Scope

\* How the scope changes with each field.
LEMMA ScopeStep ==
  ASSUME query \in Queries, NEW j \in 1..Len(query.items)
  PROVE  /\ query.items[j].kind = "edge" =>
              Scopes[j] = IF query.items[j].fold THEN Scopes[j - 1] \cup {j} ELSE Scopes[j - 1]
         /\ query.items[j].kind = "tag" => Scopes[j] = Scopes[j - 1]
         /\ query.items[j].kind = "close" => Scopes[j] = Scopes[j - 1] \ {Innermost(Opened[j - 1])}
<1>1. /\ j \in 0..Len(query.items) /\ j - 1 \in 0..Len(query.items)
      /\ DOMAIN query.items = 1..Len(query.items) /\ j # 0
  BY QueryFacts
<1>2. /\ Scopes[j] = {i \in ToSet(Opened[j]) : i \in Folds}
      /\ Scopes[j - 1] = {i \in ToSet(Opened[j - 1]) : i \in Folds}
      /\ \A i \in Scopes[j - 1] : i \in 1..j - 1
  BY <1>1, ScopeIs
<1>3. CASE query.items[j].kind = "edge"
  <2>1. ToSet(Opened[j]) = ToSet(Opened[j - 1]) \cup {j}
    BY <1>3, OpenedSets
  <2>2. j \in Folds <=> query.items[j].fold
    BY <1>1, <1>3 DEF Folds, Edges
  <2> QED BY <1>2, <1>3, <2>1, <2>2
<1>4. CASE query.items[j].kind = "tag"
  BY <1>2, <1>4, OpenedSets
<1>5. CASE query.items[j].kind = "close"
  <2>1. CASE Opened[j - 1] = << >>
    <3>1. Opened[j] = << >> /\ Innermost(Opened[j - 1]) = 0
      BY <1>5, <2>1, OpenedSets DEF Innermost
    <3>2. Scopes[j - 1] = {} /\ Scopes[j] = {}
      BY <1>2, <2>1, <3>1 DEF ToSet
    <3> QED BY <1>5, <3>2
  <2>2. CASE Opened[j - 1] # << >>
    <3>1. ToSet(Opened[j]) = ToSet(Opened[j - 1]) \ {Last(Opened[j - 1])}
      BY <1>5, <2>2, OpenedSets
    <3>2. Innermost(Opened[j - 1]) = Last(Opened[j - 1])
      BY <2>2 DEF Innermost
    <3> QED BY <1>2, <1>5, <3>1, <3>2
  <2> QED BY <2>1, <2>2
<1> QED BY <1>3, <1>4, <1>5

\* The scope of an open edge is what is open outside of it.
LEMMA OuterEdges ==
  ASSUME query \in Queries, NEW j \in 0..Len(query.items), NEW i \in ToSet(Opened[j])
  PROVE  /\ i \in Edges /\ i \in 1..j /\ i \in 1..Len(query.items) /\ i - 1 \in 0..Len(query.items)
         /\ ToSet(Opened[i - 1]) = {e \in ToSet(Opened[j]) : e < i}
<1> DEFINE s == Opened[j]
           t == Opened[i - 1]
<1>1. PICK d \in DOMAIN s : i = s[d]
  BY DEF ToSet
<1>2. Len(query.items) \in Nat
  BY QueryFacts
<1>3. i \in Edges /\ i \in 1..j /\ i \in 1..Len(query.items) /\ i - 1 \in 0..Len(query.items)
  <2>1. i \in Edges /\ i \in 1..j
    BY <1>1, OpenFacts
  <2> QED BY <1>2, <2>1
<1>4. /\ DOMAIN s = 1..Len(s) /\ Len(s) \in Nat
      /\ \A e, f \in DOMAIN s : e < f => s[e] < s[f]
      /\ \A e \in DOMAIN s : s[e] \in Nat
  <2>1. /\ DOMAIN s = 1..Len(s) /\ Len(s) \in Nat
        /\ \A e, f \in DOMAIN s : e < f => s[e] < s[f]
        /\ \A e \in DOMAIN s : s[e] \in 1..j
    BY OpenFacts
  <2> QED BY <2>1
<1>5. Len(t) = d - 1 /\ \A e \in 1..(d - 1) : t[e] = s[e]
  BY <1>1, OpenedNests DEF NestsIn
<1>6. DOMAIN t = 1..(d - 1)
  BY <1>3, <1>5, OpenFacts
<1> HIDE DEF s, t
<1>7. ASSUME NEW e \in DOMAIN s PROVE s[e] < i <=> e \in 1..(d - 1)
  <2>1. e < d \/ e = d \/ d < e
    BY <1>4
  <2>2. e < d => s[e] < i
    BY <1>1, <1>4
  <2>3. d < e => i < s[e]
    BY <1>1, <1>4
  <2> QED BY <1>1, <1>4, <2>1, <2>2, <2>3
<1>8. \A e \in 1..(d - 1) : e \in DOMAIN s
  BY <1>4
<1>9. ASSUME NEW x PROVE x \in ToSet(t) <=> x \in ToSet(s) /\ x < i
  <2>1. x \in ToSet(t) <=> \E e \in 1..(d - 1) : x = s[e]
    BY <1>5, <1>6 DEF ToSet
  <2>2. x \in ToSet(s) <=> \E e \in DOMAIN s : x = s[e]
    BY DEF ToSet
  <2>3. x \in ToSet(t) => x \in ToSet(s) /\ x < i
    BY <1>7, <1>8, <2>1, <2>2
  <2>4. x \in ToSet(s) /\ x < i => x \in ToSet(t)
    BY <1>7, <1>8, <2>1, <2>2
  <2> QED BY <2>3, <2>4
<1>10. ToSet(t) = {e \in ToSet(s) : e < i}
  BY <1>9
<1> QED BY <1>3, <1>10 DEF s, t

\* The folds around an open fold are the open ones before it.
LEMMA OuterFolds ==
  ASSUME query \in Queries, NEW j \in 0..Len(query.items), NEW i \in Scopes[j]
  PROVE  /\ i \in Folds /\ i \in 1..j /\ i \in 1..Len(query.items) /\ i - 1 \in 0..Len(query.items)
         /\ Scopes[i - 1] = {f \in Scopes[j] : f < i}
         /\ Scopes[i] = {f \in Scopes[j] : f <= i}
         /\ i \in Scopes[i] /\ i \notin Scopes[i - 1]
<1>1. i \in Folds /\ i \in ToSet(Opened[j]) /\ Scopes[j] = {f \in ToSet(Opened[j]) : f \in Folds}
  BY ScopeIs
<1>2. /\ i \in Edges /\ i \in 1..j /\ i \in 1..Len(query.items) /\ i - 1 \in 0..Len(query.items)
      /\ ToSet(Opened[i - 1]) = {e \in ToSet(Opened[j]) : e < i}
  BY <1>1, OuterEdges
<1>3. Scopes[i - 1] = {f \in ToSet(Opened[i - 1]) : f \in Folds}
  BY <1>2, ScopeIs
<1>4. Scopes[i - 1] = {f \in Scopes[j] : f < i}
  BY <1>1, <1>2, <1>3
<1>5. Scopes[i] = Scopes[i - 1] \cup {i}
  BY <1>1, <1>2, ScopeStep DEF Folds, Edges
<1>6. \A f \in Scopes[j] : f \in Nat /\ i \in Nat
  BY ScopeIs
<1>7. Scopes[i] = {f \in Scopes[j] : f <= i}
  BY <1>4, <1>5, <1>6
<1>8. i \notin Scopes[i - 1]
  BY <1>4, <1>6
<1> QED BY <1>1, <1>2, <1>4, <1>5, <1>7, <1>8

\* What a close closes, and the scopes inside and outside of it.
LEMMA AtTheClose ==
  ASSUME query \in Queries, NEW j \in 1..Len(query.items), query.items[j].kind = "close"
  PROVE  LET k == Innermost(Opened[j - 1])
         IN  /\ k \in 0..j - 1 /\ k \in 0..Len(query.items)
             /\ k = 0 <=> j = Len(query.items)
             /\ Scopes[k] = Scopes[j - 1]
             /\ k # 0 => k \in Edges /\ k - 1 \in 0..Len(query.items) /\ Scopes[k - 1] = Scopes[j]
             /\ \A i \in Scopes[j - 1] : i <= k
<1> DEFINE k == Innermost(Opened[j - 1])
           s == Opened[j - 1]
<1>1. Len(query.items) \in Nat /\ j - 1 \in 0..Len(query.items) /\ j \in 0..Len(query.items)
  BY QueryFacts
<1>2. CASE s = << >>
  <2>1. k = 0 /\ j = Len(query.items)
    BY <1>1, <1>2, InnermostIs, OpenDepth
  <2>2. Scopes[j - 1] = {}
    BY <1>1, <1>2, ScopeIs DEF ToSet
  <2>3. 0 \in 0..Len(query.items) /\ Opened[0] = << >>
    BY <1>1, OpenedStep
  <2>4. Scopes[0] = {}
    BY <2>3, ScopeIs DEF ToSet
  <2> QED BY <1>1, <2>1, <2>2, <2>4
<1>3. CASE s # << >>
  <2>1. k = Last(s) /\ k \in ToSet(s) /\ k \in Edges /\ k \in 1..j - 1
    BY <1>1, <1>3, InnermostIs
  <2>2. /\ k \in 0..j - 1 /\ k # 0 /\ k \in 1..Len(query.items) /\ k \in 0..Len(query.items)
        /\ k - 1 \in 0..Len(query.items)
    BY <1>1, <2>1
  <2>3. j # Len(query.items)
    BY <1>3, OpenDepth
  <2>4. \A e \in ToSet(s) : e <= k /\ e \in Nat
    <3>1. /\ s \in Seq(Nat) /\ DOMAIN s = 1..Len(s) /\ Len(s) \in Nat
          /\ \A d, e \in DOMAIN s : e < d => s[e] < s[d]
      BY <1>1, OpenFacts
    <3>2. k = s[Len(s)] /\ Len(s) \in DOMAIN s
      BY <1>3, <2>1, <3>1, SeqFacts DEF Last
    <3>3. \A d \in DOMAIN s : s[d] \in Nat /\ (d < Len(s) \/ d = Len(s))
      BY <3>1
    <3> HIDE DEF s, k
    <3>4. ASSUME NEW d \in DOMAIN s PROVE s[d] <= k /\ s[d] \in Nat
      BY <3>1, <3>2, <3>3
    <3> QED BY <3>4 DEF ToSet
  <2>5. ToSet(Opened[k - 1]) = {e \in ToSet(s) : e < k}
    BY <1>1, <2>1, OuterEdges
  <2>6. ToSet(Opened[j]) = ToSet(s) \ {k}
    BY <1>3, <2>1, OpenedSets
  <2> HIDE DEF s, k
  <2>7. ToSet(Opened[k - 1]) = ToSet(Opened[j])
    BY <2>2, <2>4, <2>5, <2>6
  <2>8. ToSet(Opened[k]) = ToSet(s)
    <3>1. ToSet(Opened[k]) = ToSet(Opened[k - 1]) \cup {k}
      BY <2>1, <2>2, OpenedSets DEF Edges
    <3> QED BY <2>1, <2>6, <2>7, <3>1
  <2>9. Scopes[k] = Scopes[j - 1]
    BY <1>1, <2>2, <2>8, ScopeIs DEF s
  <2>10. Scopes[k - 1] = Scopes[j]
    BY <1>1, <2>2, <2>7, ScopeIs
  <2>11. \A i \in Scopes[j - 1] : i <= k
    BY <1>1, <2>4, ScopeIs DEF s
  <2> QED BY <2>1, <2>2, <2>3, <2>9, <2>10, <2>11 DEF k
<1> QED BY <1>2, <1>3

\* Where what an edge, or the root, opens is closed.
LEMMA ClosedByIs ==
  ASSUME query \in Queries, NEW i \in {0} \cup Edges
  PROVE  /\ ClosedBy(i) \in 1..Len(query.items) /\ query.items[ClosedBy(i)].kind = "close"
         /\ Innermost(Opened[ClosedBy(i) - 1]) = i /\ i < ClosedBy(i)
<1>1. Len(query.items) \in Nat
  BY QueryFacts
<1>2. \E k \in 1..Len(query.items) : query.items[k].kind = "close" /\ Innermost(Opened[k - 1]) = i
  <2>1. CASE i = 0
    <3>1. /\ query.items[Len(query.items)].kind = "close" /\ Opened[Len(query.items) - 1] = << >>
          /\ Len(query.items) \in 1..Len(query.items)
      BY <1>1, OpenDepth, QueryFacts
    <3> QED BY <2>1, <3>1 DEF Innermost
  <2>2. CASE i \in Edges
    <3>1. PICK k \in 1..Len(query.items) : query.items[k].kind = "close" /\ Opened[k - 1] # << >>
                                           /\ Last(Opened[k - 1]) = i
      BY <2>2, EveryEdgeCloses
    <3> QED BY <3>1 DEF Innermost
  <2> QED BY <2>1, <2>2
<1>3. PICK k \in 1..Len(query.items) : query.items[k].kind = "close" /\ Innermost(Opened[k - 1]) = i
  BY <1>2
<1>4. ClosedBy(i) = k
  BY <1>3, Closes
<1>5. i \in 0..k - 1
  BY <1>3, AtTheClose
<1> QED BY <1>1, <1>3, <1>4, <1>5

-----------------------------------------------------------------------------
(* The tags of a query, by the fields they are defined at.                 *)

TagDef(i) ==
  [name |-> query.items[i].name, vid |-> VidAt(Innermost(Opened[i])), scope |-> Scope(i), time |-> i]

CountDef(i) ==
  [name |-> query.count[VidAt(i)], vid |-> VidAt(i), scope |-> Scope(i - 1), time |-> ClosedBy(i)]

Counted == {i \in Folds : VidAt(i) \in DOMAIN query.count}

\* A definition is a tag's or a count's.
LEMMA DefinitionsAre ==
  /\ \A d : d \in Definitions <=> \/ \E i \in DOMAIN query.items : query.items[i].kind = "tag" /\ d = TagDef(i)
                                  \/ \E i \in Counted : d = CountDef(i)
  /\ \A i : /\ TagDef(i).time = i /\ TagDef(i).scope = Scope(i) /\ TagDef(i).name = query.items[i].name
            /\ TagDef(i).vid = VidAt(Innermost(Opened[i]))
  /\ \A i : /\ CountDef(i).time = ClosedBy(i) /\ CountDef(i).scope = Scope(i - 1)
            /\ CountDef(i).name = query.count[VidAt(i)] /\ CountDef(i).vid = VidAt(i)
BY DEF Definitions, TagDef, CountDef, Counted

\* Those that come before a field, and at it.
Before(S, time) == {d \in S : d.time < time}
DefsAt == [j \in 1..Len(query.items) |->
             CASE query.items[j].kind = "tag" -> {TagDef(j)}
               [] query.items[j].kind = "close" ->
                    (IF Innermost(Opened[j - 1]) \in Counted THEN {CountDef(Innermost(Opened[j - 1]))} ELSE {})
               [] query.items[j].kind = "edge" -> {}]

\* Every definition has its time, and a scope of folds that were open by then.
LEMMA DefinitionFacts ==
  ASSUME query \in Queries
  PROVE  \A d \in Definitions :
           /\ d.time \in 1..Len(query.items)
           /\ d \in DefsAt[d.time]
           /\ \A i \in d.scope : i \in Folds /\ i \in 1..d.time - 1
<1>1. Len(query.items) \in Nat /\ DOMAIN query.items = 1..Len(query.items)
  BY QueryFacts
<1>2. ASSUME NEW i \in DOMAIN query.items, query.items[i].kind = "tag"
      PROVE  LET d == TagDef(i)
             IN  /\ d.time \in 1..Len(query.items) /\ d \in DefsAt[d.time]
                 /\ \A k \in d.scope : k \in Folds /\ k \in 1..d.time - 1
  <2>1. TagDef(i).time = i /\ TagDef(i).scope = Scope(i) /\ i \in 1..Len(query.items)
        /\ i \in 0..Len(query.items)
    BY <1>1, DefinitionsAre
  <2>2. DefsAt[i] = {TagDef(i)}
    BY <1>2, <2>1 DEF DefsAt
  <2>3. ASSUME NEW k \in Scope(i) PROVE k \in Folds /\ k \in 1..i - 1
    <3>1. k \in Folds /\ k \in 1..i /\ query.items[k].kind = "edge"
      BY <2>1, ScopeIs DEF Folds, Edges
    <3>2. k # i
      BY <1>2, <3>1
    <3> QED BY <1>1, <2>1, <3>1, <3>2
  <2> HIDE DEF TagDef
  <2> QED BY <2>1, <2>2, <2>3
<1>3. ASSUME NEW i \in Counted
      PROVE  LET d == CountDef(i)
             IN  /\ d.time \in 1..Len(query.items) /\ d \in DefsAt[d.time]
                 /\ \A k \in d.scope : k \in Folds /\ k \in 1..d.time - 1
  <2>1. CountDef(i).time = ClosedBy(i) /\ CountDef(i).scope = Scope(i - 1)
    BY DefinitionsAre
  <2>2. i \in Folds /\ i \in Edges /\ i \in 1..Len(query.items) /\ i - 1 \in 0..Len(query.items)
    BY <1>1 DEF Counted, Folds, Edges
  <2>3. /\ ClosedBy(i) \in 1..Len(query.items) /\ query.items[ClosedBy(i)].kind = "close"
        /\ Innermost(Opened[ClosedBy(i) - 1]) = i /\ i < ClosedBy(i)
    BY <2>2, ClosedByIs
  <2>4. DefsAt[ClosedBy(i)] = {CountDef(i)}
    BY <2>3 DEF DefsAt
  <2>5. ASSUME NEW k \in Scope(i - 1) PROVE k \in Folds /\ k \in 1..ClosedBy(i) - 1
    <3>1. k \in Folds /\ k \in 1..i - 1
      BY <2>2, ScopeIs
    <3> QED BY <1>1, <2>2, <2>3, <3>1
  <2> HIDE DEF CountDef
  <2> QED BY <2>1, <2>3, <2>4, <2>5
<1>4. ASSUME NEW d \in Definitions
      PROVE  \/ \E i \in DOMAIN query.items : query.items[i].kind = "tag" /\ d = TagDef(i)
             \/ \E i \in Counted : d = CountDef(i)
  BY DefinitionsAre
<1> QED BY <1>2, <1>3, <1>4

\* How the definitions grow with each field.
LEMMA DefsStep ==
  ASSUME query \in Queries, NEW j \in 1..Len(query.items)
  PROVE  /\ Before(Definitions, j + 1) = Before(Definitions, j) \cup DefsAt[j]
         /\ DefsAt[j] \cap Before(Definitions, j) = {}
         /\ DefsAt[j] \subseteq Definitions /\ \A d, e \in DefsAt[j] : d = e
         /\ \A d \in DefsAt[j] : d.time = j
<1>1. Len(query.items) \in Nat /\ DOMAIN query.items = 1..Len(query.items) /\ j \in Nat
  BY QueryFacts
<1>2. query.items[j].kind \in {"edge", "tag", "close"}
  BY QueryFacts
<1>3. DefsAt[j] \subseteq Definitions /\ (\A d, e \in DefsAt[j] : d = e) /\ \A d \in DefsAt[j] : d.time = j
  <2>1. CASE query.items[j].kind = "tag"
    <3>1. DefsAt[j] = {TagDef(j)}
      BY <2>1 DEF DefsAt
    <3> QED BY <1>1, <2>1, <3>1, DefinitionsAre
  <2>2. CASE query.items[j].kind = "close"
    <3> DEFINE k == Innermost(Opened[j - 1])
    <3>1. DefsAt[j] = IF k \in Counted THEN {CountDef(k)} ELSE {}
      BY <2>2 DEF DefsAt
    <3>2. ClosedBy(k) = j
      BY <2>2, Closes
    <3> QED BY <3>1, <3>2, DefinitionsAre
  <2>3. CASE query.items[j].kind = "edge"
    <3>1. DefsAt[j] = {}
      BY <2>3 DEF DefsAt
    <3> QED BY <3>1
  <2> QED BY <1>2, <2>1, <2>2, <2>3
<1>4. ASSUME NEW d \in Definitions, d.time < j + 1 PROVE d.time < j \/ d \in DefsAt[j]
  <2>1. d.time \in Nat /\ d \in DefsAt[d.time]
    BY <1>1, DefinitionFacts
  <2> QED BY <1>1, <1>4, <2>1
<1>5. \A d \in Definitions : d.time \in Nat
  BY <1>1, DefinitionFacts
<1> QED BY <1>1, <1>3, <1>4, <1>5 DEF Before

-----------------------------------------------------------------------------
(* The uses of tags in a query, by the closes at which they are looked at. *)

Use1(use, scope, time) == [use |-> use, scope |-> scope, time |-> time]
FilterList(i) == Of(query.filters, VidAt(i))
PostList(i) == Of(query.post, VidAt(i))

\* The filters of the query are lists of uses.
LEMMA ListsOfUses ==
  ASSUME query \in Queries, NEW v
  PROVE  Of(query.filters, v) \in Seq(Use) /\ Of(query.post, v) \in Seq(Use)
<1>1. << >> \in Seq(Use)
  OBVIOUS
<1>2. /\ \A w \in DOMAIN query.filters : query.filters[w] \in Seq(Use)
      /\ \A w \in DOMAIN query.post : query.post[w] \in Seq(Use)
  BY QueriesAreQueries
<1> QED BY <1>1, <1>2 DEF Of

\* A use is one of the filters of a component or of a fold's count.
LEMMA UsesAre ==
  /\ \A u : u \in Uses <=> \/ \E i \in {0} \cup Folds : u \in FilterUses(i)
                           \/ \E i \in Folds : u \in PostUses(i)
  /\ \A i : FilterUses(i) = UsesIn(FilterList(i), Scope(i), ClosedBy(i))
  /\ \A i : PostUses(i) = UsesIn(PostList(i), Scope(i - 1), ClosedBy(i))
  /\ \A i : \A u \in FilterUses(i) : u.scope = Scope(i) /\ u.time = ClosedBy(i)
  /\ \A i : \A u \in PostUses(i) : u.scope = Scope(i - 1) /\ u.time = ClosedBy(i)
<1>1. \A u : u \in Uses <=> \/ \E i \in {0} \cup Folds : u \in FilterUses(i)
                            \/ \E i \in Folds : u \in PostUses(i)
  BY DEF Uses
<1>2. \A list, scope, time : \A u \in UsesIn(list, scope, time) : u.scope = scope /\ u.time = time
  BY DEF UsesIn
<1> QED BY <1>1, <1>2 DEF FilterUses, PostUses, FilterList, PostList

\* Those that are looked at when a field has been seen.
UsesAt == [j \in 1..Len(query.items) |->
             IF query.items[j].kind = "close" /\ Innermost(Opened[j - 1]) \in {0} \cup Folds
               THEN FilterUses(Innermost(Opened[j - 1]))
                      \cup (IF Innermost(Opened[j - 1]) \in Folds THEN PostUses(Innermost(Opened[j - 1]))
                                                                 ELSE {})
               ELSE {}]

\* Every use has its time.
LEMMA UseFacts ==
  ASSUME query \in Queries
  PROVE  \A u \in Uses : u.time \in 1..Len(query.items) /\ u \in UsesAt[u.time]
<1>1. \A i \in Folds : i \in Edges /\ i \in {0} \cup Edges /\ i \in {0} \cup Folds
  BY DEF Folds
<1>2. ASSUME NEW u, NEW i \in {0} \cup Folds, u \in FilterUses(i)
      PROVE  u.time \in 1..Len(query.items) /\ u \in UsesAt[u.time]
  <2>1. u.time = ClosedBy(i) /\ i \in {0} \cup Edges
    BY <1>1, <1>2, UsesAre
  <2>2. /\ ClosedBy(i) \in 1..Len(query.items) /\ query.items[ClosedBy(i)].kind = "close"
        /\ Innermost(Opened[ClosedBy(i) - 1]) = i
    BY <2>1, ClosedByIs
  <2> QED BY <1>2, <2>1, <2>2 DEF UsesAt
<1>3. ASSUME NEW u, NEW i \in Folds, u \in PostUses(i)
      PROVE  u.time \in 1..Len(query.items) /\ u \in UsesAt[u.time]
  <2>1. u.time = ClosedBy(i) /\ i \in {0} \cup Edges
    BY <1>1, <1>3, UsesAre
  <2>2. /\ ClosedBy(i) \in 1..Len(query.items) /\ query.items[ClosedBy(i)].kind = "close"
        /\ Innermost(Opened[ClosedBy(i) - 1]) = i
    BY <2>1, ClosedByIs
  <2> QED BY <1>1, <1>3, <2>1, <2>2 DEF UsesAt
<1>4. \A u \in Uses : \/ \E i \in {0} \cup Folds : u \in FilterUses(i)
                      \/ \E i \in Folds : u \in PostUses(i)
  BY UsesAre
<1> QED BY <1>2, <1>3, <1>4

\* How the uses grow with each field.
LEMMA UsesStep ==
  ASSUME query \in Queries, NEW j \in 1..Len(query.items)
  PROVE  /\ Before(Uses, j + 1) = Before(Uses, j) \cup UsesAt[j]
         /\ UsesAt[j] \subseteq Uses
         /\ \A u \in UsesAt[j] : u.time = j
<1>1. Len(query.items) \in Nat /\ j \in Nat
  BY QueryFacts
<1>2. UsesAt[j] \subseteq Uses /\ \A u \in UsesAt[j] : u.time = j
  <2> DEFINE k == Innermost(Opened[j - 1])
  <2>1. CASE query.items[j].kind = "close" /\ k \in {0} \cup Folds
    <3>1. UsesAt[j] = FilterUses(k) \cup (IF k \in Folds THEN PostUses(k) ELSE {})
      BY <2>1 DEF UsesAt
    <3>2. ClosedBy(k) = j
      BY <2>1, Closes
    <3> HIDE DEF k
    <3> QED BY <2>1, <3>1, <3>2, UsesAre
  <2>2. CASE ~ (query.items[j].kind = "close" /\ k \in {0} \cup Folds)
    <3>1. UsesAt[j] = {}
      BY <2>2 DEF UsesAt
    <3> QED BY <3>1
  <2> QED BY <2>1, <2>2
<1>3. ASSUME NEW u \in Uses, u.time < j + 1 PROVE u.time < j \/ u \in UsesAt[j]
  <2>1. u.time \in Nat /\ u \in UsesAt[u.time]
    BY <1>1, UseFacts
  <2> QED BY <1>1, <1>3, <2>1
<1>4. \A u \in Uses : u.time \in Nat
  BY <1>1, UseFacts
<1> QED BY <1>1, <1>2, <1>3, <1>4 DEF Before

\* In the end all have been seen, in the beginning none.
LEMMA AllBefore ==
  ASSUME query \in Queries
  PROVE  /\ Before(Definitions, Len(query.items)) = Definitions
         /\ Before(Uses, Len(query.items) + 1) = Uses
         /\ Before(Definitions, 1) = {} /\ Before(Uses, 1) = {}
<1>1. Len(query.items) \in Nat /\ Len(query.items) > 0
  BY QueryFacts
<1>2. \A d \in Definitions : d.time \in 1..Len(query.items) /\ d.time # Len(query.items)
  <2>1. ASSUME NEW d \in Definitions, d.time = Len(query.items) PROVE FALSE
    <3>1. d \in DefsAt[Len(query.items)] /\ Len(query.items) \in 1..Len(query.items)
      BY <2>1, DefinitionFacts
    <3>2. query.items[Len(query.items)].kind = "close" /\ Opened[Len(query.items) - 1] = << >>
      BY OpenDepth
    <3>3. 0 \notin Counted
      BY QueryFacts DEF Counted, Folds, Edges
    <3> QED BY <3>1, <3>2, <3>3 DEF DefsAt, Innermost
  <2> QED BY <2>1, DefinitionFacts
<1>3. \A u \in Uses : u.time \in 1..Len(query.items)
  BY UseFacts
<1> QED BY <1>1, <1>2, <1>3 DEF Before

\* A use inside of a fold is looked at before the fold's component is made.
LEMMA InsideUses ==
  ASSUME query \in Queries, NEW i \in Folds, NEW u \in Uses, Scopes[i] \subseteq u.scope
  PROVE  u.time < ClosedBy(i) \/ u \in FilterUses(i)
<1>1. Len(query.items) \in Nat /\ DOMAIN query.items = 1..Len(query.items)
  BY QueryFacts
<1>2. i \in Edges /\ i \in {0} \cup Edges /\ i \in 1..Len(query.items) /\ i \in 0..Len(query.items)
  BY <1>1 DEF Folds, Edges
<1> DEFINE c == ClosedBy(i)
<1>3. /\ c \in 1..Len(query.items) /\ query.items[c].kind = "close" /\ Innermost(Opened[c - 1]) = i
      /\ c - 1 \in 0..Len(query.items) /\ c \in Nat /\ c \in 0..Len(query.items)
  BY <1>1, <1>2, ClosedByIs
<1>4. i \in u.scope
  <2>1. i \in Scopes[i]
    BY <1>1, <1>2, ScopeStep DEF Folds, Edges
  <2> QED BY <2>1
<1>5. i \notin ToSet(Opened[c])
  <2>1. Opened[c - 1] # << >> /\ Last(Opened[c - 1]) = i
    BY <1>1, <1>2, <1>3, InnermostIs
  <2> QED BY <1>3, <2>1, OpenedSets
\* An edge inside of the fold closes before it.
<1>6. ASSUME NEW k \in Edges, k # i, NEW m \in {k, k - 1}, i \in Scope(m)
      PROVE  ClosedBy(k) < c
  <2>1. k \in 1..Len(query.items) /\ k \in 0..Len(query.items) /\ k - 1 \in 0..Len(query.items)
        /\ m \in 0..Len(query.items) /\ query.items[k].kind = "edge"
    BY <1>1, <1>6 DEF Edges
  <2>2. i \in ToSet(Opened[m]) /\ i \in 1..m
    BY <1>6, <2>1, ScopeIs
  <2>3. i < k
    BY <1>2, <1>6, <2>1, <2>2
  <2>4. m < c
    <3>1. ~ c <= m
      <4>1. i \in 1..c
        BY <1>1, <1>2, <1>3, ClosedByIs
      <4> QED BY <1>3, <1>5, <2>1, <2>2, <4>1, StaysClosed
    <3> QED BY <1>3, <2>1, <3>1
  <2>5. k < c
    <3>1. k # c
      BY <1>3, <2>1
    <3> QED BY <1>3, <2>1, <2>4, <3>1
  <2> DEFINE e == ClosedBy(k)
  <2>6. /\ e \in 1..Len(query.items) /\ query.items[e].kind = "close" /\ Innermost(Opened[e - 1]) = k
        /\ e - 1 \in 0..Len(query.items) /\ k < e /\ e \in Nat
    <3>1. k \in {0} \cup Edges
      BY <1>6
    <3>2. /\ e \in 1..Len(query.items) /\ query.items[e].kind = "close" /\ Innermost(Opened[e - 1]) = k
          /\ k < e
      BY <3>1, ClosedByIs
    <3> HIDE DEF e
    <3> QED BY <1>1, <3>2
  <2>7. e # c
    BY <1>3, <1>6, <2>6
  <2>8. ASSUME c < e PROVE FALSE
    <3>1. k \in ToSet(Opened[e - 1])
      BY <1>1, <2>1, <2>6, InnermostIs
    <3>2. k \in ToSet(Opened[c - 1])
      <4>1. k \in 1..c - 1 /\ c - 1 <= e - 1
        BY <1>3, <2>1, <2>5, <2>6, <2>8
      <4> QED BY <1>3, <2>6, <3>1, <4>1, StaysClosed
    <3>3. \A x \in ToSet(Opened[c - 1]) : x <= i
      <4> DEFINE s == Opened[c - 1]
      <4>1. /\ s \in Seq(Nat) /\ DOMAIN s = 1..Len(s) /\ Len(s) \in Nat
            /\ \A x, d \in DOMAIN s : x < d => s[x] < s[d]
        BY <1>3, OpenFacts
      <4>2. s # << >> /\ Last(s) = i
        BY <1>1, <1>2, <1>3, InnermostIs
      <4>3. i = s[Len(s)] /\ Len(s) \in DOMAIN s
        BY <4>1, <4>2, SeqFacts DEF Last
      <4>4. \A d \in DOMAIN s : s[d] \in Nat /\ (d < Len(s) \/ d = Len(s))
        BY <4>1
      <4> HIDE DEF s
      <4>5. \A d \in DOMAIN s : s[d] <= i
        BY <4>1, <4>3, <4>4
      <4> QED BY <4>5 DEF ToSet, s
    <3> QED BY <1>2, <2>1, <2>3, <3>2, <3>3
  <2> QED BY <1>3, <2>6, <2>7, <2>8
<1>7. CASE \E k \in {0} \cup Folds : u \in FilterUses(k)
  <2>1. PICK k \in {0} \cup Folds : u \in FilterUses(k)
    BY <1>7
  <2>2. u.scope = Scope(k) /\ u.time = ClosedBy(k)
    BY <2>1, UsesAre
  <2>3. k # 0
    <3>1. 0 \in 0..Len(query.items)
      BY <1>1
    <3>2. Scope(0) = {}
      BY <3>1, OpenedStep DEF Scope, ToSet
    <3> QED BY <1>4, <2>2, <3>2
  <2>4. CASE k = i
    BY <2>1, <2>4
  <2>5. CASE k # i
    <3>1. k \in Edges
      BY <2>1, <2>3 DEF Folds
    <3> QED BY <1>4, <1>6, <2>2, <2>5, <3>1
  <2> QED BY <2>4, <2>5
<1>8. CASE \E k \in Folds : u \in PostUses(k)
  <2>1. PICK k \in Folds : u \in PostUses(k)
    BY <1>8
  <2>2. u.scope = Scope(k - 1) /\ u.time = ClosedBy(k) /\ k \in Edges
    BY <2>1, UsesAre DEF Folds
  <2>3. k # i
    <3>1. i \notin Scope(i - 1)
      <4>1. i - 1 \in 0..Len(query.items)
        BY <1>1, <1>2
      <4> QED BY <1>1, <1>2, <4>1, ScopeIs
    <3> QED BY <1>4, <2>2, <3>1
  <2> QED BY <1>4, <1>6, <2>2, <2>3
<1> QED BY <1>7, <1>8, UsesAre

-----------------------------------------------------------------------------
(* Where the handler is in the query, whatever errors there were, and what *)
(* it knows as long as there was none.                                     *)

SomeFailed == \E k \in DOMAIN components : components[k].failed

Running == phase \in {"fill", "filter", "post"}

\* The scope the handler is in, and the innermost edge that the last close closed.
ScopeNow == Scopes[IF phase = "filter" THEN at - 2 ELSE at - 1]
Closing == Innermost(Opened[at - 2])

\* The tags there are by now: that of a count comes after the uses of its fold.
DefsNow == Before(Definitions, IF phase = "fill" THEN at ELSE at - 1)

FilterUsesOf == [i \in 0..Len(query.items) |-> FilterUses(i)]
PostUsesOf == [i \in 0..Len(query.items) |-> PostUses(i)]

\* The uses that have been looked at or are about to be.
UsesNow == IF phase = "filter" THEN Before(Uses, at - 1) \cup FilterUsesOf[Closing]
           ELSE Before(Uses, at)
LeftOf(list, scope, time) == {Use1(list[n], scope, time) : n \in DOMAIN list}
Left == LeftOf(pending, ScopeNow, at - 1)

Position ==
  /\ at \in Nat /\ at - 1 \in 0..Len(query.items)
  /\ phase \in {"fill", "post"} => at \in 1..Len(query.items)
  /\ phase = "fill" => pending = << >>
  /\ phase \in {"filter", "post"} => /\ at - 1 \in 1..Len(query.items)
                                     /\ query.items[at - 1].kind = "close"
  /\ phase = "filter" => Closing \in {0} \cup Folds
  /\ phase = "post" => Closing \in Folds /\ folding = Vids[Closing]
  /\ pending \in Seq(Use)
  /\ Left \subseteq UsesNow

\* The open vertices are the root's and those of the open edges.
OpenIs(opened, vids, stack) ==
  /\ stack \in Seq(Nat) /\ Len(stack) = Len(opened) + 1
  /\ stack[1] = RootVid
  /\ \A d \in 1..Len(opened) : stack[d + 1] = vids[opened[d]]

\* The components being made are the root's and those of the folds in scope.
NestedIs(vids, scope, cs) == {cs[k].root : k \in 2..Len(cs)} = {vids[i] : i \in scope}

\* The path of a tag is around the path of what is in its scope.
StandsFor(t, d, vids, scope, p) ==
  /\ t.name = d.name /\ t.vid = d.vid
  /\ d.scope \subseteq scope => IsParent(t.path, p)
  /\ \A i \in scope : vids[i] \in ToSet(t.path) => i \in d.scope

TagsStand(ts, defs, vids, scope, p, next) ==
  \A t \in ts : /\ \E d \in defs : StandsFor(t, d, vids, scope, p)
                /\ \A x \in ToSet(t.path) : x < next

Structure ==
  /\ Position
  /\ nextVid = Vids[at - 1] + 1
  /\ at - 1 < Len(query.items) => OpenIs(Opened[at - 1], Vids, open)
  /\ NestedIs(Vids, ScopeNow, components)
  /\ TagsStand(tags, DefsNow, Vids, ScopeNow, path, nextVid)

\* Without errors: each definition is a tag, with the path of its scope.
TagsAre(ts, defs, vids) ==
  /\ \A t, s \in ts : t.name = s.name => t = s
  /\ \A d, e \in defs : d.name = e.name => d = e
  /\ \A d \in defs : \E t \in ts : t.name = d.name
  /\ \A t \in ts, d \in defs : t.name = d.name =>
       ToSet(t.path) = {RootVid} \cup {vids[i] : i \in d.scope}

\* Those that the uses looked at see are used.
UsedAre(defs, looked, names) ==
  /\ \A u \in looked : \E d \in defs : Sees(u, d)
  /\ names = {d.name : d \in {e \in defs : \E u \in looked : Sees(u, e)}}

\* Each fold imports what the uses looked at need.
NeededOf(defs, looked, scopes, i) ==
  {d.name : d \in {e \in defs : e.scope = scopes[i - 1]
                     /\ \E u \in looked : Sees(u, e) /\ scopes[i] \subseteq u.scope}}

ImportsAre(defs, looked, scopes, fs, vids, imports) ==
  \A k \in DOMAIN imports : \A i \in fs :
    vids[i] = imports[k].root => ToSet(imports[k].tags) = NeededOf(defs, looked, scopes, i)

LookedAt(L) ==
  /\ L \cup Left = UsesNow
  /\ UsedAre(Definitions, L, used)
  /\ ImportsAre(Definitions, L, Scopes, Folds, Vids, imported)

ImportedBy(f) == [root |-> f.root, tags |-> ToSet(f.tags)]
NeededIn(defs, uses, scopes, vids, i) == [root |-> vids[i], tags |-> NeededOf(defs, uses, scopes, i)]
FoldsMade == {ImportedBy(f) : f \in folds}
FoldsAre(made, defs, uses, scopes, vids, fs) ==
  made = {NeededIn(defs, uses, scopes, vids, i) : i \in fs}

NoneBad(q, n) == \A i \in 1..n : q.items[i].kind = "edge" => ~ q.items[i].bad

PathIs(p, cs) == Len(p) = Len(cs) /\ \A k \in 1..Len(cs) : p[k] = cs[k].root

Exact ==
  /\ NoneBad(query, at - 1)
  /\ PathIs(path, components)
  /\ TagsAre(tags, DefsNow, Vids)
  /\ \E L \in SUBSET Uses : LookedAt(L)
  /\ FoldsAre(FoldsMade, Definitions, Uses, Scopes, Vids, {i \in Folds : i < at /\ i \notin ScopeNow})

AllFoldsMade == FoldsAre(FoldsMade, Definitions, Uses, Scopes, Vids, Folds)

Outcome ==
  /\ Running => Structure
  /\ Running /\ ~ SomeFailed => Exact
  /\ Running /\ SomeFailed => ~ Valid
  /\ phase = "accepted" => Valid /\ AllFoldsMade
  /\ phase = "rejected" => ~ Valid
  /\ MisplacedAreMisplaced

OutcomeInv == IInv /\ Outcome

\* What depends on the query alone stays what it is.
LEMMA SameQuery ==
  ASSUME query' = query
  PROVE  /\ Opened' = Opened /\ Edges' = Edges /\ Folds' = Folds /\ Vids' = Vids /\ Scopes' = Scopes
         /\ Definitions' = Definitions /\ Uses' = Uses
         /\ FilterUsesOf' = FilterUsesOf /\ PostUsesOf' = PostUsesOf
         /\ Valid' <=> Valid
<1>1. Opened' = Opened
  BY DEF Opened
<1>2. Edges' = Edges
  BY DEF Edges
<1>3. Folds' = Folds
  BY <1>2 DEF Folds
<1>4. \A i : VidAt(i)' = VidAt(i)
  BY DEF VidAt
<1>5. Vids' = Vids
  BY <1>4 DEF Vids
<1>6. \A i : Scope(i)' = Scope(i)
  BY <1>1, <1>3 DEF Scope
<1>7. Scopes' = Scopes
  BY <1>6 DEF Scopes
<1>8. \A i : ClosedBy(i)' = ClosedBy(i)
  BY <1>1 DEF ClosedBy
<1>9. \A i : FilterUses(i)' = FilterUses(i) /\ PostUses(i)' = PostUses(i)
  BY <1>4, <1>6, <1>8 DEF FilterUses, PostUses
<1>10. FilterUsesOf' = FilterUsesOf /\ PostUsesOf' = PostUsesOf
  BY <1>9 DEF FilterUsesOf, PostUsesOf
<1>11. Uses' = Uses
  <2>1. \A u : u \in Uses <=> \/ \E i \in {0} \cup Folds : u \in FilterUses(i)
                              \/ \E i \in Folds : u \in PostUses(i)
    BY UsesAre
  <2>2. (\A u : u \in Uses <=> \/ \E i \in {0} \cup Folds : u \in FilterUses(i)
                               \/ \E i \in Folds : u \in PostUses(i))'
    BY UsesAre, PTL
  <2>3. \A u : u \in Uses' <=> u \in Uses
    BY <1>3, <1>9, <2>1, <2>2
  <2> QED BY <2>3
<1>12. Definitions' = Definitions
  <2>1. \A i : TagDef(i)' = TagDef(i)
    BY <1>1, <1>4, <1>6 DEF TagDef
  <2>2. \A i : CountDef(i)' = CountDef(i)
    BY <1>4, <1>6, <1>8 DEF CountDef
  <2>3. Counted' = Counted
    BY <1>3, <1>4 DEF Counted
  <2>4. \A d : d \in Definitions <=> \/ \E i \in DOMAIN query.items : query.items[i].kind = "tag" /\ d = TagDef(i)
                                     \/ \E i \in Counted : d = CountDef(i)
    BY DefinitionsAre
  <2>5. (\A d : d \in Definitions <=> \/ \E i \in DOMAIN query.items : query.items[i].kind = "tag" /\ d = TagDef(i)
                                      \/ \E i \in Counted : d = CountDef(i))'
    BY DefinitionsAre, PTL
  <2>6. \A d : d \in Definitions' <=> d \in Definitions
    BY <2>1, <2>2, <2>3, <2>4, <2>5
  <2> QED BY <2>6
<1>13. Valid' <=> Valid
  BY <1>2, <1>11, <1>12 DEF Valid, IsUnique, Legal
<1> QED BY <1>1, <1>2, <1>3, <1>5, <1>7, <1>10, <1>11, <1>12, <1>13

\* The numbers next to a number of a field.
LEMMA Near ==
  ASSUME NEW n \in Nat, NEW j \in 1..n
  PROVE  j \in 0..n /\ j - 1 \in 0..n /\ j + 1 - 1 = j /\ j \in Nat /\ (j # n => j + 1 \in 1..n /\ j < n)
OBVIOUS

\* While fields are filled in, nothing is left to look at.
LEMMA FillFacts ==
  ASSUME OutcomeInv, phase = "fill"
  PROVE  /\ query \in Queries /\ Len(query.items) \in Nat /\ DOMAIN query.items = 1..Len(query.items)
         /\ at \in 1..Len(query.items) /\ at \in 0..Len(query.items) /\ at - 1 \in 0..Len(query.items)
         /\ at + 1 - 1 = at /\ at \in Nat
         /\ pending = << >>
         /\ nextVid = Vids[at - 1] + 1
         /\ OpenIs(Opened[at - 1], Vids, open)
         /\ NestedIs(Vids, Scopes[at - 1], components)
         /\ TagsStand(tags, Before(Definitions, at), Vids, Scopes[at - 1], path, nextVid)
         /\ SomeFailed => ~ Valid
         /\ ~ SomeFailed =>
              /\ NoneBad(query, at - 1)
              /\ PathIs(path, components)
              /\ TagsAre(tags, Before(Definitions, at), Vids)
              /\ UsedAre(Definitions, Before(Uses, at), used)
              /\ ImportsAre(Definitions, Before(Uses, at), Scopes, Folds, Vids, imported)
              /\ FoldsAre(FoldsMade, Definitions, Uses, Scopes, Vids,
                          {i \in Folds : i < at /\ i \notin Scopes[at - 1]})
<1>1. Running /\ Structure /\ (SomeFailed => ~ Valid) /\ (~ SomeFailed => Exact) /\ query \in Queries
  BY DEF OutcomeInv, Outcome, Running, IInv, Shape
<1>2. Len(query.items) \in Nat /\ DOMAIN query.items = 1..Len(query.items)
  BY <1>1, QueryFacts
<1>3. at \in 1..Len(query.items) /\ pending = << >>
  BY <1>1 DEF Structure, Position
<1>4. ScopeNow = Scopes[at - 1] /\ DefsNow = Before(Definitions, at) /\ UsesNow = Before(Uses, at)
  BY DEF ScopeNow, DefsNow, UsesNow
<1>5. Left = {}
  BY <1>3 DEF Left, LeftOf
<1>6. /\ nextVid = Vids[at - 1] + 1
      /\ OpenIs(Opened[at - 1], Vids, open)
      /\ NestedIs(Vids, Scopes[at - 1], components)
      /\ TagsStand(tags, Before(Definitions, at), Vids, Scopes[at - 1], path, nextVid)
  BY <1>1, <1>2, <1>3, <1>4 DEF Structure
<1>7. ASSUME ~ SomeFailed
      PROVE  /\ NoneBad(query, at - 1)
             /\ PathIs(path, components)
             /\ TagsAre(tags, Before(Definitions, at), Vids)
             /\ UsedAre(Definitions, Before(Uses, at), used)
             /\ ImportsAre(Definitions, Before(Uses, at), Scopes, Folds, Vids, imported)
             /\ FoldsAre(FoldsMade, Definitions, Uses, Scopes, Vids,
                         {i \in Folds : i < at /\ i \notin Scopes[at - 1]})
  <2>1. PICK L \in SUBSET Uses : LookedAt(L)
    BY <1>1, <1>7 DEF Exact
  <2>2. L = Before(Uses, at)
    BY <1>4, <1>5, <2>1 DEF LookedAt
  <2> QED BY <1>1, <1>4, <1>7, <2>1, <2>2 DEF Exact, LookedAt
<1>8. at \in 0..Len(query.items) /\ at - 1 \in 0..Len(query.items) /\ at + 1 - 1 = at /\ at \in Nat
  BY <1>2, <1>3
<1> QED BY <1>1, <1>2, <1>3, <1>6, <1>7, <1>8

\* What has to be shown of a step to the next field.
LEMMA FillNext ==
  ASSUME query \in Queries, query' = query, phase' = "fill", pending' = << >>,
         at' \in 1..Len(query.items),
         nextVid' = Vids[at' - 1] + 1,
         OpenIs(Opened[at' - 1], Vids, open'),
         NestedIs(Vids, Scopes[at' - 1], components'),
         TagsStand(tags', Before(Definitions, at'), Vids, Scopes[at' - 1], path', nextVid'),
         SomeFailed' => ~ Valid,
         ~ SomeFailed' =>
              /\ NoneBad(query, at' - 1)
              /\ PathIs(path', components')
              /\ TagsAre(tags', Before(Definitions, at'), Vids)
              /\ UsedAre(Definitions, Before(Uses, at'), used')
              /\ ImportsAre(Definitions, Before(Uses, at'), Scopes, Folds, Vids, imported')
              /\ FoldsAre(FoldsMade', Definitions, Uses, Scopes, Vids,
                          {i \in Folds : i < at' /\ i \notin Scopes[at' - 1]}),
         refused' = refused, MisplacedAreMisplaced
  PROVE  Outcome'
<1>1. /\ Opened' = Opened /\ Folds' = Folds /\ Vids' = Vids /\ Scopes' = Scopes
      /\ Definitions' = Definitions /\ Uses' = Uses /\ (Valid' <=> Valid)
  BY SameQuery
<1>2. Len(query.items) \in Nat
  BY QueryFacts
<1>3. /\ ScopeNow' = Scopes[at' - 1] /\ DefsNow' = Before(Definitions, at')
      /\ UsesNow' = Before(Uses, at')
  BY <1>1 DEF ScopeNow, DefsNow, UsesNow, Before
<1>4. Left' = {}
  BY DEF Left, LeftOf
<1>5. Position'
  <2>1. << >> \in Seq(Use)
    OBVIOUS
  <2>2. at' \in Nat /\ at' - 1 \in 0..Len(query.items)
    BY <1>2, Near
  <2>3. pending' \in Seq(Use)
    BY <2>1
  <2> QED BY <1>4, <2>2, <2>3 DEF Position
<1>6. Structure'
  BY <1>1, <1>3, <1>5 DEF Structure
<1>7. ASSUME ~ SomeFailed' PROVE Exact'
  <2>1. PICK M : M = Before(Uses, at')
    OBVIOUS
  <2>2. M \in SUBSET Uses'
    BY <1>1, <2>1 DEF Before
  <2>3. LookedAt(M)'
    BY <1>1, <1>3, <1>4, <1>7, <2>1 DEF LookedAt
  <2>4. NoneBad(query, at - 1)' /\ PathIs(path, components)' /\ TagsAre(tags, DefsNow, Vids)'
    BY <1>1, <1>3, <1>7
  <2>5. {i \in Folds : i < at' /\ i \notin Scopes[at' - 1]} = {i \in Folds' : i < at' /\ i \notin ScopeNow'}
    BY <1>1, <1>3
  <2>6. FoldsAre(FoldsMade, Definitions, Uses, Scopes, Vids, {i \in Folds : i < at /\ i \notin ScopeNow})'
    BY <1>1, <1>7, <2>5
  <2> QED BY <2>2, <2>3, <2>4, <2>6 DEF Exact
<1>8. MisplacedAreMisplaced'
  BY <1>1 DEF MisplacedAreMisplaced, IsUnique
<1> QED BY <1>1, <1>6, <1>7, <1>8 DEF Outcome

\* The same of a step over one field.
LEMMA FieldNext ==
  ASSUME query \in Queries, query' = query, phase' = "fill", pending' = << >>,
         at' = at + 1, at \in Nat, at + 1 \in 1..Len(query.items),
         nextVid' = Vids[at] + 1,
         OpenIs(Opened[at], Vids, open'),
         NestedIs(Vids, Scopes[at], components'),
         TagsStand(tags', Before(Definitions, at + 1), Vids, Scopes[at], path', nextVid'),
         SomeFailed' => ~ Valid,
         ~ SomeFailed' =>
              /\ NoneBad(query, at)
              /\ PathIs(path', components')
              /\ TagsAre(tags', Before(Definitions, at + 1), Vids)
              /\ UsedAre(Definitions, Before(Uses, at + 1), used')
              /\ ImportsAre(Definitions, Before(Uses, at + 1), Scopes, Folds, Vids, imported')
              /\ FoldsAre(FoldsMade', Definitions, Uses, Scopes, Vids,
                          {i \in Folds : i < at + 1 /\ i \notin Scopes[at]}),
         refused' = refused, MisplacedAreMisplaced
  PROVE  Outcome'
<1>1. PICK j : j = at
  OBVIOUS
<1>2. j = at' - 1 /\ at' = j + 1
  BY <1>1
<1>3. /\ j + 1 \in 1..Len(query.items)
      /\ nextVid' = Vids[j] + 1
      /\ OpenIs(Opened[j], Vids, open')
      /\ NestedIs(Vids, Scopes[j], components')
      /\ TagsStand(tags', Before(Definitions, j + 1), Vids, Scopes[j], path', nextVid')
  BY <1>1
<1>4. ASSUME ~ SomeFailed'
      PROVE  /\ NoneBad(query, j)
             /\ PathIs(path', components')
             /\ TagsAre(tags', Before(Definitions, j + 1), Vids)
             /\ UsedAre(Definitions, Before(Uses, j + 1), used')
             /\ ImportsAre(Definitions, Before(Uses, j + 1), Scopes, Folds, Vids, imported')
             /\ FoldsAre(FoldsMade', Definitions, Uses, Scopes, Vids,
                         {i \in Folds : i < j + 1 /\ i \notin Scopes[j]})
  BY <1>1, <1>4
<1>5. /\ at' \in 1..Len(query.items)
      /\ nextVid' = Vids[at' - 1] + 1
      /\ OpenIs(Opened[at' - 1], Vids, open')
      /\ NestedIs(Vids, Scopes[at' - 1], components')
      /\ TagsStand(tags', Before(Definitions, at'), Vids, Scopes[at' - 1], path', nextVid')
  BY <1>2, <1>3
<1>6. {i \in Folds : i < at' /\ i \notin Scopes[at' - 1]} = {i \in Folds : i < j + 1 /\ i \notin Scopes[j]}
  BY <1>2
<1>7. ASSUME ~ SomeFailed'
      PROVE  /\ NoneBad(query, at' - 1)
             /\ PathIs(path', components')
             /\ TagsAre(tags', Before(Definitions, at'), Vids)
             /\ UsedAre(Definitions, Before(Uses, at'), used')
             /\ ImportsAre(Definitions, Before(Uses, at'), Scopes, Folds, Vids, imported')
             /\ FoldsAre(FoldsMade', Definitions, Uses, Scopes, Vids,
                         {i \in Folds : i < at' /\ i \notin Scopes[at' - 1]})
  BY <1>2, <1>4, <1>6, <1>7
<1> QED BY <1>5, <1>7, FillNext

-----------------------------------------------------------------------------
(* What the steps do to the parts.                                         *)

\* Another open vertex.
LEMMA OpenPush ==
  ASSUME NEW o \in Seq(Nat), NEW v, NEW s, OpenIs(o, v, s), NEW x \in Nat, v[x] \in Nat
  PROVE  OpenIs(Append(o, x), v, Append(s, v[x]))
<1> DEFINE y == v[x]
<1>1. s \in Seq(Nat) /\ Len(s) = Len(o) + 1 /\ y \in Nat /\ Len(o) \in Nat
  BY DEF OpenIs
<1> HIDE DEF y
<1>2. /\ Append(s, y) \in Seq(Nat) /\ Len(Append(s, y)) = Len(o) + 2
      /\ \A d \in 1..Len(o) + 1 : Append(s, y)[d] = s[d]
      /\ Append(s, y)[Len(o) + 2] = y
  BY <1>1
<1>3. /\ Len(Append(o, x)) = Len(o) + 1
      /\ \A d \in 1..Len(o) : Append(o, x)[d] = o[d]
      /\ Append(o, x)[Len(o) + 1] = x
  BY <1>1
<1>4. s[1] = RootVid /\ \A d \in 1..Len(o) : s[d + 1] = v[o[d]]
  BY DEF OpenIs
<1>5. ASSUME NEW d \in 1..Len(o) + 1 PROVE Append(s, y)[d + 1] = v[Append(o, x)[d]]
  <2>1. CASE d \in 1..Len(o)
    <3>1. d + 1 \in 1..Len(o) + 1
      BY <1>1, <2>1
    <3> QED BY <1>2, <1>3, <1>4, <2>1, <3>1
  <2>2. CASE d = Len(o) + 1
    <3>1. d + 1 = Len(o) + 2
      BY <1>1, <2>2
    <3> QED BY <1>2, <1>3, <2>2, <3>1 DEF y
  <2> QED BY <1>1, <2>1, <2>2
<1>6. Append(s, y)[1] = RootVid /\ Len(Append(s, y)) = Len(Append(o, x)) + 1
  BY <1>1, <1>2, <1>3, <1>4
<1> QED BY <1>2, <1>3, <1>5, <1>6 DEF OpenIs, y

\* One open vertex less.
LEMMA OpenPop ==
  ASSUME NEW o \in Seq(Nat), NEW v, NEW s, OpenIs(o, v, s), o # << >>
  PROVE  OpenIs(AllButLast(o), v, AllButLast(s))
<1>1. /\ s \in Seq(Nat) /\ Len(s) = Len(o) + 1 /\ Len(o) \in Nat /\ Len(o) > 0
      /\ s[1] = RootVid /\ \A d \in 1..Len(o) : s[d + 1] = v[o[d]]
  BY SeqFacts DEF OpenIs
<1>2. s # << >>
  BY <1>1
<1>3. /\ AllButLast(s) \in Seq(Nat) /\ Len(AllButLast(s)) = Len(s) - 1
      /\ \A d \in DOMAIN AllButLast(s) : AllButLast(s)[d] = s[d]
      /\ DOMAIN AllButLast(s) = 1..Len(AllButLast(s))
  BY <1>1, <1>2, AllButLastFacts, SeqFacts
<1>4. /\ Len(AllButLast(o)) = Len(o) - 1
      /\ \A d \in DOMAIN AllButLast(o) : AllButLast(o)[d] = o[d]
      /\ DOMAIN AllButLast(o) = 1..Len(AllButLast(o))
  BY AllButLastFacts, SeqFacts
<1> DEFINE t == AllButLast(s)
           p == AllButLast(o)
<1> HIDE DEF t, p
<1>5. t[1] = RootVid /\ Len(t) = Len(p) + 1
  <2>1. Len(t) = Len(o) /\ Len(p) = Len(o) - 1
    BY <1>1, <1>3, <1>4 DEF t, p
  <2>2. 1 \in DOMAIN t
    BY <1>1, <1>3, <2>1 DEF t
  <2>3. t[1] = s[1]
    BY <1>3, <2>2 DEF t
  <2> QED BY <1>1, <2>1, <2>3
<1>6. ASSUME NEW d \in 1..Len(p) PROVE t[d + 1] = v[p[d]]
  <2>1. d \in 1..Len(o) /\ d + 1 \in DOMAIN t /\ d \in DOMAIN p
    BY <1>1, <1>3, <1>4 DEF t, p
  <2> QED BY <1>1, <1>3, <1>4, <2>1 DEF t, p
<1> QED BY <1>3, <1>5, <1>6 DEF OpenIs, t, p

\* The innermost open vertex.
LEMMA LastOpen ==
  ASSUME query \in Queries, NEW j \in 0..Len(query.items), NEW s, OpenIs(Opened[j], Vids, s)
  PROVE  Last(s) = Vids[Innermost(Opened[j])]
<1> DEFINE o == Opened[j]
<1>1. /\ s \in Seq(Nat) /\ Len(s) = Len(o) + 1 /\ Len(o) \in Nat
      /\ s[1] = RootVid /\ \A d \in 1..Len(o) : s[d + 1] = Vids[o[d]]
  BY OpenFacts DEF OpenIs
<1>2. CASE o = << >>
  <2>1. Len(s) = 1 /\ Innermost(o) = 0 /\ Vids[0] = RootVid
    BY <1>1, <1>2, VidFacts DEF Innermost
  <2> QED BY <1>1, <2>1 DEF Last
<1>3. CASE o # << >>
  <2>1. o \in Seq(Nat)
    BY OpenFacts
  <2>2. Len(o) \in 1..Len(o)
    BY <1>3, <2>1, SeqFacts
  <2> HIDE DEF o
  <2> QED BY <1>1, <1>3, <2>2 DEF Last, Innermost, o
<1> QED BY <1>2, <1>3

\* Marking the component being made changes nothing else about it.
LEMMA Marked ==
  ASSUME Shape, components' \in {components, Failing}
  PROVE  /\ \A vids, scope : NestedIs(vids, scope, components) => NestedIs(vids, scope, components')
         /\ components' = Failing => SomeFailed'
         /\ SomeFailed => SomeFailed'
         /\ components' = components => (SomeFailed' <=> SomeFailed)
<1>1. /\ Len(components') = Len(components) /\ Len(components) \in Nat
      /\ \A k \in DOMAIN components : components'[k].root = components[k].root
      /\ DOMAIN components = 1..Len(components) /\ DOMAIN components' = DOMAIN components
  <2>1. /\ components \in Seq([root : Vid, failed : BOOLEAN])
        /\ components' \in Seq([root : Vid, failed : BOOLEAN])
        /\ Len(components') = Len(components)
        /\ \A k \in DOMAIN components : components'[k].root = components[k].root
    BY FailingKeeps DEF Shape
  <2> QED BY <2>1, SeqFacts
<1>2. \A k \in 2..Len(components) : components'[k].root = components[k].root
  BY <1>1
<1>3. \A vids, scope : NestedIs(vids, scope, components) => NestedIs(vids, scope, components')
  BY <1>1, <1>2 DEF NestedIs
<1>4. ASSUME components' = components PROVE SomeFailed' <=> SomeFailed
  <2>1. SomeFailed' <=> \E k \in DOMAIN components' : components'[k].failed
    BY DEF SomeFailed
  <2> QED BY <1>4, <2>1, ZenonT(30) DEF SomeFailed
<1>5. components' = Failing => SomeFailed'
  <2>1. Len(components) \in DOMAIN components
    BY SeqFacts DEF Shape
  <2> QED BY <1>1, <2>1, FailingKeeps DEF SomeFailed
<1>6. SomeFailed => SomeFailed'
  BY <1>4, <1>5
<1> QED BY <1>3, <1>4, <1>5, <1>6

\* More definitions and more vertices.
LEMMA StandLater ==
  ASSUME NEW ts, NEW defs, NEW more, NEW vids, NEW scope, NEW p, NEW next \in Nat, NEW later \in Nat,
         TagsStand(ts, defs, vids, scope, p, next), defs \subseteq more, next <= later,
         \A t \in ts : ToSet(t.path) \subseteq Nat
  PROVE  TagsStand(ts, more, vids, scope, p, later)
<1> SUFFICES ASSUME NEW t \in ts
             PROVE  /\ \E d \in more : StandsFor(t, d, vids, scope, p)
                    /\ \A x \in ToSet(t.path) : x < later
  BY DEF TagsStand
<1>1. (\E d \in defs : StandsFor(t, d, vids, scope, p)) /\ \A x \in ToSet(t.path) : x < next
  BY DEF TagsStand
<1> QED BY <1>1

\* The elements of paths.
LEMMA PathElements ==
  ASSUME IInv
  PROVE  /\ \A t \in tags : ToSet(t.path) \subseteq Nat /\ RootVid \in Nat
         /\ ToSet(path) \subseteq Nat /\ \A x \in ToSet(path) : x < nextVid
<1>1. ASSUME NEW p \in Seq(Vid) PROVE ToSet(p) \subseteq Nat
  <2>1. \A i \in DOMAIN p : p[i] \in Vid
    BY SeqFacts
  <2> QED BY <2>1 DEF ToSet, Vid
<1> QED BY <1>1 DEF IInv, Shape, InOrder, ToSet, RootVid

\* The component being made is that of the innermost fold in scope.
LEMMA ComponentIs ==
  ASSUME IInv, NEW j \in 0..Len(query.items), NestedIs(Vids, Scopes[j], components)
  PROVE  /\ Scopes[j] = {} => Len(components) = 1 /\ Component.root = RootVid
         /\ Scopes[j] # {} => Len(components) > 1 /\ \E k \in Scopes[j] : Component.root = Vids[k]
         /\ \A k \in Scopes[j] : (\A i \in Scopes[j] : i <= k) => Component.root = Vids[k]
<1> DEFINE n == Len(components)
<1> DEFINE root(k) == components[k].root
<1>1. /\ n \in Nat \ {0} /\ \A k \in 1..n : root(k) \in Nat
      /\ \A k, l \in 1..n : k < l => root(k) < root(l)
      /\ root(1) = RootVid /\ Component.root = root(n)
  BY StateFacts DEF IInv, InOrder, Component, Last
<1>2. {root(k) : k \in 2..n} = {Vids[i] : i \in Scopes[j]}
  BY DEF NestedIs
<1> HIDE DEF root, n
<1>3. ASSUME Scopes[j] = {} PROVE n = 1
  <2>1. 2 \notin 2..n
    BY <1>2, <1>3
  <2> QED BY <1>1, <2>1
<1>4. ASSUME NEW k \in Scopes[j] PROVE \E m \in 2..n : root(m) = Vids[k]
  BY <1>2, <1>4
<1>5. ASSUME NEW k \in Scopes[j], \A i \in Scopes[j] : i <= k PROVE root(n) = Vids[k]
  <2>1. PICK m \in 2..n : root(m) = Vids[k]
    BY <1>4
  <2>2. n \in 2..n /\ m \in 1..n /\ n \in 1..n
    BY <1>1
  <2>3. PICK i \in Scopes[j] : root(n) = Vids[i]
    BY <1>2, <2>2
  <2>4. Vids[i] \in Nat /\ Vids[k] \in Nat /\ (i < k => Vids[i] < Vids[k]) /\ i <= k /\ i \in Nat /\ k \in Nat
    <3>1. query \in Queries /\ Len(query.items) \in Nat
      BY QueryFacts DEF IInv, Shape
    <3>2. k \in Edges /\ i \in Edges /\ i \in 1..j /\ k \in 1..j
      BY <3>1, ScopeIs
    <3>3. i \in 0..Len(query.items) /\ k \in 0..Len(query.items)
      BY <3>1, <3>2
    <3> QED BY <1>5, <3>1, <3>2, <3>3, VidFacts
  <2>5. m = n \/ root(m) < root(n)
    BY <1>1, <2>2
  <2> QED BY <2>1, <2>3, <2>4, <2>5
<1>6. Scopes[j] # {} => n > 1 /\ \E k \in Scopes[j] : root(n) = Vids[k]
  <2>1. Scopes[j] # {} => n > 1
    BY <1>1, <1>4
  <2>2. n > 1 => n \in 2..n
    BY <1>1
  <2> QED BY <1>2, <2>1, <2>2
<1> QED BY <1>1, <1>3, <1>5, <1>6 DEF n

\* The folds around a use are open when it is looked at.
LEMMA UseScopes ==
  ASSUME query \in Queries, NEW u \in Uses
  PROVE  \A i \in u.scope : i < u.time
<1>1. /\ u.time \in 1..Len(query.items) /\ u \in UsesAt[u.time] /\ Len(query.items) \in Nat
  BY UseFacts, QueryFacts
<1> DEFINE j == u.time
<1> DEFINE k == Innermost(Opened[j - 1])
<1>2. query.items[j].kind = "close" /\ (u \in FilterUses(k) \/ (k \in Folds /\ u \in PostUses(k)))
  BY <1>1 DEF UsesAt
<1>3. /\ k \in 0..j - 1 /\ k \in 0..Len(query.items)
      /\ k # 0 => k - 1 \in 0..Len(query.items)
  BY <1>1, <1>2, AtTheClose
<1>4. u.scope = Scope(k) \/ (k # 0 /\ u.scope = Scope(k - 1))
  <2>1. 0 \notin Folds
    BY <1>1, QueryFacts DEF Folds, Edges
  <2> QED BY <1>2, <2>1, UsesAre
<1>5. Scope(k) = Scopes[k] /\ \A i \in Scope(k) : i \in 1..k
  BY <1>3, ScopeIs
<1>6. k # 0 => \A i \in Scope(k - 1) : i \in 1..k - 1
  BY <1>3, ScopeIs
<1>7. j \in Nat
  BY <1>1
<1> HIDE DEF j, k
<1>8. ASSUME NEW i \in u.scope PROVE i \in Nat /\ i < j
  <2>1. k \in 0..j - 1 /\ (i \in 1..k \/ i \in 1..k - 1)
    BY <1>3, <1>4, <1>5, <1>6
  <2> QED BY <1>7, <2>1
<1> QED BY <1>8 DEF j

\* The next field, and the last.
LEMMA NextField ==
  ASSUME OutcomeInv, NEW kind, Field(kind)
  PROVE  /\ phase = "fill" /\ query.items[at].kind = kind /\ at' = at + 1 /\ at' - 1 = at
         /\ kind # "close" => at + 1 \in 1..Len(query.items)
         /\ at + 1 \in Nat
<1>1. phase = "fill" /\ query.items[at].kind = kind /\ at' = at + 1
  BY DEF Field
<1>2. at \in 1..Len(query.items) /\ at + 1 - 1 = at /\ query \in Queries /\ Len(query.items) \in Nat /\ at \in Nat
  BY <1>1, FillFacts
<1>3. query.items[Len(query.items)].kind = "close"
  BY <1>2, OpenDepth
<1>4. kind # "close" => at + 1 \in 1..Len(query.items)
  BY <1>1, <1>2, <1>3, Near
<1> QED BY <1>1, <1>2, <1>4

\* The folds that have been passed are the same after a field that ends none.
LEMMA FoldsPassed ==
  ASSUME query \in Queries, NEW j \in 1..Len(query.items),
         query.items[j].kind = "edge" \/ Scopes[j] = Scopes[j - 1]
  PROVE  {i \in Folds : i < j + 1 /\ i \notin Scopes[j]} = {i \in Folds : i < j /\ i \notin Scopes[j - 1]}
<1>1. j \in Nat /\ \A i \in Folds : i \in Nat
  BY QueryFacts DEF Folds, Edges
<1>2. \A i \in Folds : (i < j + 1 <=> i < j \/ i = j) /\ (i < j => i # j)
  BY <1>1
<1>3. CASE j \in Folds
  <2>1. Scopes[j] = Scopes[j - 1] \cup {j}
    BY <1>3, ScopeStep DEF Folds, Edges
  <2> QED BY <1>2, <2>1
<1>4. CASE j \notin Folds
  <2>1. Scopes[j] = Scopes[j - 1]
    BY <1>4, ScopeStep, QueryFacts DEF Folds, Edges
  <2> QED BY <1>2, <1>4, <2>1
<1> QED BY <1>3, <1>4

\* No field up to the next one is a bad edge.
LEMMA NoneBadNext ==
  ASSUME query \in Queries, NEW j \in 1..Len(query.items), NoneBad(query, j - 1),
         query.items[j].kind = "edge" => ~ query.items[j].bad
  PROVE  NoneBad(query, j)
<1>1. j \in Nat
  BY QueryFacts
<1> QED BY <1>1 DEF NoneBad

\* An edge defines and uses nothing.
LEMMA AtAnEdge ==
  ASSUME query \in Queries, NEW j \in 1..Len(query.items), query.items[j].kind = "edge"
  PROVE  /\ Before(Definitions, j + 1) = Before(Definitions, j) /\ Before(Uses, j + 1) = Before(Uses, j)
         /\ Opened[j] = Append(Opened[j - 1], j) /\ Vids[j] = Vids[j - 1] + 1
         /\ Vids[j] \in Nat /\ Vids[j - 1] \in Nat /\ Opened[j - 1] \in Seq(Nat)
<1>1. DefsAt[j] = {} /\ UsesAt[j] = {}
  BY DEF DefsAt, UsesAt
<1>2. j \in 0..Len(query.items) /\ j - 1 \in 0..Len(query.items)
  BY QueryFacts, Near
<1>3. Before(Definitions, j + 1) = Before(Definitions, j)
  <2>1. Before(Definitions, j + 1) = Before(Definitions, j) \cup DefsAt[j]
    BY DefsStep
  <2> QED BY <1>1, <2>1
<1>4. Before(Uses, j + 1) = Before(Uses, j)
  BY <1>1, UsesStep
<1>5. Opened[j] = Append(Opened[j - 1], j) /\ Opened[j - 1] \in Seq(Nat)
  BY <1>2, OpenedStep
<1>6. Vids[j] = Vids[j - 1] + 1 /\ Vids[j] \in Nat /\ Vids[j - 1] \in Nat
  BY <1>2, VidFacts
<1> QED BY <1>3, <1>4, <1>5, <1>6

\* fill_in_vertex_data visits an edge.
LEMMA VisitEdgeOutcome == ASSUME OutcomeInv, VisitEdge PROVE Outcome'
<1>1. /\ phase = "fill" /\ query.items[at].kind = "edge" /\ at' = at + 1 /\ at' - 1 = at
      /\ at + 1 \in 1..Len(query.items)
  BY NextField DEF VisitEdge
<1>2. /\ ~ query.items[at].fold /\ nextVid' = nextVid + 1 /\ open' = Append(open, nextVid)
      /\ components' = (IF query.items[at].bad THEN Failing ELSE components)
      /\ query' = query /\ path' = path /\ imported' = imported /\ tags' = tags /\ used' = used
      /\ phase' = phase /\ pending' = pending /\ folds' = folds /\ refused' = refused
  BY DEF VisitEdge
<1>3. /\ query \in Queries /\ at \in 1..Len(query.items) /\ at \in Nat /\ pending = << >>
      /\ nextVid = Vids[at - 1] + 1
      /\ OpenIs(Opened[at - 1], Vids, open)
      /\ NestedIs(Vids, Scopes[at - 1], components)
      /\ TagsStand(tags, Before(Definitions, at), Vids, Scopes[at - 1], path, nextVid)
      /\ SomeFailed => ~ Valid
  BY <1>1, FillFacts
<1>4. /\ Before(Definitions, at + 1) = Before(Definitions, at) /\ Before(Uses, at + 1) = Before(Uses, at)
      /\ Opened[at] = Append(Opened[at - 1], at) /\ Vids[at] = Vids[at - 1] + 1
      /\ Vids[at] \in Nat /\ Opened[at - 1] \in Seq(Nat)
  BY <1>1, <1>3, AtAnEdge
<1>5. Scopes[at] = Scopes[at - 1]
  BY <1>1, <1>2, <1>3, ScopeStep
<1>6. /\ NestedIs(Vids, Scopes[at], components')
      /\ query.items[at].bad => SomeFailed'
      /\ ~ query.items[at].bad => (SomeFailed' <=> SomeFailed)
  BY <1>2, <1>3, <1>5, Marked DEF OutcomeInv, IInv
<1>7. query.items[at].bad => ~ Valid
  BY <1>1, <1>3, QueryFacts DEF Valid, Edges
<1>8. OpenIs(Opened[at], Vids, open')
  BY <1>2, <1>3, <1>4, OpenPush
<1>9. TagsStand(tags', Before(Definitions, at + 1), Vids, Scopes[at], path', nextVid')
  <2>1. nextVid \in Nat /\ nextVid' \in Nat /\ nextVid <= nextVid'
    BY <1>2, <1>3, <1>4
  <2> QED BY <1>2, <1>3, <1>4, <1>5, <2>1, StandLater, PathElements DEF OutcomeInv
<1>10. MisplacedAreMisplaced
  BY DEF OutcomeInv, Outcome
<1>11. ASSUME ~ SomeFailed'
       PROVE  /\ NoneBad(query, at)
              /\ PathIs(path', components')
              /\ TagsAre(tags', Before(Definitions, at + 1), Vids)
              /\ UsedAre(Definitions, Before(Uses, at + 1), used')
              /\ ImportsAre(Definitions, Before(Uses, at + 1), Scopes, Folds, Vids, imported')
              /\ FoldsAre(FoldsMade', Definitions, Uses, Scopes, Vids,
                          {i \in Folds : i < at + 1 /\ i \notin Scopes[at]})
  <2>1. ~ query.items[at].bad /\ ~ SomeFailed /\ components' = components
    BY <1>2, <1>6, <1>11
  <2>2. /\ NoneBad(query, at - 1)
        /\ PathIs(path, components)
        /\ TagsAre(tags, Before(Definitions, at), Vids)
        /\ UsedAre(Definitions, Before(Uses, at), used)
        /\ ImportsAre(Definitions, Before(Uses, at), Scopes, Folds, Vids, imported)
        /\ FoldsAre(FoldsMade, Definitions, Uses, Scopes, Vids,
                    {i \in Folds : i < at /\ i \notin Scopes[at - 1]})
    BY <1>1, <2>1, FillFacts
  <2>3. {i \in Folds : i < at + 1 /\ i \notin Scopes[at]} = {i \in Folds : i < at /\ i \notin Scopes[at - 1]}
    BY <1>3, <1>5, FoldsPassed
  <2>4. NoneBad(query, at)
    BY <1>3, <2>1, <2>2, NoneBadNext
  <2>5. FoldsMade' = FoldsMade
    BY <1>2 DEF FoldsMade, ImportedBy
  <2> QED BY <1>2, <1>4, <2>1, <2>2, <2>3, <2>4, <2>5
<1>12. SomeFailed' => ~ Valid
  BY <1>3, <1>6, <1>7
<1> QED BY <1>1, <1>2, <1>3, <1>4, <1>6, <1>8, <1>9, <1>10, <1>11, <1>12, FieldNext

\* The close of a vertex that has no component of its own.
LEMMA AtAPlainClose ==
  ASSUME query \in Queries, NEW j \in 1..Len(query.items), query.items[j].kind = "close",
         Innermost(Opened[j - 1]) \notin {0} \cup Folds
  PROVE  /\ Before(Definitions, j + 1) = Before(Definitions, j) /\ Before(Uses, j + 1) = Before(Uses, j)
         /\ Opened[j] = AllButLast(Opened[j - 1]) /\ Opened[j - 1] # << >> /\ Opened[j - 1] \in Seq(Nat)
         /\ Vids[j] = Vids[j - 1] /\ Scopes[j] = Scopes[j - 1]
         /\ j + 1 \in 1..Len(query.items)
<1> DEFINE k == Innermost(Opened[j - 1])
<1>1. j \in 0..Len(query.items) /\ j - 1 \in 0..Len(query.items)
  BY QueryFacts, Near
<1>2. DefsAt[j] = {} /\ UsesAt[j] = {}
  BY DEF DefsAt, UsesAt, Counted
<1>3. Before(Definitions, j + 1) = Before(Definitions, j)
  <2>1. Before(Definitions, j + 1) = Before(Definitions, j) \cup DefsAt[j]
    BY DefsStep
  <2> QED BY <1>2, <2>1
<1>4. Before(Uses, j + 1) = Before(Uses, j)
  <2>1. Before(Uses, j + 1) = Before(Uses, j) \cup UsesAt[j]
    BY UsesStep
  <2> QED BY <1>2, <2>1
<1>5. Opened[j] = AllButLast(Opened[j - 1]) /\ Opened[j - 1] \in Seq(Nat)
  BY <1>1, OpenedStep
<1>6. Opened[j - 1] # << >>
  BY <1>1, InnermostIs
<1>7. Vids[j] = Vids[j - 1]
  BY VidFacts
<1>8. Scopes[j] = Scopes[j - 1]
  <2>1. Scopes[j] = Scopes[j - 1] \ {k}
    BY ScopeStep
  <2>2. k \notin Scopes[j - 1]
    BY <1>1, ScopeIs
  <2> QED BY <2>1, <2>2
<1>9. j + 1 \in 1..Len(query.items)
  <2>1. j # Len(query.items)
    BY AtTheClose
  <2> QED BY <2>1, QueryFacts, Near
<1> QED BY <1>3, <1>4, <1>5, <1>6, <1>7, <1>8, <1>9

\* A close ends the component being made if it closes the root or a fold.
LEMMA EndsComponent ==
  ASSUME OutcomeInv, Field("close")
  PROVE  /\ Last(open) = Vids[Innermost(Opened[at - 1])]
         /\ Last(open) = Component.root <=> Innermost(Opened[at - 1]) \in {0} \cup Folds
<1> DEFINE k == Innermost(Opened[at - 1])
<1>1. phase = "fill" /\ query.items[at].kind = "close"
  BY NextField
<1>2. /\ query \in Queries /\ at \in 1..Len(query.items) /\ at - 1 \in 0..Len(query.items)
      /\ OpenIs(Opened[at - 1], Vids, open)
      /\ NestedIs(Vids, Scopes[at - 1], components)
  BY <1>1, FillFacts
<1>3. Last(open) = Vids[k]
  BY <1>2, LastOpen
<1>4. /\ Scopes[at - 1] = {} => Component.root = RootVid
      /\ Scopes[at - 1] # {} => \E i \in Scopes[at - 1] : Component.root = Vids[i]
      /\ \A i \in Scopes[at - 1] : (\A l \in Scopes[at - 1] : l <= i) => Component.root = Vids[i]
  BY <1>2, ComponentIs DEF OutcomeInv
<1>5. /\ Scopes[at - 1] = {i \in ToSet(Opened[at - 1]) : i \in Folds}
      /\ \A i \in Scopes[at - 1] : i \in Folds /\ i \in Edges
  BY <1>2, ScopeIs
<1>6. /\ k = 0 => Opened[at - 1] = << >>
      /\ k # 0 => k \in ToSet(Opened[at - 1]) /\ k \in Edges
  BY <1>2, InnermostIs
<1>7. \A l \in Scopes[at - 1] : l <= k
  BY <1>1, <1>2, AtTheClose
<1>8. Vids[0] = RootVid
  BY <1>2, VidFacts
<1> HIDE DEF k
<1>9. ASSUME k = 0 PROVE Component.root = Vids[k]
  <2>1. ToSet(Opened[at - 1]) = {}
    BY <1>6, <1>9 DEF ToSet
  <2> QED BY <1>4, <1>5, <1>8, <1>9, <2>1
<1>10. ASSUME k \in Folds PROVE Component.root = Vids[k]
  BY <1>4, <1>5, <1>6, <1>7, <1>9, <1>10
<1>11. ASSUME Vids[k] = Component.root PROVE k \in {0} \cup Folds
  <2> SUFFICES ASSUME k # 0 PROVE k \in Folds
    OBVIOUS
  <2>1. k \in Edges /\ Vids[k] # RootVid
    BY <1>2, <1>6, VidsDiffer
  <2>2. PICK i \in Scopes[at - 1] : Component.root = Vids[i]
    BY <1>4, <1>11, <2>1
  <2>3. i \in Edges /\ i \in Folds
    BY <1>5
  <2>4. k = i
    BY <1>2, <1>11, <2>1, <2>2, <2>3, VidsDiffer
  <2> QED BY <2>3, <2>4
<1> QED BY <1>3, <1>9, <1>10, <1>11 DEF k

\* finishing a vertex.
LEMMA CloseVertexOutcome == ASSUME OutcomeInv, CloseVertex PROVE Outcome'
<1>1. /\ phase = "fill" /\ query.items[at].kind = "close" /\ at' = at + 1
      /\ Innermost(Opened[at - 1]) \notin {0} \cup Folds
  BY NextField, EndsComponent DEF CloseVertex
<1>2. /\ nextVid' = nextVid /\ open' = AllButLast(open) /\ components' = components
      /\ query' = query /\ path' = path /\ imported' = imported /\ tags' = tags /\ used' = used
      /\ phase' = phase /\ pending' = pending /\ folds' = folds /\ refused' = refused
  BY DEF CloseVertex
<1>3. /\ query \in Queries /\ at \in 1..Len(query.items) /\ at \in Nat /\ pending = << >>
      /\ nextVid = Vids[at - 1] + 1
      /\ OpenIs(Opened[at - 1], Vids, open)
      /\ NestedIs(Vids, Scopes[at - 1], components)
      /\ TagsStand(tags, Before(Definitions, at), Vids, Scopes[at - 1], path, nextVid)
      /\ SomeFailed => ~ Valid
  BY <1>1, FillFacts
<1>4. /\ Before(Definitions, at + 1) = Before(Definitions, at) /\ Before(Uses, at + 1) = Before(Uses, at)
      /\ Opened[at] = AllButLast(Opened[at - 1]) /\ Opened[at - 1] # << >> /\ Opened[at - 1] \in Seq(Nat)
      /\ Vids[at] = Vids[at - 1] /\ Scopes[at] = Scopes[at - 1]
      /\ at + 1 \in 1..Len(query.items)
  BY <1>1, <1>3, AtAPlainClose
<1>5. OpenIs(Opened[at], Vids, open')
  BY <1>2, <1>3, <1>4, OpenPop
<1>6. SomeFailed' <=> SomeFailed
  BY <1>2, Marked DEF OutcomeInv, IInv
<1>7. MisplacedAreMisplaced
  BY DEF OutcomeInv, Outcome
<1>8. ASSUME ~ SomeFailed'
      PROVE  /\ NoneBad(query, at)
             /\ PathIs(path', components')
             /\ TagsAre(tags', Before(Definitions, at + 1), Vids)
             /\ UsedAre(Definitions, Before(Uses, at + 1), used')
             /\ ImportsAre(Definitions, Before(Uses, at + 1), Scopes, Folds, Vids, imported')
             /\ FoldsAre(FoldsMade', Definitions, Uses, Scopes, Vids,
                         {i \in Folds : i < at + 1 /\ i \notin Scopes[at]})
  <2>1. /\ NoneBad(query, at - 1)
        /\ PathIs(path, components)
        /\ TagsAre(tags, Before(Definitions, at), Vids)
        /\ UsedAre(Definitions, Before(Uses, at), used)
        /\ ImportsAre(Definitions, Before(Uses, at), Scopes, Folds, Vids, imported)
        /\ FoldsAre(FoldsMade, Definitions, Uses, Scopes, Vids,
                    {i \in Folds : i < at /\ i \notin Scopes[at - 1]})
    BY <1>1, <1>6, <1>8, FillFacts
  <2>2. {i \in Folds : i < at + 1 /\ i \notin Scopes[at]} = {i \in Folds : i < at /\ i \notin Scopes[at - 1]}
    BY <1>3, <1>4, FoldsPassed
  <2>3. NoneBad(query, at)
    BY <1>1, <1>3, <2>1, NoneBadNext
  <2>4. FoldsMade' = FoldsMade
    BY <1>2 DEF FoldsMade, ImportedBy
  <2> QED BY <1>2, <1>4, <2>1, <2>2, <2>3, <2>4
<1>9. /\ nextVid' = Vids[at] + 1
      /\ NestedIs(Vids, Scopes[at], components')
      /\ TagsStand(tags', Before(Definitions, at + 1), Vids, Scopes[at], path', nextVid')
      /\ SomeFailed' => ~ Valid
  BY <1>2, <1>3, <1>4, <1>6
<1> QED BY <1>1, <1>2, <1>3, <1>4, <1>5, <1>7, <1>8, <1>9, FieldNext

\* Another component, in a fold.
LEMMA NestedPush ==
  ASSUME NEW vids, NEW scope, NEW R, NEW cs \in Seq(R), cs # << >>, NestedIs(vids, scope, cs),
         NEW x \in R, NEW i, x.root = vids[i]
  PROVE  NestedIs(vids, scope \cup {i}, Append(cs, x))
<1> DEFINE n == Len(cs)
<1> DEFINE more == Append(cs, x)
<1>1. n \in Nat /\ n > 0 /\ Len(more) = n + 1 /\ (\A k \in 1..n : more[k] = cs[k]) /\ more[n + 1] = x
  BY SeqFacts, AppendFacts
<1>2. {cs[k].root : k \in 2..n} = {vids[j] : j \in scope}
  BY DEF NestedIs
<1> HIDE DEF n, more
<1>3. {more[k].root : k \in 2..n} = {cs[k].root : k \in 2..n}
  <2>1. \A k \in 2..n : k \in 1..n
    BY <1>1
  <2> QED BY <1>1, <2>1
<1>4. \A k : k \in 2..n + 1 <=> k \in 2..n \/ k = n + 1
  BY <1>1
<1>5. {more[k].root : k \in 2..n + 1} = {more[k].root : k \in 2..n} \cup {x.root}
  BY <1>1, <1>4
<1>6. {more[k].root : k \in 2..Len(more)} = {vids[j] : j \in scope} \cup {vids[i]}
  BY <1>1, <1>2, <1>3, <1>5
<1> QED BY <1>6 DEF NestedIs, more

\* A longer path has the same parents.
LEMMA LongerPath ==
  ASSUME NEW p \in Seq(Vid), NEW q \in Seq(Vid), NEW x \in Vid, IsParent(p, q)
  PROVE  IsParent(p, Append(q, x))
<1>1. /\ Len(p) \in Nat /\ Len(q) \in Nat /\ Len(p) <= Len(q) /\ \A i \in 1..Len(p) : p[i] = q[i]
  BY SeqFacts DEF IsParent
<1>2. Len(Append(q, x)) = Len(q) + 1 /\ \A i \in 1..Len(q) : Append(q, x)[i] = q[i]
  BY SeqFacts, AppendFacts
<1>3. \A i \in 1..Len(p) : i \in 1..Len(q)
  BY <1>1
<1> QED BY <1>1, <1>2, <1>3 DEF IsParent

\* The tags stand where they stood when a fold begins that is around none of them.
LEMMA StandInside ==
  ASSUME NEW ts, NEW defs, NEW vids, NEW scope, NEW p \in Seq(Vid), NEW next \in Vid,
         TagsStand(ts, defs, vids, scope, p, next),
         \A t \in ts : t.path \in Seq(Vid), NEW i, vids[i] = next, \A d \in defs : i \notin d.scope
  PROVE  TagsStand(ts, defs, vids, scope \cup {i}, Append(p, next), next + 1)
<1> SUFFICES ASSUME NEW t \in ts
             PROVE  /\ \E d \in defs : StandsFor(t, d, vids, scope \cup {i}, Append(p, next))
                    /\ \A x \in ToSet(t.path) : x < next + 1
  BY DEF TagsStand
<1>1. PICK d \in defs : StandsFor(t, d, vids, scope, p)
  BY DEF TagsStand
<1>2. \A x \in ToSet(t.path) : x \in Nat /\ x < next /\ x < next + 1
  <2>1. \A k \in DOMAIN t.path : t.path[k] \in Vid
    BY SeqFacts
  <2>2. \A x \in ToSet(t.path) : x \in Nat /\ x < next
    BY <2>1 DEF TagsStand, ToSet, Vid
  <2> QED BY <2>2 DEF Vid
<1>3. d.scope \subseteq scope \cup {i} => IsParent(t.path, Append(p, next))
  <2> SUFFICES ASSUME d.scope \subseteq scope \cup {i} PROVE IsParent(t.path, Append(p, next))
    OBVIOUS
  <2>1. d.scope \subseteq scope
    OBVIOUS
  <2>2. IsParent(t.path, p)
    BY <1>1, <2>1 DEF StandsFor
  <2> QED BY <2>2, LongerPath
<1>4. vids[i] \notin ToSet(t.path)
  BY <1>2 DEF Vid
<1>5. \A j \in scope \cup {i} : vids[j] \in ToSet(t.path) => j \in d.scope
  BY <1>1, <1>4 DEF StandsFor
<1>6. StandsFor(t, d, vids, scope \cup {i}, Append(p, next))
  BY <1>1, <1>3, <1>5 DEF StandsFor
<1> QED BY <1>2, <1>6

\* The path goes on with the component that begins.
LEMMA PathPush ==
  ASSUME NEW p \in Seq(Vid), NEW R, NEW cs \in Seq(R), PathIs(p, cs), NEW x \in R, x.root \in Vid
  PROVE  PathIs(Append(p, x.root), Append(cs, x))
<1> DEFINE n == Len(cs)
<1>1. n \in Nat /\ Len(p) = n /\ \A k \in 1..n : p[k] = cs[k].root
  BY SeqFacts DEF PathIs
<1>2. /\ Len(Append(p, x.root)) = n + 1 /\ \A k \in 1..n : Append(p, x.root)[k] = p[k]
      /\ Append(p, x.root)[n + 1] = x.root
  BY <1>1, SeqFacts, AppendFacts
<1>3. /\ Len(Append(cs, x)) = n + 1 /\ \A k \in 1..n : Append(cs, x)[k] = cs[k]
      /\ Append(cs, x)[n + 1] = x
  BY SeqFacts, AppendFacts
<1> HIDE DEF n
<1>4. \A k \in 1..n + 1 : k \in 1..n \/ k = n + 1
  BY <1>1
<1> QED BY <1>1, <1>2, <1>3, <1>4 DEF PathIs

\* A fold that begins has imported nothing, and nothing inside of it was used yet.
LEMMA NothingNeeded ==
  ASSUME query \in Queries, NEW j \in Folds
  PROVE  NeededOf(Definitions, Before(Uses, j), Scopes, j) = {}
<1>1. j \in 1..Len(query.items) /\ Len(query.items) \in Nat /\ query.items[j].kind = "edge" /\ query.items[j].fold
  BY QueryFacts DEF Folds, Edges
<1>2. j \in Scopes[j]
  BY <1>1, ScopeStep
<1>3. \A u \in Before(Uses, j) : u \in Uses /\ u.time < j /\ u.time \in Nat /\ \A i \in u.scope : i < u.time
  BY <1>1, UseScopes, UseFacts DEF Before
<1>4. \A u \in Before(Uses, j) : j \notin u.scope
  <2> SUFFICES ASSUME NEW u \in Before(Uses, j), j \in u.scope PROVE FALSE
    OBVIOUS
  <2>1. u.time \in Nat /\ j < u.time /\ u.time < j
    BY <1>3
  <2> QED BY <1>1, <2>1
<1> QED BY <1>2, <1>4 DEF NeededOf

\* The new component's imports are added to those there are.
LEMMA ImportsPush ==
  ASSUME NEW defs, NEW looked, NEW scopes, NEW fs, NEW vids, NEW R, NEW imports \in Seq(R),
         ImportsAre(defs, looked, scopes, fs, vids, imports),
         NEW x \in R, x.tags = << >>,
         \A i \in fs : vids[i] = x.root => NeededOf(defs, looked, scopes, i) = {}
  PROVE  ImportsAre(defs, looked, scopes, fs, vids, Append(imports, x))
<1> DEFINE n == Len(imports)
<1> DEFINE more == Append(imports, x)
<1>1. /\ n \in Nat /\ DOMAIN imports = 1..n /\ DOMAIN more = 1..n + 1
      /\ \A k \in 1..n : more[k] = imports[k]
      /\ more[n + 1] = x
  BY SeqFacts, AppendFacts
<1>2. \A k \in 1..n : \A i \in fs :
        vids[i] = imports[k].root => ToSet(imports[k].tags) = NeededOf(defs, looked, scopes, i)
  BY <1>1 DEF ImportsAre
<1>3. ToSet(x.tags) = {}
  BY DEF ToSet
<1> HIDE DEF n, more
<1>4. \A k \in DOMAIN more : k \in 1..n \/ k = n + 1
  BY <1>1
<1> QED BY <1>1, <1>2, <1>3, <1>4 DEF ImportsAre, more

\* make_fold begins a component.
LEMMA BeginFoldOutcome == ASSUME OutcomeInv, BeginFold PROVE Outcome'
<1> DEFINE R == [root : Vid, failed : BOOLEAN]
<1> DEFINE T == [root : Vid, tags : Seq(Name)]
<1> DEFINE comp == [root |-> nextVid, failed |-> query.items[at].bad]
<1> DEFINE entry == [root |-> nextVid, tags |-> << >>]
<1>1. /\ phase = "fill" /\ query.items[at].kind = "edge" /\ at' = at + 1
      /\ at + 1 \in 1..Len(query.items)
  BY NextField DEF BeginFold
<1>2. /\ query.items[at].fold /\ nextVid' = nextVid + 1 /\ open' = Append(open, nextVid)
      /\ path' = Append(path, nextVid) /\ imported' = Append(imported, entry)
      /\ components' = Append(components, comp)
      /\ query' = query /\ tags' = tags /\ used' = used
      /\ phase' = phase /\ pending' = pending /\ folds' = folds /\ refused' = refused
  BY DEF BeginFold
<1>3. /\ query \in Queries /\ at \in 1..Len(query.items) /\ at \in Nat /\ pending = << >>
      /\ nextVid = Vids[at - 1] + 1
      /\ OpenIs(Opened[at - 1], Vids, open)
      /\ NestedIs(Vids, Scopes[at - 1], components)
      /\ TagsStand(tags, Before(Definitions, at), Vids, Scopes[at - 1], path, nextVid)
      /\ SomeFailed => ~ Valid
  BY <1>1, FillFacts
<1>4. /\ Before(Definitions, at + 1) = Before(Definitions, at) /\ Before(Uses, at + 1) = Before(Uses, at)
      /\ Opened[at] = Append(Opened[at - 1], at) /\ Vids[at] = nextVid
      /\ Vids[at] \in Nat /\ Opened[at - 1] \in Seq(Nat)
  BY <1>1, <1>3, AtAnEdge
<1>5. Scopes[at] = Scopes[at - 1] \cup {at} /\ at \in Folds
  BY <1>1, <1>2, <1>3, ScopeStep, QueryFacts DEF Folds, Edges
<1>6. query.items[at].bad \in BOOLEAN /\ (query.items[at].bad => ~ Valid)
  BY <1>1, <1>3, QueryFacts DEF Valid, Edges
<1>7. /\ nextVid \in Vid /\ path \in Seq(Vid) /\ components \in Seq(R) /\ components # << >>
      /\ imported \in Seq(T) /\ \A t \in tags : t.path \in Seq(Vid)
  BY DEF OutcomeInv, IInv, Shape
<1>8. comp \in R /\ comp.root = nextVid /\ comp.failed = query.items[at].bad
  BY <1>6, <1>7
<1>9. entry \in T /\ entry.root = nextVid /\ entry.tags = << >>
  BY <1>7
<1> HIDE DEF R, T, comp, entry
<1>10. OpenIs(Opened[at], Vids, open')
  BY <1>2, <1>3, <1>4, OpenPush
<1>11. NestedIs(Vids, Scopes[at], components')
  <2>1. NestedIs(Vids, Scopes[at - 1], components)
    BY <1>3
  <2>2. comp \in R /\ comp.root = Vids[at] /\ components \in Seq(R) /\ components # << >>
    BY <1>4, <1>7, <1>8
  <2>3. NestedIs(Vids, Scopes[at - 1] \cup {at}, Append(components, comp))
    BY <2>1, <2>2, NestedPush
  <2> QED BY <1>2, <1>5, <2>3
<1>12. TagsStand(tags', Before(Definitions, at + 1), Vids, Scopes[at], path', nextVid')
  <2>1. ASSUME NEW d \in Before(Definitions, at) PROVE at \notin d.scope
    <3>1. d \in Definitions /\ d.time < at
      BY DEF Before
    <3>2. d.time \in 1..Len(query.items) /\ \A i \in d.scope : i \in 1..d.time - 1
      BY <1>3, <3>1, DefinitionFacts
    <3>3. Len(query.items) \in Nat
      BY <1>3, QueryFacts
    <3> QED BY <1>3, <3>1, <3>2, <3>3
  <2>2. TagsStand(tags, Before(Definitions, at), Vids, Scopes[at - 1] \cup {at}, Append(path, nextVid),
                  nextVid + 1)
    BY <1>3, <1>4, <1>7, <2>1, StandInside
  <2> QED BY <1>2, <1>4, <1>5, <2>2
<1>13. SomeFailed' <=> SomeFailed \/ comp.failed
  <2> DEFINE n == Len(components)
  <2>1. /\ n \in Nat /\ DOMAIN components = 1..n /\ DOMAIN components' = 1..n + 1
        /\ (\A k \in 1..n : components'[k] = components[k]) /\ components'[n + 1] = comp
    BY <1>2, <1>7, <1>8, SeqFacts, AppendFacts
  <2>2. SomeFailed' <=> \E k \in DOMAIN components' : components'[k].failed
    BY DEF SomeFailed
  <2> HIDE DEF n
  <2>3. DOMAIN components' = DOMAIN components \cup {n + 1}
    BY <2>1
  <2> QED BY <2>1, <2>2, <2>3, ZenonT(30) DEF SomeFailed
<1>14. MisplacedAreMisplaced
  BY DEF OutcomeInv, Outcome
<1>15. ASSUME ~ SomeFailed'
       PROVE  /\ NoneBad(query, at)
              /\ PathIs(path', components')
              /\ TagsAre(tags', Before(Definitions, at + 1), Vids)
              /\ UsedAre(Definitions, Before(Uses, at + 1), used')
              /\ ImportsAre(Definitions, Before(Uses, at + 1), Scopes, Folds, Vids, imported')
              /\ FoldsAre(FoldsMade', Definitions, Uses, Scopes, Vids,
                          {i \in Folds : i < at + 1 /\ i \notin Scopes[at]})
  <2>1. ~ query.items[at].bad /\ ~ SomeFailed
    BY <1>8, <1>13, <1>15
  <2>2. /\ NoneBad(query, at - 1)
        /\ PathIs(path, components)
        /\ TagsAre(tags, Before(Definitions, at), Vids)
        /\ UsedAre(Definitions, Before(Uses, at), used)
        /\ ImportsAre(Definitions, Before(Uses, at), Scopes, Folds, Vids, imported)
        /\ FoldsAre(FoldsMade, Definitions, Uses, Scopes, Vids,
                    {i \in Folds : i < at /\ i \notin Scopes[at - 1]})
    BY <1>1, <2>1, FillFacts
  <2>3. {i \in Folds : i < at + 1 /\ i \notin Scopes[at]} = {i \in Folds : i < at /\ i \notin Scopes[at - 1]}
    BY <1>1, <1>3, FoldsPassed
  <2>4. NoneBad(query, at)
    BY <1>3, <2>1, <2>2, NoneBadNext
  <2>5. FoldsMade' = FoldsMade
    BY <1>2 DEF FoldsMade, ImportedBy
  <2>6. PathIs(path', components')
    BY <1>2, <1>7, <1>8, <2>2, PathPush
  <2>7. ASSUME NEW i \in Folds, Vids[i] = entry.root
        PROVE  NeededOf(Definitions, Before(Uses, at), Scopes, i) = {}
    <3>1. i \in Edges /\ at \in Edges
      BY <1>5 DEF Folds
    <3>2. i = at
      BY <1>3, <1>4, <1>9, <2>7, <3>1, VidsDiffer
    <3> QED BY <1>3, <1>5, <3>2, NothingNeeded
  <2>8. ImportsAre(Definitions, Before(Uses, at), Scopes, Folds, Vids, imported')
    BY <1>2, <1>7, <1>9, <2>2, <2>7, ImportsPush
  <2> QED BY <1>2, <1>4, <2>2, <2>3, <2>4, <2>5, <2>6, <2>8
<1>16. SomeFailed' => ~ Valid
  BY <1>3, <1>6, <1>8, <1>13
<1>17. nextVid' = Vids[at] + 1
  BY <1>2, <1>4
<1> QED BY <1>1, <1>2, <1>3, <1>10, <1>11, <1>12, <1>14, <1>15, <1>16, <1>17, FieldNext

\* The path of the component being made, without errors: the root and the folds in
\* scope.
LEMMA PathScope ==
  ASSUME IInv, PathIs(path, components), NEW scope, NestedIs(Vids, scope, components)
  PROVE  ToSet(path) = {RootVid} \cup {Vids[i] : i \in scope}
<1> DEFINE n == Len(components)
<1> DEFINE root(k) == components[k].root
<1>1. /\ n \in Nat \ {0} /\ root(1) = RootVid /\ DOMAIN path = 1..n
      /\ \A k \in 1..n : path[k] = root(k)
  BY StateFacts DEF IInv, InOrder, PathIs
<1>2. {root(k) : k \in 2..n} = {Vids[i] : i \in scope}
  BY DEF NestedIs
<1> HIDE DEF n, root
<1>3. ToSet(path) = {root(k) : k \in 1..n}
  BY <1>1 DEF ToSet
<1>4. \A k : k \in 1..n <=> k = 1 \/ k \in 2..n
  BY <1>1
<1>5. {root(k) : k \in 1..n} = {RootVid} \cup {root(k) : k \in 2..n}
  BY <1>1, <1>4
<1> QED BY <1>2, <1>3, <1>5

\* A tag that is registered stands for a definition in the present scope.
LEMMA StandMore ==
  ASSUME NEW ts, NEW defs, NEW vids, NEW scope, NEW p \in Seq(Vid), NEW next,
         TagsStand(ts, defs, vids, scope, p, next),
         NEW t, NEW d, t.name = d.name, t.vid = d.vid, t.path = p, d.scope = scope,
         \A x \in ToSet(p) : x < next
  PROVE  TagsStand(ts \cup {t}, defs \cup {d}, vids, scope, p, next)
<1>1. IsParent(p, p)
  BY SeqFacts DEF IsParent
<1>2. StandsFor(t, d, vids, scope, p)
  BY <1>1 DEF StandsFor
<1> SUFFICES ASSUME NEW s \in ts \cup {t}
             PROVE  /\ \E e \in defs \cup {d} : StandsFor(s, e, vids, scope, p)
                    /\ \A x \in ToSet(s.path) : x < next
  BY DEF TagsStand
<1>3. CASE s \in ts
  BY <1>3 DEF TagsStand
<1>4. CASE s = t
  BY <1>2, <1>4
<1> QED BY <1>3, <1>4

\* Every tag has a name that some definition has.
LEMMA TagsAreDefined ==
  ASSUME NEW ts, NEW defs, NEW vids, NEW scope, NEW p, NEW next, TagsStand(ts, defs, vids, scope, p, next)
  PROVE  \A t \in ts : \E d \in defs : d.name = t.name
BY DEF TagsStand, StandsFor

\* A new name and its tag.
LEMMA TagsMore ==
  ASSUME NEW ts, NEW defs, NEW vids, TagsAre(ts, defs, vids),
         \A s \in ts : \E e \in defs : e.name = s.name,
         NEW t, NEW d, t.name = d.name, \A s \in ts : s.name # t.name,
         ToSet(t.path) = {RootVid} \cup {vids[i] : i \in d.scope}
  PROVE  TagsAre(ts \cup {t}, defs \cup {d}, vids)
<1>1. \A e \in defs : e.name # d.name
  BY DEF TagsAre
<1>2. \A s, r \in ts \cup {t} : s.name = r.name => s = r
  BY DEF TagsAre
<1>3. \A e, f \in defs \cup {d} : e.name = f.name => e = f
  BY <1>1 DEF TagsAre
<1>4. \A e \in defs \cup {d} : \E s \in ts \cup {t} : s.name = e.name
  BY DEF TagsAre
<1>5. ASSUME NEW s \in ts \cup {t}, NEW e \in defs \cup {d}, s.name = e.name
      PROVE  ToSet(s.path) = {RootVid} \cup {vids[i] : i \in e.scope}
  <2>1. CASE s \in ts /\ e \in defs
    BY <1>5, <2>1 DEF TagsAre
  <2>2. CASE s \in ts /\ e = d
    BY <1>5, <2>2
  <2>3. CASE s = t /\ e \in defs
    BY <1>1, <1>5, <2>3
  <2>4. CASE s = t /\ e = d
    BY <2>4
  <2> QED BY <2>1, <2>2, <2>3, <2>4
<1> QED BY <1>2, <1>3, <1>4, <1>5 DEF TagsAre

\* A tag registered twice is in no valid query.
LEMMA NotUnique ==
  ASSUME NEW d \in Definitions, NEW defs, d \notin defs, defs \subseteq Definitions,
         NEW t \in tags, t.name = d.name, \A s \in tags : \E e \in defs : e.name = s.name
  PROVE  ~ Valid
<1>1. PICK e \in defs : e.name = d.name
  OBVIOUS
<1>2. e \in Definitions /\ e # d
  BY <1>1
<1> QED BY <1>1, <1>2 DEF Valid, IsUnique

\* A tag on a property.
LEMMA AtATag ==
  ASSUME query \in Queries, NEW j \in 1..Len(query.items), query.items[j].kind = "tag"
  PROVE  /\ Before(Definitions, j + 1) = Before(Definitions, j) \cup {TagDef(j)}
         /\ Before(Uses, j + 1) = Before(Uses, j)
         /\ TagDef(j) \in Definitions /\ TagDef(j) \notin Before(Definitions, j)
         /\ Opened[j] = Opened[j - 1] /\ Vids[j] = Vids[j - 1] /\ Scopes[j] = Scopes[j - 1]
         /\ TagDef(j).name = query.items[j].name /\ TagDef(j).scope = Scopes[j]
         /\ TagDef(j).vid = Vids[Innermost(Opened[j - 1])]
<1>1. j \in 0..Len(query.items) /\ j - 1 \in 0..Len(query.items)
  BY QueryFacts, Near
<1>2. DefsAt[j] = {TagDef(j)} /\ UsesAt[j] = {}
  BY DEF DefsAt, UsesAt
<1>3. /\ Before(Definitions, j + 1) = Before(Definitions, j) \cup DefsAt[j]
      /\ DefsAt[j] \cap Before(Definitions, j) = {} /\ DefsAt[j] \subseteq Definitions
  BY DefsStep
<1>4. Before(Uses, j + 1) = Before(Uses, j)
  <2>1. Before(Uses, j + 1) = Before(Uses, j) \cup UsesAt[j]
    BY UsesStep
  <2> QED BY <1>2, <2>1
<1>5. Opened[j] = Opened[j - 1]
  BY OpenedStep
<1>6. Vids[j] = Vids[j - 1]
  BY VidFacts
<1>7. Scopes[j] = Scopes[j - 1] /\ Scopes[j] = Scope(j)
  BY <1>1, ScopeStep, ScopeIs
<1>8. TagDef(j).name = query.items[j].name /\ TagDef(j).scope = Scopes[j]
  BY <1>7, DefinitionsAre
<1>9. TagDef(j).vid = Vids[Innermost(Opened[j - 1])]
  <2>1. TagDef(j).vid = VidAt(Innermost(Opened[j]))
    BY DefinitionsAre
  <2>2. Innermost(Opened[j - 1]) \in 0..Len(query.items)
    <3> DEFINE k == Innermost(Opened[j - 1])
    <3>1. k = 0 \/ k \in 1..j - 1
      BY <1>1, InnermostIs
    <3>2. Len(query.items) \in Nat
      BY QueryFacts
    <3> HIDE DEF k
    <3>3. k \in 0..Len(query.items)
      BY <3>1, <3>2
    <3> QED BY <3>3 DEF k
  <2> QED BY <1>5, <2>1, <2>2, VidFacts
<1> QED BY <1>2, <1>3, <1>4, <1>5, <1>6, <1>7, <1>8, <1>9

\* register_tag, at a property.
LEMMA RegisterTagOutcome == ASSUME OutcomeInv, RegisterTag PROVE Outcome'
<1> DEFINE d == TagDef(at)
<1> DEFINE t == [name |-> query.items[at].name, vid |-> Last(open), path |-> path]
<1>1. /\ phase = "fill" /\ query.items[at].kind = "tag" /\ at' = at + 1 /\ at + 1 \in 1..Len(query.items)
  BY NextField DEF RegisterTag
<1>2. /\ nextVid' = nextVid /\ open' = open
      /\ query' = query /\ path' = path /\ imported' = imported /\ used' = used
      /\ phase' = phase /\ pending' = pending /\ folds' = folds /\ refused' = refused
  BY DEF RegisterTag
<1>3. IF Defined(t.name) THEN components' = Failing /\ tags' = tags
                         ELSE components' = components /\ tags' = tags \cup {t}
  BY DEF RegisterTag
<1>4. /\ query \in Queries /\ at \in 1..Len(query.items) /\ at \in Nat /\ pending = << >>
      /\ at - 1 \in 0..Len(query.items)
      /\ nextVid = Vids[at - 1] + 1
      /\ OpenIs(Opened[at - 1], Vids, open)
      /\ NestedIs(Vids, Scopes[at - 1], components)
      /\ TagsStand(tags, Before(Definitions, at), Vids, Scopes[at - 1], path, nextVid)
      /\ SomeFailed => ~ Valid
  BY <1>1, FillFacts
<1>5. /\ Before(Definitions, at + 1) = Before(Definitions, at) \cup {d}
      /\ Before(Uses, at + 1) = Before(Uses, at)
      /\ d \in Definitions /\ d \notin Before(Definitions, at)
      /\ Opened[at] = Opened[at - 1] /\ Vids[at] = Vids[at - 1] /\ Scopes[at] = Scopes[at - 1]
      /\ d.name = t.name /\ d.scope = Scopes[at] /\ d.vid = Vids[Innermost(Opened[at - 1])]
  BY <1>1, <1>4, AtATag
<1>6. t.path = path /\ t.vid = d.vid
  <2>1. Last(open) = Vids[Innermost(Opened[at - 1])]
    BY <1>4, LastOpen
  <2> QED BY <1>5, <2>1
<1>7. IInv /\ path \in Seq(Vid) /\ Shape
  BY DEF OutcomeInv, IInv, Shape
<1>8. Defined(t.name) <=> \E s \in tags : s.name = t.name
  BY DEF Defined
<1> HIDE DEF t, d
<1>9. \A x \in ToSet(path) : x < nextVid
  BY <1>7, PathElements
<1>10. /\ NestedIs(Vids, Scopes[at], components')
       /\ Defined(t.name) => SomeFailed'
       /\ ~ Defined(t.name) => (SomeFailed' <=> SomeFailed)
  <2>1. components' \in {components, Failing}
    BY <1>3
  <2>2. NestedIs(Vids, Scopes[at], components')
    BY <1>4, <1>5, <1>7, <2>1, Marked
  <2>3. components' = Failing => SomeFailed'
    BY <1>7, <2>1, Marked
  <2>4. components' = components => (SomeFailed' <=> SomeFailed)
    BY <1>7, <2>1, Marked
  <2> QED BY <1>3, <2>2, <2>3, <2>4
<1>11. TagsStand(tags', Before(Definitions, at + 1), Vids, Scopes[at], path', nextVid')
  <2>1. TagsStand(tags, Before(Definitions, at) \cup {d}, Vids, Scopes[at], path, nextVid)
    <3>1. nextVid \in Nat /\ nextVid <= nextVid
      BY <1>7 DEF Shape, Vid
    <3> QED BY <1>4, <1>5, <1>7, <3>1, StandLater, PathElements
  <2>2. TagsStand(tags \cup {t}, Before(Definitions, at) \cup {d}, Vids, Scopes[at], path, nextVid)
    <3>1. TagsStand(tags, Before(Definitions, at), Vids, Scopes[at], path, nextVid)
      BY <1>4, <1>5
    <3> QED BY <1>5, <1>6, <1>7, <1>9, <3>1, StandMore
  <2> QED BY <1>2, <1>3, <1>5, <2>1, <2>2
<1>12. \A s \in tags : \E e \in Before(Definitions, at) : e.name = s.name
  BY <1>4, TagsAreDefined
<1>13. Defined(t.name) => ~ Valid
  <2>1. Before(Definitions, at) \subseteq Definitions
    BY DEF Before
  <2> QED BY <1>5, <1>8, <1>12, <2>1, NotUnique
<1>14. MisplacedAreMisplaced
  BY DEF OutcomeInv, Outcome
<1>15. ASSUME ~ SomeFailed'
       PROVE  /\ NoneBad(query, at)
              /\ PathIs(path', components')
              /\ TagsAre(tags', Before(Definitions, at + 1), Vids)
              /\ UsedAre(Definitions, Before(Uses, at + 1), used')
              /\ ImportsAre(Definitions, Before(Uses, at + 1), Scopes, Folds, Vids, imported')
              /\ FoldsAre(FoldsMade', Definitions, Uses, Scopes, Vids,
                          {i \in Folds : i < at + 1 /\ i \notin Scopes[at]})
  <2>1. ~ Defined(t.name) /\ ~ SomeFailed /\ components' = components /\ tags' = tags \cup {t}
    BY <1>3, <1>10, <1>15
  <2>2. /\ NoneBad(query, at - 1)
        /\ PathIs(path, components)
        /\ TagsAre(tags, Before(Definitions, at), Vids)
        /\ UsedAre(Definitions, Before(Uses, at), used)
        /\ ImportsAre(Definitions, Before(Uses, at), Scopes, Folds, Vids, imported)
        /\ FoldsAre(FoldsMade, Definitions, Uses, Scopes, Vids,
                    {i \in Folds : i < at /\ i \notin Scopes[at - 1]})
    BY <1>1, <2>1, FillFacts
  <2>3. {i \in Folds : i < at + 1 /\ i \notin Scopes[at]} = {i \in Folds : i < at /\ i \notin Scopes[at - 1]}
    BY <1>4, <1>5, FoldsPassed
  <2>4. NoneBad(query, at)
    BY <1>1, <1>4, <2>2, NoneBadNext
  <2>5. FoldsMade' = FoldsMade
    BY <1>2 DEF FoldsMade, ImportedBy
  <2>6. ToSet(t.path) = {RootVid} \cup {Vids[i] : i \in d.scope}
    <3>1. ToSet(path) = {RootVid} \cup {Vids[i] : i \in Scopes[at - 1]}
      BY <1>4, <1>7, <2>2, PathScope
    <3> QED BY <1>5, <1>6, <3>1
  <2>7. \A s \in tags : s.name # t.name
    BY <1>8, <2>1
  <2>8. TagsAre(tags \cup {t}, Before(Definitions, at) \cup {d}, Vids)
    BY <1>5, <1>12, <2>2, <2>6, <2>7, TagsMore
  <2> QED BY <1>2, <1>5, <2>1, <2>2, <2>3, <2>4, <2>5, <2>8
<1>16. SomeFailed' => ~ Valid
  BY <1>4, <1>10, <1>13
<1>17. nextVid' = Vids[at] + 1 /\ OpenIs(Opened[at], Vids, open')
  BY <1>2, <1>4, <1>5
<1> QED BY <1>1, <1>2, <1>4, <1>10, <1>11, <1>14, <1>15, <1>16, <1>17, FieldNext

\* A step to the filters of a component, or of a fold's count.
LEMMA LookNext ==
  ASSUME query \in Queries, query' = query, phase' \in {"filter", "post"},
         NEW j \in 1..Len(query.items), at' = j + 1, query.items[j].kind = "close",
         NEW k, k = Innermost(Opened[j - 1]),
         phase' = "filter" => k \in {0} \cup Folds,
         phase' = "post" => k \in Folds /\ folding' = Vids[k] /\ j + 1 \in 1..Len(query.items),
         NEW scope, scope = Scopes[IF phase' = "filter" THEN j - 1 ELSE j],
         NEW uses, uses = IF phase' = "filter" THEN Before(Uses, j) \cup FilterUsesOf[k]
                          ELSE Before(Uses, j + 1),
         pending' \in Seq(Use), LeftOf(pending', scope, j) \subseteq uses,
         nextVid' = Vids[j] + 1,
         j < Len(query.items) => OpenIs(Opened[j], Vids, open'),
         NestedIs(Vids, scope, components'),
         TagsStand(tags', Before(Definitions, j), Vids, scope, path', nextVid'),
         SomeFailed' => ~ Valid,
         ~ SomeFailed' =>
              /\ NoneBad(query, j)
              /\ PathIs(path', components')
              /\ TagsAre(tags', Before(Definitions, j), Vids)
              /\ \E L \in SUBSET Uses :
                   /\ L \cup LeftOf(pending', scope, j) = uses
                   /\ UsedAre(Definitions, L, used')
                   /\ ImportsAre(Definitions, L, Scopes, Folds, Vids, imported')
              /\ FoldsAre(FoldsMade', Definitions, Uses, Scopes, Vids,
                          {i \in Folds : i < j + 1 /\ i \notin scope}),
         refused' = refused, MisplacedAreMisplaced
  PROVE  Outcome'
<1>1. /\ Opened' = Opened /\ Folds' = Folds /\ Vids' = Vids /\ Scopes' = Scopes
      /\ Definitions' = Definitions /\ Uses' = Uses /\ FilterUsesOf' = FilterUsesOf /\ (Valid' <=> Valid)
  BY SameQuery
<1>2. /\ at' - 1 = j /\ at' - 2 = j - 1 /\ Len(query.items) \in Nat /\ j \in 0..Len(query.items)
      /\ at' \in Nat
      /\ phase' # "fill"
  BY QueryFacts
<1>3. ScopeNow' = scope
  BY <1>1, <1>2 DEF ScopeNow
<1>4. DefsNow' = Before(Definitions, j)
  BY <1>1, <1>2 DEF DefsNow, Before
<1>5. Closing' = k
  BY <1>1, <1>2 DEF Closing, Innermost
<1>6. UsesNow' = uses
  BY <1>1, <1>2, <1>5 DEF UsesNow, Before
<1>7. Left' = LeftOf(pending', scope, j)
  BY <1>2, <1>3 DEF Left, LeftOf
<1>8. Position'
  BY <1>1, <1>2, <1>5, <1>6, <1>7 DEF Position
<1>9. OpenIs(Opened[at - 1], Vids, open)' <=> OpenIs(Opened[j], Vids, open')
  BY <1>1, <1>2
<1>10. Structure'
  <2>1. (nextVid = Vids[at - 1] + 1)'
    BY <1>1, <1>2
  <2>2. (at - 1 < Len(query.items) => OpenIs(Opened[at - 1], Vids, open))'
    BY <1>1, <1>2
  <2>3. NestedIs(Vids, ScopeNow, components)' /\ TagsStand(tags, DefsNow, Vids, ScopeNow, path, nextVid)'
    BY <1>1, <1>3, <1>4
  <2> QED BY <1>8, <2>1, <2>2, <2>3 DEF Structure
<1>11. ASSUME ~ SomeFailed' PROVE Exact'
  <2>1. PICK L \in SUBSET Uses : /\ L \cup LeftOf(pending', scope, j) = uses
                                 /\ UsedAre(Definitions, L, used')
                                 /\ ImportsAre(Definitions, L, Scopes, Folds, Vids, imported')
    BY <1>11
  <2>2. LookedAt(L)' /\ L \in SUBSET Uses'
    BY <1>1, <1>6, <1>7, <2>1 DEF LookedAt
  <2>3. NoneBad(query, at - 1)' /\ PathIs(path, components)' /\ TagsAre(tags, DefsNow, Vids)'
    BY <1>1, <1>2, <1>4, <1>11
  <2>4. {i \in Folds : i < j + 1 /\ i \notin scope} = {i \in Folds' : i < at' /\ i \notin ScopeNow'}
    BY <1>1, <1>3
  <2>5. FoldsAre(FoldsMade, Definitions, Uses, Scopes, Vids, {i \in Folds : i < at /\ i \notin ScopeNow})'
    BY <1>1, <1>11, <2>4
  <2> QED BY <2>2, <2>3, <2>5 DEF Exact
<1>12. MisplacedAreMisplaced'
  BY <1>1 DEF MisplacedAreMisplaced, IsUnique
<1> QED BY <1>1, <1>10, <1>11, <1>12 DEF Outcome

\* What is left to look at in a list of uses is all of it at first.
LEMMA AllLeft ==
  ASSUME query \in Queries, NEW j \in 1..Len(query.items), query.items[j].kind = "close",
         NEW k, k = Innermost(Opened[j - 1])
  PROVE  /\ k \in {0} \cup Folds => /\ LeftOf(FilterList(k), Scopes[j - 1], j) = FilterUses(k)
                                    /\ FilterUsesOf[k] = FilterUses(k)
         /\ k \in Folds => LeftOf(PostList(k), Scopes[j], j) = PostUses(k)
         /\ VidAt(k) = Vids[k]
<1>1. /\ k \in 0..Len(query.items) /\ Scopes[k] = Scopes[j - 1]
      /\ k # 0 => k - 1 \in 0..Len(query.items) /\ Scopes[k - 1] = Scopes[j]
  BY AtTheClose
<1>2. ClosedBy(k) = j
  BY Closes
<1>3. Scope(k) = Scopes[j - 1] /\ (k # 0 => Scope(k - 1) = Scopes[j])
  BY <1>1, ScopeIs
<1>4. FilterUses(k) = UsesIn(FilterList(k), Scopes[j - 1], j)
  BY <1>2, <1>3, UsesAre
<1>5. k # 0 => PostUses(k) = UsesIn(PostList(k), Scopes[j], j)
  BY <1>2, <1>3, UsesAre
<1>6. \A list, scope, time : LeftOf(list, scope, time) = UsesIn(list, scope, time)
  BY DEF LeftOf, UsesIn, Use1
<1>7. FilterUsesOf[k] = FilterUses(k)
  BY <1>1 DEF FilterUsesOf
<1>8. k \in Folds => k # 0
  BY QueryFacts DEF Folds, Edges
<1>9. VidAt(k) = Vids[k]
  BY <1>1, VidFacts
<1> QED BY <1>4, <1>5, <1>6, <1>7, <1>8, <1>9

\* make_vertex begins to look at the filters of the component.
LEMMA StartFiltersOutcome == ASSUME OutcomeInv, StartFilters PROVE Outcome'
<1> DEFINE k == Innermost(Opened[at - 1])
<1>1. /\ phase = "fill" /\ query.items[at].kind = "close" /\ at' = at + 1
      /\ k \in {0} \cup Folds /\ Last(open) = Vids[k] /\ Last(open) = Component.root
  BY NextField, EndsComponent DEF StartFilters
<1>2. /\ nextVid' = nextVid /\ open' = AllButLast(open) /\ components' = components
      /\ query' = query /\ path' = path /\ imported' = imported /\ tags' = tags /\ used' = used
      /\ phase' = "filter" /\ pending' = Of(query.filters, Component.root)
      /\ folds' = folds /\ refused' = refused
  BY DEF StartFilters
<1>3. /\ query \in Queries /\ at \in 1..Len(query.items) /\ at \in Nat /\ at - 1 \in 0..Len(query.items)
      /\ nextVid = Vids[at - 1] + 1
      /\ OpenIs(Opened[at - 1], Vids, open)
      /\ NestedIs(Vids, Scopes[at - 1], components)
      /\ TagsStand(tags, Before(Definitions, at), Vids, Scopes[at - 1], path, nextVid)
      /\ SomeFailed => ~ Valid
  BY <1>1, FillFacts
<1>4. /\ k = 0 <=> at = Len(query.items)
      /\ k = 0 <=> Opened[at - 1] = << >>
      /\ Vids[at] = Vids[at - 1] /\ Opened[at] = AllButLast(Opened[at - 1])
      /\ Opened[at - 1] \in Seq(Nat)
  BY <1>1, <1>3, AtTheClose, InnermostIs, VidFacts, OpenedStep
<1>5. at < Len(query.items) => OpenIs(Opened[at], Vids, open')
  <2> SUFFICES ASSUME at < Len(query.items) PROVE OpenIs(Opened[at], Vids, open')
    OBVIOUS
  <2>1. at # Len(query.items)
    BY <1>3
  <2>2. Opened[at - 1] # << >>
    BY <1>4, <2>1
  <2>3. OpenIs(AllButLast(Opened[at - 1]), Vids, AllButLast(open))
    BY <1>3, <1>4, <2>2, OpenPop
  <2> QED BY <1>2, <1>4, <2>3
<1>6. /\ LeftOf(FilterList(k), Scopes[at - 1], at) = FilterUses(k)
      /\ FilterUsesOf[k] = FilterUses(k) /\ VidAt(k) = Vids[k]
  BY <1>1, <1>3, AllLeft
<1>7. pending' = FilterList(k) /\ pending' \in Seq(Use)
  BY <1>1, <1>2, <1>3, <1>6, ListsOfUses DEF FilterList
<1>8. LeftOf(pending', Scopes[at - 1], at) = FilterUsesOf[k]
  BY <1>6, <1>7
<1>9. SomeFailed' <=> SomeFailed
  BY <1>2, Marked DEF OutcomeInv, IInv
<1>10. MisplacedAreMisplaced
  BY DEF OutcomeInv, Outcome
<1>11. ASSUME ~ SomeFailed'
       PROVE  /\ NoneBad(query, at)
              /\ PathIs(path', components')
              /\ TagsAre(tags', Before(Definitions, at), Vids)
              /\ \E L \in SUBSET Uses :
                   /\ L \cup LeftOf(pending', Scopes[at - 1], at) = Before(Uses, at) \cup FilterUsesOf[k]
                   /\ UsedAre(Definitions, L, used')
                   /\ ImportsAre(Definitions, L, Scopes, Folds, Vids, imported')
              /\ FoldsAre(FoldsMade', Definitions, Uses, Scopes, Vids,
                          {i \in Folds : i < at + 1 /\ i \notin Scopes[at - 1]})
  <2>1. /\ NoneBad(query, at - 1)
        /\ PathIs(path, components)
        /\ TagsAre(tags, Before(Definitions, at), Vids)
        /\ UsedAre(Definitions, Before(Uses, at), used)
        /\ ImportsAre(Definitions, Before(Uses, at), Scopes, Folds, Vids, imported)
        /\ FoldsAre(FoldsMade, Definitions, Uses, Scopes, Vids,
                    {i \in Folds : i < at /\ i \notin Scopes[at - 1]})
    BY <1>1, <1>9, <1>11, FillFacts
  <2>2. {i \in Folds : i < at + 1 /\ i \notin Scopes[at - 1]} = {i \in Folds : i < at /\ i \notin Scopes[at - 1]}
    <3>1. at \notin Folds
      BY <1>1 DEF Folds, Edges
    <3>2. \A i \in Folds : i \in Nat
      BY <1>3, QueryFacts DEF Folds, Edges
    <3>3. \A i \in Folds : i < at + 1 <=> i < at
      BY <1>3, <3>1, <3>2
    <3> QED BY <3>3
  <2>3. NoneBad(query, at)
    BY <1>1, <1>3, <2>1, NoneBadNext
  <2>4. FoldsMade' = FoldsMade
    BY <1>2 DEF FoldsMade, ImportedBy
  <2>5. Before(Uses, at) \in SUBSET Uses
    BY DEF Before
  <2>6. \E L \in SUBSET Uses :
          /\ L \cup LeftOf(pending', Scopes[at - 1], at) = Before(Uses, at) \cup FilterUsesOf[k]
          /\ UsedAre(Definitions, L, used')
          /\ ImportsAre(Definitions, L, Scopes, Folds, Vids, imported')
    <3> WITNESS Before(Uses, at) \in SUBSET Uses
    <3> QED BY <1>2, <1>8, <2>1
  <2> QED BY <1>2, <2>1, <2>2, <2>3, <2>4, <2>6
<1>12. PICK scope : scope = Scopes[at - 1]
  OBVIOUS
<1>13. PICK uses : uses = Before(Uses, at) \cup FilterUsesOf[k]
  OBVIOUS
<1>14. PICK l : l = k
  OBVIOUS
<1> HIDE DEF k
<1>15. /\ scope = Scopes[IF phase' = "filter" THEN at - 1 ELSE at]
       /\ uses = IF phase' = "filter" THEN Before(Uses, at) \cup FilterUsesOf[l] ELSE Before(Uses, at + 1)
       /\ phase' \in {"filter", "post"} /\ phase' # "post" /\ l \in {0} \cup Folds
       /\ LeftOf(pending', scope, at) \subseteq uses
  BY <1>1, <1>2, <1>8, <1>12, <1>13, <1>14
<1>16. /\ NestedIs(Vids, scope, components')
       /\ TagsStand(tags', Before(Definitions, at), Vids, scope, path', nextVid')
       /\ nextVid' = Vids[at] + 1
  BY <1>2, <1>3, <1>4, <1>12
<1>17. ~ SomeFailed' =>
              /\ NoneBad(query, at)
              /\ PathIs(path', components')
              /\ TagsAre(tags', Before(Definitions, at), Vids)
              /\ \E L \in SUBSET Uses :
                   /\ L \cup LeftOf(pending', scope, at) = uses
                   /\ UsedAre(Definitions, L, used')
                   /\ ImportsAre(Definitions, L, Scopes, Folds, Vids, imported')
              /\ FoldsAre(FoldsMade', Definitions, Uses, Scopes, Vids,
                          {i \in Folds : i < at + 1 /\ i \notin scope})
  BY <1>11, <1>12, <1>13
<1>18. SomeFailed' => ~ Valid
  BY <1>3, <1>9
<1>19. l = Innermost(Opened[at - 1])
  BY <1>14 DEF k
<1> QED BY <1>1, <1>2, <1>3, <1>5, <1>7, <1>10, <1>15, <1>16, <1>17, <1>18, <1>19, LookNext

\* While filters are looked at, the field before closes the root or a fold.
LEMMA LookFacts ==
  ASSUME OutcomeInv, phase \in {"filter", "post"}
  PROVE  /\ query \in Queries /\ Len(query.items) \in Nat
         /\ at - 1 \in 1..Len(query.items) /\ at - 1 \in Nat /\ at \in Nat
         /\ query.items[at - 1].kind = "close"
         /\ Closing \in {0} \cup Folds /\ (phase = "post" => Closing \in Folds)
         /\ Closing = Innermost(Opened[(at - 1) - 1])
         /\ \E j \in 0..Len(query.items) : ScopeNow = Scopes[j]
         /\ ScopeNow = IF phase = "filter" THEN Scopes[(at - 1) - 1] ELSE Scopes[at - 1]
         /\ DefsNow = Before(Definitions, at - 1)
         /\ UsesNow = IF phase = "filter" THEN Before(Uses, at - 1) \cup FilterUses(Closing)
                      ELSE Before(Uses, at)
         /\ UsesNow \subseteq Uses
         /\ Structure /\ Running
<1>1. Running /\ Structure /\ query \in Queries
  BY DEF OutcomeInv, Outcome, Running, IInv, Shape
<1>2. /\ at - 1 \in 1..Len(query.items) /\ at - 1 \in 0..Len(query.items)
      /\ query.items[at - 1].kind = "close"
      /\ (phase = "filter" => Closing \in {0} \cup Folds) /\ (phase = "post" => Closing \in Folds)
  BY <1>1 DEF Structure, Position
<1>3. Len(query.items) \in Nat
  BY <1>1, QueryFacts
<1>4. at - 1 \in Nat /\ at \in Nat /\ at - 2 = (at - 1) - 1
  <2>1. at - 1 \in Nat /\ at \in Nat
    BY <1>1, <1>2, <1>3 DEF Structure, Position
  <2> QED BY <2>1
<1>5. Closing \in {0} \cup Folds /\ (phase = "post" => Closing \in Folds)
  BY <1>2
<1>6. Closing = Innermost(Opened[(at - 1) - 1])
  BY <1>4 DEF Closing
<1>7. ScopeNow = IF phase = "filter" THEN Scopes[(at - 1) - 1] ELSE Scopes[at - 1]
  BY <1>4 DEF ScopeNow
<1>8. \E j \in 0..Len(query.items) : ScopeNow = Scopes[j]
  <2>1. at - 1 \in 0..Len(query.items) /\ (at - 1) - 1 \in 0..Len(query.items)
    BY <1>2, <1>3, <1>4
  <2> QED BY <1>7, <2>1
<1>9. DefsNow = Before(Definitions, at - 1)
  BY DEF DefsNow
<1>10. FilterUsesOf[Closing] = FilterUses(Closing)
  <2>1. Closing \in 0..Len(query.items)
    BY <1>3, <1>5, QueryFacts DEF Folds, Edges
  <2> QED BY <2>1 DEF FilterUsesOf
<1>11. UsesNow = IF phase = "filter" THEN Before(Uses, at - 1) \cup FilterUses(Closing)
                 ELSE Before(Uses, at)
  BY <1>10 DEF UsesNow
<1>12. UsesNow \subseteq Uses
  <2>1. FilterUses(Closing) \subseteq Uses
    BY <1>5, UsesAre
  <2> QED BY <1>11, <2>1 DEF Before
<1> QED BY <1>1, <1>2, <1>3, <1>4, <1>5, <1>6, <1>7, <1>8, <1>9, <1>11, <1>12

\* The use that is looked at next.
UseNow == Use1(Head(pending), ScopeNow, at - 1)

\* The next of the uses that are left.
LEMMA LeftStep ==
  ASSUME NEW list \in Seq(Use), list # << >>, NEW scope, NEW time
  PROVE  /\ Tail(list) \in Seq(Use)
         /\ LeftOf(list, scope, time) = LeftOf(Tail(list), scope, time) \cup {Use1(Head(list), scope, time)}
<1> DEFINE n == Len(list)
<1> DEFINE rest == Tail(list)
<1> DEFINE u(k) == Use1(list[k], scope, time)
<1>1. /\ n \in Nat /\ n > 0 /\ rest \in Seq(Use) /\ DOMAIN list = 1..n /\ DOMAIN rest = 1..n - 1
      /\ \A k \in 1..n - 1 : rest[k] = list[k + 1]
      /\ Head(list) = list[1]
  <2>1. n \in Nat /\ n > 0 /\ DOMAIN list = 1..n
    BY SeqFacts
  <2>2. rest \in Seq(Use) /\ Len(rest) = n - 1 /\ \A k \in 1..n - 1 : rest[k] = list[k + 1]
    BY HeadTailProperties
  <2>3. DOMAIN rest = 1..n - 1
    BY <2>2, SeqFacts
  <2>4. Head(list) = list[1]
    OBVIOUS
  <2> QED BY <2>1, <2>2, <2>3, <2>4
<1>2. LeftOf(list, scope, time) = {u(k) : k \in 1..n}
  BY <1>1 DEF LeftOf
<1>3. LeftOf(rest, scope, time) = {u(k + 1) : k \in 1..n - 1}
  BY <1>1 DEF LeftOf
<1>4. Use1(Head(list), scope, time) = u(1)
  BY <1>1
<1> HIDE DEF n, rest, u
<1>5. \A k \in 1..n : k = 1 \/ (k - 1 \in 1..n - 1 /\ k - 1 + 1 = k)
  BY <1>1
<1>6. 1 \in 1..n /\ \A k \in 1..n - 1 : k + 1 \in 1..n
  BY <1>1
<1>7. {u(k) : k \in 1..n} = {u(k + 1) : k \in 1..n - 1} \cup {u(1)}
  <2>1. ASSUME NEW k \in 1..n PROVE u(k) \in {u(m + 1) : m \in 1..n - 1} \cup {u(1)}
    <3>1. CASE k = 1
      BY <3>1
    <3>2. CASE k - 1 \in 1..n - 1 /\ k - 1 + 1 = k
      <4>1. u(k) = u((k - 1) + 1)
        BY <3>2
      <4> QED BY <3>2, <4>1
    <3> QED BY <1>5, <3>1, <3>2
  <2> QED BY <1>6, <2>1
<1> QED BY <1>1, <1>2, <1>3, <1>4, <1>7 DEF rest

\* Looking at a use leaves the rest to look at.
LEMMA LookStep ==
  ASSUME OutcomeInv, LookingAtFilters, pending' = Tail(pending), query' = query, at' = at, phase' = phase,
         folding' = folding
  PROVE  /\ UseNow \in Uses /\ UseNow \in UsesNow /\ UseNow.use = Head(pending)
         /\ UseNow.scope = ScopeNow /\ UseNow.time = at - 1
         /\ Left = Left' \cup {UseNow}
         /\ Position'
         /\ ScopeNow' = ScopeNow /\ DefsNow' = DefsNow /\ UsesNow' = UsesNow
<1>1. phase \in {"filter", "post"} /\ pending # << >>
  BY DEF LookingAtFilters
<1>2. Structure /\ Running /\ UsesNow \subseteq Uses /\ query \in Queries
  BY <1>1, LookFacts
<1>3. pending \in Seq(Use) /\ Left \subseteq UsesNow
  BY <1>2 DEF Structure, Position
<1>4. /\ Opened' = Opened /\ Folds' = Folds /\ Vids' = Vids /\ Scopes' = Scopes
      /\ Definitions' = Definitions /\ Uses' = Uses /\ FilterUsesOf' = FilterUsesOf
  BY SameQuery
<1>5. ScopeNow' = ScopeNow
  BY <1>4 DEF ScopeNow
<1>6. DefsNow' = DefsNow
  BY <1>4 DEF DefsNow, Before
<1>7. Closing' = Closing
  BY <1>4 DEF Closing, Innermost
<1>8. UsesNow' = UsesNow
  BY <1>4, <1>7 DEF UsesNow, Before
<1>9. Left' = LeftOf(Tail(pending), ScopeNow, at - 1)
  BY <1>5 DEF Left, LeftOf
<1>10. Tail(pending) \in Seq(Use) /\ Left = Left' \cup {UseNow}
  BY <1>1, <1>3, <1>9, LeftStep DEF Left, UseNow
<1>11. Position'
  <2>1. Position
    BY <1>2 DEF Structure
  <2>2. Left' \subseteq UsesNow'
    BY <1>3, <1>8, <1>10
  <2> QED BY <1>1, <1>4, <1>7, <1>10, <2>1, <2>2 DEF Position
<1>12. UseNow.use = Head(pending) /\ UseNow.scope = ScopeNow /\ UseNow.time = at - 1
  BY DEF UseNow, Use1
<1> QED BY <1>2, <1>3, <1>5, <1>6, <1>8, <1>10, <1>11, <1>12

\* The structure stays when a use is looked at.
LEMMA StructureStays ==
  ASSUME OutcomeInv, LookingAtFilters, pending' = Tail(pending), query' = query, at' = at, phase' = phase,
         folding' = folding, nextVid' = nextVid, open' = open, path' = path, tags' = tags,
         components' \in {components, Failing}
  PROVE  Structure'
<1>1. phase \in {"filter", "post"}
  BY DEF LookingAtFilters
<1>2. Structure
  BY <1>1, LookFacts
<1>3. Position' /\ ScopeNow' = ScopeNow /\ DefsNow' = DefsNow
  BY LookStep
<1>4. Opened' = Opened /\ Vids' = Vids
  BY SameQuery, LookFacts, <1>1
<1>5. NestedIs(Vids, ScopeNow, components')
  BY <1>2, Marked DEF Structure, OutcomeInv, IInv
<1>6. (nextVid = Vids[at - 1] + 1)'
  BY <1>2, <1>4 DEF Structure
<1>7. (at - 1 < Len(query.items) => OpenIs(Opened[at - 1], Vids, open))'
  BY <1>2, <1>4 DEF Structure
<1>8. NestedIs(Vids, ScopeNow, components)'
  BY <1>3, <1>4, <1>5
<1>9. TagsStand(tags, DefsNow, Vids, ScopeNow, path, nextVid)'
  BY <1>2, <1>3, <1>4 DEF Structure
<1> QED BY <1>3, <1>6, <1>7, <1>8, <1>9 DEF Structure

\* A definition is at a vertex.
LEMMA DefinitionVids ==
  ASSUME query \in Queries, NEW d \in Definitions
  PROVE  d.vid \in Nat
<1>1. Len(query.items) \in Nat /\ DOMAIN query.items = 1..Len(query.items)
  BY QueryFacts
<1>2. CASE \E i \in DOMAIN query.items : query.items[i].kind = "tag" /\ d = TagDef(i)
  <2>1. PICK i \in 1..Len(query.items) : d = TagDef(i)
    BY <1>1, <1>2
  <2> DEFINE k == Innermost(Opened[i])
  <2>2. k = 0 \/ k \in 1..i
    BY <1>1, InnermostIs
  <2> HIDE DEF k
  <2>3. k \in 0..Len(query.items)
    BY <1>1, <2>2
  <2>4. VidAt(k) \in Nat
    BY <2>3, VidFacts
  <2> QED BY <2>1, <2>4, DefinitionsAre DEF k
<1>3. CASE \E i \in Counted : d = CountDef(i)
  <2>1. PICK i \in Counted : d = CountDef(i)
    BY <1>3
  <2>2. i \in 0..Len(query.items)
    BY <1>1 DEF Counted, Folds, Edges
  <2>3. VidAt(i) \in Nat
    BY <2>2, VidFacts
  <2> QED BY <2>1, <2>3, DefinitionsAre
<1> QED BY <1>2, <1>3, DefinitionsAre

\* The use that is looked at is a use.
LEMMA HeadIsUse ==
  ASSUME OutcomeInv, LookingAtFilters
  PROVE  Head(pending) \in Use /\ Head(pending).vid \in Nat /\ Head(pending).name \in Name
<1>1. pending \in Seq(Use) /\ pending # << >>
  BY LookFacts DEF LookingAtFilters, Structure, Position
<1>2. Head(pending) \in Use
  BY <1>1, SeqFacts
<1> QED BY <1>2 DEF Use, Vid

\* A use that the paths say is misplaced sees no tag whose name is its own only.
LEMMA MisplacedShows ==
  ASSUME OutcomeInv, LookingAtFilters, Misplaced(Head(pending)), NEW d \in Definitions, Sees(UseNow, d)
  PROVE  ~ IsUnique(d)
<1>1. /\ Structure /\ query \in Queries /\ DefsNow \subseteq Definitions
  BY LookFacts DEF LookingAtFilters, Before
<1>2. UseNow.use = Head(pending) /\ UseNow.scope = ScopeNow
  BY DEF UseNow, Use1
<1>3. PICK t \in tags : t.name = Head(pending).name /\ (~ IsParent(t.path, path) \/ t.vid > Head(pending).vid)
  BY DEF Misplaced
<1>4. PICK e \in DefsNow : StandsFor(t, e, Vids, ScopeNow, path)
  BY <1>1 DEF Structure, TagsStand
<1>5. e \in Definitions /\ e.vid \in Nat /\ Head(pending).vid \in Nat
  BY <1>1, DefinitionVids, HeadIsUse
<1>6. e.name = t.name /\ e.vid = t.vid /\ (e.scope \subseteq ScopeNow => IsParent(t.path, path))
  BY <1>4 DEF StandsFor
<1>7. d.name = Head(pending).name /\ d.scope \subseteq ScopeNow /\ d.vid <= Head(pending).vid
  BY <1>2 DEF Sees
<1>8. ASSUME e = d PROVE FALSE
  <2>1. IsParent(t.path, path)
    BY <1>6, <1>7, <1>8
  <2>2. t.vid \in Nat /\ t.vid <= Head(pending).vid /\ t.vid > Head(pending).vid
    BY <1>3, <1>5, <1>6, <1>7, <1>8, <2>1
  <2> QED BY <1>5, <2>2
<1> QED BY <1>3, <1>5, <1>6, <1>7, <1>8 DEF IsUnique

\* Without errors so far, a use that is refused is not legal.
LEMMA RefusedIsIllegal ==
  ASSUME OutcomeInv, LookingAtFilters, ~ SomeFailed, Refused(Head(pending)), UseNow \in Uses
  PROVE  ~ Valid
<1>1. /\ query \in Queries /\ DefsNow = Before(Definitions, at - 1) /\ Running
  BY LookFacts DEF LookingAtFilters
<1>2. UseNow.use = Head(pending) /\ UseNow.time = at - 1
  BY DEF UseNow, Use1
<1>3. CASE Misplaced(Head(pending))
  BY <1>3, MisplacedShows DEF Valid, Legal
<1>4. CASE Undefined(Head(pending))
  <2>1. TagsAre(tags, DefsNow, Vids)
    BY <1>1 DEF OutcomeInv, Outcome, Exact
  <2>2. ASSUME NEW d \in Definitions, Sees(UseNow, d) PROVE FALSE
    <3>1. d.time < at - 1 /\ d.name = Head(pending).name
      BY <1>2, <2>2 DEF Sees
    <3>2. d \in DefsNow
      BY <1>1, <3>1 DEF Before
    <3>3. \E t \in tags : t.name = Head(pending).name
      BY <2>1, <3>1, <3>2 DEF TagsAre
    <3> QED BY <1>4, <3>3 DEF Undefined, Defined
  <2> QED BY <2>2 DEF Valid, Legal
<1> QED BY <1>3, <1>4 DEF Refused

\* A use that is refused.
LEMMA RefuseUseOutcome == ASSUME OutcomeInv, RefuseUse PROVE Outcome'
<1>1. /\ LookingAtFilters /\ Refused(Head(pending)) /\ components' = Failing
      /\ pending' = Tail(pending) /\ query' = query /\ at' = at /\ phase' = phase /\ folding' = folding
      /\ nextVid' = nextVid /\ open' = open /\ path' = path /\ tags' = tags
  BY DEF RefuseUse
<1>2. refused' = refused \cup {[use |-> Head(pending),
                               error |-> IF Undefined(Head(pending)) THEN "undefined" ELSE "misplaced"]}
  BY DEF RefuseUse
<1>3. UseNow \in Uses /\ UseNow.use = Head(pending)
  BY <1>1, LookStep
<1>4. Structure'
  BY <1>1, StructureStays
<1>5. SomeFailed'
  BY <1>1, Marked DEF OutcomeInv, IInv
<1>6. phase \in {"filter", "post"} /\ Running /\ query \in Queries
  BY <1>1, LookFacts DEF LookingAtFilters
<1>7. ~ Valid
  BY <1>1, <1>3, <1>6, RefusedIsIllegal DEF OutcomeInv, Outcome
<1>8. Uses' = Uses /\ Definitions' = Definitions /\ (Valid' <=> Valid)
  BY <1>1, SameQuery
<1>9. MisplacedAreMisplaced'
  <2>1. ASSUME NEW r \in refused', r.error = "misplaced"
        PROVE  \E u \in Uses : u.use = r.use /\ \A d \in Definitions : Sees(u, d) => ~ IsUnique(d)
    <3>1. CASE r \in refused
      BY <2>1, <3>1 DEF OutcomeInv, Outcome, MisplacedAreMisplaced
    <3>2. CASE r = [use |-> Head(pending),
                    error |-> IF Undefined(Head(pending)) THEN "undefined" ELSE "misplaced"]
      <4>1. r.use = Head(pending) /\ ~ Undefined(Head(pending))
        BY <2>1, <3>2
      <4>2. Misplaced(Head(pending))
        BY <1>1, <4>1 DEF Refused
      <4>3. \A d \in Definitions : Sees(UseNow, d) => ~ IsUnique(d)
        BY <1>1, <4>2, MisplacedShows
      <4> QED BY <1>3, <4>1, <4>3
    <3> QED BY <1>2, <3>1, <3>2
  <2> QED BY <1>8, <2>1 DEF MisplacedAreMisplaced, IsUnique
<1>10. Running' /\ phase' \notin {"accepted", "rejected"}
  BY <1>1, <1>6 DEF Running
<1> QED BY <1>4, <1>5, <1>7, <1>8, <1>9, <1>10 DEF Outcome

\* Without errors so far, a use that is not refused sees the tag of its name.
LEMMA SeesTheTag ==
  ASSUME OutcomeInv, LookingAtFilters, ~ SomeFailed, ~ Refused(Head(pending)),
         NEW t \in tags, t.name = Head(pending).name
  PROVE  /\ IsParent(t.path, path)
         /\ \E d \in Definitions :
              /\ Sees(UseNow, d) /\ d.name = t.name /\ d.scope \subseteq ScopeNow
              /\ \A e \in Definitions : Sees(UseNow, e) => e = d
              /\ ToSet(t.path) = {RootVid} \cup {Vids[i] : i \in d.scope}
<1>1. /\ query \in Queries /\ DefsNow = Before(Definitions, at - 1) /\ Running /\ Structure
      /\ DefsNow \subseteq Definitions /\ \E j \in 0..Len(query.items) : ScopeNow = Scopes[j]
  BY LookFacts DEF LookingAtFilters, Before
<1>2. UseNow.use = Head(pending) /\ UseNow.time = at - 1 /\ UseNow.scope = ScopeNow
  BY DEF UseNow, Use1
<1>3. TagsAre(tags, DefsNow, Vids) /\ PathIs(path, components)
  BY <1>1 DEF OutcomeInv, Outcome, Exact
<1>4. PICK d \in DefsNow : StandsFor(t, d, Vids, ScopeNow, path)
  BY <1>1 DEF Structure, TagsStand
<1>5. d.name = t.name /\ d.vid = t.vid /\ d \in Definitions /\ d.vid \in Nat
  BY <1>1, <1>4, DefinitionVids DEF StandsFor
<1>6. IsParent(t.path, path) /\ ~ (t.vid > Head(pending).vid)
  BY DEF Refused, Misplaced
<1>7. ToSet(t.path) = {RootVid} \cup {Vids[i] : i \in d.scope}
  BY <1>3, <1>5 DEF TagsAre
<1>8. d.scope \subseteq ScopeNow
  <2>1. ToSet(path) = {RootVid} \cup {Vids[i] : i \in ScopeNow}
    BY <1>1, <1>3, PathScope DEF Structure, OutcomeInv
  <2>2. ToSet(t.path) \subseteq ToSet(path)
    <3>1. DOMAIN t.path = 1..Len(t.path) /\ DOMAIN path = 1..Len(path) /\ Len(t.path) \in Nat
          /\ Len(path) \in Nat
      BY SeqFacts DEF OutcomeInv, IInv, Shape
    <3>2. \A i \in DOMAIN t.path : i \in DOMAIN path /\ t.path[i] = path[i]
      BY <1>6, <3>1 DEF IsParent
    <3> QED BY <3>2 DEF ToSet
  <2>3. ASSUME NEW i \in d.scope PROVE i \in ScopeNow
    <3>1. i \in Edges
      BY <1>1, <1>5, DefinitionFacts DEF Folds
    <3>2. Vids[i] # RootVid /\ Vids[i] \in ToSet(path)
      BY <1>1, <1>7, <2>2, <3>1, VidsDiffer
    <3>3. PICK l \in ScopeNow : Vids[i] = Vids[l]
      BY <2>1, <3>2
    <3>4. l \in Edges
      BY <1>1, ScopeIs
    <3>5. i = l
      BY <1>1, <3>1, <3>3, <3>4, VidsDiffer
    <3> QED BY <3>5
  <2> QED BY <2>3
<1>9. Sees(UseNow, d)
  <2>1. d.vid <= Head(pending).vid
    BY <1>5, <1>6, HeadIsUse
  <2>2. d.time < at - 1
    BY <1>1 DEF Before
  <2> QED BY <1>2, <1>5, <1>8, <2>1, <2>2 DEF Sees
<1>10. ASSUME NEW e \in Definitions, Sees(UseNow, e) PROVE e = d
  <2>1. e.name = d.name /\ e.time < at - 1
    BY <1>2, <1>5, <1>10 DEF Sees
  <2>2. e \in DefsNow
    BY <1>1, <2>1 DEF Before
  <2> QED BY <1>3, <2>1, <2>2 DEF TagsAre
<1> QED BY <1>5, <1>6, <1>7, <1>8, <1>9, <1>10

\* One more use that sees a tag.
LEMMA UsedMore ==
  ASSUME NEW defs, NEW looked, NEW names, UsedAre(defs, looked, names),
         NEW u, NEW d \in defs, Sees(u, d), \A e \in defs : Sees(u, e) => e = d
  PROVE  UsedAre(defs, looked \cup {u}, names \cup {d.name})
<1>1. \A v \in looked \cup {u} : \E e \in defs : Sees(v, e)
  BY DEF UsedAre
<1>2. names = {e.name : e \in {f \in defs : \E v \in looked : Sees(v, f)}}
  BY DEF UsedAre
<1>3. {f \in defs : \E v \in looked \cup {u} : Sees(v, f)}
        = {f \in defs : \E v \in looked : Sees(v, f)} \cup {d}
  OBVIOUS
<1>4. {e.name : e \in {f \in defs : \E v \in looked : Sees(v, f)} \cup {d}}
        = {e.name : e \in {f \in defs : \E v \in looked : Sees(v, f)}} \cup {d.name}
  OBVIOUS
<1> QED BY <1>1, <1>2, <1>3, <1>4 DEF UsedAre

\* What a fold needs with one more use.
LEMMA NeededMore ==
  ASSUME NEW defs, NEW looked, NEW scopes, NEW i,
         NEW u, NEW d \in defs, Sees(u, d), \A e \in defs : Sees(u, e) => e = d
  PROVE  /\ d.scope = scopes[i - 1] /\ scopes[i] \subseteq u.scope =>
              NeededOf(defs, looked \cup {u}, scopes, i) = NeededOf(defs, looked, scopes, i) \cup {d.name}
         /\ ~ (d.scope = scopes[i - 1] /\ scopes[i] \subseteq u.scope) =>
              NeededOf(defs, looked \cup {u}, scopes, i) = NeededOf(defs, looked, scopes, i)
<1> DEFINE N(L) == {e \in defs : e.scope = scopes[i - 1]
                                   /\ \E v \in L : Sees(v, e) /\ scopes[i] \subseteq v.scope}
<1>1. \A L : NeededOf(defs, L, scopes, i) = {e.name : e \in N(L)}
  BY DEF NeededOf
<1>2. ASSUME d.scope = scopes[i - 1] /\ scopes[i] \subseteq u.scope
      PROVE  NeededOf(defs, looked \cup {u}, scopes, i) = NeededOf(defs, looked, scopes, i) \cup {d.name}
  <2>1. N(looked \cup {u}) = N(looked) \cup {d}
    BY <1>2
  <2> HIDE DEF N
  <2>2. {e.name : e \in N(looked) \cup {d}} = {e.name : e \in N(looked)} \cup {d.name}
    OBVIOUS
  <2>3. /\ NeededOf(defs, looked \cup {u}, scopes, i) = {e.name : e \in N(looked \cup {u})}
        /\ NeededOf(defs, looked, scopes, i) = {e.name : e \in N(looked)}
    BY <1>1
  <2> QED BY <2>1, <2>2, <2>3
<1>3. ASSUME ~ (d.scope = scopes[i - 1] /\ scopes[i] \subseteq u.scope)
      PROVE  NeededOf(defs, looked \cup {u}, scopes, i) = NeededOf(defs, looked, scopes, i)
  <2>1. N(looked \cup {u}) = N(looked)
    BY <1>3
  <2> HIDE DEF N
  <2> QED BY <1>1, <2>1
<1> QED BY <1>2, <1>3

\* The vertices of edges come in the order of the edges.
LEMMA VidOrder ==
  ASSUME query \in Queries, NEW f \in Edges, NEW i \in Edges
  PROVE  f < i <=> Vids[f] < Vids[i]
<1>1. Len(query.items) \in Nat /\ f \in 1..Len(query.items) /\ i \in 1..Len(query.items)
  BY QueryFacts DEF Edges
<1>2. f \in 0..Len(query.items) /\ i \in 0..Len(query.items) /\ f \in Nat /\ i \in Nat
  BY <1>1
<1>3. Vids[f] \in Nat /\ Vids[i] \in Nat /\ (f < i => Vids[f] < Vids[i]) /\ (i < f => Vids[i] < Vids[f])
  BY <1>2, VidFacts
<1>4. f < i \/ f = i \/ i < f
  BY <1>2
<1> QED BY <1>2, <1>3, <1>4

\* A path of the root and the folds of a scope.
Spans(p, vids, scope) == ToSet(p) = {RootVid} \cup {vids[i] : i \in scope}

\* The importer of a tag is the fold on the path right inside of the tag's scope.
LEMMA ImporterIs ==
  ASSUME IInv, NEW j \in 0..Len(query.items),
         Spans(path, Vids, Scopes[j]),
         NEW p \in Seq(Vid), Len(p) > 0, IsParent(p, path),
         NEW outer, outer \subseteq Scopes[j], Spans(p, Vids, outer),
         NEW k \in DOMAIN imported, NEW i \in Folds, Vids[i] = imported[k].root
  PROVE  /\ Scopes[i] \subseteq Scopes[j]
         /\ outer = Scopes[i - 1] <=> k = Len(p)
<1> DEFINE m == Len(p)
<1> DEFINE n == Len(path)
<1>1. /\ query \in Queries /\ n \in Nat /\ m \in Nat /\ m > 0 /\ m <= n
      /\ DOMAIN path = 1..n /\ DOMAIN p = 1..m
      /\ \A l \in 1..m : p[l] = path[l]
      /\ \A l \in 1..n : path[l] \in Nat
      /\ \A l, h \in 1..n : l < h => path[l] < path[h]
      /\ path[1] = RootVid
      /\ k \in 1..n - 1 /\ path[k + 1] = Vids[i]
  <2>1. DOMAIN p = 1..m /\ m \in Nat
    BY SeqFacts
  <2>2. n \in Nat /\ DOMAIN path = 1..n /\ (\A l \in 1..n : path[l] \in Nat)
        /\ DOMAIN imported = 1..Len(imported) /\ Len(imported) \in Nat
    BY StateFacts
  <2>3. Len(path) = Len(imported) + 1 /\ path[1] = RootVid /\ imported[k].root = path[k + 1]
    BY DEF IInv, Lockstep
  <2>4. k \in 1..n - 1
    BY <2>2, <2>3
  <2>5. \A l, h \in 1..n : l < h => path[l] < path[h]
    BY <2>2 DEF IInv, InOrder
  <2> QED BY <2>1, <2>2, <2>3, <2>4, <2>5 DEF IInv, Shape, IsParent
<1> HIDE DEF m, n
<1>14. n \in Nat /\ m \in Nat /\ m > 0 /\ m <= n /\ k \in 1..n - 1
  BY <1>1
<1>13. /\ ToSet(path) = {RootVid} \cup {Vids[f] : f \in Scopes[j]}
       /\ ToSet(p) = {RootVid} \cup {Vids[f] : f \in outer}
  BY DEF Spans
<1>2. ToSet(path) = {path[l] : l \in 1..n} /\ ToSet(p) = {path[l] : l \in 1..m}
  <2>1. ToSet(path) = {path[l] : l \in 1..n}
    BY <1>1 DEF ToSet
  <2>2. ToSet(p) = {p[l] : l \in 1..m}
    BY <1>1 DEF ToSet
  <2>3. {p[l] : l \in 1..m} = {path[l] : l \in 1..m}
    BY <1>1
  <2> QED BY <2>1, <2>2, <2>3
<1>3. \A l, h \in 1..n : /\ path[l] = path[h] => l = h
                         /\ path[l] < path[h] => l < h
  <2> SUFFICES ASSUME NEW l \in 1..n, NEW h \in 1..n
               PROVE  (path[l] = path[h] => l = h) /\ (path[l] < path[h] => l < h)
    OBVIOUS
  <2>1. l < h \/ l = h \/ h < l
    BY <1>14
  <2>2. path[l] \in Nat /\ path[h] \in Nat /\ (l < h => path[l] < path[h]) /\ (h < l => path[h] < path[l])
    BY <1>1
  <2>3. CASE l < h
    BY <2>2, <2>3
  <2>4. CASE l = h
    BY <2>2, <2>4
  <2>5. CASE h < l
    BY <2>2, <2>5
  <2> QED BY <2>1, <2>3, <2>4, <2>5
<1>4. \A f \in Scopes[j] : f \in Edges /\ f \in Folds
  BY <1>1, ScopeIs
<1>5. k + 1 \in 1..n /\ path[k + 1] # RootVid /\ \A l \in 1..m : l \in 1..n
  <2>1. /\ k + 1 \in 1..n /\ 1 \in 1..n /\ k + 1 # 1 /\ \A l \in 1..m : l \in 1..n
    BY <1>14
  <2>3. path[1] = RootVid
    BY <1>1
  <2>2. path[k + 1] # path[1]
    BY <1>3, <2>1
  <2> QED BY <2>1, <2>2, <2>3
<1>6. i \in Scopes[j]
  <2>1. Vids[i] \in ToSet(path) /\ Vids[i] # RootVid
    BY <1>1, <1>2, <1>5
  <2>2. PICK f \in Scopes[j] : Vids[i] = Vids[f]
    BY <1>13, <2>1
  <2>3. i = f
    BY <1>1, <1>4, <2>2, VidsDiffer DEF Folds
  <2> QED BY <2>2, <2>3
<1>7. /\ Scopes[i - 1] = {f \in Scopes[j] : f < i} /\ Scopes[i] = {f \in Scopes[j] : f <= i}
      /\ i \notin Scopes[i - 1]
  BY <1>1, <1>6, OuterFolds
<1>8. ASSUME NEW f \in Scopes[j], NEW l \in 1..n, path[l] = Vids[f]
      PROVE  /\ f \in outer <=> l <= m
             /\ f < i <=> l <= k
  <2>1. f \in outer => l <= m
    <3> SUFFICES ASSUME f \in outer PROVE l <= m
      OBVIOUS
    <3>1. PICK h \in 1..m : path[h] = path[l]
      BY <1>2, <1>8, <1>13
    <3>2. h = l
      BY <1>3, <1>5, <3>1
    <3> QED BY <1>1, <3>2
  <2>2. l <= m => f \in outer
    <3> SUFFICES ASSUME l <= m PROVE f \in outer
      OBVIOUS
    <3>1. l \in 1..m
      BY <1>1
    <3>2. Vids[f] \in ToSet(p)
      BY <1>2, <1>8, <3>1
    <3>3. Vids[f] # RootVid
      BY <1>1, <1>4, VidsDiffer
    <3>4. PICK g \in outer : Vids[f] = Vids[g]
      BY <1>13, <3>2, <3>3
    <3>5. f = g
      BY <1>1, <1>4, <3>4, VidsDiffer
    <3> QED BY <3>4, <3>5
  <2>3. f < i <=> path[l] < path[k + 1]
    <3>1. f \in Edges /\ i \in Edges
      BY <1>4, <1>6
    <3>2. f < i <=> Vids[f] < Vids[i]
      BY <1>1, <3>1, VidOrder
    <3> QED BY <1>1, <1>8, <3>2
  <2>4. path[l] < path[k + 1] <=> l < k + 1
    BY <1>1, <1>3, <1>5
  <2>5. l < k + 1 <=> l <= k
    BY <1>14
  <2> QED BY <2>1, <2>2, <2>3, <2>4, <2>5
<1>9. \A f \in Scopes[j] : \E l \in 1..n : path[l] = Vids[f]
  BY <1>2, <1>13
<1>10. ASSUME k = m PROVE outer = Scopes[i - 1]
  <2>1. \A f \in Scopes[j] : f \in outer <=> f < i
    BY <1>8, <1>9, <1>10
  <2> QED BY <1>7, <2>1
<1>11. ASSUME outer = Scopes[i - 1] PROVE k = m
  <2>1. ~ (k + 1 <= m)
    <3>1. k + 1 <= m => i \in outer
      BY <1>1, <1>5, <1>6, <1>8
    <3> QED BY <1>7, <1>11, <3>1
  <2>2. ~ (m + 1 <= k)
    <3> SUFFICES ASSUME m + 1 <= k PROVE FALSE
      OBVIOUS
    <3>1. m + 1 \in 1..n /\ 1 \in 1..n /\ 1 < m + 1 /\ ~ (m + 1 <= m)
      BY <1>14
    <3>2. path[m + 1] \in ToSet(path)
      BY <1>2, <3>1
    <3>5. path[m + 1] # path[1]
      BY <1>3, <3>1
    <3>6. path[m + 1] # RootVid
      BY <1>1, <3>5
    <3>3. PICK f \in Scopes[j] : path[m + 1] = Vids[f]
      BY <1>13, <3>2, <3>6
    <3>4. f < i /\ f \notin outer
      BY <1>8, <3>1, <3>3
    <3> QED BY <1>7, <1>11, <3>4
  <2> QED BY <1>1, <2>1, <2>2
<1>12. Scopes[i] \subseteq Scopes[j]
  BY <1>7
<1> QED BY <1>10, <1>11, <1>12 DEF m

\* A use that sees a tag is looked at: the importer of the tag, if there is one,
\* has it now.
LEMMA UseOutcome ==
  ASSUME OutcomeInv, LookingAtFilters, ~ Refused(Head(pending)),
         NEW t \in tags, t.name = Head(pending).name,
         pending' = Tail(pending), query' = query, at' = at, phase' = phase, folding' = folding,
         nextVid' = nextVid, open' = open, path' = path, tags' = tags, components' = components,
         folds' = folds, refused' = refused,
         used' = used \cup {t.name}, DOMAIN imported' = DOMAIN imported,
         \A k \in DOMAIN imported :
           /\ imported'[k].root = imported[k].root
           /\ ToSet(imported'[k].tags) = ToSet(imported[k].tags)
                                           \cup (IF k = Len(t.path) THEN {t.name} ELSE {})
  PROVE  Outcome'
<1>1. phase \in {"filter", "post"} /\ IInv
  BY DEF LookingAtFilters, OutcomeInv
<1>2. /\ query \in Queries /\ Structure /\ Running /\ \E j \in 0..Len(query.items) : ScopeNow = Scopes[j]
  BY <1>1, LookFacts
<1>3. /\ UseNow \in Uses /\ UseNow.scope = ScopeNow /\ Left = Left' \cup {UseNow}
      /\ ScopeNow' = ScopeNow /\ DefsNow' = DefsNow /\ UsesNow' = UsesNow
  BY LookStep
<1>4. Structure'
  BY StructureStays
<1>5. SomeFailed' <=> SomeFailed
  BY <1>1, Marked DEF IInv
<1>6. /\ Uses' = Uses /\ Definitions' = Definitions /\ (Valid' <=> Valid) /\ Folds' = Folds
      /\ Vids' = Vids /\ Scopes' = Scopes
  BY <1>2, SameQuery
<1>7. ASSUME ~ SomeFailed PROVE Exact'
  <2>1. Exact
    BY <1>2, <1>7 DEF OutcomeInv, Outcome
  <2>2. PICK L \in SUBSET Uses : LookedAt(L)
    BY <2>1 DEF Exact
  <2>3. PICK d \in Definitions :
          /\ Sees(UseNow, d) /\ d.name = t.name /\ d.scope \subseteq ScopeNow
          /\ \A e \in Definitions : Sees(UseNow, e) => e = d
          /\ ToSet(t.path) = {RootVid} \cup {Vids[i] : i \in d.scope}
    BY <1>7, SeesTheTag
  <2>4. IsParent(t.path, path)
    BY <1>7, SeesTheTag
  <2> DEFINE M == L \cup {UseNow}
  <2>5. M \in SUBSET Uses /\ M \cup Left' = UsesNow
    BY <1>3, <2>2 DEF LookedAt
  <2>6. UsedAre(Definitions, M, used')
    BY <2>2, <2>3, UsedMore DEF LookedAt
  <2>7. PICK j \in 0..Len(query.items) : ScopeNow = Scopes[j]
    BY <1>2
  <2>8. ToSet(path) = {RootVid} \cup {Vids[i] : i \in Scopes[j]}
    BY <1>1, <1>2, <2>1, <2>7, PathScope DEF Structure, Exact
  <2>9. t.path \in Seq(Vid) /\ Len(t.path) > 0
    BY <1>1 DEF IInv, Shape
  <2> HIDE DEF M
  <2>10. ASSUME NEW k \in DOMAIN imported, NEW i \in Folds, Vids[i] = imported[k].root
         PROVE  ToSet(imported'[k].tags) = NeededOf(Definitions, M, Scopes, i)
    <3>1. Scopes[i] \subseteq Scopes[j] /\ (d.scope = Scopes[i - 1] <=> k = Len(t.path))
      <4>1. Spans(path, Vids, Scopes[j]) /\ Spans(t.path, Vids, d.scope) /\ d.scope \subseteq Scopes[j]
        BY <2>3, <2>7, <2>8 DEF Spans
      <4> QED BY <1>1, <2>4, <2>9, <2>10, <4>1, ImporterIs
    <3>2. ToSet(imported[k].tags) = NeededOf(Definitions, L, Scopes, i)
      BY <2>2, <2>10 DEF LookedAt, ImportsAre
    <3>3. CASE k = Len(t.path)
      <4>1. NeededOf(Definitions, M, Scopes, i) = NeededOf(Definitions, L, Scopes, i) \cup {d.name}
        BY <1>3, <2>3, <2>7, <3>1, <3>3, NeededMore DEF M
      <4> QED BY <2>3, <3>2, <3>3, <4>1
    <3>4. CASE k # Len(t.path)
      <4>1. NeededOf(Definitions, M, Scopes, i) = NeededOf(Definitions, L, Scopes, i)
        BY <1>3, <2>3, <2>7, <3>1, <3>4, NeededMore DEF M
      <4> QED BY <3>2, <3>4, <4>1
    <3> QED BY <3>3, <3>4
  <2>11. ImportsAre(Definitions, M, Scopes, Folds, Vids, imported')
    BY <2>10 DEF ImportsAre
  <2>12. PICK N : N = M
    OBVIOUS
  <2>13. LookedAt(N)' /\ N \in SUBSET Uses'
    BY <1>3, <1>6, <2>5, <2>6, <2>11, <2>12 DEF LookedAt
  <2>14. NoneBad(query, at - 1)' /\ PathIs(path, components)' /\ TagsAre(tags, DefsNow, Vids)'
    BY <1>3, <1>6, <2>1 DEF Exact
  <2>15. FoldsMade' = FoldsMade
    BY DEF FoldsMade, ImportedBy
  <2>16. FoldsAre(FoldsMade, Definitions, Uses, Scopes, Vids, {i \in Folds : i < at /\ i \notin ScopeNow})'
    BY <1>3, <1>6, <2>1, <2>15 DEF Exact
  <2> QED BY <2>13, <2>14, <2>16 DEF Exact
<1>8. MisplacedAreMisplaced'
  BY <1>6 DEF MisplacedAreMisplaced, IsUnique, OutcomeInv, Outcome
<1>9. Running' /\ phase' \notin {"accepted", "rejected"}
  BY <1>1 DEF Running
<1>10. SomeFailed => ~ Valid
  BY <1>2 DEF OutcomeInv, Outcome
<1> QED BY <1>4, <1>5, <1>6, <1>7, <1>8, <1>9, <1>10 DEF Outcome

\* reference_tag of a tag of the same component.
LEMMA UseLocalTagOutcome == ASSUME OutcomeInv, UseLocalTag PROVE Outcome'
<1>1. PICK t \in tags : t.name = Head(pending).name /\ t.path = path /\ used' = used \cup {t.name}
  BY DEF UseLocalTag
<1>2. /\ LookingAtFilters /\ ~ Refused(Head(pending)) /\ pending' = Tail(pending)
      /\ query' = query /\ at' = at /\ phase' = phase /\ folding' = folding /\ nextVid' = nextVid
      /\ open' = open /\ path' = path /\ tags' = tags /\ components' = components /\ folds' = folds
      /\ refused' = refused /\ imported' = imported
  BY DEF UseLocalTag
<1>3. ASSUME NEW k \in DOMAIN imported PROVE k # Len(t.path)
  BY <1>1, StateFacts DEF OutcomeInv, IInv, Lockstep
<1>4. DOMAIN imported' = DOMAIN imported
  BY <1>2
<1>5. \A k \in DOMAIN imported :
        /\ imported'[k].root = imported[k].root
        /\ ToSet(imported'[k].tags) = ToSet(imported[k].tags)
                                        \cup (IF k = Len(t.path) THEN {t.name} ELSE {})
  BY <1>2, <1>3
<1> QED BY <1>1, <1>2, <1>4, <1>5, UseOutcome

\* One more element.
LEMMA ToSetAppend ==
  ASSUME NEW S, NEW s \in Seq(S), NEW x \in S
  PROVE  ToSet(Append(s, x)) = ToSet(s) \cup {x}
<1> DEFINE n == Len(s)
<1> DEFINE r == Append(s, x)
<1>1. /\ n \in Nat /\ DOMAIN s = 1..n /\ DOMAIN r = 1..n + 1
      /\ \A i \in 1..n : r[i] = s[i]
      /\ r[n + 1] = x
  BY SeqFacts, AppendFacts
<1> HIDE DEF n, r
<1>2. \A i : i \in 1..n + 1 <=> i \in 1..n \/ i = n + 1
  BY <1>1
<1>3. ToSet(r) = {r[i] : i \in 1..n + 1} /\ ToSet(s) = {s[i] : i \in 1..n}
  BY <1>1 DEF ToSet
<1> QED BY <1>1, <1>2, <1>3 DEF r

\* reference_tag of a tag of a component around this one.
LEMMA ImportTagOutcome == ASSUME OutcomeInv, ImportTag PROVE Outcome'
<1>1. PICK t \in tags :
        /\ t.name = Head(pending).name /\ t.path # path
        /\ IF CanImport(t)
             THEN /\ imported' = [imported EXCEPT ![Len(t.path)].tags = Append(@, t.name)]
                  /\ used' = used \cup {t.name} /\ phase' = phase
             ELSE phase' = "panicked" /\ imported' = imported /\ used' = used
  BY DEF ImportTag
<1>2. /\ LookingAtFilters /\ ~ Refused(Head(pending)) /\ pending' = Tail(pending)
      /\ query' = query /\ at' = at /\ folding' = folding /\ nextVid' = nextVid
      /\ open' = open /\ path' = path /\ tags' = tags /\ components' = components /\ folds' = folds
      /\ refused' = refused
  BY DEF ImportTag
<1>3. IsParent(t.path, path)
  BY <1>1, <1>2 DEF Refused, Misplaced
<1>4. CanImport(t)
  BY <1>1, <1>3, ImporterFound DEF OutcomeInv
<1> DEFINE m == Len(t.path)
<1> DEFINE more == Append(imported[m].tags, t.name)
<1> DEFINE T == [root : Vid, tags : Seq(Name)]
<1>5. m \in DOMAIN imported /\ imported \in Seq(T) /\ t.name \in Name
  BY <1>4 DEF CanImport, OutcomeInv, IInv, Shape
<1>6. imported[m] \in T
  BY <1>5, SeqFacts
<1>7. imported[m].tags \in Seq(Name)
  BY <1>6
<1>8. ToSet(more) = ToSet(imported[m].tags) \cup {t.name}
  BY <1>5, <1>7, ToSetAppend
<1>9. imported' = [imported EXCEPT ![m] = [imported[m] EXCEPT !.tags = more]]
  BY <1>1, <1>4, <1>5
<1> HIDE DEF more, m
<1>10. imported'[m].root = imported[m].root /\ imported'[m].tags = more
  BY <1>5, <1>6, <1>9
<1>11. DOMAIN imported' = DOMAIN imported /\ \A k \in DOMAIN imported : k # m => imported'[k] = imported[k]
  BY <1>9
<1>12. \A k \in DOMAIN imported :
         /\ imported'[k].root = imported[k].root
         /\ ToSet(imported'[k].tags) = ToSet(imported[k].tags)
                                         \cup (IF k = m THEN {t.name} ELSE {})
  <2> SUFFICES ASSUME NEW k \in DOMAIN imported
               PROVE  /\ imported'[k].root = imported[k].root
                      /\ ToSet(imported'[k].tags) = ToSet(imported[k].tags)
                                                      \cup (IF k = m THEN {t.name} ELSE {})
    OBVIOUS
  <2>1. CASE k = m
    BY <1>8, <1>10, <2>1
  <2>2. CASE k # m
    BY <1>11, <2>2
  <2> QED BY <2>1, <2>2
<1>13. phase' = phase /\ used' = used \cup {t.name}
  BY <1>1, <1>4
<1> QED BY <1>1, <1>2, <1>11, <1>12, <1>13, UseOutcome DEF m

\* The component that ends, if it is not the root's, is that of the fold just closed.
LEMMA AfterFold ==
  ASSUME OutcomeInv, phase = "filter", Len(components) > 1
  PROVE  /\ Closing \in Folds /\ Closing \in Scopes[(at - 1) - 1] /\ Component.root = Vids[Closing]
         /\ at \in 1..Len(query.items) /\ at - 1 < Len(query.items)
         /\ Scopes[at - 1] = Scopes[(at - 1) - 1] \ {Closing}
         /\ OpenIs(Opened[at - 1], Vids, open)
         /\ ScopeNow = Scopes[(at - 1) - 1] /\ (at - 1) - 1 \in 0..Len(query.items)
<1> DEFINE j == at - 1
<1>1. /\ query \in Queries /\ Len(query.items) \in Nat /\ j \in 1..Len(query.items) /\ at \in Nat
      /\ query.items[j].kind = "close" /\ Closing \in {0} \cup Folds /\ Closing = Innermost(Opened[j - 1])
      /\ ScopeNow = Scopes[j - 1] /\ Structure
  BY LookFacts
<1>2. /\ j - 1 \in 0..Len(query.items) /\ (j # Len(query.items) => at \in 1..Len(query.items) /\ j < Len(query.items))
  <2>1. at = j + 1
    BY <1>1
  <2> HIDE DEF j
  <2>2. j - 1 \in 0..Len(query.items) /\ (j # Len(query.items) => j + 1 \in 1..Len(query.items) /\ j < Len(query.items))
    BY <1>1, Near
  <2> QED BY <2>1, <2>2
<1> HIDE DEF j
<1>3. NestedIs(Vids, Scopes[j - 1], components)
  BY <1>1 DEF Structure
<1>4. /\ Scopes[j - 1] # {}
      /\ \A k \in Scopes[j - 1] : (\A i \in Scopes[j - 1] : i <= k) => Component.root = Vids[k]
  <2>1. PICK m \in 0..Len(query.items) : m = j - 1
    BY <1>2
  <2>2. NestedIs(Vids, Scopes[m], components) /\ IInv
    BY <1>3, <2>1 DEF OutcomeInv
  <2>3. Scopes[m] # {}
    <3>1. Scopes[m] = {} => Len(components) = 1
      BY <2>2, ComponentIs
    <3>2. ~ (1 > 1)
      OBVIOUS
    <3> QED BY <3>1, <3>2, Zenon
  <2>4. \A k \in Scopes[m] : (\A i \in Scopes[m] : i <= k) => Component.root = Vids[k]
    BY <2>2, ComponentIs
  <2> QED BY <2>1, <2>3, <2>4
<1>5. /\ Closing = 0 <=> j = Len(query.items)
      /\ \A i \in Scopes[j - 1] : i <= Closing
  BY <1>1, AtTheClose
<1>6. Scopes[j - 1] = {i \in ToSet(Opened[j - 1]) : i \in Folds}
  BY <1>1, <1>2, ScopeIs
<1>7. Opened[j - 1] # << >>
  BY <1>4, <1>6 DEF ToSet
<1>8. Closing # 0 /\ Closing \in ToSet(Opened[j - 1])
  BY <1>1, <1>2, <1>7, InnermostIs
<1>9. Closing \in Folds /\ Closing \in Scopes[j - 1]
  BY <1>1, <1>6, <1>8
<1>10. Scopes[j] = Scopes[j - 1] \ {Closing}
  BY <1>1, ScopeStep
<1>11. j < Len(query.items) /\ at \in 1..Len(query.items)
  BY <1>2, <1>5, <1>8
<1>12. OpenIs(Opened[j], Vids, open)
  BY <1>1, <1>11 DEF Structure, j
<1>13. Component.root = Vids[Closing]
  BY <1>4, <1>5, <1>9
<1> QED BY <1>1, <1>2, <1>9, <1>10, <1>11, <1>12, <1>13 DEF j

\* One component less.
LEMMA NestedPop ==
  ASSUME IInv, NEW j \in 0..Len(query.items), NestedIs(Vids, Scopes[j], components),
         NEW k \in Scopes[j], Component.root = Vids[k], Len(components) > 1,
         NEW cs, Len(cs) = Len(components) - 1,
         \A m \in 1..Len(components) - 1 : cs[m].root = components[m].root
  PROVE  NestedIs(Vids, Scopes[j] \ {k}, cs)
<1> DEFINE n == Len(components)
<1> DEFINE root(m) == components[m].root
<1>10. n \in Nat /\ n > 1
  BY StateFacts
<1>1. /\ n \in Nat /\ n > 1 /\ \A m \in 1..n : root(m) \in Nat
      /\ \A m, l \in 1..n : m < l => root(m) < root(l)
      /\ root(n) = Vids[k]
  BY StateFacts DEF IInv, InOrder, Component, Last
<1>2. {root(m) : m \in 2..n} = {Vids[i] : i \in Scopes[j]}
  BY DEF NestedIs
<1>3. \A m \in 2..n - 1 : cs[m].root = root(m) /\ root(m) # root(n)
  <2> SUFFICES ASSUME NEW m \in 2..n - 1 PROVE cs[m].root = root(m) /\ root(m) # root(n)
    OBVIOUS
  <2> HIDE DEF root, n
  <2>1. m \in 1..n - 1 /\ m \in 1..n /\ n \in 1..n /\ m < n
    BY <1>10
  <2>2. root(m) < root(n) /\ root(m) \in Nat /\ root(n) \in Nat
    BY <1>1, <2>1
  <2>3. root(m) # root(n)
    BY <2>2
  <2> QED BY <2>1, <2>3 DEF root, n
<1> HIDE DEF root, n
<1>4. {cs[m].root : m \in 2..n - 1} = {root(m) : m \in 2..n - 1}
  BY <1>3
<1>5. \A m : m \in 2..n <=> m \in 2..n - 1 \/ m = n
  BY <1>10
<1>6. {root(m) : m \in 2..n - 1} = {root(m) : m \in 2..n} \ {root(n)}
  BY <1>3, <1>5
<1>7. \A i \in Scopes[j] : Vids[i] = Vids[k] => i = k
  BY ScopeIs, VidsDiffer DEF IInv, Shape
<1>8. {Vids[i] : i \in Scopes[j]} \ {Vids[k]} = {Vids[i] : i \in Scopes[j] \ {k}}
  BY <1>7
<1>9. {cs[m].root : m \in 2..Len(cs)} = {cs[m].root : m \in 2..n - 1}
  BY DEF n
<1> QED BY <1>1, <1>2, <1>4, <1>6, <1>8, <1>9 DEF NestedIs

\* A smaller scope: the tags stand where they stood.
LEMMA StandOutside ==
  ASSUME NEW ts, NEW defs, NEW vids, NEW scope, NEW p, NEW next,
         TagsStand(ts, defs, vids, scope, p, next), NEW smaller, smaller \subseteq scope
  PROVE  TagsStand(ts, defs, vids, smaller, p, next)
<1> SUFFICES ASSUME NEW t \in ts
             PROVE  /\ \E d \in defs : StandsFor(t, d, vids, smaller, p)
                    /\ \A x \in ToSet(t.path) : x < next
  BY DEF TagsStand
<1>1. PICK d \in defs : StandsFor(t, d, vids, scope, p)
  BY DEF TagsStand
<1>2. d.scope \subseteq smaller => d.scope \subseteq scope
  OBVIOUS
<1>3. StandsFor(t, d, vids, smaller, p)
  BY <1>1, <1>2 DEF StandsFor
<1> QED BY <1>3 DEF TagsStand

\* make_fold returns early.
LEMMA AbandonFoldOutcome == ASSUME OutcomeInv, AbandonFold PROVE Outcome'
<1> DEFINE n == Len(components)
<1>1. /\ phase = "filter" /\ pending = << >> /\ Component.failed /\ n > 1
      /\ components' = [AllButLast(components) EXCEPT ![n - 1].failed = TRUE]
      /\ phase' = "fill" /\ query' = query /\ at' = at /\ nextVid' = nextVid /\ open' = open
      /\ path' = path /\ tags' = tags /\ pending' = pending /\ refused' = refused
  BY DEF AbandonFold
<1>2. /\ Closing \in Folds /\ Closing \in Scopes[(at - 1) - 1] /\ Component.root = Vids[Closing]
      /\ at \in 1..Len(query.items) /\ Scopes[at - 1] = Scopes[(at - 1) - 1] \ {Closing}
      /\ OpenIs(Opened[at - 1], Vids, open) /\ ScopeNow = Scopes[(at - 1) - 1]
      /\ (at - 1) - 1 \in 0..Len(query.items)
  BY <1>1, AfterFold
<1>3. /\ query \in Queries /\ at - 1 \in 1..Len(query.items) /\ at - 1 \in Nat /\ Structure /\ Running
      /\ DefsNow = Before(Definitions, at - 1)
  BY <1>1, LookFacts
<1>4. /\ n \in Nat /\ AllButLast(components) \in Seq([root : Vid, failed : BOOLEAN])
      /\ Len(AllButLast(components)) = n - 1 /\ DOMAIN AllButLast(components) = 1..n - 1
      /\ \A k \in 1..n - 1 : AllButLast(components)[k] = components[k]
      /\ \A k \in 1..n : components[k].root \in Nat
  BY <1>1, Enclosing, StateFacts DEF OutcomeInv
<1>5. n - 1 \in 1..n - 1
  BY <1>1, <1>4
<1>6. AllButLast(components)[n - 1] \in [root : Vid, failed : BOOLEAN]
  BY <1>4, <1>5, SeqFacts
<1>7. /\ Len(components') = n - 1 /\ DOMAIN components' = 1..n - 1
      /\ \A k \in 1..n - 1 : components'[k].root = components[k].root
      /\ components'[n - 1].failed
  <2> DEFINE outer == AllButLast(components)
             rec == [outer[n - 1] EXCEPT !.failed = TRUE]
  <2>1. rec.failed /\ rec.root = outer[n - 1].root
    BY <1>6
  <2>2. components' = [outer EXCEPT ![n - 1] = rec]
    BY <1>1, <1>4, <1>5
  <2> HIDE DEF rec, outer
  <2>3. /\ DOMAIN outer = 1..n - 1 /\ Len(outer) = n - 1 /\ \A k \in 1..n - 1 : outer[k] = components[k]
        /\ outer \in Seq([root : Vid, failed : BOOLEAN])
    BY <1>4 DEF outer
  <2>4. Len(components') = n - 1 /\ DOMAIN components' = 1..n - 1
    BY <2>2, <2>3
  <2>5. components'[n - 1] = rec /\ \A k \in 1..n - 1 : k # n - 1 => components'[k] = components[k]
    BY <1>5, <2>2, <2>3
  <2> QED BY <1>5, <2>1, <2>3, <2>4, <2>5
<1> HIDE DEF n
<1>8. SomeFailed'
  BY <1>5, <1>7 DEF SomeFailed
<1>9. ~ Valid
  <2>1. SomeFailed
    <3>1. n \in DOMAIN components
      BY <1>1, <1>4, StateFacts DEF OutcomeInv, n
    <3> QED BY <1>1, <3>1 DEF SomeFailed, Component, Last, n
  <2> QED BY <1>3, <2>1 DEF OutcomeInv, Outcome
<1>10. NestedIs(Vids, Scopes[at - 1], components')
  <2>1. NestedIs(Vids, Scopes[(at - 1) - 1], components)
    BY <1>2, <1>3 DEF Structure
  <2>2. NestedIs(Vids, Scopes[(at - 1) - 1] \ {Closing}, components')
    BY <1>1, <1>2, <1>7, <2>1, NestedPop DEF OutcomeInv, n
  <2> QED BY <1>2, <2>2
<1>11. TagsStand(tags', Before(Definitions, at), Vids, Scopes[at - 1], path', nextVid')
  <2>1. TagsStand(tags, Before(Definitions, at - 1), Vids, Scopes[(at - 1) - 1], path, nextVid)
    BY <1>2, <1>3 DEF Structure
  <2>2. TagsStand(tags, Before(Definitions, at - 1), Vids, Scopes[at - 1], path, nextVid)
    BY <1>2, <2>1, StandOutside
  <2>3. Before(Definitions, at - 1) \subseteq Before(Definitions, at)
    <3>1. Before(Definitions, (at - 1) + 1) = Before(Definitions, at - 1) \cup DefsAt[at - 1]
      BY <1>3, DefsStep
    <3>2. (at - 1) + 1 = at
      BY <1>2
    <3> QED BY <3>1, <3>2
  <2>4. nextVid \in Nat /\ nextVid <= nextVid
    BY DEF OutcomeInv, IInv, Shape, Vid
  <2>5. TagsStand(tags, Before(Definitions, at), Vids, Scopes[at - 1], path, nextVid)
    BY <2>2, <2>3, <2>4, StandLater, PathElements DEF OutcomeInv
  <2> QED BY <1>1, <2>5
<1>12. MisplacedAreMisplaced
  BY DEF OutcomeInv, Outcome
<1>13. nextVid' = Vids[at - 1] + 1
  BY <1>1, <1>3 DEF Structure
<1>14. at' \in 1..Len(query.items) /\ at' - 1 = at - 1
  BY <1>1, <1>2
<1> QED BY <1>1, <1>2, <1>3, <1>8, <1>9, <1>10, <1>11, <1>12, <1>13, <1>14, FillNext

\* The path without its last component has the parents that do not end with it.
LEMMA ShorterPath ==
  ASSUME NEW p \in Seq(Vid), NEW q \in Seq(Vid), q # << >>, IsParent(p, q), Last(q) \notin ToSet(p)
  PROVE  IsParent(p, AllButLast(q))
<1>1. /\ Len(p) \in Nat /\ Len(q) \in Nat /\ Len(q) > 0 /\ DOMAIN p = 1..Len(p)
      /\ Len(p) <= Len(q) /\ \A i \in 1..Len(p) : p[i] = q[i]
  BY SeqFacts DEF IsParent
<1>2. Len(p) # Len(q)
  <2> SUFFICES ASSUME Len(p) = Len(q) PROVE FALSE
    OBVIOUS
  <2>1. Len(q) \in 1..Len(p) /\ Len(q) \in DOMAIN p
    BY <1>1
  <2>2. p[Len(q)] = Last(q)
    BY <1>1, <2>1 DEF Last
  <2> QED BY <2>1, <2>2 DEF ToSet
<1>3. /\ Len(AllButLast(q)) = Len(q) - 1 /\ AllButLast(q) \in Seq(Vid)
      /\ \A i \in DOMAIN AllButLast(q) : AllButLast(q)[i] = q[i]
  BY AllButLastFacts
<1>4. DOMAIN AllButLast(q) = 1..Len(q) - 1
  BY <1>3, SeqFacts
<1> DEFINE r == AllButLast(q)
<1> HIDE DEF r
<1>5. Len(p) <= Len(q) - 1 /\ \A i \in 1..Len(p) : i \in 1..Len(q) - 1
  BY <1>1, <1>2
<1>6. Len(p) <= Len(r) /\ \A i \in 1..Len(p) : p[i] = r[i]
  BY <1>1, <1>3, <1>4, <1>5 DEF r
<1> QED BY <1>6 DEF IsParent, r

\* The tags stand where they stood when the path leaves a fold.
LEMMA StandPop ==
  ASSUME NEW ts, NEW defs, NEW vids, NEW scope, NEW p \in Seq(Vid), p # << >>, NEW next,
         TagsStand(ts, defs, vids, scope, p, next), \A t \in ts : t.path \in Seq(Vid),
         NEW i \in scope, Last(p) = vids[i]
  PROVE  TagsStand(ts, defs, vids, scope \ {i}, AllButLast(p), next)
<1> SUFFICES ASSUME NEW t \in ts
             PROVE  /\ \E d \in defs : StandsFor(t, d, vids, scope \ {i}, AllButLast(p))
                    /\ \A x \in ToSet(t.path) : x < next
  BY DEF TagsStand
<1>1. PICK d \in defs : StandsFor(t, d, vids, scope, p)
  BY DEF TagsStand
<1>2. ASSUME d.scope \subseteq scope \ {i} PROVE IsParent(t.path, AllButLast(p))
  <2>1. d.scope \subseteq scope /\ i \notin d.scope
    BY <1>2
  <2>2. IsParent(t.path, p) /\ vids[i] \notin ToSet(t.path)
    BY <1>1, <2>1 DEF StandsFor
  <2> QED BY <2>2, ShorterPath
<1>3. StandsFor(t, d, vids, scope \ {i}, AllButLast(p))
  BY <1>1, <1>2 DEF StandsFor
<1> QED BY <1>3 DEF TagsStand

\* The shorter path is that of the components that are left.
LEMMA PathPop ==
  ASSUME NEW p \in Seq(Vid), NEW R, NEW cs \in Seq(R), cs # << >>, PathIs(p, cs)
  PROVE  PathIs(AllButLast(p), AllButLast(cs))
<1> DEFINE n == Len(cs)
<1>1. /\ n \in Nat /\ n > 0 /\ Len(p) = n /\ \A k \in 1..n : p[k] = cs[k].root
  BY SeqFacts DEF PathIs
<1>2. p # << >>
  BY <1>1
<1>3. /\ Len(AllButLast(p)) = n - 1 /\ AllButLast(p) \in Seq(Vid)
      /\ \A k \in DOMAIN AllButLast(p) : AllButLast(p)[k] = p[k]
  BY <1>1, <1>2, AllButLastFacts
<1>4. /\ Len(AllButLast(cs)) = n - 1 /\ AllButLast(cs) \in Seq(R)
      /\ \A k \in DOMAIN AllButLast(cs) : AllButLast(cs)[k] = cs[k]
  BY AllButLastFacts
<1>5. DOMAIN AllButLast(p) = 1..n - 1 /\ DOMAIN AllButLast(cs) = 1..n - 1
  BY <1>3, <1>4, SeqFacts
<1> HIDE DEF n
<1>6. \A k \in 1..n - 1 : k \in 1..n
  BY <1>1
<1> QED BY <1>1, <1>3, <1>4, <1>5, <1>6 DEF PathIs

\* The imports of the components that are left.
LEMMA ImportsPop ==
  ASSUME NEW defs, NEW looked, NEW scopes, NEW fs, NEW vids, NEW R, NEW imports \in Seq(R),
         ImportsAre(defs, looked, scopes, fs, vids, imports)
  PROVE  ImportsAre(defs, looked, scopes, fs, vids, AllButLast(imports))
<1>1. \A k \in DOMAIN AllButLast(imports) : k \in DOMAIN imports /\ AllButLast(imports)[k] = imports[k]
  BY AllButLastFacts
<1> QED BY <1>1 DEF ImportsAre

\* What a fold that ends needs is needed by uses that were looked at.
LEMMA NeededByNow ==
  ASSUME query \in Queries, NEW j \in 1..Len(query.items), query.items[j].kind = "close",
         NEW k \in Folds, k = Innermost(Opened[j - 1]),
         NEW L, L \subseteq Uses, Before(Uses, j) \cup FilterUses(k) \subseteq L
  PROVE  NeededOf(Definitions, L, Scopes, k) = NeededOf(Definitions, Uses, Scopes, k)
<1>1. ClosedBy(k) = j
  BY Closes
<1>2. ASSUME NEW u \in Uses, Scopes[k] \subseteq u.scope PROVE u \in L
  <2>1. u.time < j \/ u \in FilterUses(k)
    BY <1>1, <1>2, InsideUses
  <2> QED BY <2>1 DEF Before
<1>3. ASSUME NEW d \in Definitions
      PROVE  (\E u \in L : Sees(u, d) /\ Scopes[k] \subseteq u.scope)
               <=> (\E u \in Uses : Sees(u, d) /\ Scopes[k] \subseteq u.scope)
  BY <1>2
<1> QED BY <1>3 DEF NeededOf

\* One more fold is made.
LEMMA FoldsMore ==
  ASSUME NEW made, NEW defs, NEW uses, NEW scopes, NEW vids, NEW fs,
         FoldsAre(made, defs, uses, scopes, vids, fs), NEW k,
         NEW x, x = NeededIn(defs, uses, scopes, vids, k)
  PROVE  FoldsAre(made \cup {x}, defs, uses, scopes, vids, fs \cup {k})
BY DEF FoldsAre

\* The folds that have been passed, and the one that ends.
LEMMA FoldsEnded ==
  ASSUME query \in Queries, NEW j \in 1..Len(query.items), query.items[j].kind = "close",
         NEW k \in Folds, k \in Scopes[j - 1], Scopes[j] = Scopes[j - 1] \ {k}, k < j
  PROVE  {i \in Folds : i < j + 1 /\ i \notin Scopes[j]}
           = {i \in Folds : i < j + 1 /\ i \notin Scopes[j - 1]} \cup {k}
<1>1. j \in Nat /\ k \in Nat /\ k < j + 1
  BY QueryFacts DEF Folds, Edges
<1> QED BY <1>1

\* make_query_component returned the fold's component.
LEMMA EndSubcomponentOutcome == ASSUME OutcomeInv, EndSubcomponent PROVE Outcome'
<1> DEFINE n == Len(components)
<1>1. /\ phase = "filter" /\ pending = << >> /\ n > 1 /\ ~ Component.failed
      /\ components' = AllButLast(components) /\ folding' = Component.root
      /\ query' = query /\ at' = at /\ nextVid' = nextVid /\ open' = open /\ tags' = tags /\ used' = used
      /\ refused' = refused /\ pending' = Of(query.post, Component.root)
  BY DEF EndSubcomponent
<1>2. Last(path) = Component.root /\ Len(path) > 1 /\ imported # << >> /\ Last(imported).root = Component.root
  BY <1>1, OwnEntriesOnTop DEF OutcomeInv
<1>3. /\ path' = AllButLast(path) /\ imported' = AllButLast(imported)
      /\ folds' = folds \cup {Last(imported)} /\ phase' = "post"
  BY <1>2 DEF EndSubcomponent
<1>4. PICK j : j = at - 1
  OBVIOUS
<1>5. PICK k : k = Closing
  OBVIOUS
<1>6. /\ query \in Queries /\ Len(query.items) \in Nat /\ j \in 1..Len(query.items) /\ j \in Nat /\ at \in Nat
      /\ query.items[j].kind = "close" /\ k = Innermost(Opened[j - 1]) /\ Structure /\ Running
      /\ ScopeNow = Scopes[j - 1] /\ DefsNow = Before(Definitions, j)
      /\ UsesNow = Before(Uses, j) \cup FilterUses(k) /\ UsesNow \subseteq Uses
  BY <1>1, <1>4, <1>5, LookFacts
<1>7. /\ k \in Folds /\ k \in Scopes[j - 1] /\ Component.root = Vids[k]
      /\ at \in 1..Len(query.items) /\ j < Len(query.items)
      /\ Scopes[j] = Scopes[j - 1] \ {k} /\ OpenIs(Opened[j], Vids, open)
      /\ j - 1 \in 0..Len(query.items)
  BY <1>1, <1>4, <1>5, AfterFold
<1>8. at = j + 1 /\ at - 1 = j
  BY <1>4, <1>6
<1>9. /\ n \in Nat /\ AllButLast(components) \in Seq([root : Vid, failed : BOOLEAN])
      /\ Len(components') = n - 1 /\ DOMAIN components' = 1..n - 1
      /\ \A m \in 1..n - 1 : components'[m] = components[m]
      /\ DOMAIN components = 1..n
  BY <1>1, Enclosing, StateFacts DEF OutcomeInv
<1>10. path \in Seq(Vid) /\ path # << >> /\ \A t \in tags : t.path \in Seq(Vid)
  BY <1>2, StateFacts DEF OutcomeInv, IInv, Shape
<1>11. SomeFailed' <=> SomeFailed
  <2>1. SomeFailed' <=> \E m \in DOMAIN components' : components'[m].failed
    BY DEF SomeFailed
  <2>2. ~ components[n].failed
    BY <1>1 DEF Component, Last
  <2> HIDE DEF n
  <2>3. DOMAIN components = DOMAIN components' \cup {n}
    BY <1>1, <1>9
  <2> QED BY <1>9, <2>1, <2>2, <2>3, ZenonT(30) DEF SomeFailed
<1>12. NestedIs(Vids, Scopes[j], components')
  <2>1. NestedIs(Vids, Scopes[j - 1], components)
    BY <1>6 DEF Structure
  <2>2. PICK m \in 0..Len(query.items) : m = j - 1
    BY <1>7
  <2>3. \A i \in 1..Len(components) - 1 : components'[i].root = components[i].root
    BY <1>9
  <2>4. NestedIs(Vids, Scopes[m] \ {k}, components')
    BY <1>1, <1>7, <1>9, <2>1, <2>2, <2>3, NestedPop DEF OutcomeInv
  <2> QED BY <1>7, <2>2, <2>4
<1>13. TagsStand(tags', Before(Definitions, j), Vids, Scopes[j], path', nextVid')
  <2>1. TagsStand(tags, Before(Definitions, j), Vids, Scopes[j - 1], path, nextVid)
    BY <1>6 DEF Structure
  <2>2. Last(path) = Vids[k]
    BY <1>2, <1>7
  <2>3. TagsStand(tags, Before(Definitions, j), Vids, Scopes[j - 1] \ {k}, AllButLast(path), nextVid)
    BY <1>7, <1>10, <2>1, <2>2, StandPop
  <2> QED BY <1>1, <1>3, <1>7, <2>3
<1>14. /\ LeftOf(PostList(k), Scopes[j], j) = PostUses(k) /\ VidAt(k) = Vids[k]
  BY <1>6, <1>7, AllLeft
<1>15. pending' = PostList(k) /\ pending' \in Seq(Use)
  BY <1>1, <1>6, <1>7, <1>14, ListsOfUses DEF PostList
<1>16. Before(Uses, j + 1) = UsesNow \cup PostUses(k)
  <2>1. Before(Uses, j + 1) = Before(Uses, j) \cup UsesAt[j]
    BY <1>6, UsesStep
  <2>2. UsesAt[j] = FilterUses(k) \cup PostUses(k)
    BY <1>6, <1>7 DEF UsesAt
  <2> QED BY <1>6, <2>1, <2>2
<1> HIDE DEF n
<1>17. ASSUME ~ SomeFailed'
       PROVE  /\ NoneBad(query, j)
              /\ PathIs(path', components')
              /\ TagsAre(tags', Before(Definitions, j), Vids)
              /\ \E L \in SUBSET Uses :
                   /\ L \cup LeftOf(pending', Scopes[j], j) = Before(Uses, j + 1)
                   /\ UsedAre(Definitions, L, used')
                   /\ ImportsAre(Definitions, L, Scopes, Folds, Vids, imported')
              /\ FoldsAre(FoldsMade', Definitions, Uses, Scopes, Vids,
                          {i \in Folds : i < j + 1 /\ i \notin Scopes[j]})
  <2>1. Exact
    BY <1>6, <1>11, <1>17 DEF OutcomeInv, Outcome
  <2>2. PICK L \in SUBSET Uses : LookedAt(L)
    BY <2>1 DEF Exact
  <2>3. Left = {}
    BY <1>1 DEF Left, LeftOf
  <2>4. L = UsesNow /\ UsedAre(Definitions, L, used) /\ ImportsAre(Definitions, L, Scopes, Folds, Vids, imported)
    BY <2>2, <2>3 DEF LookedAt
  <2>5. NoneBad(query, j) /\ PathIs(path, components) /\ TagsAre(tags, Before(Definitions, j), Vids)
    BY <1>6, <1>8, <2>1 DEF Exact
  <2>6. FoldsAre(FoldsMade, Definitions, Uses, Scopes, Vids, {i \in Folds : i < j + 1 /\ i \notin Scopes[j - 1]})
    BY <1>6, <1>8, <2>1 DEF Exact
  <2>7. PathIs(path', components')
    <3> DEFINE R == [root : Vid, failed : BOOLEAN]
    <3>1. components \in Seq(R) /\ components # << >>
      BY DEF OutcomeInv, IInv, Shape
    <3> HIDE DEF R
    <3> QED BY <1>1, <1>3, <1>10, <2>5, <3>1, PathPop
  <2> DEFINE T == [root : Vid, tags : Seq(Name)]
  <2>8. imported \in Seq(T)
    BY DEF OutcomeInv, IInv, Shape
  <2> HIDE DEF T
  <2>9. ImportsAre(Definitions, L, Scopes, Folds, Vids, imported')
    BY <1>3, <2>4, <2>8, ImportsPop
  <2>10. L \cup LeftOf(pending', Scopes[j], j) = Before(Uses, j + 1)
    BY <1>14, <1>15, <1>16, <2>4
  <2>11. ImportedBy(Last(imported)) = NeededIn(Definitions, Uses, Scopes, Vids, k)
    <3>1. Len(imported) \in DOMAIN imported
      BY <1>2, <2>8, SeqFacts
    <3>2. ToSet(Last(imported).tags) = NeededOf(Definitions, L, Scopes, k)
      BY <1>2, <1>7, <2>4, <3>1 DEF ImportsAre, Last
    <3>3. NeededOf(Definitions, L, Scopes, k) = NeededOf(Definitions, Uses, Scopes, k)
      BY <1>6, <1>7, <2>4, NeededByNow
    <3>4. Last(imported).root = Vids[k]
      BY <1>2, <1>7
    <3> QED BY <3>2, <3>3, <3>4 DEF ImportedBy, NeededIn
  <2>12. FoldsMade' = FoldsMade \cup {ImportedBy(Last(imported))}
    BY <1>3 DEF FoldsMade, ImportedBy
  <2>13. k < j
    <3>1. k \in 0..j - 1
      BY <1>6, AtTheClose
    <3> QED BY <1>6, <3>1
  <2>14. {i \in Folds : i < j + 1 /\ i \notin Scopes[j]}
           = {i \in Folds : i < j + 1 /\ i \notin Scopes[j - 1]} \cup {k}
    BY <1>6, <1>7, <2>13, FoldsEnded
  <2>15. FoldsAre(FoldsMade', Definitions, Uses, Scopes, Vids, {i \in Folds : i < j + 1 /\ i \notin Scopes[j]})
    BY <2>6, <2>11, <2>12, <2>14, FoldsMore
  <2>16. \E M \in SUBSET Uses :
           /\ M \cup LeftOf(pending', Scopes[j], j) = Before(Uses, j + 1)
           /\ UsedAre(Definitions, M, used')
           /\ ImportsAre(Definitions, M, Scopes, Folds, Vids, imported')
    <3> WITNESS L \in SUBSET Uses
    <3> QED BY <1>1, <2>4, <2>9, <2>10
  <2> QED BY <1>1, <2>5, <2>7, <2>15, <2>16
<1>18. PICK scope : scope = Scopes[j]
  OBVIOUS
<1>19. PICK uses : uses = Before(Uses, j + 1)
  OBVIOUS
<1>20. /\ scope = Scopes[IF phase' = "filter" THEN j - 1 ELSE j]
       /\ uses = IF phase' = "filter" THEN Before(Uses, j) \cup FilterUsesOf[k] ELSE Before(Uses, j + 1)
       /\ phase' \in {"filter", "post"} /\ phase' # "filter" /\ folding' = Vids[k]
       /\ LeftOf(pending', scope, j) \subseteq uses
  BY <1>1, <1>3, <1>7, <1>14, <1>15, <1>16, <1>18, <1>19
<1>21. /\ NestedIs(Vids, scope, components')
       /\ TagsStand(tags', Before(Definitions, j), Vids, scope, path', nextVid')
  BY <1>12, <1>13, <1>18
<1>22. nextVid' = Vids[j] + 1
  BY <1>1, <1>6, <1>8 DEF Structure
<1>23. ~ SomeFailed' =>
              /\ NoneBad(query, j)
              /\ PathIs(path', components')
              /\ TagsAre(tags', Before(Definitions, j), Vids)
              /\ \E L \in SUBSET Uses :
                   /\ L \cup LeftOf(pending', scope, j) = uses
                   /\ UsedAre(Definitions, L, used')
                   /\ ImportsAre(Definitions, L, Scopes, Folds, Vids, imported')
              /\ FoldsAre(FoldsMade', Definitions, Uses, Scopes, Vids,
                          {i \in Folds : i < j + 1 /\ i \notin scope})
  BY <1>17, <1>18, <1>19
<1>24. (SomeFailed' => ~ Valid) /\ MisplacedAreMisplaced
  BY <1>6, <1>11 DEF OutcomeInv, Outcome
<1>25. at' = j + 1 /\ j + 1 \in 1..Len(query.items) /\ OpenIs(Opened[j], Vids, open')
  BY <1>1, <1>7, <1>8
<1> QED BY <1>1, <1>6, <1>7, <1>15, <1>20, <1>21, <1>22, <1>23, <1>24, <1>25, LookNext

\* A close after which the count of a fold is tagged, or is not.
LEMMA AtTheCount ==
  ASSUME query \in Queries, NEW j \in 1..Len(query.items), query.items[j].kind = "close",
         NEW k \in Folds, k = Innermost(Opened[j - 1])
  PROVE  /\ Vids[k] \notin DOMAIN query.count => Before(Definitions, j + 1) = Before(Definitions, j)
         /\ Vids[k] \in DOMAIN query.count =>
              /\ Before(Definitions, j + 1) = Before(Definitions, j) \cup {CountDef(k)}
              /\ CountDef(k) \in Definitions /\ CountDef(k) \notin Before(Definitions, j)
              /\ CountDef(k).name = query.count[Vids[k]] /\ CountDef(k).scope = Scopes[j]
              /\ CountDef(k).vid = Vids[k]
<1>1. /\ Before(Definitions, j + 1) = Before(Definitions, j) \cup DefsAt[j]
      /\ DefsAt[j] \cap Before(Definitions, j) = {} /\ DefsAt[j] \subseteq Definitions
  BY DefsStep
<1>2. DefsAt[j] = IF k \in Counted THEN {CountDef(k)} ELSE {}
  BY DEF DefsAt
<1>3. /\ k \in 0..Len(query.items) /\ (k # 0 => k - 1 \in 0..Len(query.items) /\ Scopes[k - 1] = Scopes[j])
  BY AtTheClose
<1>4. k # 0
  BY QueryFacts DEF Folds, Edges
<1>5. VidAt(k) = Vids[k]
  BY <1>3, VidFacts
<1>6. Scope(k - 1) = Scopes[j]
  BY <1>3, <1>4, ScopeIs
<1>7. k \in Counted <=> Vids[k] \in DOMAIN query.count
  BY <1>5 DEF Counted
<1>8. /\ CountDef(k).name = query.count[Vids[k]] /\ CountDef(k).scope = Scopes[j]
      /\ CountDef(k).vid = Vids[k]
  BY <1>5, <1>6, DefinitionsAre
<1> QED BY <1>1, <1>2, <1>7, <1>8

\* register_tag, of the fold's count.
LEMMA EndFoldOutcome == ASSUME OutcomeInv, EndFold PROVE Outcome'
<1>1. /\ phase = "post" /\ pending = << >> /\ phase' = "fill"
      /\ query' = query /\ at' = at /\ nextVid' = nextVid /\ open' = open /\ path' = path
      /\ imported' = imported /\ used' = used /\ pending' = pending /\ folds' = folds /\ refused' = refused
  BY DEF EndFold
<1>2. PICK j : j = at - 1
  OBVIOUS
<1>3. PICK k : k = Closing
  OBVIOUS
<1>4. /\ query \in Queries /\ Len(query.items) \in Nat /\ j \in 1..Len(query.items) /\ j \in Nat /\ at \in Nat
      /\ query.items[j].kind = "close" /\ k = Innermost(Opened[j - 1]) /\ Structure /\ Running /\ k \in Folds
      /\ ScopeNow = Scopes[j] /\ DefsNow = Before(Definitions, j) /\ UsesNow = Before(Uses, at)
  BY <1>1, <1>2, <1>3, LookFacts
<1>5. at = j + 1 /\ at - 1 = j
  BY <1>2, <1>4
<1>6. at \in 1..Len(query.items) /\ folding = Vids[k] /\ j < Len(query.items)
  <2>1. at \in 1..Len(query.items) /\ folding = Vids[k]
    BY <1>1, <1>3, <1>4 DEF Structure, Position
  <2> QED BY <1>4, <1>5, <2>1
<1>7. /\ nextVid = Vids[j] + 1 /\ OpenIs(Opened[j], Vids, open)
      /\ NestedIs(Vids, Scopes[j], components)
      /\ TagsStand(tags, Before(Definitions, j), Vids, Scopes[j], path, nextVid)
  BY <1>4, <1>5, <1>6 DEF Structure
<1>8. /\ SomeFailed => ~ Valid
      /\ MisplacedAreMisplaced
  BY <1>4 DEF OutcomeInv, Outcome
<1>9. IInv /\ Shape /\ path \in Seq(Vid) /\ nextVid \in Nat
  BY DEF OutcomeInv, IInv, Shape, Vid
<1>10. ASSUME ~ SomeFailed
       PROVE  /\ NoneBad(query, j)
              /\ PathIs(path, components)
              /\ TagsAre(tags, Before(Definitions, j), Vids)
              /\ UsedAre(Definitions, Before(Uses, at), used)
              /\ ImportsAre(Definitions, Before(Uses, at), Scopes, Folds, Vids, imported)
              /\ FoldsAre(FoldsMade, Definitions, Uses, Scopes, Vids,
                          {i \in Folds : i < at /\ i \notin Scopes[j]})
  <2>1. Exact
    BY <1>4, <1>10 DEF OutcomeInv, Outcome
  <2>2. PICK L \in SUBSET Uses : LookedAt(L)
    BY <2>1 DEF Exact
  <2>3. Left = {}
    BY <1>1 DEF Left, LeftOf
  <2>4. L = Before(Uses, at)
    BY <1>4, <2>2, <2>3 DEF LookedAt
  <2> QED BY <1>4, <1>5, <2>1, <2>2, <2>4 DEF Exact, LookedAt
<1>11. FoldsMade' = FoldsMade
  BY <1>1 DEF FoldsMade, ImportedBy
<1>12. PICK defs : defs = Before(Definitions, j + 1)
  OBVIOUS
\* What is left to show, of the components and the tags.
<1>13. ASSUME NestedIs(Vids, Scopes[j], components'),
              TagsStand(tags', defs, Vids, Scopes[j], path, nextVid),
              SomeFailed' => ~ Valid,
              ~ SomeFailed' => /\ ~ SomeFailed /\ components' = components
                               /\ TagsAre(tags', defs, Vids)
       PROVE  Outcome'
  <2>1. ~ SomeFailed' => /\ NoneBad(query, at' - 1)
                         /\ PathIs(path', components')
                         /\ TagsAre(tags', Before(Definitions, at'), Vids)
                         /\ UsedAre(Definitions, Before(Uses, at'), used')
                         /\ ImportsAre(Definitions, Before(Uses, at'), Scopes, Folds, Vids, imported')
                         /\ FoldsAre(FoldsMade', Definitions, Uses, Scopes, Vids,
                                     {i \in Folds : i < at' /\ i \notin Scopes[at' - 1]})
    BY <1>1, <1>5, <1>10, <1>11, <1>12, <1>13
  <2>2. /\ at' \in 1..Len(query.items) /\ nextVid' = Vids[at' - 1] + 1
        /\ OpenIs(Opened[at' - 1], Vids, open')
        /\ NestedIs(Vids, Scopes[at' - 1], components')
        /\ TagsStand(tags', Before(Definitions, at'), Vids, Scopes[at' - 1], path', nextVid')
        /\ pending' = << >>
    BY <1>1, <1>5, <1>6, <1>7, <1>12, <1>13
  <2> QED BY <1>1, <1>4, <1>8, <1>13, <2>1, <2>2, FillNext
<1>14. CASE folding \notin DOMAIN query.count
  <2>1. components' = components /\ tags' = tags
    BY <1>14 DEF EndFold
  <2>2. defs = Before(Definitions, j)
    BY <1>4, <1>6, <1>12, <1>14, AtTheCount
  <2>3. SomeFailed' <=> SomeFailed
    BY <1>9, <2>1, Marked
  <2> QED BY <1>7, <1>8, <1>10, <1>13, <2>1, <2>2, <2>3
<1>15. CASE folding \in DOMAIN query.count
  <2> DEFINE t == [name |-> query.count[folding], vid |-> folding, path |-> path]
  <2> DEFINE d == CountDef(k)
  <2>1. IF Defined(t.name) THEN components' = Failing /\ tags' = tags
                           ELSE components' = components /\ tags' = tags \cup {t}
    BY <1>15 DEF EndFold
  <2>2. /\ defs = Before(Definitions, j) \cup {d}
        /\ d \in Definitions /\ d \notin Before(Definitions, j)
        /\ d.name = t.name /\ d.scope = Scopes[j] /\ d.vid = t.vid /\ t.path = path
    BY <1>4, <1>6, <1>12, <1>15, AtTheCount
  <2>3. Defined(t.name) <=> \E s \in tags : s.name = t.name
    BY DEF Defined
  <2> HIDE DEF t, d
  <2>4. \A x \in ToSet(path) : x < nextVid
    BY <1>9, PathElements
  <2>5. components' \in {components, Failing}
    BY <2>1
  <2>6. NestedIs(Vids, Scopes[j], components')
    BY <1>7, <1>9, <2>5, Marked
  <2>7. components' = Failing => SomeFailed'
    BY <1>9, <2>5, Marked
  <2>8. components' = components => (SomeFailed' <=> SomeFailed)
    BY <1>9, <2>5, Marked
  <2>9. TagsStand(tags', defs, Vids, Scopes[j], path, nextVid)
    <3>1. TagsStand(tags, defs, Vids, Scopes[j], path, nextVid)
      <4>1. nextVid <= nextVid /\ Before(Definitions, j) \subseteq defs
        BY <1>9, <2>2
      <4> QED BY <1>7, <1>9, <4>1, StandLater, PathElements
    <3>2. TagsStand(tags \cup {t}, Before(Definitions, j) \cup {d}, Vids, Scopes[j], path, nextVid)
      BY <1>7, <1>9, <2>2, <2>4, StandMore
    <3> QED BY <2>1, <2>2, <3>1, <3>2
  <2>10. \A s \in tags : \E e \in Before(Definitions, j) : e.name = s.name
    BY <1>7, TagsAreDefined
  <2>11. Defined(t.name) => ~ Valid
    <3>1. Before(Definitions, j) \subseteq Definitions
      BY DEF Before
    <3> QED BY <2>2, <2>3, <2>10, <3>1, NotUnique
  <2>12. ASSUME ~ SomeFailed'
         PROVE  ~ SomeFailed /\ components' = components /\ TagsAre(tags', defs, Vids)
    <3>1. ~ Defined(t.name) /\ ~ SomeFailed /\ components' = components /\ tags' = tags \cup {t}
      BY <2>1, <2>7, <2>8, <2>12
    <3>2. ToSet(t.path) = {RootVid} \cup {Vids[i] : i \in d.scope}
      BY <1>7, <1>9, <1>10, <2>2, <3>1, PathScope
    <3>3. \A s \in tags : s.name # t.name
      BY <2>3, <3>1
    <3>4. TagsAre(tags \cup {t}, Before(Definitions, j) \cup {d}, Vids)
      BY <1>10, <2>2, <2>10, <3>1, <3>2, <3>3, TagsMore
    <3> QED BY <2>2, <3>1, <3>4
  <2>13. SomeFailed' => ~ Valid
    BY <1>8, <2>1, <2>8, <2>11
  <2> QED BY <1>13, <2>6, <2>9, <2>12, <2>13
<1> QED BY <1>14, <1>15

\* When the root's component ends, all fields have been seen and all uses looked at.
LEMMA AtTheEnd ==
  ASSUME OutcomeInv, phase = "filter", pending = << >>, Len(components) = 1
  PROVE  /\ Structure /\ Running /\ DefsNow = Definitions /\ UsesNow = Uses /\ Left = {}
         /\ at - 1 = Len(query.items) /\ Len(query.items) \in Nat
         /\ ScopeNow = {} /\ {i \in Folds : i < at /\ i \notin ScopeNow} = Folds
<1>1. PICK j : j = at - 1
  OBVIOUS
<1>2. PICK k : k = Closing
  OBVIOUS
<1>3. /\ query \in Queries /\ Len(query.items) \in Nat /\ j \in 1..Len(query.items) /\ j \in Nat /\ at \in Nat
      /\ query.items[j].kind = "close" /\ k = Innermost(Opened[j - 1]) /\ Structure /\ Running
      /\ k \in {0} \cup Folds
      /\ ScopeNow = Scopes[j - 1] /\ DefsNow = Before(Definitions, j)
      /\ UsesNow = Before(Uses, j) \cup FilterUses(k) /\ UsesNow \subseteq Uses
  BY <1>1, <1>2, LookFacts
<1>4. PICK i \in 0..Len(query.items) : i = j - 1
  BY <1>3, Near
<1>5. Scopes[i] = {}
  <2>1. NestedIs(Vids, Scopes[i], components)
    BY <1>3, <1>4 DEF Structure
  <2>2. Scopes[i] # {} => Len(components) > 1
    BY <2>1, ComponentIs DEF OutcomeInv
  <2>3. ~ (1 > 1)
    OBVIOUS
  <2> QED BY <2>2, <2>3, Zenon
<1>6. k = 0
  <2> SUFFICES ASSUME k # 0 PROVE FALSE
    OBVIOUS
  <2>1. Opened[i] # << >>
    BY <1>3, <1>4, InnermostIs
  <2>2. k \in ToSet(Opened[i])
    BY <1>3, <1>4, <2>1, InnermostIs
  <2>3. k \in Scopes[i]
    BY <1>3, <2>2, ScopeIs
  <2> QED BY <1>5, <2>3
<1>7. j = Len(query.items)
  BY <1>3, <1>6, AtTheClose
<1>8. DefsNow = Definitions
  BY <1>3, <1>7, AllBefore
<1>9. 0 \notin Folds
  BY <1>3, QueryFacts DEF Folds, Edges
<1>10. UsesNow = Uses
  <2>1. Before(Uses, j + 1) = Before(Uses, j) \cup UsesAt[j]
    BY <1>3, UsesStep
  <2>2. UsesAt[j] = FilterUses(k)
    BY <1>3, <1>6, <1>9 DEF UsesAt
  <2>3. Before(Uses, j + 1) = Uses
    BY <1>3, <1>7, AllBefore
  <2> QED BY <1>3, <2>1, <2>2, <2>3
<1>11. {f \in Folds : f < at /\ f \notin ScopeNow} = Folds
  <2>1. at = j + 1
    BY <1>1, <1>3
  <2>2. \A f \in Folds : f \in 1..Len(query.items)
    BY <1>3, QueryFacts DEF Folds, Edges
  <2>3. \A f \in Folds : f < at
    BY <1>3, <1>7, <2>1, <2>2
  <2> QED BY <1>3, <1>4, <1>5, <2>3
<1>12. Left = {}
  BY DEF Left, LeftOf
<1> QED BY <1>1, <1>3, <1>4, <1>5, <1>7, <1>8, <1>10, <1>11, <1>12

\* make_ir_for_query accepts the valid queries.
LEMMA FinishOutcome == ASSUME OutcomeInv, Finish PROVE Outcome'
<1>1. /\ phase = "filter" /\ pending = << >> /\ Len(components) = 1
      /\ phase' = IF ~ Component.failed /\ \A t \in tags : t.name \in used THEN "accepted" ELSE "rejected"
      /\ query' = query /\ folds' = folds /\ refused' = refused
  BY DEF Finish
<1>2. /\ Structure /\ Running /\ DefsNow = Definitions /\ UsesNow = Uses /\ Left = {}
      /\ at - 1 = Len(query.items) /\ Len(query.items) \in Nat
      /\ ScopeNow = {} /\ {i \in Folds : i < at /\ i \notin ScopeNow} = Folds
  BY <1>1, AtTheEnd
<1>3. SomeFailed <=> Component.failed
  <2>1. DOMAIN components = 1..1
    BY <1>1, StateFacts DEF OutcomeInv
  <2>2. \A k : k \in 1..1 <=> k = 1
    OBVIOUS
  <2> QED BY <1>1, <2>1, <2>2, ZenonT(30) DEF SomeFailed, Component, Last
<1>4. SomeFailed => ~ Valid
  BY <1>2 DEF OutcomeInv, Outcome
<1>5. ASSUME ~ SomeFailed
      PROVE  /\ AllFoldsMade
             /\ Valid <=> \A t \in tags : t.name \in used
  <2>1. Exact
    BY <1>2, <1>5 DEF OutcomeInv, Outcome
  <2>2. PICK L \in SUBSET Uses : LookedAt(L)
    BY <2>1 DEF Exact
  <2>3. L = Uses
    BY <1>2, <2>2 DEF LookedAt
  <2>4. UsedAre(Definitions, Uses, used)
    BY <2>2, <2>3 DEF LookedAt
  <2>5. NoneBad(query, Len(query.items)) /\ TagsAre(tags, Definitions, Vids)
    BY <1>2, <2>1 DEF Exact
  <2>6. AllFoldsMade
    BY <1>2, <2>1 DEF Exact, AllFoldsMade
  <2>7. \A i \in Edges : ~ query.items[i].bad
    <3>1. query \in Queries
      BY DEF OutcomeInv, IInv, Shape
    <3>2. DOMAIN query.items = 1..Len(query.items)
      BY <3>1, QueryFacts
    <3> QED BY <2>5, <3>2 DEF NoneBad, Edges
  <2>8. \A d \in Definitions : IsUnique(d)
    BY <2>5 DEF TagsAre, IsUnique
  <2>9. \A u \in Uses : Legal(u)
    BY <2>4 DEF UsedAre, Legal
  <2>10. \A t \in tags : \E d \in Definitions : d.name = t.name
    <3>1. TagsStand(tags, Definitions, Vids, ScopeNow, path, nextVid)
      BY <1>2 DEF Structure
    <3> QED BY <3>1, TagsAreDefined
  <2>11. \A x : x \in used <=> \E d \in Definitions : d.name = x /\ \E u \in Uses : Sees(u, d)
    BY <2>4 DEF UsedAre
  <2>12. ASSUME \A t \in tags : t.name \in used, NEW d \in Definitions
         PROVE  \E u \in Uses : Sees(u, d)
    <3>1. PICK t \in tags : t.name = d.name
      BY <2>5 DEF TagsAre
    <3>2. PICK e \in Definitions : e.name = t.name /\ \E u \in Uses : Sees(u, e)
      BY <2>11, <2>12
    <3>3. e = d
      BY <2>8, <3>1, <3>2 DEF IsUnique
    <3> QED BY <3>2, <3>3
  <2>13. ASSUME \A d \in Definitions : \E u \in Uses : Sees(u, d), NEW t \in tags
         PROVE  t.name \in used
    BY <2>10, <2>11, <2>13
  <2> QED BY <2>6, <2>7, <2>8, <2>9, <2>12, <2>13 DEF Valid
<1>6. Valid' <=> Valid
  BY <1>1, SameQuery
<1>7. AllFoldsMade => AllFoldsMade'
  <2>1. /\ Folds' = Folds /\ Vids' = Vids /\ Scopes' = Scopes /\ Definitions' = Definitions /\ Uses' = Uses
    BY <1>1, SameQuery
  <2>2. FoldsMade' = FoldsMade
    BY <1>1 DEF FoldsMade, ImportedBy
  <2> QED BY <2>1, <2>2 DEF AllFoldsMade
<1>8. MisplacedAreMisplaced'
  <2>1. Definitions' = Definitions /\ Uses' = Uses
    BY <1>1, SameQuery
  <2> QED BY <1>1, <2>1 DEF MisplacedAreMisplaced, IsUnique, OutcomeInv, Outcome
<1>9. ~ Running'
  BY <1>1 DEF Running
<1>10. CASE ~ Component.failed /\ \A t \in tags : t.name \in used
  <2>1. phase' = "accepted" /\ Valid /\ AllFoldsMade
    BY <1>1, <1>3, <1>5, <1>10
  <2> QED BY <1>6, <1>7, <1>8, <1>9, <2>1 DEF Outcome
<1>11. CASE ~ (~ Component.failed /\ \A t \in tags : t.name \in used)
  <2>1. phase' = "rejected" /\ ~ Valid
    BY <1>1, <1>3, <1>4, <1>5, <1>11
  <2> QED BY <1>6, <1>8, <1>9, <2>1 DEF Outcome
<1> QED BY <1>10, <1>11

\* Before the first field, there is nothing but the root.
LEMMA InitOutcome == Init => Outcome
<1> SUFFICES ASSUME Init PROVE Outcome
  OBVIOUS
<1>1. /\ query \in Queries /\ at = 1 /\ nextVid = 2 /\ open = <<1>> /\ path = <<1>>
      /\ components = <<[root |-> 1, failed |-> FALSE]>> /\ imported = << >> /\ tags = {} /\ used = {}
      /\ phase = "fill" /\ pending = << >> /\ folds = {} /\ refused = {}
  BY DEF Init, RootVid
<1>2. Len(query.items) \in Nat /\ Len(query.items) > 0
  BY <1>1, QueryFacts
<1>3. at - 1 = 0 /\ at \in 1..Len(query.items) /\ at \in Nat /\ 0 \in 0..Len(query.items)
  BY <1>1, <1>2
<1>4. Opened[0] = << >> /\ Vids[0] = 1
  BY <1>1, OpenedStep, VidFacts DEF RootVid
<1>5. Scopes[0] = {}
  <2>1. \A i \in Scopes[0] : i \in 1..0
    BY <1>1, <1>3, ScopeIs
  <2>2. \A i : i \notin 1..0
    OBVIOUS
  <2> QED BY <2>1, <2>2
<1>6. Before(Definitions, 1) = {} /\ Before(Uses, 1) = {}
  BY <1>1, AllBefore
<1>7. ScopeNow = {} /\ DefsNow = {} /\ UsesNow = {} /\ Left = {}
  BY <1>1, <1>3, <1>5, <1>6 DEF ScopeNow, DefsNow, UsesNow, Left, LeftOf
<1>8. Position
  <2>1. << >> \in Seq(Use)
    OBVIOUS
  <2> QED BY <1>1, <1>3, <1>7, <2>1 DEF Position
<1>9. OpenIs(<< >>, Vids, <<1>>)
  <2>1. <<1>> \in Seq(Nat) /\ Len(<<1>>) = 1 /\ Len(<< >>) = 0 /\ <<1>>[1] = 1
    OBVIOUS
  <2> QED BY <2>1 DEF OpenIs, RootVid
<1>10. Len(components) = 1 /\ components[1].root = 1 /\ components[1].failed = FALSE /\ DOMAIN components = 1..1
  BY <1>1
<1>11. NestedIs(Vids, {}, components)
  <2>1. \A k : k \notin 2..1
    OBVIOUS
  <2> QED BY <1>10, <2>1 DEF NestedIs
<1>12. TagsStand(tags, DefsNow, Vids, ScopeNow, path, nextVid)
  BY <1>1 DEF TagsStand
<1>13. Structure
  BY <1>1, <1>3, <1>4, <1>7, <1>8, <1>9, <1>11, <1>12 DEF Structure
<1>14. Exact
  <2>1. NoneBad(query, at - 1)
    <3>1. \A i : i \notin 1..0
      OBVIOUS
    <3> QED BY <1>3, <3>1 DEF NoneBad
  <2>2. PathIs(path, components)
    <3>1. \A k : k \in 1..1 <=> k = 1
      OBVIOUS
    <3>2. Len(path) = 1 /\ path[1] = 1
      BY <1>1
    <3> QED BY <1>10, <3>1, <3>2 DEF PathIs
  <2>3. TagsAre(tags, DefsNow, Vids)
    BY <1>1, <1>7 DEF TagsAre
  <2>4. \E L \in SUBSET Uses : LookedAt(L)
    <3>1. {} \in SUBSET Uses
      OBVIOUS
    <3>2. UsedAre(Definitions, {}, used)
      BY <1>1 DEF UsedAre
    <3>3. ImportsAre(Definitions, {}, Scopes, Folds, Vids, imported)
      BY <1>1 DEF ImportsAre
    <3>4. LookedAt({})
      BY <1>7, <3>2, <3>3 DEF LookedAt
    <3> QED BY <3>1, <3>4
  <2>5. FoldsAre(FoldsMade, Definitions, Uses, Scopes, Vids, {i \in Folds : i < at /\ i \notin ScopeNow})
    <3>1. \A i \in Folds : ~ i < at
      BY <1>1, QueryFacts DEF Folds, Edges
    <3>2. FoldsMade = {}
      BY <1>1 DEF FoldsMade
    <3> QED BY <3>1, <3>2 DEF FoldsAre
  <2> QED BY <2>1, <2>2, <2>3, <2>4, <2>5 DEF Exact
<1>15. ~ SomeFailed
  BY <1>10 DEF SomeFailed
<1>16. MisplacedAreMisplaced
  BY <1>1 DEF MisplacedAreMisplaced
<1> QED BY <1>1, <1>13, <1>14, <1>15, <1>16 DEF Outcome

\* Nothing changes when nothing does.
LEMMA SameOutcome == ASSUME Outcome, UNCHANGED vars PROVE Outcome'
<1>1. /\ query' = query /\ at' = at /\ nextVid' = nextVid /\ open' = open /\ components' = components
      /\ path' = path /\ imported' = imported /\ tags' = tags /\ used' = used /\ phase' = phase
      /\ pending' = pending /\ folding' = folding /\ folds' = folds /\ refused' = refused
  BY DEF vars
<1>2. /\ Opened' = Opened /\ Folds' = Folds /\ Vids' = Vids /\ Scopes' = Scopes
      /\ Definitions' = Definitions /\ Uses' = Uses /\ FilterUsesOf' = FilterUsesOf /\ (Valid' <=> Valid)
  BY <1>1, SameQuery
<1>3. ScopeNow' = ScopeNow
  BY <1>1, <1>2 DEF ScopeNow
<1>4. DefsNow' = DefsNow
  BY <1>1, <1>2 DEF DefsNow, Before
<1>5. Closing' = Closing
  BY <1>1, <1>2 DEF Closing, Innermost
<1>6. UsesNow' = UsesNow
  BY <1>1, <1>2, <1>5 DEF UsesNow, Before
<1>7. Left' = Left
  BY <1>1, <1>3 DEF Left, LeftOf
<1>8. (SomeFailed' <=> SomeFailed) /\ (Running' <=> Running)
  BY <1>1 DEF SomeFailed, Running
<1>9. FoldsMade' = FoldsMade
  BY <1>1 DEF FoldsMade, ImportedBy
<1>10. Structure => Structure'
  <2>1. Position => Position'
    BY <1>1, <1>2, <1>5, <1>6, <1>7 DEF Position
  <2> QED BY <1>1, <1>2, <1>3, <1>4, <2>1 DEF Structure
<1>11. Exact => Exact'
  <2> SUFFICES ASSUME Exact PROVE Exact'
    OBVIOUS
  <2>1. PICK L \in SUBSET Uses : LookedAt(L)
    BY DEF Exact
  <2>2. LookedAt(L)' /\ L \in SUBSET Uses'
    BY <1>1, <1>2, <1>6, <1>7, <2>1 DEF LookedAt
  <2>3. NoneBad(query, at - 1)' /\ PathIs(path, components)' /\ TagsAre(tags, DefsNow, Vids)'
    BY <1>1, <1>2, <1>4 DEF Exact
  <2>4. FoldsAre(FoldsMade, Definitions, Uses, Scopes, Vids, {i \in Folds : i < at /\ i \notin ScopeNow})'
    BY <1>1, <1>2, <1>3, <1>9 DEF Exact
  <2> QED BY <2>2, <2>3, <2>4 DEF Exact
<1>12. AllFoldsMade => AllFoldsMade'
  BY <1>2, <1>9 DEF AllFoldsMade
<1>13. MisplacedAreMisplaced => MisplacedAreMisplaced'
  BY <1>1, <1>2 DEF MisplacedAreMisplaced, IsUnique
<1>14. phase' = phase /\ (Valid' <=> Valid)
  BY <1>1, <1>2
<1> QED BY <1>8, <1>10, <1>11, <1>12, <1>13, <1>14 DEF Outcome

\* Every step keeps the outcome.
LEMMA OutcomeInductive == OutcomeInv /\ [Next]_vars => OutcomeInv'
<1> SUFFICES ASSUME OutcomeInv, [Next]_vars PROVE OutcomeInv'
  OBVIOUS
<1>1. IInv'
  BY Inductive DEF OutcomeInv
<1>2. CASE VisitEdge
  BY <1>1, <1>2, VisitEdgeOutcome DEF OutcomeInv
<1>3. CASE BeginFold
  BY <1>1, <1>3, BeginFoldOutcome DEF OutcomeInv
<1>4. CASE RegisterTag
  BY <1>1, <1>4, RegisterTagOutcome DEF OutcomeInv
<1>5. CASE CloseVertex
  BY <1>1, <1>5, CloseVertexOutcome DEF OutcomeInv
<1>6. CASE StartFilters
  BY <1>1, <1>6, StartFiltersOutcome DEF OutcomeInv
<1>7. CASE RefuseUse
  BY <1>1, <1>7, RefuseUseOutcome DEF OutcomeInv
<1>8. CASE UseLocalTag
  BY <1>1, <1>8, UseLocalTagOutcome DEF OutcomeInv
<1>9. CASE ImportTag
  BY <1>1, <1>9, ImportTagOutcome DEF OutcomeInv
<1>10. CASE AbandonFold
  BY <1>1, <1>10, AbandonFoldOutcome DEF OutcomeInv
<1>11. CASE EndSubcomponent
  BY <1>1, <1>11, EndSubcomponentOutcome DEF OutcomeInv
<1>12. CASE EndFold
  BY <1>1, <1>12, EndFoldOutcome DEF OutcomeInv
<1>13. CASE Finish
  BY <1>1, <1>13, FinishOutcome DEF OutcomeInv
<1>14. CASE UNCHANGED vars
  BY <1>1, <1>14, SameOutcome DEF OutcomeInv
<1> QED BY <1>2, <1>3, <1>4, <1>5, <1>6, <1>7, <1>8, <1>9, <1>10, <1>11, <1>12, <1>13, <1>14 DEF Next, Done

LEMMA OutcomeHolds == Spec => []OutcomeInv
<1>1. Init => OutcomeInv
  BY InitIInv, InitOutcome DEF OutcomeInv
<1> QED BY <1>1, OutcomeInductive, PTL DEF Spec

\* The frontend accepts a query if, and only if, its fields alone say that its tags
\* are unique, used, and used where they can be seen: whatever the nesting of its
\* folds, the paths that ComponentPath compares decide as the scopes do.
THEOREM AcceptsTheValidHolds == Spec => []AcceptsTheValid
<1>1. OutcomeInv => AcceptsTheValid
  BY DEF OutcomeInv, Outcome, AcceptsTheValid
<1> QED BY <1>1, OutcomeHolds, PTL

\* reference_tag gives each fold of an accepted query the tags that it needs from
\* the component right around it, and no others.
THEOREM ImportsTheNeededHolds == Spec => []ImportsTheNeeded
<1>1. ASSUME OutcomeInv PROVE ImportsTheNeeded
  <2> SUFFICES ASSUME phase = "accepted"
               PROVE  {[root |-> f.root, tags |-> ToSet(f.tags)] : f \in folds}
                        = {[root |-> VidAt(i), tags |-> Needed(i)] : i \in Folds}
    BY DEF ImportsTheNeeded
  <2>1. AllFoldsMade /\ query \in Queries
    BY <1>1 DEF OutcomeInv, Outcome, IInv, Shape
  <2>2. {[root |-> f.root, tags |-> ToSet(f.tags)] : f \in folds}
          = {[root |-> Vids[i], tags |-> NeededOf(Definitions, Uses, Scopes, i)] : i \in Folds}
    BY <2>1 DEF AllFoldsMade, FoldsAre, FoldsMade, ImportedBy, NeededIn
  <2>3. ASSUME NEW i \in Folds
        PROVE  Vids[i] = VidAt(i) /\ NeededOf(Definitions, Uses, Scopes, i) = Needed(i)
    <3>1. i \in 1..Len(query.items) /\ Len(query.items) \in Nat
      BY <2>1, QueryFacts DEF Folds, Edges
    <3>2. i \in 0..Len(query.items) /\ i - 1 \in 0..Len(query.items)
      BY <3>1
    <3>3. Vids[i] = VidAt(i)
      BY <2>1, <3>2, VidFacts
    <3>4. Scopes[i] = Scope(i) /\ Scopes[i - 1] = Scope(i - 1)
      BY <3>2 DEF Scopes
    <3> QED BY <3>3, <3>4 DEF NeededOf, Needed
  <2> QED BY <2>2, <2>3
<1> QED BY <1>1, OutcomeHolds, PTL

\* A use that make_filter_expr reports as misplaced is, also after make_fold has
\* returned early and left its entry on the component path.
THEOREM MisplacedAreMisplacedHolds == Spec => []MisplacedAreMisplaced
<1>1. OutcomeInv => MisplacedAreMisplaced
  BY DEF OutcomeInv, Outcome
<1> QED BY <1>1, OutcomeHolds, PTL
=============================================================================
