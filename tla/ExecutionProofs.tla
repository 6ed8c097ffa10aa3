--------------------------- MODULE ExecutionProofs ---------------------------
(***************************************************************************)
(* The chain of iterators that compute_component() builds yields the rows  *)
(* of the query, whatever the adapters batch.                              *)
(*                                                                         *)
(* Out(op, g, ctx) is what a stage makes of a context; RunsTo(ops, g, s,   *)
(* t) says that the stages ops make t of the contexts s. The first half of *)
(* the module shows that the stages of a component make the rows of the    *)
(* nested loops (ChainYieldsTheRows): recursion by induction on the depth, *)
(* the component by induction on its edges. The second half is about the   *)
(* steps: W[i] is what comes to stage i, which is what waits in its queue, *)
(* what the inner iterator before it has still to answer and what the      *)
(* stage before it will make of what comes to that stage. No step changes  *)
(* what comes to the consumer, and at first it is what the chain makes of  *)
(* the starting vertices, which is the answer (IInv).                      *)
(***************************************************************************)
EXTENDS Execution, SequencesExt, FiniteSetTheorems, SequenceTheorems, TLAPS

-----------------------------------------------------------------------------
(***************************************************************************)
(* Induction, functions defined by recursion, concatenation, FlattenSeq    *)
(* and the image of a sequence.  Induction is over sets, which the         *)
(* library's theorem about finite subsets gives.                           *)
(***************************************************************************)

\* A set of naturals with 0 and every successor has them all: otherwise a
\* smallest interval 0..n would end at an n outside of it.
LEMMA Induction ==
  ASSUME NEW N, N \subseteq Nat, 0 \in N, \A n \in N : n + 1 \in N
  PROVE  N = Nat
<1> DEFINE Up == {0..n : n \in Nat \ N}
<1> SUFFICES ASSUME Nat \ N # {} PROVE FALSE
  OBVIOUS
<1>1. Up \subseteq FiniteSubsetsOf(Nat) /\ Up # {}
  <2>1. \A n \in Nat : IsFiniteSet(0..n) /\ 0..n \subseteq Nat
    BY FS_Interval
  <2> QED BY <2>1 DEF FiniteSubsetsOf
<1>2. PICK s \in Up : \A t \in Up : ~ (<<t, s>> \in StrictSubsetOrdering(Nat))
  <2> HIDE DEF Up
  <2> QED BY <1>1, FS_StrictSubsetOrderingWellFounded, WFMin
<1>3. PICK n \in Nat \ N : s = 0..n
  BY <1>2
<1>4. n > 0 /\ n - 1 \in Nat /\ n - 1 \notin N
  BY <1>3
<1>5. 0..(n-1) \in Up
  BY <1>4
<1>6. <<0..(n-1), s>> \in StrictSubsetOrdering(Nat)
  BY <1>3, <1>4 DEF StrictSubsetOrdering
<1> QED BY <1>2, <1>5, <1>6

\* The same up to a bound.
LEMMA BoundedInduction ==
  ASSUME NEW n \in Nat, NEW N, 0 \in N, \A k \in N : k \in 0..n - 1 => k + 1 \in N
  PROVE  0..n \subseteq N
<1> DEFINE M == {k \in Nat : k \in 0..n => k \in N}
<1>1. 0 \in M
  OBVIOUS
<1>2. ASSUME NEW k \in M PROVE k + 1 \in M
  <2>1. k \in Nat /\ (k \in 0..n => k \in N)
    BY <1>2
  <2>2. k + 1 \in 0..n => k \in 0..n - 1 /\ k \in 0..n
    BY <2>1
  <2> QED BY <2>1, <2>2
<1>3. M = Nat
  <2> HIDE DEF M
  <2>1. M \subseteq Nat
    BY DEF M
  <2> QED BY <1>1, <1>2, <2>1, Induction
<1> QED BY <1>3

AreSteps(Steps, n, S) == Steps \in [1..n -> [S -> S]]

\* f is what the first n of the steps make of base, one after the other.
IsRecursion(f, n, S, base, Steps) ==
  /\ f \in [0..n -> S]
  /\ f[0] = base
  /\ \A k \in 1..n : f[k] = Steps[k][f[k - 1]]

\* A value for 0 and a step to each next number determine a sequence of values.
LEMMA RecursionExists ==
  ASSUME NEW S, NEW n \in Nat, NEW base \in S, NEW Steps, AreSteps(Steps, n, S)
  PROVE  \E f : IsRecursion(f, n, S, base, Steps)
<1> USE DEF AreSteps
<1> DEFINE Upto(m, f) == /\ f \in [0..m -> S] /\ f[0] = base
                         /\ \A k \in 1..m : f[k] = Steps[k][f[k - 1]]
           N == {m \in Nat : \E f : Upto(m, f)}
<1>1. 0 \in N
  <2>1. Upto(0, [k \in 0..0 |-> base])
    OBVIOUS
  <2> HIDE DEF Upto
  <2> QED BY <2>1
<1>2. ASSUME NEW m \in N, m \in 0..n - 1 PROVE m + 1 \in N
  <2>0. m \in Nat
    BY <1>2
  <2>1. PICK f : Upto(m, f)
    BY <1>2
  <2> DEFINE g == [k \in 0..m + 1 |-> IF k \in 0..m THEN f[k] ELSE Steps[m + 1][f[m]]]
  <2>2. \A k \in 0..m : g[k] = f[k] /\ g[k] \in S
    BY <2>0, <2>1
  <2>3. g[m + 1] = Steps[m + 1][g[m]] /\ g[m + 1] \in S
    <3>1. m \in 0..m /\ m + 1 \notin 0..m /\ m + 1 \in 0..m + 1 /\ m + 1 \in 1..n
      BY <2>0, <1>2
    <3>2. f[m] \in S /\ Steps[m + 1] \in [S -> S]
      BY <3>1, <2>1
    <3> QED BY <3>1, <3>2, <2>2
  <2>4. g \in [0..m + 1 -> S]
    <3>1. \A k \in 0..m + 1 : g[k] \in S
      <4> SUFFICES ASSUME NEW k \in 0..m + 1 PROVE g[k] \in S
        OBVIOUS
      <4>1. k \in 0..m \/ k = m + 1
        BY <2>0
      <4> HIDE DEF g
      <4> QED BY <4>1, <2>2, <2>3
    <3> QED BY <3>1
  <2>5. g[0] = base
    BY <2>0, <2>1, <2>2
  <2>6. \A k \in 1..m + 1 : g[k] = Steps[k][g[k - 1]]
    <3> SUFFICES ASSUME NEW k \in 1..m + 1 PROVE g[k] = Steps[k][g[k - 1]]
      OBVIOUS
    <3>1. CASE k = m + 1
      <4>1. k - 1 = m
        BY <2>0, <3>1
      <4> HIDE DEF g
      <4> QED BY <4>1, <3>1, <2>3
    <3>2. CASE k \in 1..m
      <4>1. k \in 0..m /\ k - 1 \in 0..m
        BY <2>0, <3>2
      <4>2. f[k] = Steps[k][f[k - 1]]
        BY <2>1, <3>2
      <4> HIDE DEF g
      <4> QED BY <4>1, <4>2, <2>2
    <3> QED BY <2>0, <3>1, <3>2
  <2>7. Upto(m + 1, g)
    <3> HIDE DEF g
    <3> QED BY <2>4, <2>5, <2>6
  <2> HIDE DEF Upto
  <2> QED BY <2>0, <2>7
<1>3. n \in N
  <2> HIDE DEF N
  <2>1. 0..n \subseteq N
    BY <1>1, <1>2, BoundedInduction
  <2> QED BY <2>1
<1> QED BY <1>3 DEF IsRecursion

-----------------------------------------------------------------------------
(* How concatenations nest, by names that the provers can match.           *)

Associates(a, b, c) == (a \o b) \o c = a \o (b \o c)

\* Concatenation is associative.
LEMMA ConcatAssociates ==
  ASSUME NEW S, NEW a \in Seq(S), NEW b \in Seq(S), NEW c \in Seq(S)
  PROVE  Associates(a, b, c)
BY DEF Associates

Regroups(a, b, c, d) == ((a \o b) \o c) \o d = a \o (b \o (c \o d))

\* Four sequences, from left to right or from right to left.
LEMMA ConcatRegroup ==
  ASSUME NEW S, NEW a \in Seq(S), NEW b \in Seq(S), NEW c \in Seq(S), NEW d \in Seq(S)
  PROVE  Regroups(a, b, c, d)
<1> DEFINE ab == a \o b
           cd == c \o d
<1>1. ab \in Seq(S) /\ cd \in Seq(S)
  BY ConcatProperties
<1>2. Associates(ab, c, d)
  <2> HIDE DEF ab
  <2> QED BY <1>1, ConcatAssociates
<1>3. Associates(a, b, cd)
  <2> HIDE DEF cd
  <2> QED BY <1>1, ConcatAssociates
<1>4. (ab \o c) \o d = ab \o cd
  BY <1>2 DEF Associates
<1>5. ab \o cd = a \o (b \o cd)
  BY <1>3 DEF Associates
<1> QED BY <1>4, <1>5 DEF Regroups

Nests(a, b, c, d) == a \o ((b \o c) \o d) = (a \o b) \o (c \o d)

\* Four sequences, by twos.
LEMMA ConcatNests ==
  ASSUME NEW S, NEW a \in Seq(S), NEW b \in Seq(S), NEW c \in Seq(S), NEW d \in Seq(S)
  PROVE  Nests(a, b, c, d)
<1> DEFINE cd == c \o d
<1>1. cd \in Seq(S)
  BY ConcatProperties
<1>2. Associates(b, c, d)
  BY ConcatAssociates
<1>3. Associates(a, b, cd)
  <2> HIDE DEF cd
  <2> QED BY <1>1, ConcatAssociates
<1>4. (b \o c) \o d = b \o cd
  BY <1>2 DEF Associates
<1>5. a \o (b \o cd) = (a \o b) \o cd
  BY <1>3 DEF Associates
<1> QED BY <1>4, <1>5 DEF Nests

Shifts(a, b) == Tail(a \o b) = Tail(a) \o b /\ Head(a \o b) = Head(a) /\ a \o b # << >>

\* The head of a concatenation is that of its first part.
LEMMA ConcatShifts ==
  ASSUME NEW S, NEW a \in Seq(S), NEW b \in Seq(S), a # << >>
  PROVE  Shifts(a, b)
BY DEF Shifts

-----------------------------------------------------------------------------
(* FlattenSeq.                                                             *)

\* f[k] is the concatenation of the first k sequences.
IsFlattening(f, seqs, E) ==
  /\ f \in [0..Len(seqs) -> Seq(E)]
  /\ f[0] = << >>
  /\ \A k \in 1..Len(seqs) : f[k] = f[k - 1] \o seqs[k]

\* There is a function of the first concatenations.
LEMMA FlatteningExists ==
  ASSUME NEW E, NEW seqs \in Seq(Seq(E))
  PROVE  \E f : IsFlattening(f, seqs, E)
<1> DEFINE Steps == [k \in 1..Len(seqs) |-> [s \in Seq(E) |-> s \o seqs[k]]]
<1>1. Len(seqs) \in Nat /\ \A k \in 1..Len(seqs) : seqs[k] \in Seq(E)
  BY ElementOfSeq
<1>2. Steps \in [1..Len(seqs) -> [Seq(E) -> Seq(E)]]
  BY <1>1
<1>3. << >> \in Seq(E)
  OBVIOUS
<1>4. \A k \in 1..Len(seqs), s \in Seq(E) : Steps[k][s] = s \o seqs[k]
  OBVIOUS
<1>5. AreSteps(Steps, Len(seqs), Seq(E))
  BY <1>2 DEF AreSteps
<1>6. PICK f : IsRecursion(f, Len(seqs), Seq(E), << >>, Steps)
  <2> HIDE DEF Steps
  <2> QED BY <1>1, <1>3, <1>5, RecursionExists
<1>7. ASSUME NEW k \in 1..Len(seqs) PROVE f[k] = f[k - 1] \o seqs[k]
  <2>1. k - 1 \in 0..Len(seqs)
    BY <1>1
  <2>2. f[k - 1] \in Seq(E)
    BY <2>1, <1>6 DEF IsRecursion
  <2> HIDE DEF Steps
  <2> QED BY <2>2, <1>4, <1>6 DEF IsRecursion
<1> QED BY <1>6, <1>7 DEF IsFlattening, IsRecursion

\* FlattenSeq is the concatenation of all of them.
LEMMA FlattenIs ==
  ASSUME NEW E, NEW seqs \in Seq(Seq(E)), NEW f, IsFlattening(f, seqs, E)
  PROVE  FlattenSeq(seqs) = f[Len(seqs)]
<1> DEFINE n == Len(seqs)
           Eq(h) == h = [i \in 1..n |-> IF i = 1 THEN seqs[i] ELSE h[i - 1] \o seqs[i]]
<1>0. n \in Nat /\ \A k \in 1..n : seqs[k] \in Seq(E)
  BY ElementOfSeq
<1>1. CASE n = 0
  <2>1. seqs = << >>
    BY <1>1, EmptySeq
  <2> QED BY <1>1, <2>1 DEF FlattenSeq, IsFlattening
<1>2. CASE n # 0
  <2>1. \A k \in 1..n : f[k] = f[k - 1] \o seqs[k] /\ f[k] \in Seq(E)
    BY DEF IsFlattening
  <2>2. f[1] = seqs[1]
    <3>1. 1 \in 1..n /\ 1 - 1 = 0
      BY <1>0, <1>2
    <3>2. f[1] = f[0] \o seqs[1] /\ f[0] = << >>
      BY <2>1, <3>1 DEF IsFlattening
    <3> QED BY <1>0, <3>1, <3>2, ConcatEmptySeq
  <2>3. Eq([i \in 1..n |-> f[i]])
    <3> DEFINE h == [i \in 1..n |-> f[i]]
    <3>1. ASSUME NEW i \in 1..n
          PROVE  f[i] = IF i = 1 THEN seqs[i] ELSE h[i - 1] \o seqs[i]
      <4>1. i # 1 => i - 1 \in 1..n
        BY <1>0
      <4>2. i # 1 => h[i - 1] = f[i - 1]
        BY <4>1
      <4> HIDE DEF h
      <4> QED BY <2>1, <2>2, <4>2
    <3> QED BY <3>1
  <2> DEFINE F == CHOOSE h : Eq(h)
  <2>4. Eq(F)
    <3> HIDE DEF Eq
    <3> QED BY <2>3
  <2>5. FlattenSeq(seqs) = F[n]
    BY <1>2 DEF FlattenSeq
  <2> HIDE DEF F
  <2>6. \A k \in 1..n : F[k] = IF k = 1 THEN seqs[k] ELSE F[k - 1] \o seqs[k]
    BY <2>4
  <2> DEFINE N == {k \in 0..n : k # 0 => F[k] = f[k]}
  <2>7. 0 \in N
    BY <1>0
  <2>8. ASSUME NEW k \in N, k \in 0..n - 1 PROVE k + 1 \in N
    <3>0. k # 0 => F[k] = f[k]
      BY <2>8
    <3> HIDE DEF N
    <3>1. k \in Nat /\ k + 1 \in 1..n /\ (k + 1) - 1 = k
      BY <1>0, <2>8
    <3>2. F[k + 1] = IF k = 0 THEN seqs[k + 1] ELSE F[k] \o seqs[k + 1]
      <4>1. F[k + 1] = IF k + 1 = 1 THEN seqs[k + 1] ELSE F[(k + 1) - 1] \o seqs[k + 1]
        BY <3>1, <2>6
      <4> QED BY <3>1, <4>1
    <3>3. f[k + 1] = f[k] \o seqs[k + 1]
      <4>1. f[k + 1] = f[(k + 1) - 1] \o seqs[k + 1]
        BY <3>1, <2>1
      <4> QED BY <3>1, <4>1
    <3>4. k = 0 => f[k + 1] = seqs[k + 1]
      BY <2>2, <3>1
    <3>5. F[k + 1] = f[k + 1]
      BY <3>0, <3>2, <3>3, <3>4
    <3>6. k + 1 \in 0..n
      BY <1>0, <3>1
    <3> QED BY <3>5, <3>6 DEF N
  <2>9. n \in N
    <3> HIDE DEF N
    <3>1. 0..n \subseteq N
      BY <1>0, <2>7, <2>8, BoundedInduction
    <3> QED BY <1>0, <3>1
  <2> QED BY <1>2, <2>5, <2>9
<1> QED BY <1>1, <1>2

\* Flattening gives a sequence of the elements.
LEMMA FlattenType ==
  ASSUME NEW E, NEW seqs \in Seq(Seq(E))
  PROVE  FlattenSeq(seqs) \in Seq(E)
<1>1. PICK f : IsFlattening(f, seqs, E)
  BY FlatteningExists
<1>2. Len(seqs) \in 0..Len(seqs)
  OBVIOUS
<1> QED BY <1>1, <1>2, FlattenIs DEF IsFlattening

\* Flattening nothing.
LEMMA FlattenEmpty == FlattenSeq(<< >>) = << >>
BY DEF FlattenSeq

\* Flattening one sequence more.
LEMMA FlattenAppend ==
  ASSUME NEW E, NEW seqs \in Seq(Seq(E)), NEW s \in Seq(E)
  PROVE  FlattenSeq(Append(seqs, s)) = FlattenSeq(seqs) \o s
<1> DEFINE more == Append(seqs, s)
           n == Len(seqs)
<1>1. /\ more \in Seq(Seq(E)) /\ Len(more) = n + 1 /\ more[n + 1] = s /\ n \in Nat
      /\ \A k \in 1..n : more[k] = seqs[k]
  BY AppendProperties
<1>2. PICK f : IsFlattening(f, more, E)
  <2> HIDE DEF more
  <2> QED BY <1>1, FlatteningExists
<1>3. FlattenSeq(more) = f[n + 1]
  <2> HIDE DEF more
  <2> QED BY <1>1, <1>2, FlattenIs
<1>4. f \in [0..n + 1 -> Seq(E)] /\ f[0] = << >> /\ \A k \in 1..n + 1 : f[k] = f[k - 1] \o more[k]
  <2> HIDE DEF more
  <2> QED BY <1>1, <1>2 DEF IsFlattening
<1> DEFINE g == [k \in 0..n |-> f[k]]
<1>5. IsFlattening(g, seqs, E)
  <2>1. \A k \in 0..n : g[k] = f[k] /\ k \in 0..n + 1
    BY <1>1
  <2>2. g \in [0..n -> Seq(E)] /\ g[0] = << >>
    BY <2>1, <1>1, <1>4
  <2>3. ASSUME NEW k \in 1..n PROVE g[k] = g[k - 1] \o seqs[k]
    <3>1. k \in 0..n /\ k - 1 \in 0..n /\ k \in 1..n + 1
      BY <1>1
    <3> HIDE DEF g, more
    <3> QED BY <3>1, <2>1, <1>1, <1>4
  <2> HIDE DEF g
  <2> QED BY <2>2, <2>3 DEF IsFlattening
<1>6. FlattenSeq(seqs) = f[n]
  <2>1. g[n] = f[n]
    BY <1>1
  <2> HIDE DEF g
  <2> QED BY <2>1, <1>5, FlattenIs
<1>7. f[n + 1] = f[n] \o s
  <2>1. n + 1 \in 1..n + 1 /\ n + 1 - 1 = n
    BY <1>1
  <2> HIDE DEF more
  <2>2. f[n + 1] = f[(n + 1) - 1] \o more[n + 1]
    BY <2>1, <1>4
  <2> QED BY <2>1, <2>2, <1>1
<1> QED BY <1>3, <1>6, <1>7

\* Flattening one sequence.
LEMMA FlattenSingleton ==
  ASSUME NEW E, NEW s \in Seq(E)
  PROVE  FlattenSeq(<<s>>) = s
<1>1. <<s>> = Append(<< >>, s) /\ << >> \in Seq(Seq(E))
  OBVIOUS
<1>2. FlattenSeq(<<s>>) = FlattenSeq(<< >>) \o s
  BY <1>1, FlattenAppend
<1> QED BY <1>2, FlattenEmpty, ConcatEmptySeq

\* A sequence is built by appending its elements.
LEMMA PrefixStep ==
  ASSUME NEW S, NEW s \in Seq(S)
  PROVE  /\ SubSeq(s, 1, 0) = << >> /\ SubSeq(s, 1, Len(s)) = s
         /\ \A k \in 0..Len(s) : SubSeq(s, 1, k) \in Seq(S) /\ Len(SubSeq(s, 1, k)) = k
         /\ \A k \in 0..Len(s) - 1 :
              k + 1 \in 1..Len(s) /\ SubSeq(s, 1, k + 1) = Append(SubSeq(s, 1, k), s[k + 1])
<1>0. Len(s) \in Nat
  OBVIOUS
<1>1. SubSeq(s, 1, 0) = << >> /\ SubSeq(s, 1, Len(s)) = s
  BY SubSeqEmpty, SubSeqFull
<1>2. ASSUME NEW k \in 0..Len(s)
      PROVE  /\ SubSeq(s, 1, k) \in Seq(S) /\ Len(SubSeq(s, 1, k)) = k
             /\ \A i \in 1..k : SubSeq(s, 1, k)[i] = s[i]
  <2>1. \A i \in 1..k : s[i] \in S
    BY <1>0, ElementOfSeq
  <2> QED BY <1>0, <2>1, SubSeqProperties
<1>3. ASSUME NEW k \in 0..Len(s) - 1
      PROVE  SubSeq(s, 1, k + 1) = Append(SubSeq(s, 1, k), s[k + 1])
  <2>1. 1 \in 1..Len(s) /\ k + 1 \in 1..Len(s) /\ (k + 1) - 1 = k /\ k \in 0..Len(s)
    BY <1>0
  <2>2. SubSeq(s, 1, k + 1) = SubSeq(s, 1, k) \o <<s[k + 1]>>
    BY <2>1, SubSeqRecursiveSecond
  <2>3. s[k + 1] \in S
    BY <2>1, ElementOfSeq
  <2> QED BY <2>1, <2>2, <2>3, <1>2, AppendIsConcat
<1>4. \A k \in 0..Len(s) - 1 : k + 1 \in 1..Len(s)
  BY <1>0
<1> QED BY <1>1, <1>2, <1>3, <1>4

\* Appending to the second part of a concatenation.
LEMMA ConcatAppend ==
  ASSUME NEW S, NEW s \in Seq(S), NEW t \in Seq(S), NEW e \in S
  PROVE  s \o Append(t, e) = Append(s \o t, e) /\ s \o t \in Seq(S)
<1>1. <<e>> \in Seq(S) /\ Append(t, e) = t \o <<e>>
  BY AppendIsConcat
<1>2. s \o t \in Seq(S)
  OBVIOUS
<1>3. Append(s \o t, e) = (s \o t) \o <<e>>
  BY <1>2, AppendIsConcat
<1>4. Associates(s, t, <<e>>)
  BY <1>1, ConcatAssociates
<1> QED BY <1>1, <1>2, <1>3, <1>4 DEF Associates

\* Flattening commutes with concatenation.
LEMMA FlattenConcat ==
  ASSUME NEW E, NEW s \in Seq(Seq(E)), NEW t \in Seq(Seq(E))
  PROVE  FlattenSeq(s \o t) = FlattenSeq(s) \o FlattenSeq(t)
<1> DEFINE Prefix(k) == SubSeq(t, 1, k)
           N == {k \in 0..Len(t) : FlattenSeq(s \o Prefix(k)) = FlattenSeq(s) \o FlattenSeq(Prefix(k))}
<1>0. Len(t) \in Nat /\ FlattenSeq(s) \in Seq(E)
  BY FlattenType
<1>1. 0 \in N
  <2>1. Prefix(0) = << >> /\ s \o << >> = s /\ FlattenSeq(s) \o << >> = FlattenSeq(s)
    BY <1>0, PrefixStep, ConcatEmptySeq
  <2>2. 0 \in 0..Len(t)
    BY <1>0
  <2> HIDE DEF Prefix
  <2>3. FlattenSeq(s \o Prefix(0)) = FlattenSeq(s) \o FlattenSeq(Prefix(0))
    BY <2>1, FlattenEmpty
  <2> QED BY <2>2, <2>3
<1>2. ASSUME NEW k \in N, k \in 0..Len(t) - 1 PROVE k + 1 \in N
  <2>1. FlattenSeq(s \o Prefix(k)) = FlattenSeq(s) \o FlattenSeq(Prefix(k))
    BY <1>2
  <2> DEFINE e == t[k + 1]
             p == Prefix(k)
  <2>2. /\ k \in 0..Len(t) /\ k + 1 \in 1..Len(t) /\ e \in Seq(E)
        /\ Prefix(k + 1) = Append(p, e) /\ p \in Seq(Seq(E))
    <3>1. k \in 0..Len(t) /\ k + 1 \in 1..Len(t)
      BY <1>0, <1>2
    <3>2. e \in Seq(E)
      BY <3>1, ElementOfSeq
    <3> QED BY <3>1, <3>2, <1>2, PrefixStep
  <2> HIDE DEF N, Prefix, e, p
  <2>3. s \o Append(p, e) = Append(s \o p, e) /\ s \o p \in Seq(Seq(E))
    BY <2>2, ConcatAppend
  <2>4. FlattenSeq(Append(p, e)) = FlattenSeq(p) \o e /\ FlattenSeq(p) \in Seq(E)
    BY <2>2, FlattenAppend, FlattenType
  <2>5. FlattenSeq(Append(s \o p, e)) = FlattenSeq(s \o p) \o e
    BY <2>2, <2>3, FlattenAppend
  <2>6. (FlattenSeq(s) \o FlattenSeq(p)) \o e = FlattenSeq(s) \o (FlattenSeq(p) \o e)
    <3> DEFINE a == FlattenSeq(s)
               b == FlattenSeq(p)
    <3>1. a \in Seq(E) /\ b \in Seq(E) /\ e \in Seq(E)
      BY <1>0, <2>2, <2>4
    <3> HIDE DEF a, b
    <3>2. Associates(a, b, e)
      BY <3>1, ConcatAssociates
    <3> QED BY <3>2 DEF a, b, Associates
  <2>7. FlattenSeq(s \o Prefix(k + 1)) = FlattenSeq(s) \o FlattenSeq(Prefix(k + 1))
    BY <2>1, <2>2, <2>3, <2>4, <2>5, <2>6 DEF p
  <2>8. k + 1 \in 0..Len(t)
    BY <2>2, <1>0
  <2> QED BY <2>7, <2>8 DEF N
<1>3. Len(t) \in N
  <2> HIDE DEF N
  <2>1. 0..Len(t) \subseteq N
    BY <1>0, <1>1, <1>2, BoundedInduction
  <2> QED BY <1>0, <2>1
<1>4. Prefix(Len(t)) = t
  BY PrefixStep
<1> HIDE DEF Prefix
<1> QED BY <1>3, <1>4

\* Flattening, the first sequence apart.
LEMMA FlattenCons ==
  ASSUME NEW E, NEW s \in Seq(E), NEW seqs \in Seq(Seq(E))
  PROVE  FlattenSeq(<<s>> \o seqs) = s \o FlattenSeq(seqs)
<1>1. <<s>> \in Seq(Seq(E))
  OBVIOUS
<1>2. FlattenSeq(<<s>> \o seqs) = FlattenSeq(<<s>>) \o FlattenSeq(seqs)
  BY <1>1, FlattenConcat, Zenon
<1> QED BY <1>2, FlattenSingleton

\* a has the elements of b, then those of c.
Joins(a, b, c) ==
  /\ Len(a) = Len(b) + Len(c)
  /\ \A k \in 1..Len(b) : a[k] = b[k]
  /\ \A k \in 1..Len(c) : a[Len(b) + k] = c[k]

\* What is joined from two sequences is their concatenation.
LEMMA ConcatIs ==
  ASSUME NEW S, NEW a \in Seq(S), NEW b \in Seq(S), NEW c \in Seq(S), Joins(a, b, c)
  PROVE  a = b \o c
<1>1. b \o c \in Seq(S) /\ Len(b \o c) = Len(a) /\ Len(b) \in Nat /\ Len(c) \in Nat
  BY ConcatProperties DEF Joins
<1>2. ASSUME NEW k \in 1..Len(a) PROVE a[k] = (b \o c)[k]
  <2>0. k \in Int /\ 1 <= k /\ k <= Len(b) + Len(c)
    BY <1>1 DEF Joins
  <2>1. CASE k <= Len(b)
    <3>1. k \in 1..Len(b)
      BY <1>1, <2>0, <2>1
    <3>2. (b \o c)[k] = b[k]
      BY <1>1, <2>0, <2>1
    <3> QED BY <3>1, <3>2 DEF Joins
  <2>2. CASE ~ (k <= Len(b))
    <3>1. k - Len(b) \in 1..Len(c) /\ Len(b) + (k - Len(b)) = k
      BY <1>1, <2>0, <2>2
    <3>2. (b \o c)[k] = c[k - Len(b)]
      BY <1>1, <2>0, <2>2
    <3>3. a[Len(b) + (k - Len(b))] = c[k - Len(b)]
      BY <3>1 DEF Joins
    <3> QED BY <3>1, <3>2, <3>3
  <2> QED BY <2>1, <2>2
<1> QED BY <1>1, <1>2, SeqEqual

\* The concatenation is joined from its parts.
LEMMA ConcatJoins ==
  ASSUME NEW S, NEW b \in Seq(S), NEW c \in Seq(S)
  PROVE  b \o c \in Seq(S) /\ Joins(b \o c, b, c)
<1>1. b \o c \in Seq(S) /\ Len(b \o c) = Len(b) + Len(c) /\ Len(b) \in Nat /\ Len(c) \in Nat
  BY ConcatProperties
<1>2. ASSUME NEW k \in 1..Len(b) PROVE (b \o c)[k] = b[k]
  OBVIOUS
<1>3. ASSUME NEW k \in 1..Len(c) PROVE (b \o c)[Len(b) + k] = c[k]
  OBVIOUS
<1> QED BY <1>1, <1>2, <1>3 DEF Joins

-----------------------------------------------------------------------------
(* Functions applied to every element.                                     *)

IsMap(f, S, T) == f \in [S -> T]

\* What f makes of every element.
Image(f, s) == [k \in 1..Len(s) |-> f[s[k]]]

\* The image of a sequence.
LEMMA ImageType ==
  ASSUME NEW S, NEW T, NEW f, IsMap(f, S, T), NEW s \in Seq(S)
  PROVE  /\ Image(f, s) \in Seq(T) /\ Len(Image(f, s)) = Len(s)
         /\ \A k \in 1..Len(s) : Image(f, s)[k] = f[s[k]]
<1>1. \A k \in 1..Len(s) : f[s[k]] \in T
  BY ElementOfSeq DEF IsMap
<1> QED BY <1>1 DEF Image

\* The image commutes with concatenation.
LEMMA ImageConcat ==
  ASSUME NEW S, NEW T, NEW f, IsMap(f, S, T), NEW s \in Seq(S), NEW t \in Seq(S)
  PROVE  Image(f, s \o t) = Image(f, s) \o Image(f, t)
<1> DEFINE u == s \o t
           a == Image(f, u)
           b == Image(f, s)
           c == Image(f, t)
<1>1. u \in Seq(S) /\ Joins(u, s, t)
  BY ConcatJoins
<1> HIDE DEF u
<1>2. /\ a \in Seq(T) /\ Len(a) = Len(u) /\ \A k \in 1..Len(u) : a[k] = f[u[k]]
      /\ b \in Seq(T) /\ Len(b) = Len(s) /\ \A k \in 1..Len(s) : b[k] = f[s[k]]
      /\ c \in Seq(T) /\ Len(c) = Len(t) /\ \A k \in 1..Len(t) : c[k] = f[t[k]]
  <2>1. \A z \in Seq(S) : /\ Image(f, z) \in Seq(T) /\ Len(Image(f, z)) = Len(z)
                          /\ \A k \in 1..Len(z) : Image(f, z)[k] = f[z[k]]
    BY ImageType
  <2> QED BY <1>1, <2>1
<1> HIDE DEF a, b, c
<1>3. Joins(a, b, c)
  <2>1. \A k \in 1..Len(s) : k \in 1..Len(u)
    BY <1>1 DEF Joins
  <2>2. \A k \in 1..Len(t) : Len(s) + k \in 1..Len(u)
    BY <1>1 DEF Joins
  <2>3. \A k \in 1..Len(s) : a[k] = b[k]
    <3> SUFFICES ASSUME NEW k \in 1..Len(s) PROVE a[k] = b[k]
      OBVIOUS
    <3>1. u[k] = s[k]
      BY <1>1 DEF Joins
    <3>2. a[k] = f[u[k]] /\ b[k] = f[s[k]]
      BY <1>2, <2>1
    <3> QED BY <3>1, <3>2
  <2>4. \A k \in 1..Len(t) : a[Len(s) + k] = c[k]
    <3> SUFFICES ASSUME NEW k \in 1..Len(t) PROVE a[Len(s) + k] = c[k]
      OBVIOUS
    <3>1. u[Len(s) + k] = t[k]
      BY <1>1 DEF Joins
    <3>2. a[Len(s) + k] = f[u[Len(s) + k]] /\ c[k] = f[t[k]]
      BY <1>2, <2>2
    <3> QED BY <3>1, <3>2
  <2> QED BY <1>1, <1>2, <2>3, <2>4 DEF Joins
<1>4. a = b \o c
  BY <1>2, <1>3, ConcatIs
<1> QED BY <1>4 DEF a, b, c, u

\* Applied to every element of every sequence.
LEMMA ImageFlatten ==
  ASSUME NEW S, NEW T, NEW f, IsMap(f, S, T), NEW ss \in Seq(Seq(S))
  PROVE  LET images == [k \in 1..Len(ss) |-> Image(f, ss[k])]
         IN  /\ images \in Seq(Seq(T))
             /\ Image(f, FlattenSeq(ss)) = FlattenSeq(images)
<1> DEFINE n == Len(ss)
           images == [k \in 1..n |-> Image(f, ss[k])]
           P(k) == Image(f, FlattenSeq(SubSeq(ss, 1, k))) = FlattenSeq(SubSeq(images, 1, k))
           N == {k \in 0..n : P(k)}
<1>a. \A x \in Seq(S), y \in Seq(S) : Image(f, x \o y) = Image(f, x) \o Image(f, y)
  <2> HIDE DEF n, images, P, N
  <2> QED BY ImageConcat
<1>0. n \in Nat
  OBVIOUS
<1>1. /\ images \in Seq(Seq(T)) /\ Len(images) = n
      /\ \A k \in 1..n : images[k] = Image(f, ss[k]) /\ ss[k] \in Seq(S)
  <2>1. \A k \in 1..n : Image(f, ss[k]) \in Seq(T) /\ ss[k] \in Seq(S)
    BY ElementOfSeq, ImageType
  <2> QED BY <2>1
<1> HIDE DEF images
<1>2. 0 \in N
  <2>1. SubSeq(ss, 1, 0) = << >> /\ SubSeq(images, 1, 0) = << >>
    BY <1>1, PrefixStep
  <2>2. Image(f, << >>) = << >>
    BY DEF Image
  <2>3. P(0)
    BY <2>1, <2>2, FlattenEmpty
  <2> QED BY <2>3, <1>0
<1>3. \A k \in N : k \in 0..n - 1 => k + 1 \in N
  <2> SUFFICES ASSUME NEW k \in 0..n - 1, P(k)
               PROVE  k + 1 \in 0..n /\ P(k + 1)
    OBVIOUS
  <2> DEFINE a == SubSeq(ss, 1, k)
             b == SubSeq(images, 1, k)
             c == ss[k + 1]
             d == images[k + 1]
  <2>0. k + 1 \in 1..n /\ k + 1 \in 0..n
    BY <1>0
  <2>1. /\ a \in Seq(Seq(S)) /\ SubSeq(ss, 1, k + 1) = Append(a, c) /\ c \in Seq(S)
        /\ b \in Seq(Seq(T)) /\ SubSeq(images, 1, k + 1) = Append(b, d) /\ d \in Seq(T)
        /\ d = Image(f, c)
    BY <2>0, <1>1, PrefixStep, ElementOfSeq
  <2> HIDE DEF a, b, c, d
  <2>2. FlattenSeq(Append(a, c)) = FlattenSeq(a) \o c /\ FlattenSeq(a) \in Seq(S)
    BY <2>1, FlattenAppend, FlattenType
  <2>3. FlattenSeq(Append(b, d)) = FlattenSeq(b) \o d
    BY <2>1, FlattenAppend
  <2>4. Image(f, FlattenSeq(a) \o c) = Image(f, FlattenSeq(a)) \o Image(f, c)
    <3> DEFINE z == FlattenSeq(a)
    <3>1. z \in Seq(S) /\ c \in Seq(S)
      BY <2>1, <2>2
    <3> HIDE DEF z
    <3>3. Image(f, z \o c) = Image(f, z) \o Image(f, c)
      BY <3>1, <1>a
    <3> QED BY <3>3 DEF z
  <2>5. Image(f, FlattenSeq(a)) = FlattenSeq(b)
    BY DEF a, b
  <2>6. P(k + 1)
    BY <2>1, <2>2, <2>3, <2>4, <2>5
  <2> QED BY <2>0, <2>6
<1>4. 0..n \subseteq N
  <2> HIDE DEF N
  <2> QED BY <1>0, <1>2, <1>3, BoundedInduction
<1>5. P(n)
  BY <1>0, <1>4
<1>6. SubSeq(ss, 1, n) = ss /\ SubSeq(images, 1, n) = images
  BY <1>1, PrefixStep
<1> QED BY <1>1, <1>5, <1>6 DEF images
\* What is given by its elements is a sequence.
LEMMA SeqIs ==
  ASSUME NEW S, NEW n \in Nat, NEW f, f = [k \in 1..n |-> f[k]], \A k \in 1..n : f[k] \in S
  PROVE  f \in Seq(S) /\ Len(f) = n
<1> DEFINE h == [k \in 1..n |-> f[k]]
<1>1. h \in [1..n -> S]
  OBVIOUS
<1> HIDE DEF h
<1>2. h \in Seq(S) /\ Len(h) = n
  BY <1>1
<1> QED BY <1>2 DEF h

\* A sequence of elements of another set.
LEMMA SeqOfElements ==
  ASSUME NEW S, NEW T, NEW s \in Seq(S), \A k \in 1..Len(s) : s[k] \in T
  PROVE  s \in Seq(T)
<1>1. Len(s) \in Nat /\ s \in [1..Len(s) -> T]
  OBVIOUS
<1> QED BY <1>1

-----------------------------------------------------------------------------
(***************************************************************************)
(* What the stages make of contexts.                                       *)
(***************************************************************************)

\* The stages of a chain of iterators.
Stage ==
  [op : {"record"}, vid : Vid]
    \cup [op : {"activate"}, vid : Vid, recursing : BOOLEAN]
    \cup [op : {"check"}, accepts : SUBSET MaybeVertex]
    \cup [op : {"neighbors"}, optional : BOOLEAN]
    \cup [op : {"recurse"}]
    \cup [op : {"coerce"}, to : SUBSET Vertex]
    \cup [op : {"unpack"}]

Data == [Vertex -> Seq(Vertex)]

\* Nothing rides on the context, and only missing vertices are suspended.
Calm(ctx) == ctx.piggyback = << >> /\ ctx.suspended \in Seq({None})

Unsuspendable(s) == \A k \in 1..Len(s) : CanUnsuspend(s[k])

\* What a stage counts on, lest an unwrap() or an assert!() fails.
Prepared(op, ctx) ==
  /\ op.op = "record" => ~ IsVisited(ctx, op.vid) /\ Calm(ctx)
  /\ op.op = "activate" => IsVisited(ctx, op.vid) /\ Calm(ctx)
  /\ op.op = "unpack" => CanUnsuspend(ctx) /\ Unsuspendable(ctx.piggyback)

Received(op) == {ctx \in Context : Prepared(op, ctx)}

Neighbors(g, ctx) == IF ctx.active = None THEN << >> ELSE g[ctx.active]

Moved(ctx, s) == [k \in 1..Len(s) |-> SplitAndMoveToVertex(ctx, s[k])]

Unsuspended(s) == [k \in 1..Len(s) |-> EnsureUnsuspended(s[k])]

\* A recursion from a missing vertex marks the context.
Marked(ctx, recursing) ==
  IF recursing /\ ctx.active = None THEN PushSuspended(ctx, None) ELSE ctx

\* What a plain edge makes of a context with these neighbors left to visit.
AlongEdge(ctx, s, optional) ==
  Moved(ctx, s) \o (IF ctx.active = None \/ (s = << >> /\ optional)
                      THEN <<SplitAndMoveToVertex(ctx, None)>> ELSE << >>)

FirstReached(ctx, v) == AttachPiggyback(SplitAndMoveToVertex(ctx, v), EnsureSuspended(ctx))

\* What one level of a recursion makes of a context with these neighbors.
OneLevel(ctx, s) ==
  IF s = << >> THEN <<ctx>>
  ELSE <<FirstReached(ctx, Head(s))>> \o Moved(ctx, Tail(s))

\* The contexts that a stage makes of one.
Out(op, g, ctx) ==
  CASE op.op = "record" -> <<RecordVertex(ctx, op.vid)>>
    [] op.op = "activate" ->
         <<ActivateVertex(Marked(ctx, op.recursing), op.vid)>>
    [] op.op = "check" -> IF ctx.active \in op.accepts THEN <<ctx>> ELSE << >>
    [] op.op = "coerce" -> <<IF ctx.active \in op.to THEN ctx ELSE EnsureSuspended(ctx)>>
    [] op.op = "neighbors" -> AlongEdge(ctx, Neighbors(g, ctx), op.optional)
    [] op.op = "recurse" -> OneLevel(ctx, Neighbors(g, ctx))
    [] op.op = "unpack" -> Unsuspended(UnpackPiggyback(ctx))

-----------------------------------------------------------------------------
(* Contexts.                                                               *)

\* The constructors of contexts and what they make.
Ctx(active, vertices, suspended, piggyback) ==
  [active |-> active, vertices |-> vertices, suspended |-> suspended, piggyback |-> piggyback]

Contexts(A, B, C, D) == [active : A, vertices : B, suspended : C, piggyback : D]

\* The fields of a record of a set of records.
LEMMA ContextFields ==
  ASSUME NEW A, NEW B, NEW C, NEW D, NEW r \in Contexts(A, B, C, D)
  PROVE  /\ r.active \in A /\ r.vertices \in B /\ r.suspended \in C /\ r.piggyback \in D
         /\ r = Ctx(r.active, r.vertices, r.suspended, r.piggyback)
BY DEF Ctx, Contexts

\* A record with fields in the sets is in the set of records.
LEMMA CtxFields ==
  ASSUME NEW A, NEW B, NEW C, NEW D, NEW a \in A, NEW b \in B, NEW c \in C, NEW d \in D
  PROVE  Ctx(a, b, c, d) \in Contexts(A, B, C, D)
BY DEF Ctx, Contexts

\* The two kinds of contexts, by one operator.
LEMMA ContextSets ==
  /\ Context = Contexts(MaybeVertex, Recorded, Seq(MaybeVertex), Seq(Rider))
  /\ Rider = Contexts(MaybeVertex, Recorded, Seq(MaybeVertex), {<< >>})
BY DEF Context, Rider, Contexts

\* A context has the fields of one.
LEMMA ContextIs ==
  ASSUME NEW ctx \in Context
  PROVE  /\ ctx.active \in MaybeVertex /\ ctx.vertices \in Recorded
         /\ ctx.suspended \in Seq(MaybeVertex) /\ ctx.piggyback \in Seq(Rider)
         /\ ctx = Ctx(ctx.active, ctx.vertices, ctx.suspended, ctx.piggyback)
BY ContextSets, ContextFields

\* What has the fields of a context is one, and a rider if nothing rides on it.
LEMMA CtxIsContext ==
  ASSUME NEW a \in MaybeVertex, NEW b \in Recorded, NEW c \in Seq(MaybeVertex), NEW d \in Seq(Rider)
  PROVE  /\ Ctx(a, b, c, d) \in Context
         /\ d = << >> => Ctx(a, b, c, d) \in Rider
<1>1. d = << >> => Ctx(a, b, c, d) \in Rider
  <2>1. << >> \in {<< >>}
    OBVIOUS
  <2> QED BY <2>1, CtxFields, ContextSets
<1> QED BY <1>1, CtxFields, ContextSets

\* Riders are contexts.
LEMMA RiderIsContext == Rider \subseteq Context
<1> SUFFICES ASSUME NEW r \in Rider PROVE r \in Context
  OBVIOUS
<1>1. /\ r.active \in MaybeVertex /\ r.vertices \in Recorded /\ r.suspended \in Seq(MaybeVertex)
      /\ r.piggyback \in {<< >>}
      /\ r = Ctx(r.active, r.vertices, r.suspended, r.piggyback)
  BY ContextFields, ContextSets
<1>2. r.piggyback \in Seq(Rider)
  <2>1. << >> \in Seq(Rider)
    OBVIOUS
  <2> QED BY <1>1, <2>1
<1> QED BY <1>1, <1>2, CtxIsContext

With(vertices, vid, vertex) == [vertices EXCEPT ![vid] = vertex]

\* What each operation on a context makes of its fields.
LEMMA Operations ==
  ASSUME NEW ctx \in Context
  PROVE  /\ \A v : SplitAndMoveToVertex(ctx, v) = Ctx(v, ctx.vertices, ctx.suspended, << >>)
         /\ \A v : PushSuspended(ctx, v) =
                   Ctx(ctx.active, ctx.vertices, Append(ctx.suspended, v), ctx.piggyback)
         /\ \A vid : RecordVertex(ctx, vid) =
                   Ctx(ctx.active, With(ctx.vertices, vid, ctx.active), ctx.suspended, ctx.piggyback)
         /\ \A vid : ActivateVertex(ctx, vid) =
                   Ctx(ctx.vertices[vid], ctx.vertices, ctx.suspended, ctx.piggyback)
         /\ EnsureSuspended(ctx) =
               IF ctx.active = None THEN ctx
               ELSE Ctx(None, ctx.vertices, Append(ctx.suspended, ctx.active), ctx.piggyback)
         /\ EnsureUnsuspended(ctx) =
               IF ctx.active # None THEN ctx
               ELSE Ctx(ctx.suspended[Len(ctx.suspended)], ctx.vertices,
                        SubSeq(ctx.suspended, 1, Len(ctx.suspended) - 1), ctx.piggyback)
         /\ UnpackPiggyback(ctx) =
               Append(ctx.piggyback, Ctx(ctx.active, ctx.vertices, ctx.suspended, << >>))
         /\ \A r : AttachPiggyback(ctx, r) =
                   Ctx(ctx.active, ctx.vertices, ctx.suspended, ctx.piggyback \o UnpackPiggyback(r))
<1>0. PICK A, B, C, D : ctx \in Contexts(A, B, C, D)
  BY ContextSets
<1>a. ctx.active \in A /\ ctx.vertices \in B /\ ctx.suspended \in C /\ ctx.piggyback \in D
  BY <1>0 DEF Contexts
<1>b. ASSUME NEW v PROVE [ctx EXCEPT !.active = v] = Ctx(v, ctx.vertices, ctx.suspended, ctx.piggyback)
  BY <1>0 DEF Ctx, Contexts
<1>c. ASSUME NEW v PROVE [ctx EXCEPT !.vertices = v] = Ctx(ctx.active, v, ctx.suspended, ctx.piggyback)
  BY <1>0 DEF Ctx, Contexts
<1>d. ASSUME NEW v PROVE [ctx EXCEPT !.suspended = v] = Ctx(ctx.active, ctx.vertices, v, ctx.piggyback)
  BY <1>0 DEF Ctx, Contexts
<1>e. ASSUME NEW v PROVE [ctx EXCEPT !.piggyback = v] = Ctx(ctx.active, ctx.vertices, ctx.suspended, v)
  BY <1>0 DEF Ctx, Contexts
<1>f. ASSUME NEW v, NEW w
      PROVE  /\ [ctx EXCEPT !.active = v, !.piggyback = w] = Ctx(v, ctx.vertices, ctx.suspended, w)
             /\ [ctx EXCEPT !.active = v, !.suspended = w] = Ctx(v, ctx.vertices, w, ctx.piggyback)
  <2> DEFINE q == [ctx EXCEPT !.active = v]
  <2>1. /\ [ctx EXCEPT !.active = v, !.piggyback = w] = [q EXCEPT !.piggyback = w]
        /\ [ctx EXCEPT !.active = v, !.suspended = w] = [q EXCEPT !.suspended = w]
    OBVIOUS
  <2>2. q = Ctx(v, ctx.vertices, ctx.suspended, ctx.piggyback)
    BY <1>b
  <2> HIDE DEF q
  <2>3. q \in [active : {v}, vertices : B, suspended : C, piggyback : D]
    BY <1>a, <2>2 DEF Ctx, Contexts
  <2>4. /\ [q EXCEPT !.piggyback = w] = Ctx(v, ctx.vertices, ctx.suspended, w)
        /\ [q EXCEPT !.suspended = w] = Ctx(v, ctx.vertices, w, ctx.piggyback)
    BY <2>2, <2>3 DEF Ctx, Contexts
  <2> QED BY <2>1, <2>4
<1>1. /\ \A v : [ctx EXCEPT !.active = v] = Ctx(v, ctx.vertices, ctx.suspended, ctx.piggyback)
      /\ \A v : [ctx EXCEPT !.vertices = v] = Ctx(ctx.active, v, ctx.suspended, ctx.piggyback)
      /\ \A v : [ctx EXCEPT !.suspended = v] = Ctx(ctx.active, ctx.vertices, v, ctx.piggyback)
      /\ \A v : [ctx EXCEPT !.piggyback = v] = Ctx(ctx.active, ctx.vertices, ctx.suspended, v)
      /\ \A v, w : [ctx EXCEPT !.active = v, !.piggyback = w] = Ctx(v, ctx.vertices, ctx.suspended, w)
      /\ \A v, w : [ctx EXCEPT !.active = v, !.suspended = w] = Ctx(v, ctx.vertices, w, ctx.piggyback)
  BY <1>b, <1>c, <1>d, <1>e, <1>f
<1>2. ASSUME NEW v
      PROVE  SplitAndMoveToVertex(ctx, v) = Ctx(v, ctx.vertices, ctx.suspended, << >>)
  BY <1>1 DEF SplitAndMoveToVertex
<1>3. ASSUME NEW v
      PROVE  PushSuspended(ctx, v) = Ctx(ctx.active, ctx.vertices, Append(ctx.suspended, v), ctx.piggyback)
  BY <1>1 DEF PushSuspended
<1>4. ASSUME NEW vid
      PROVE  RecordVertex(ctx, vid) =
               Ctx(ctx.active, With(ctx.vertices, vid, ctx.active), ctx.suspended, ctx.piggyback)
  BY <1>1 DEF RecordVertex, With
<1>5. ASSUME NEW vid
      PROVE  ActivateVertex(ctx, vid) = Ctx(ctx.vertices[vid], ctx.vertices, ctx.suspended, ctx.piggyback)
  BY <1>1 DEF ActivateVertex
<1>6. EnsureSuspended(ctx) =
               IF ctx.active = None THEN ctx
               ELSE Ctx(None, ctx.vertices, Append(ctx.suspended, ctx.active), ctx.piggyback)
  <2>1. [PushSuspended(ctx, ctx.active) EXCEPT !.active = None] =
           [ctx EXCEPT !.suspended = Append(ctx.suspended, ctx.active), !.active = None]
    BY DEF PushSuspended
  <2>2. [ctx EXCEPT !.suspended = Append(ctx.suspended, ctx.active), !.active = None] =
          [ctx EXCEPT !.active = None, !.suspended = Append(ctx.suspended, ctx.active)]
    OBVIOUS
  <2> QED BY <1>1, <2>1, <2>2 DEF EnsureSuspended
<1>7. EnsureUnsuspended(ctx) =
               IF ctx.active # None THEN ctx
               ELSE Ctx(ctx.suspended[Len(ctx.suspended)], ctx.vertices,
                        SubSeq(ctx.suspended, 1, Len(ctx.suspended) - 1), ctx.piggyback)
  <2> DEFINE v == ctx.suspended[Len(ctx.suspended)]
             w == SubSeq(ctx.suspended, 1, Len(ctx.suspended) - 1)
  <2>1. EnsureUnsuspended(ctx) =
          IF ctx.active # None THEN ctx ELSE [ctx EXCEPT !.active = v, !.suspended = w]
    BY DEF EnsureUnsuspended
  <2> HIDE DEF v, w
  <2>2. [ctx EXCEPT !.active = v, !.suspended = w] = Ctx(v, ctx.vertices, w, ctx.piggyback)
    BY <1>f
  <2>3. EnsureUnsuspended(ctx) =
          IF ctx.active # None THEN ctx ELSE Ctx(v, ctx.vertices, w, ctx.piggyback)
    BY <2>1, <2>2
  <2> QED BY <2>3 DEF v, w
<1>8. UnpackPiggyback(ctx) = Append(ctx.piggyback, Ctx(ctx.active, ctx.vertices, ctx.suspended, << >>))
  BY <1>1 DEF UnpackPiggyback
<1>9. ASSUME NEW r
      PROVE  AttachPiggyback(ctx, r) =
               Ctx(ctx.active, ctx.vertices, ctx.suspended, ctx.piggyback \o UnpackPiggyback(r))
  BY <1>1 DEF AttachPiggyback
<1> QED BY <1>2, <1>3, <1>4, <1>5, <1>6, <1>7, <1>8, <1>9

\* split_and_move_to_vertex() keeps what was recorded and suspended, and carries nobody.
LEMMA MoveType ==
  ASSUME NEW ctx \in Context, NEW v \in MaybeVertex
  PROVE  /\ SplitAndMoveToVertex(ctx, v) \in Context
         /\ SplitAndMoveToVertex(ctx, v) \in Rider
         /\ SplitAndMoveToVertex(ctx, v).active = v
         /\ SplitAndMoveToVertex(ctx, v).vertices = ctx.vertices
         /\ SplitAndMoveToVertex(ctx, v).suspended = ctx.suspended
         /\ SplitAndMoveToVertex(ctx, v).piggyback = << >>
<1>1. << >> \in Seq(Rider)
  OBVIOUS
<1>2. SplitAndMoveToVertex(ctx, v) = Ctx(v, ctx.vertices, ctx.suspended, << >>)
  BY Operations
<1>3. Ctx(v, ctx.vertices, ctx.suspended, << >>) \in Context /\ Ctx(v, ctx.vertices, ctx.suspended, << >>) \in Rider
  BY <1>1, ContextIs, CtxIsContext
<1> QED BY <1>2, <1>3 DEF Ctx

\* Only the last move of a context counts.
LEMMA MoveMove ==
  ASSUME NEW ctx \in Context, NEW v \in MaybeVertex, NEW w \in MaybeVertex
  PROVE  SplitAndMoveToVertex(SplitAndMoveToVertex(ctx, v), w) = SplitAndMoveToVertex(ctx, w)
<1>1. SplitAndMoveToVertex(SplitAndMoveToVertex(ctx, v), w) = Ctx(w, ctx.vertices, ctx.suspended, << >>)
  BY MoveType, Operations
<1> QED BY <1>1, Operations

\* Moving a context to each of some vertices.
LEMMA MovedType ==
  ASSUME NEW ctx \in Context, NEW s \in Seq(MaybeVertex)
  PROVE  /\ Moved(ctx, s) \in Seq(Context) /\ Len(Moved(ctx, s)) = Len(s)
         /\ \A k \in 1..Len(s) : Moved(ctx, s)[k] = SplitAndMoveToVertex(ctx, s[k])
<1>1. Len(s) \in Nat /\ \A k \in 1..Len(s) : SplitAndMoveToVertex(ctx, s[k]) \in Context
  BY MoveType, ElementOfSeq
<1> QED BY <1>1 DEF Moved

\* ensure_suspended() puts the active vertex on the stack.
LEMMA SuspendType ==
  ASSUME NEW ctx \in Context
  PROVE  /\ EnsureSuspended(ctx) \in Context
         /\ EnsureSuspended(ctx).active = None
         /\ EnsureSuspended(ctx).vertices = ctx.vertices
         /\ EnsureSuspended(ctx).piggyback = ctx.piggyback
         /\ EnsureSuspended(ctx).suspended =
              IF ctx.active = None THEN ctx.suspended ELSE Append(ctx.suspended, ctx.active)
<1>1. CASE ctx.active = None
  BY <1>1, Operations
<1>2. CASE ctx.active # None
  <2>1. Append(ctx.suspended, ctx.active) \in Seq(MaybeVertex) /\ None \in MaybeVertex
    <3>1. ctx.suspended \in Seq(MaybeVertex) /\ ctx.active \in MaybeVertex
      BY ContextIs
    <3> QED BY <3>1, AppendProperties DEF MaybeVertex
  <2>2. EnsureSuspended(ctx) = Ctx(None, ctx.vertices, Append(ctx.suspended, ctx.active), ctx.piggyback)
    BY <1>2, Operations
  <2>3. Ctx(None, ctx.vertices, Append(ctx.suspended, ctx.active), ctx.piggyback) \in Context
    BY <2>1, ContextIs, CtxIsContext
  <2> QED BY <1>2, <2>2, <2>3 DEF Ctx
<1> QED BY <1>1, <1>2

\* ensure_unsuspended() gives a context that can be unsuspended.
LEMMA UnsuspendType ==
  ASSUME NEW ctx \in Context, CanUnsuspend(ctx)
  PROVE  EnsureUnsuspended(ctx) \in Context
<1>1. CASE ctx.active # None
  BY <1>1, Operations
<1>2. CASE ctx.active = None
  <2>1. ctx.suspended \in Seq(MaybeVertex) /\ ctx.suspended # << >>
    BY <1>2, ContextIs DEF CanUnsuspend
  <2>2. Len(ctx.suspended) \in 1..Len(ctx.suspended) /\ Len(ctx.suspended) \in Nat
    BY <2>1, EmptySeq
  <2>3. ctx.suspended[Len(ctx.suspended)] \in MaybeVertex
    BY <2>1, <2>2, ElementOfSeq
  <2>4. SubSeq(ctx.suspended, 1, Len(ctx.suspended) - 1) \in Seq(MaybeVertex)
    <3>1. Len(ctx.suspended) - 1 \in 0..Len(ctx.suspended)
      BY <2>2
    <3> QED BY <2>1, <3>1, PrefixStep
  <2>5. EnsureUnsuspended(ctx) =
          Ctx(ctx.suspended[Len(ctx.suspended)], ctx.vertices,
              SubSeq(ctx.suspended, 1, Len(ctx.suspended) - 1), ctx.piggyback)
    BY <1>2, Operations
  <2> DEFINE v == ctx.suspended[Len(ctx.suspended)]
             w == SubSeq(ctx.suspended, 1, Len(ctx.suspended) - 1)
  <2>6. v \in MaybeVertex /\ w \in Seq(MaybeVertex) /\ EnsureUnsuspended(ctx) = Ctx(v, ctx.vertices, w, ctx.piggyback)
    BY <2>3, <2>4, <2>5
  <2> HIDE DEF v, w
  <2>7. Ctx(v, ctx.vertices, w, ctx.piggyback) \in Context
    BY <2>6, ContextIs, CtxIsContext
  <2> QED BY <2>6, <2>7
<1> QED BY <1>1, <1>2

\* A context comes out of a recursion as it was before it was suspended.
LEMMA SuspendUnsuspend ==
  ASSUME NEW ctx \in Context, ctx.active # None
  PROVE  EnsureUnsuspended(EnsureSuspended(ctx)) = ctx
<1> DEFINE c == EnsureSuspended(ctx)
           s == ctx.suspended
           n == Len(s)
<1>1. /\ c \in Context /\ c.active = None /\ c.vertices = ctx.vertices
      /\ c.piggyback = ctx.piggyback /\ c.suspended = Append(s, ctx.active)
  BY SuspendType
<1>2. s \in Seq(MaybeVertex) /\ ctx.active \in MaybeVertex /\ n \in Nat
  BY ContextIs
<1> HIDE DEF c, s
<1>3. Len(c.suspended) = n + 1 /\ c.suspended[n + 1] = ctx.active
  BY <1>1, <1>2, AppendProperties
<1>4. SubSeq(c.suspended, 1, n) = s
  BY <1>1, <1>2
<1>5. (n + 1) - 1 = n
  BY <1>2
<1>6. EnsureUnsuspended(c) = Ctx(ctx.active, ctx.vertices, s, ctx.piggyback)
  <2>1. EnsureUnsuspended(c) =
          Ctx(c.suspended[Len(c.suspended)], c.vertices, SubSeq(c.suspended, 1, Len(c.suspended) - 1), c.piggyback)
    BY <1>1, Operations
  <2>2. c.suspended[Len(c.suspended)] = ctx.active /\ SubSeq(c.suspended, 1, Len(c.suspended) - 1) = s
    BY <1>3, <1>4, <1>5
  <2> QED BY <1>1, <2>1, <2>2
<1> QED BY <1>6, ContextIs DEF c, s

\* The context itself without its riders.
Bare(ctx) == Ctx(ctx.active, ctx.vertices, ctx.suspended, << >>)

\* A context without its riders is a rider; unpack_piggyback() gives it after its riders.
LEMMA BareType ==
  ASSUME NEW ctx \in Context
  PROVE  /\ Bare(ctx) \in Rider /\ Bare(ctx) \in Context
         /\ Bare(ctx).active = ctx.active /\ Bare(ctx).vertices = ctx.vertices
         /\ Bare(ctx).suspended = ctx.suspended /\ Bare(ctx).piggyback = << >>
         /\ UnpackPiggyback(ctx) = Append(ctx.piggyback, Bare(ctx))
<1>1. << >> \in Seq(Rider)
  OBVIOUS
<1>2. Bare(ctx) \in Rider /\ Bare(ctx) \in Context
  BY <1>1, ContextIs, CtxIsContext DEF Bare
<1>3. UnpackPiggyback(ctx) = Append(ctx.piggyback, Bare(ctx))
  BY Operations DEF Bare
<1> QED BY <1>2, <1>3 DEF Bare, Ctx

\* The first neighbor of a recursion carries the context it was reached from.
LEMMA FirstReachedType ==
  ASSUME NEW ctx \in Context, NEW v \in MaybeVertex
  PROVE  /\ FirstReached(ctx, v) \in Context
         /\ FirstReached(ctx, v) = Ctx(v, ctx.vertices, ctx.suspended,
                                       Append(ctx.piggyback, Bare(EnsureSuspended(ctx))))
<1> DEFINE c == SplitAndMoveToVertex(ctx, v)
           d == EnsureSuspended(ctx)
           p == Append(ctx.piggyback, Bare(d))
<1>1. /\ c \in Context /\ c.active = v /\ c.vertices = ctx.vertices
      /\ c.suspended = ctx.suspended /\ c.piggyback = << >>
  BY MoveType
<1>2. d \in Context /\ d.piggyback = ctx.piggyback
  BY SuspendType
<1> HIDE DEF c, d
<1>3. p \in Seq(Rider) /\ UnpackPiggyback(d) = p
  <2>1. ctx.piggyback \in Seq(Rider) /\ Bare(d) \in Rider
    BY <1>2, ContextIs, BareType
  <2> QED BY <2>1, <1>2, BareType, AppendProperties
<1> HIDE DEF p
<1>4. AttachPiggyback(c, d) = Ctx(v, ctx.vertices, ctx.suspended, << >> \o p)
  BY <1>1, <1>3, Operations
<1>5. << >> \o p = p
  BY <1>3, ConcatEmptySeq
<1>6. Ctx(v, ctx.vertices, ctx.suspended, p) \in Context
  BY <1>3, ContextIs, CtxIsContext
<1> QED BY <1>4, <1>5, <1>6 DEF FirstReached, c, d, p

\* Moving a context commutes with concatenation.
LEMMA MovedConcat ==
  ASSUME NEW ctx \in Context, NEW s \in Seq(MaybeVertex), NEW t \in Seq(MaybeVertex)
  PROVE  Moved(ctx, s \o t) = Moved(ctx, s) \o Moved(ctx, t)
<1> DEFINE u == s \o t
<1>1. u \in Seq(MaybeVertex) /\ Joins(u, s, t)
  BY ConcatJoins
<1> HIDE DEF u
<1>2. /\ Moved(ctx, u) \in Seq(Context) /\ Moved(ctx, s) \in Seq(Context) /\ Moved(ctx, t) \in Seq(Context)
      /\ Len(Moved(ctx, u)) = Len(u) /\ Len(Moved(ctx, s)) = Len(s) /\ Len(Moved(ctx, t)) = Len(t)
  BY <1>1, MovedType
<1>3. ASSUME NEW k \in 1..Len(s) PROVE Moved(ctx, u)[k] = Moved(ctx, s)[k]
  <2>1. k \in 1..Len(u) /\ u[k] = s[k]
    BY <1>1 DEF Joins
  <2> QED BY <1>1, <2>1, MovedType
<1>4. ASSUME NEW k \in 1..Len(t) PROVE Moved(ctx, u)[Len(s) + k] = Moved(ctx, t)[k]
  <2>1. Len(s) + k \in 1..Len(u) /\ u[Len(s) + k] = t[k]
    BY <1>1 DEF Joins
  <2> QED BY <1>1, <2>1, MovedType
<1>5. Joins(Moved(ctx, u), Moved(ctx, s), Moved(ctx, t))
  BY <1>1, <1>2, <1>3, <1>4 DEF Joins
<1>6. Moved(ctx, u) = Moved(ctx, s) \o Moved(ctx, t)
  BY <1>2, <1>5, ConcatIs
<1> QED BY <1>6 DEF u

\* Unsuspending contexts, one for one.
LEMMA UnsuspendedType ==
  ASSUME NEW s \in Seq(Context), Unsuspendable(s)
  PROVE  /\ Unsuspended(s) \in Seq(Context) /\ Len(Unsuspended(s)) = Len(s)
         /\ \A k \in 1..Len(s) : Unsuspended(s)[k] = EnsureUnsuspended(s[k])
<1>1. Len(s) \in Nat /\ \A k \in 1..Len(s) : EnsureUnsuspended(s[k]) \in Context
  BY UnsuspendType, ElementOfSeq DEF Unsuspendable
<1> QED BY <1>1 DEF Unsuspended

\* Unsuspending contexts and one more.
LEMMA UnsuspendedAppend ==
  ASSUME NEW s \in Seq(Context), NEW ctx \in Context, Unsuspendable(s), CanUnsuspend(ctx)
  PROVE  /\ Unsuspendable(Append(s, ctx))
         /\ Unsuspended(Append(s, ctx)) = Unsuspended(s) \o <<EnsureUnsuspended(ctx)>>
         /\ Unsuspended(Append(s, ctx)) \in Seq(Context)
<1> DEFINE n == Len(s)
           more == Append(s, ctx)
           b == Unsuspended(s)
           c == <<EnsureUnsuspended(ctx)>>
           a == Unsuspended(more)
<1>1. /\ n \in Nat /\ more \in Seq(Context) /\ Len(more) = n + 1 /\ more[n + 1] = ctx
      /\ \A k \in 1..n : more[k] = s[k]
  BY AppendProperties
<1> HIDE DEF more
<1>2. Unsuspendable(more)
  <2> SUFFICES ASSUME NEW k \in 1..n + 1 PROVE CanUnsuspend(more[k])
    BY <1>1 DEF Unsuspendable
  <2>1. k \in 1..n \/ k = n + 1
    BY <1>1
  <2> QED BY <1>1, <2>1 DEF Unsuspendable
<1>3. /\ a \in Seq(Context) /\ Len(a) = n + 1
      /\ \A k \in 1..n + 1 : a[k] = EnsureUnsuspended(more[k])
  BY <1>1, <1>2, UnsuspendedType
<1>4. /\ b \in Seq(Context) /\ Len(b) = n
      /\ \A k \in 1..n : b[k] = EnsureUnsuspended(s[k])
  BY UnsuspendedType
<1>5. c \in Seq(Context) /\ Len(c) = 1 /\ c[1] = EnsureUnsuspended(ctx)
  BY UnsuspendType
<1> HIDE DEF a, b, c
<1>6. Joins(a, b, c)
  <2>1. \A k \in 1..n : k \in 1..n + 1
    BY <1>1
  <2>2. \A k \in 1..1 : k = 1
    OBVIOUS
  <2>3. n + 1 \in 1..n + 1
    BY <1>1
  <2> QED BY <2>1, <2>2, <2>3, <1>1, <1>3, <1>4, <1>5 DEF Joins
<1>7. a = b \o c
  BY <1>3, <1>4, <1>5, <1>6, ConcatIs
<1> QED BY <1>2, <1>3, <1>7 DEF a, b, c, more

-----------------------------------------------------------------------------
(* Stages.                                                                 *)

\* One level of a recursion gives contexts.
LEMMA OneLevelType ==
  ASSUME NEW ctx \in Context, NEW s \in Seq(MaybeVertex)
  PROVE  OneLevel(ctx, s) \in Seq(Context)
<1>1. CASE s = << >>
  BY <1>1 DEF OneLevel
<1>2. CASE s # << >>
  <2>1. Head(s) \in MaybeVertex /\ Tail(s) \in Seq(MaybeVertex)
    BY <1>2, HeadTailProperties
  <2>2. FirstReached(ctx, Head(s)) \in Context /\ Moved(ctx, Tail(s)) \in Seq(Context)
    BY <2>1, FirstReachedType, MovedType
  <2>3. <<FirstReached(ctx, Head(s))>> \in Seq(Context)
    BY <2>2
  <2> QED BY <1>2, <2>2, <2>3, ConcatProperties DEF OneLevel
<1> QED BY <1>1, <1>2

\* A plain edge gives contexts.
LEMMA AlongEdgeType ==
  ASSUME NEW ctx \in Context, NEW s \in Seq(MaybeVertex), NEW optional
  PROVE  AlongEdge(ctx, s, optional) \in Seq(Context)
<1> DEFINE missing == IF ctx.active = None \/ (s = << >> /\ optional)
                        THEN <<SplitAndMoveToVertex(ctx, None)>> ELSE << >>
<1>1. SplitAndMoveToVertex(ctx, None) \in Context
  BY MoveType DEF MaybeVertex
<1>2. missing \in Seq(Context)
  BY <1>1
<1>3. Moved(ctx, s) \in Seq(Context)
  BY MovedType
<1> HIDE DEF missing
<1>4. Moved(ctx, s) \o missing \in Seq(Context)
  BY <1>2, <1>3, ConcatProperties
<1> QED BY <1>4 DEF AlongEdge, missing

\* Neighbors are vertices.
LEMMA NeighborsType ==
  ASSUME NEW g \in Data, NEW ctx \in Context
  PROVE  Neighbors(g, ctx) \in Seq(Vertex) /\ Neighbors(g, ctx) \in Seq(MaybeVertex)
<1>1. ctx.active \in MaybeVertex
  BY ContextIs
<1>2. Neighbors(g, ctx) \in Seq(Vertex)
  BY <1>1 DEF Neighbors, Data, MaybeVertex
<1>3. Vertex \subseteq MaybeVertex
  BY DEF MaybeVertex
<1> QED BY <1>2, <1>3, SeqMonotonic

\* What a context that leaves a recursion is unpacked to.
LEMMA UnpackedType ==
  ASSUME NEW ctx \in Context, CanUnsuspend(ctx), Unsuspendable(ctx.piggyback)
  PROVE  /\ UnpackPiggyback(ctx) \in Seq(Context) /\ Unsuspendable(UnpackPiggyback(ctx))
         /\ Unsuspended(UnpackPiggyback(ctx)) = Unsuspended(ctx.piggyback) \o <<EnsureUnsuspended(Bare(ctx))>>
         /\ Unsuspended(UnpackPiggyback(ctx)) \in Seq(Context)
<1>1. ctx.piggyback \in Seq(Context)
  BY ContextIs, RiderIsContext, SeqMonotonic
<1>2. Bare(ctx) \in Context /\ CanUnsuspend(Bare(ctx)) /\ UnpackPiggyback(ctx) = Append(ctx.piggyback, Bare(ctx))
  BY BareType DEF CanUnsuspend
<1> QED BY <1>1, <1>2, UnsuspendedAppend, AppendProperties

\* The kinds of stages.
LEMMA StageFields ==
  ASSUME NEW op \in Stage
  PROVE  /\ op.op \in {"record", "activate", "check", "neighbors", "recurse", "coerce", "unpack"}
         /\ op.op \in {"record", "activate"} => op.vid \in Vid
<1>1. CASE op \in [op : {"record"}, vid : Vid]
  BY <1>1
<1>2. CASE op \in [op : {"activate"}, vid : Vid, recursing : BOOLEAN]
  BY <1>2
<1>3. CASE op \in [op : {"check"}, accepts : SUBSET MaybeVertex]
  BY <1>3
<1>4. CASE op \in [op : {"neighbors"}, optional : BOOLEAN]
  BY <1>4
<1>5. CASE op \in [op : {"recurse"}]
  BY <1>5
<1>6. CASE op \in [op : {"coerce"}, to : SUBSET Vertex]
  BY <1>6
<1>7. CASE op \in [op : {"unpack"}]
  BY <1>7
<1> QED BY <1>1, <1>2, <1>3, <1>4, <1>5, <1>6, <1>7 DEF Stage

\* record_vertex() changes one entry.
LEMMA RecordType ==
  ASSUME NEW ctx \in Context, NEW vid \in Vid
  PROVE  /\ RecordVertex(ctx, vid) \in Context
         /\ RecordVertex(ctx, vid) = Ctx(ctx.active, With(ctx.vertices, vid, ctx.active), ctx.suspended, ctx.piggyback)
<1>1. ctx.vertices \in Recorded /\ ctx.active \in MaybeVertex
  BY ContextIs
<1>2. With(ctx.vertices, vid, ctx.active) \in Recorded
  BY <1>1 DEF Recorded, With
<1> QED BY <1>1, <1>2, ContextIs, CtxIsContext, Operations

\* activate_vertex() takes the recorded vertex.
LEMMA ActivateType ==
  ASSUME NEW ctx \in Context, NEW vid \in Vid, IsVisited(ctx, vid)
  PROVE  /\ ActivateVertex(ctx, vid) \in Context
         /\ ActivateVertex(ctx, vid) = Ctx(ctx.vertices[vid], ctx.vertices, ctx.suspended, ctx.piggyback)
         /\ ctx.vertices[vid] \in MaybeVertex
<1>1. ctx.vertices \in Recorded
  BY ContextIs
<1>2. ctx.vertices[vid] \in MaybeVertex
  BY <1>1 DEF Recorded, IsVisited
<1> QED BY <1>2, ContextIs, CtxIsContext, Operations

\* Marking a recursion from a missing vertex keeps everything but the stack.
LEMMA MarkedType ==
  ASSUME NEW ctx \in Context, NEW recursing
  PROVE  /\ Marked(ctx, recursing) \in Context
         /\ Marked(ctx, recursing).active = ctx.active
         /\ Marked(ctx, recursing).vertices = ctx.vertices
         /\ Marked(ctx, recursing).piggyback = ctx.piggyback
<1>1. CASE recursing /\ ctx.active = None
  <2>1. PushSuspended(ctx, None) = Ctx(ctx.active, ctx.vertices, Append(ctx.suspended, None), ctx.piggyback)
    BY Operations
  <2>2. Append(ctx.suspended, None) \in Seq(MaybeVertex)
    BY ContextIs, AppendProperties DEF MaybeVertex
  <2>3. Ctx(ctx.active, ctx.vertices, Append(ctx.suspended, None), ctx.piggyback) \in Context
    BY <2>2, ContextIs, CtxIsContext
  <2>4. Marked(ctx, recursing) = PushSuspended(ctx, None)
    BY <1>1 DEF Marked
  <2> QED BY <2>1, <2>3, <2>4 DEF Ctx
<1>2. CASE ~ (recursing /\ ctx.active = None)
  BY <1>2 DEF Marked
<1> QED BY <1>1, <1>2

\* A stage makes contexts of a context it is prepared for.
LEMMA OutType ==
  ASSUME NEW op \in Stage, NEW g \in Data, NEW ctx \in Received(op)
  PROVE  Out(op, g, ctx) \in Seq(Context)
<1>1. ctx \in Context /\ Prepared(op, ctx)
  BY DEF Received
<1>2. CASE op.op = "record"
  <2>1. RecordVertex(ctx, op.vid) \in Context
    BY <1>1, <1>2, StageFields, RecordType
  <2> QED BY <1>2, <2>1 DEF Out
<1>3. CASE op.op = "activate"
  <2>1. op.vid \in Vid /\ IsVisited(ctx, op.vid)
    BY <1>1, <1>3, StageFields DEF Prepared
  <2>2. IsVisited(Marked(ctx, op.recursing), op.vid)
    BY <1>1, <2>1, MarkedType DEF IsVisited
  <2>3. ActivateVertex(Marked(ctx, op.recursing), op.vid) \in Context
    BY <1>1, <2>1, <2>2, MarkedType, ActivateType
  <2>4. Out(op, g, ctx) = <<ActivateVertex(Marked(ctx, op.recursing), op.vid)>>
    BY <1>3 DEF Out
  <2> QED BY <2>3, <2>4
<1>4. CASE op.op = "check"
  BY <1>1, <1>4 DEF Out
<1>5. CASE op.op = "coerce"
  BY <1>1, <1>5, SuspendType DEF Out
<1>6. CASE op.op = "neighbors"
  BY <1>1, <1>6, NeighborsType, AlongEdgeType DEF Out
<1>7. CASE op.op = "recurse"
  BY <1>1, <1>7, NeighborsType, OneLevelType DEF Out
<1>8. CASE op.op = "unpack"
  <2>1. CanUnsuspend(ctx) /\ Unsuspendable(ctx.piggyback)
    BY <1>1, <1>8 DEF Prepared
  <2> QED BY <1>1, <1>8, <2>1, UnpackedType DEF Out
<1> QED BY <1>2, <1>3, <1>4, <1>5, <1>6, <1>7, <1>8, StageFields

\* What a stage makes of a sequence of contexts, from each of them in turn.
Outs(op, g, s) == [k \in 1..Len(s) |-> Out(op, g, s[k])]
Each(op, g, s) == FlattenSeq(Outs(op, g, s))

\* What a stage makes of contexts, one sequence for each.
LEMMA OutsType ==
  ASSUME NEW op \in Stage, NEW g \in Data, NEW s \in Seq(Received(op))
  PROVE  /\ Outs(op, g, s) \in Seq(Seq(Context)) /\ Len(Outs(op, g, s)) = Len(s)
         /\ \A k \in 1..Len(s) : Outs(op, g, s)[k] = Out(op, g, s[k])
<1>1. Len(s) \in Nat /\ \A k \in 1..Len(s) : Out(op, g, s[k]) \in Seq(Context)
  BY OutType, ElementOfSeq
<1> QED BY <1>1 DEF Outs

\* What a stage makes of contexts, one after another.
LEMMA EachType ==
  ASSUME NEW op \in Stage, NEW g \in Data, NEW s \in Seq(Received(op))
  PROVE  Each(op, g, s) \in Seq(Context)
BY OutsType, FlattenType DEF Each

\* A stage makes nothing of nothing.
LEMMA EachNone ==
  ASSUME NEW op, NEW g
  PROVE  Each(op, g, << >>) = << >>
<1>1. Outs(op, g, << >>) = << >>
  BY DEF Outs
<1> QED BY <1>1, FlattenEmpty DEF Each

\* What a stage makes of one context.
LEMMA EachOne ==
  ASSUME NEW op \in Stage, NEW g \in Data, NEW ctx \in Received(op)
  PROVE  Each(op, g, <<ctx>>) = Out(op, g, ctx)
<1>1. Outs(op, g, <<ctx>>) = <<Out(op, g, ctx)>>
  BY DEF Outs
<1>2. Out(op, g, ctx) \in Seq(Context)
  BY OutType
<1> QED BY <1>1, <1>2, FlattenSingleton DEF Each

\* A stage has no memory: it deals with contexts one by one.
LEMMA EachConcat ==
  ASSUME NEW op \in Stage, NEW g \in Data, NEW s \in Seq(Received(op)), NEW t \in Seq(Received(op))
  PROVE  Each(op, g, s \o t) = Each(op, g, s) \o Each(op, g, t)
<1> DEFINE u == s \o t
           a == Outs(op, g, u)
           b == Outs(op, g, s)
           c == Outs(op, g, t)
<1>1. u \in Seq(Received(op)) /\ Joins(u, s, t)
  BY ConcatJoins
<1> HIDE DEF u
<1>2. /\ a \in Seq(Seq(Context)) /\ Len(a) = Len(u) /\ \A k \in 1..Len(u) : a[k] = Out(op, g, u[k])
      /\ b \in Seq(Seq(Context)) /\ Len(b) = Len(s) /\ \A k \in 1..Len(s) : b[k] = Out(op, g, s[k])
      /\ c \in Seq(Seq(Context)) /\ Len(c) = Len(t) /\ \A k \in 1..Len(t) : c[k] = Out(op, g, t[k])
  BY <1>1, OutsType
<1> HIDE DEF a, b, c
<1>3. Joins(a, b, c)
  <2>1. \A k \in 1..Len(s) : k \in 1..Len(u)
    BY <1>1 DEF Joins
  <2>2. \A k \in 1..Len(t) : Len(s) + k \in 1..Len(u)
    BY <1>1 DEF Joins
  <2>3. Len(a) = Len(b) + Len(c)
    BY <1>1, <1>2 DEF Joins
  <2>4. ASSUME NEW k \in 1..Len(b) PROVE a[k] = b[k]
    <3>1. k \in 1..Len(s) /\ k \in 1..Len(u) /\ u[k] = s[k]
      BY <1>1, <1>2, <2>1 DEF Joins
    <3> QED BY <1>2, <3>1
  <2>5. ASSUME NEW k \in 1..Len(c) PROVE a[Len(b) + k] = c[k]
    <3>1. k \in 1..Len(t) /\ Len(s) + k \in 1..Len(u) /\ u[Len(s) + k] = t[k]
      BY <1>1, <1>2, <2>2 DEF Joins
    <3> QED BY <1>2, <3>1
  <2> QED BY <2>3, <2>4, <2>5 DEF Joins
<1>4. a = b \o c
  BY <1>2, <1>3, ConcatIs
<1>5. FlattenSeq(a) = FlattenSeq(b) \o FlattenSeq(c)
  BY <1>2, <1>4, FlattenConcat
<1> QED BY <1>5 DEF Each, a, b, c, u

-----------------------------------------------------------------------------
(* Blocks of stages.                                                       *)

\* T[k] is what passes between stage k of a block and the one after it.
IsRun(T, ops, g) ==
  /\ T \in [0..Len(ops) -> Seq(Context)]
  /\ \A k \in 1..Len(ops) : /\ T[k - 1] \in Seq(Received(ops[k]))
                            /\ T[k] = Each(ops[k], g, T[k - 1])

\* The stages make t of s, and every one of them gets what it counts on.
RunsTo(ops, g, s, t) == \E T : IsRun(T, ops, g) /\ T[0] = s /\ T[Len(ops)] = t

\* A stage as a block of one.
LEMMA RunsOneStage ==
  ASSUME NEW op \in Stage, NEW g \in Data, NEW s \in Seq(Received(op))
  PROVE  RunsTo(<<op>>, g, s, Each(op, g, s))
<1> DEFINE ops == <<op>>
           T == [k \in 0..1 |-> IF k = 0 THEN s ELSE Each(op, g, s)]
<1>1. Len(ops) = 1 /\ ops[1] = op
  OBVIOUS
<1>2. s \in Seq(Context) /\ Each(op, g, s) \in Seq(Context)
  <2>1. Received(op) \subseteq Context
    BY DEF Received
  <2> QED BY <2>1, SeqMonotonic, EachType
<1>3. T \in [0..1 -> Seq(Context)] /\ T[0] = s /\ T[1] = Each(op, g, s)
  BY <1>2
<1> HIDE DEF T, ops
<1>4. IsRun(T, ops, g)
  <2> SUFFICES ASSUME NEW k \in 1..1 PROVE T[k - 1] \in Seq(Received(ops[k])) /\ T[k] = Each(ops[k], g, T[k - 1])
    BY <1>1, <1>3 DEF IsRun
  <2>1. k = 1 /\ k - 1 = 0
    OBVIOUS
  <2> QED BY <2>1, <1>1, <1>3
<1> QED BY <1>1, <1>3, <1>4 DEF RunsTo, ops

\* A block and then another.
LEMMA RunsThen ==
  ASSUME NEW a \in Seq(Stage), NEW b \in Seq(Stage), NEW g, NEW s, NEW t, NEW u,
         RunsTo(a, g, s, t), RunsTo(b, g, t, u)
  PROVE  RunsTo(a \o b, g, s, u)
<1> DEFINE m == Len(a)
           n == Len(b)
           ops == a \o b
<1>1. ops \in Seq(Stage) /\ Joins(ops, a, b) /\ m \in Nat /\ n \in Nat
  BY ConcatJoins
<1>2. PICK A : IsRun(A, a, g) /\ A[0] = s /\ A[m] = t
  BY DEF RunsTo
<1>3. PICK B : IsRun(B, b, g) /\ B[0] = t /\ B[n] = u
  BY DEF RunsTo
<1> HIDE DEF ops
<1>4. /\ Len(ops) = m + n
      /\ \A k \in 1..m : ops[k] = a[k]
      /\ \A k \in 1..n : ops[m + k] = b[k]
  BY <1>1 DEF Joins
<1>5. /\ A \in [0..m -> Seq(Context)]
      /\ \A k \in 1..m : A[k - 1] \in Seq(Received(a[k])) /\ A[k] = Each(a[k], g, A[k - 1])
  BY <1>2 DEF IsRun
<1>6. /\ B \in [0..n -> Seq(Context)]
      /\ \A k \in 1..n : B[k - 1] \in Seq(Received(b[k])) /\ B[k] = Each(b[k], g, B[k - 1])
  BY <1>3 DEF IsRun
<1> DEFINE T == [k \in 0..m + n |-> IF k <= m THEN A[k] ELSE B[k - m]]
<1>7. /\ \A k \in 0..m : T[k] = A[k]
      /\ \A k \in 0..n : T[m + k] = B[k]
  <2>1. ASSUME NEW k \in 0..m PROVE T[k] = A[k]
    BY <1>1
  <2>2. ASSUME NEW k \in 0..n PROVE T[m + k] = B[k]
    <3>0. m + k \in 0..m + n /\ (m + k) - m = k
      BY <1>1
    <3>1. CASE k = 0
      <4>1. m + k = m /\ m \in 0..m
        BY <1>1, <3>1
      <4>2. T[m] = A[m]
        BY <4>1, <2>1
      <4> HIDE DEF T
      <4> QED BY <4>1, <4>2, <3>1, <1>2, <1>3
    <3>2. CASE k # 0
      <4>1. ~ (m + k <= m)
        BY <1>1, <3>2
      <4> QED BY <3>0, <4>1
    <3> QED BY <3>1, <3>2
  <2> QED BY <2>1, <2>2
<1>8. T \in [0..m + n -> Seq(Context)]
  <2>1. ASSUME NEW k \in 0..m + n PROVE (IF k <= m THEN A[k] ELSE B[k - m]) \in Seq(Context)
    <3>1. CASE k <= m
      <4>1. k \in 0..m
        BY <1>1, <3>1
      <4> QED BY <4>1, <3>1, <1>5
    <3>2. CASE ~ (k <= m)
      <4>1. k - m \in 0..n
        BY <1>1, <3>2
      <4> QED BY <4>1, <3>2, <1>6
    <3> QED BY <3>1, <3>2
  <2> QED BY <2>1
<1> HIDE DEF T
<1>9. ASSUME NEW k \in 1..m + n
      PROVE  T[k - 1] \in Seq(Received(ops[k])) /\ T[k] = Each(ops[k], g, T[k - 1])
  <2>1. CASE k <= m
    <3>1. k \in 1..m /\ k \in 0..m /\ k - 1 \in 0..m
      BY <1>1, <2>1
    <3> QED BY <3>1, <1>4, <1>5, <1>7
  <2>2. CASE ~ (k <= m)
    <3> DEFINE j == k - m
    <3>1. j \in 1..n /\ j \in 0..n /\ j - 1 \in 0..n /\ m + j = k /\ m + (j - 1) = k - 1
      BY <1>1, <2>2
    <3> HIDE DEF j
    <3>2. T[k] = B[j] /\ T[k - 1] = B[j - 1] /\ ops[k] = b[j]
      BY <3>1, <1>4, <1>7
    <3> QED BY <3>1, <3>2, <1>6
  <2> QED BY <2>1, <2>2
<1>10. IsRun(T, ops, g)
  BY <1>4, <1>8, <1>9 DEF IsRun
<1>11. T[0] = s /\ T[Len(ops)] = u
  <2>1. 0 \in 0..m /\ n \in 0..n
    BY <1>1
  <2> QED BY <2>1, <1>2, <1>3, <1>4, <1>7
<1>12. RunsTo(ops, g, s, u)
  BY <1>10, <1>11 DEF RunsTo
<1> QED BY <1>12 DEF ops

\* Stages make nothing of nothing.
LEMMA RunsNothing ==
  ASSUME NEW ops \in Seq(Stage), NEW g
  PROVE  RunsTo(ops, g, << >>, << >>)
<1> DEFINE T == [k \in 0..Len(ops) |-> << >>]
<1>1. T \in [0..Len(ops) -> Seq(Context)] /\ \A k \in 0..Len(ops) : T[k] = << >>
  OBVIOUS
<1>2. 0 \in 0..Len(ops) /\ Len(ops) \in 0..Len(ops) /\ \A k \in 1..Len(ops) : k \in 0..Len(ops) /\ k - 1 \in 0..Len(ops)
  OBVIOUS
<1> HIDE DEF T
<1>3. \A S : << >> \in Seq(S)
  OBVIOUS
<1>4. IsRun(T, ops, g)
  BY <1>1, <1>2, <1>3, EachNone DEF IsRun
<1> QED BY <1>1, <1>2, <1>4 DEF RunsTo

\* What they make of two sequences is what they make of the one and then of
\* the other.
LEMMA RunsJoined ==
  ASSUME NEW ops \in Seq(Stage), NEW g \in Data, NEW s, NEW t, NEW x, NEW y,
         RunsTo(ops, g, s, x), RunsTo(ops, g, t, y)
  PROVE  RunsTo(ops, g, s \o t, x \o y)
<1> DEFINE n == Len(ops)
<1>1. PICK A : IsRun(A, ops, g) /\ A[0] = s /\ A[n] = x
  BY DEF RunsTo
<1>2. PICK B : IsRun(B, ops, g) /\ B[0] = t /\ B[n] = y
  BY DEF RunsTo
<1>3. /\ A \in [0..n -> Seq(Context)]
      /\ \A k \in 1..n : A[k - 1] \in Seq(Received(ops[k])) /\ A[k] = Each(ops[k], g, A[k - 1])
      /\ B \in [0..n -> Seq(Context)]
      /\ \A k \in 1..n : B[k - 1] \in Seq(Received(ops[k])) /\ B[k] = Each(ops[k], g, B[k - 1])
  BY <1>1, <1>2 DEF IsRun
<1> DEFINE T == [k \in 0..n |-> A[k] \o B[k]]
<1>4. T \in [0..n -> Seq(Context)]
  <2>1. ASSUME NEW k \in 0..n PROVE A[k] \o B[k] \in Seq(Context)
    <3>1. A[k] \in Seq(Context) /\ B[k] \in Seq(Context)
      BY <1>3
    <3> QED BY <3>1, ConcatProperties
  <2> QED BY <2>1
<1>5. \A k \in 0..n : T[k] = A[k] \o B[k]
  OBVIOUS
<1> HIDE DEF T
<1>6. ASSUME NEW k \in 1..n
      PROVE  T[k - 1] \in Seq(Received(ops[k])) /\ T[k] = Each(ops[k], g, T[k - 1])
  <2>1. k \in 0..n /\ k - 1 \in 0..n /\ ops[k] \in Stage
    BY ElementOfSeq
  <2>2. T[k] = A[k] \o B[k] /\ T[k - 1] = A[k - 1] \o B[k - 1]
    BY <1>5, <2>1
  <2> DEFINE a == A[k - 1]
             b == B[k - 1]
             op == ops[k]
  <2>3. a \in Seq(Received(op)) /\ b \in Seq(Received(op)) /\ A[k] = Each(op, g, a) /\ B[k] = Each(op, g, b) /\ op \in Stage
    BY <1>3, <2>1
  <2>4. T[k] = Each(op, g, a) \o Each(op, g, b) /\ T[k - 1] = a \o b
    BY <2>2, <2>3
  <2> HIDE DEF a, b, op
  <2>5. a \o b \in Seq(Received(op)) /\ Each(op, g, a \o b) = Each(op, g, a) \o Each(op, g, b)
    BY <2>3, EachConcat, ConcatProperties
  <2>6. T[k - 1] \in Seq(Received(op)) /\ T[k] = Each(op, g, T[k - 1])
    BY <2>4, <2>5
  <2> QED BY <2>6 DEF op
<1>7. IsRun(T, ops, g)
  BY <1>4, <1>6 DEF IsRun
<1>8. T[0] = s \o t /\ T[n] = x \o y
  <2>1. 0 \in 0..n /\ n \in 0..n
    OBVIOUS
  <2> QED BY <2>1, <1>1, <1>2, <1>5
<1> QED BY <1>7, <1>8 DEF RunsTo

\* A block of stages has no memory either.
LEMMA RunsEach ==
  ASSUME NEW ops \in Seq(Stage), NEW g \in Data, NEW s \in Seq(Context), NEW f \in Seq(Seq(Context)),
         Len(f) = Len(s), \A k \in 1..Len(s) : RunsTo(ops, g, <<s[k]>>, f[k])
  PROVE  RunsTo(ops, g, s, FlattenSeq(f))
<1> DEFINE n == Len(s)
           P(k) == RunsTo(ops, g, SubSeq(s, 1, k), FlattenSeq(SubSeq(f, 1, k)))
           N == {k \in 0..n : P(k)}
<1>0. n \in Nat
  OBVIOUS
<1>1. 0 \in N
  <2>1. SubSeq(s, 1, 0) = << >> /\ SubSeq(f, 1, 0) = << >>
    BY PrefixStep
  <2>2. P(0)
    BY <2>1, FlattenEmpty, RunsNothing
  <2> QED BY <1>0, <2>2
<1>2. ASSUME NEW k \in N, k \in 0..n - 1 PROVE k + 1 \in N
  <2> DEFINE a == SubSeq(s, 1, k)
             b == SubSeq(f, 1, k)
             c == s[k + 1]
             d == f[k + 1]
  <2>1. RunsTo(ops, g, a, FlattenSeq(b)) /\ k + 1 \in 1..n /\ k \in 0..n
    BY <1>0, <1>2
  <2>2. /\ a \in Seq(Context) /\ SubSeq(s, 1, k + 1) = Append(a, c) /\ c \in Context
        /\ b \in Seq(Seq(Context)) /\ SubSeq(f, 1, k + 1) = Append(b, d) /\ d \in Seq(Context)
    BY <2>1, <1>2, PrefixStep, ElementOfSeq
  <2>3. RunsTo(ops, g, <<c>>, d)
    BY <2>1
  <2> HIDE DEF N, a, b, c, d
  <2>4. RunsTo(ops, g, a \o <<c>>, FlattenSeq(b) \o d)
    BY <2>1, <2>3, RunsJoined
  <2>5. Append(a, c) = a \o <<c>> /\ FlattenSeq(Append(b, d)) = FlattenSeq(b) \o d
    BY <2>2, AppendIsConcat, FlattenAppend
  <2>6. P(k + 1)
    BY <2>2, <2>4, <2>5
  <2>7. k + 1 \in 0..n
    BY <1>0, <2>1
  <2> HIDE DEF P
  <2> QED BY <2>6, <2>7 DEF N
<1>3. n \in N
  <2> HIDE DEF N
  <2>1. 0..n \subseteq N
    BY <1>0, <1>1, <1>2, BoundedInduction
  <2> QED BY <1>0, <2>1
<1>4. SubSeq(s, 1, n) = s /\ SubSeq(f, 1, n) = f
  BY PrefixStep
<1> QED BY <1>3, <1>4

-----------------------------------------------------------------------------
(* Recursion.                                                              *)

Deeper(to, v) == to = None \/ v \in to

\* The ends of the walks through a neighbor, which ends gives.
Onward(to, ends, n) == IF Deeper(to, n) THEN ends[n] ELSE <<n>>

\* Where the walks from v lead that go on from its neighbors as ends says.
WalksFrom(g, to, ends, v) ==
  <<v>> \o FlattenSeq([i \in DOMAIN g[v] |-> Onward(to, ends, g[v][i])])

IsEnds(E, g, to, depth) ==
  E = [d \in 0..depth |-> [v \in Vertex |-> IF d = 0 THEN <<v>> ELSE WalksFrom(g, to, E[d - 1], v)]]

\* The operator that the module of the rows takes from the library is the same.
LEMMA SameFlatten == ASSUME NEW s PROVE Semantics!FlattenSeq(s) = FlattenSeq(s)
BY DEF FlattenSeq, Semantics!FlattenSeq

\* Walks(), by what its recursive function satisfies.
LEMMA WalksAre ==
  ASSUME NEW g, NEW to, NEW depth
  PROVE  Semantics!Walks(g, to, depth) = (CHOOSE E : IsEnds(E, g, to, depth))[depth]
BY SameFlatten DEF Semantics!Walks, Semantics!MapFlat, IsEnds, WalksFrom, Onward, Deeper

\* E[d] gives the ends of the walks of at most d edges.
AreEnds(E, g, to, depth) ==
  /\ \A d \in 0..depth : E[d] \in Data
  /\ \A v \in Vertex : E[0][v] = <<v>>
  /\ \A d \in 1..depth : \A v \in Vertex : E[d][v] = WalksFrom(g, to, E[d - 1], v)

\* Where a walk that has reached a vertex may end.
LEMMA OnwardType ==
  ASSUME NEW to, NEW ends \in Data, NEW n \in Vertex
  PROVE  Onward(to, ends, n) \in Seq(Vertex)
BY DEF Onward, Data

\* Where the walks from a vertex may end.
LEMMA WalksFromType ==
  ASSUME NEW g \in Data, NEW to, NEW ends \in Data, NEW v \in Vertex
  PROVE  /\ WalksFrom(g, to, ends, v) \in Seq(Vertex)
         /\ [i \in 1..Len(g[v]) |-> Onward(to, ends, g[v][i])] \in Seq(Seq(Vertex))
         /\ WalksFrom(g, to, ends, v) =
              <<v>> \o FlattenSeq([i \in 1..Len(g[v]) |-> Onward(to, ends, g[v][i])])
<1> DEFINE s == g[v]
           f == [i \in 1..Len(s) |-> Onward(to, ends, s[i])]
<1>1. s \in Seq(Vertex)
  BY DEF Data
<1>2. DOMAIN s = 1..Len(s) /\ WalksFrom(g, to, ends, v) = <<v>> \o FlattenSeq(f)
  <2>1. DOMAIN s = 1..Len(s)
    BY <1>1
  <2>2. WalksFrom(g, to, ends, v) = <<v>> \o FlattenSeq([i \in DOMAIN s |-> Onward(to, ends, s[i])])
    BY DEF WalksFrom
  <2>3. [i \in DOMAIN s |-> Onward(to, ends, s[i])] = f
    <3> HIDE DEF s
    <3> QED BY <2>1
  <2> HIDE DEF s
  <2> QED BY <2>1, <2>2, <2>3
<1> HIDE DEF s
<1>3. \A i \in 1..Len(s) : Onward(to, ends, s[i]) \in Seq(Vertex)
  <2>1. \A i \in 1..Len(s) : s[i] \in Vertex
    BY <1>1, ElementOfSeq
  <2> QED BY <2>1, OnwardType
<1>4. f \in Seq(Seq(Vertex))
  BY <1>1, <1>3
<1> HIDE DEF f
<1>5. FlattenSeq(f) \in Seq(Vertex)
  BY <1>4, FlattenType
<1>6. WalksFrom(g, to, ends, v) \in Seq(Vertex)
  BY <1>2, <1>5, ConcatProperties
<1> QED BY <1>2, <1>4, <1>6 DEF s, f

\* There is a function that unfolds as the walks do.
LEMMA EndsExist ==
  ASSUME NEW g \in Data, NEW to, NEW depth \in Nat
  PROVE  \E E : IsEnds(E, g, to, depth)
<1> DEFINE base == [v \in Vertex |-> <<v>>]
           next(ends) == [v \in Vertex |-> WalksFrom(g, to, ends, v)]
           Steps == [k \in 1..depth |-> [ends \in Data |-> next(ends)]]
<1>1. base \in Data
  BY DEF Data
<1>2. \A ends \in Data : next(ends) \in Data
  BY WalksFromType DEF Data
<1>3. AreSteps(Steps, depth, Data)
  <2> HIDE DEF next
  <2> QED BY <1>2 DEF AreSteps
<1> HIDE DEF base
<1>4. PICK E : IsRecursion(E, depth, Data, base, Steps)
  <2> HIDE DEF Steps
  <2> QED BY <1>1, <1>3, RecursionExists
<1>5. E \in [0..depth -> Data] /\ E[0] = base /\ \A k \in 1..depth : E[k] = Steps[k][E[k - 1]]
  BY <1>4 DEF IsRecursion
<1> DEFINE F == [d \in 0..depth |-> [v \in Vertex |-> IF d = 0 THEN <<v>> ELSE WalksFrom(g, to, E[d - 1], v)]]
<1>6. \A d \in 0..depth : E[d] = [v \in Vertex |-> IF d = 0 THEN <<v>> ELSE WalksFrom(g, to, E[d - 1], v)]
  <2> SUFFICES ASSUME NEW d \in 0..depth
               PROVE  E[d] = [v \in Vertex |-> IF d = 0 THEN <<v>> ELSE WalksFrom(g, to, E[d - 1], v)]
    OBVIOUS
  <2>1. CASE d = 0
    BY <2>1, <1>5 DEF base
  <2>2. CASE d # 0
    <3>1. d \in 1..depth /\ d - 1 \in 0..depth
      BY <2>2
    <3>2. E[d - 1] \in Data
      BY <3>1, <1>5
    <3>3. Steps[d] = [ends \in Data |-> next(ends)]
      <4> HIDE DEF next
      <4> QED BY <3>1
    <3>4. Steps[d][E[d - 1]] = next(E[d - 1])
      <4> HIDE DEF next, Steps
      <4> QED BY <3>2, <3>3
    <3>5. E[d] = next(E[d - 1])
      <4> HIDE DEF next, Steps
      <4> QED BY <3>1, <3>4, <1>5
    <3> QED BY <3>5, <2>2
  <2> QED BY <2>1, <2>2
<1>7. E = F
  <2> HIDE DEF Steps
  <2> QED BY <1>5, <1>6
<1> QED BY <1>7 DEF IsEnds

\* It has the values of the walks at every depth.
LEMMA EndsAre ==
  ASSUME NEW g \in Data, NEW to, NEW depth \in Nat, NEW E, IsEnds(E, g, to, depth)
  PROVE  AreEnds(E, g, to, depth)
<1> DEFINE F(d) == [v \in Vertex |-> IF d = 0 THEN <<v>> ELSE WalksFrom(g, to, E[d - 1], v)]
           all == [d \in 0..depth |-> F(d)]
<1>0. E = all
  BY DEF IsEnds
<1>1. \A d \in 0..depth : E[d] = F(d)
  <2>1. \A d \in 0..depth : all[d] = F(d)
    <3> HIDE DEF F
    <3> QED OBVIOUS
  <2> HIDE DEF all, F
  <2> QED BY <1>0, <2>1
<1>2. \A v \in Vertex : E[0][v] = <<v>>
  <2>1. E[0] = F(0)
    <3> HIDE DEF all, F
    <3> QED BY <1>1
  <2> HIDE DEF all
  <2> QED BY <2>1
<1>3. \A d \in 1..depth : \A v \in Vertex : E[d][v] = WalksFrom(g, to, E[d - 1], v)
  <2> SUFFICES ASSUME NEW d \in 1..depth, NEW v \in Vertex
               PROVE  E[d][v] = WalksFrom(g, to, E[d - 1], v)
    OBVIOUS
  <2>1. E[d] = F(d)
    <3> HIDE DEF all, F
    <3> QED BY <1>1
  <2>2. F(d)[v] = WalksFrom(g, to, E[d - 1], v)
    OBVIOUS
  <2> HIDE DEF all, F
  <2> QED BY <2>1, <2>2
<1> DEFINE N == {d \in 0..depth : E[d] \in Data}
<1>4. 0 \in N
  <2>1. F(0) \in Data
    BY DEF Data
  <2>2. E[0] \in Data
    <3> HIDE DEF all, F
    <3> QED BY <1>1, <2>1
  <2> QED BY <2>2
<1>5. \A d \in N : d \in 0..depth - 1 => d + 1 \in N
  <2> SUFFICES ASSUME NEW d \in 0..depth - 1, E[d] \in Data
               PROVE  d + 1 \in N
    OBVIOUS
  <2>1. d + 1 \in 0..depth /\ d + 1 # 0 /\ (d + 1) - 1 = d
    OBVIOUS
  <2>2. E[d + 1] = [v \in Vertex |-> WalksFrom(g, to, E[d], v)]
    <3>1. E[d + 1] = F(d + 1)
      <4> HIDE DEF all, F
      <4> QED BY <1>1, <2>1
    <3>2. F(d + 1) = [v \in Vertex |-> WalksFrom(g, to, E[d], v)]
      BY <2>1
    <3> HIDE DEF all, F
    <3> QED BY <3>1, <3>2
  <2>3. E[d + 1] \in Data
    <3> DEFINE e == E[d]
    <3>1. e \in Data
      OBVIOUS
    <3> HIDE DEF e, F, all, N
    <3>2. \A v \in Vertex : WalksFrom(g, to, e, v) \in Seq(Vertex)
      BY <3>1, WalksFromType
    <3>3. [v \in Vertex |-> WalksFrom(g, to, e, v)] \in Data
      BY <3>2 DEF Data
    <3> QED BY <2>2, <3>3 DEF e
  <2> QED BY <2>1, <2>3
<1>6. 0..depth \subseteq N
  <2> HIDE DEF N
  <2> QED BY <1>4, <1>5, BoundedInduction
<1> QED BY <1>2, <1>3, <1>6 DEF AreEnds

\* Walks() is what the recursion by depth says.
LEMMA WalksEnd ==
  ASSUME NEW g \in Data, NEW to, NEW depth \in Nat
  PROVE  \E E : AreEnds(E, g, to, depth) /\ Semantics!Walks(g, to, depth) = E[depth]
<1>1. IsEnds(CHOOSE E : IsEnds(E, g, to, depth), g, to, depth)
  BY EndsExist
<1> QED BY <1>1, EndsAre, WalksAre

Recurser == [op |-> "recurse"]
Unpacker == [op |-> "unpack"]
Coercer(to) == [op |-> "coerce", to |-> to]

\* The stages of a recursion.
LEMMA OpTypes ==
  /\ Recurser \in Stage /\ Recurser.op = "recurse"
  /\ Unpacker \in Stage /\ Unpacker.op = "unpack"
  /\ \A to \in SUBSET Vertex :
       Coercer(to) \in Stage /\ Coercer(to).op = "coerce" /\ Coercer(to).to = to
BY DEF Recurser, Unpacker, Coercer, Stage

\* A stage as a block, on one context.
LEMMA RunsOp ==
  ASSUME NEW op \in Stage, NEW g \in Data, NEW ctx \in Received(op)
  PROVE  RunsTo(<<op>>, g, <<ctx>>, Out(op, g, ctx))
<1>1. <<ctx>> \in Seq(Received(op))
  OBVIOUS
<1> QED BY <1>1, RunsOneStage, EachOne

\* What the stages from some level of a recursion on do: the riders and the
\* context itself come out, the context at the ends of the walks from its
\* vertex, or with the vertex it was suspended with.
Leaves(g, ops, ctx, out) ==
  RunsTo(ops, g, <<ctx>>, Unsuspended(ctx.piggyback) \o out)

GoesOn(ops, g, X) ==
  /\ \A ctx \in Context :
       ctx.active # None /\ Unsuspendable(ctx.piggyback) =>
         Leaves(g, ops, ctx, Moved(ctx, X[ctx.active]))
  /\ \A ctx \in Context :
       ctx.active = None /\ CanUnsuspend(ctx) /\ Unsuspendable(ctx.piggyback) =>
         Leaves(g, ops, ctx, <<EnsureUnsuspended(Bare(ctx))>>)

\* A context is where it was before it was suspended.
LEMMA BareMoves ==
  ASSUME NEW ctx \in Context
  PROVE  /\ Moved(ctx, <<ctx.active>>) = <<Bare(ctx)>>
         /\ ctx.active # None => EnsureUnsuspended(Bare(ctx)) = Bare(ctx)
         /\ ctx.active # None => EnsureUnsuspended(Bare(EnsureSuspended(ctx))) = Bare(ctx)
<1>1. SplitAndMoveToVertex(ctx, ctx.active) = Bare(ctx)
  BY Operations DEF Bare
<1>2. Moved(ctx, <<ctx.active>>) = <<Bare(ctx)>>
  <2> DEFINE v == ctx.active
  <2>1. Moved(ctx, <<v>>) = <<SplitAndMoveToVertex(ctx, v)>>
    <3> HIDE DEF v
    <3> QED BY DEF Moved
  <2> QED BY <1>1, <2>1
<1>3. Bare(ctx) \in Context /\ Bare(ctx).active = ctx.active
  BY BareType
<1>4. ctx.active # None => EnsureUnsuspended(Bare(ctx)) = Bare(ctx)
  BY <1>3, Operations
<1>5. ASSUME ctx.active # None
      PROVE  Bare(EnsureSuspended(ctx)) = EnsureSuspended(Bare(ctx))
  <2> DEFINE d == EnsureSuspended(ctx)
             s == Append(ctx.suspended, ctx.active)
  <2>1. d.active = None /\ d.vertices = ctx.vertices /\ d.suspended = s
    BY <1>5, SuspendType
  <2>2. EnsureSuspended(Bare(ctx)) = Ctx(None, ctx.vertices, s, << >>)
    BY <1>3, <1>5, Operations, BareType
  <2> HIDE DEF d, s
  <2>3. Bare(d) = Ctx(None, ctx.vertices, s, << >>)
    BY <2>1 DEF Bare
  <2> QED BY <2>2, <2>3 DEF d
<1>6. ctx.active # None => EnsureUnsuspended(EnsureSuspended(Bare(ctx))) = Bare(ctx)
  BY <1>3, SuspendUnsuspend
<1> QED BY <1>2, <1>4, <1>5, <1>6

\* An active vertex that is not missing is a vertex.
LEMMA ActiveVertex ==
  ASSUME NEW ctx \in Context, ctx.active # None
  PROVE  ctx.active \in Vertex
BY ContextIs DEF MaybeVertex

\* At the end of a recursion every context comes out with its own vertex.
LEMMA UnpackGoesOn ==
  ASSUME NEW g \in Data
  PROVE  GoesOn(<<Unpacker>>, g, [v \in Vertex |-> <<v>>])
<1>1. ASSUME NEW ctx \in Context, CanUnsuspend(ctx), Unsuspendable(ctx.piggyback)
      PROVE  Leaves(g, <<Unpacker>>, ctx, <<EnsureUnsuspended(Bare(ctx))>>)
  <2>1. ctx \in Received(Unpacker)
    BY <1>1, OpTypes DEF Received, Prepared
  <2>2. Out(Unpacker, g, ctx) = Unsuspended(UnpackPiggyback(ctx))
    BY OpTypes DEF Out
  <2>3. RunsTo(<<Unpacker>>, g, <<ctx>>, Out(Unpacker, g, ctx))
    BY <2>1, OpTypes, RunsOp
  <2>4. Unsuspended(UnpackPiggyback(ctx)) = Unsuspended(ctx.piggyback) \o <<EnsureUnsuspended(Bare(ctx))>>
    BY <1>1, UnpackedType
  <2> QED BY <2>2, <2>3, <2>4 DEF Leaves
<1>2. ASSUME NEW ctx \in Context, ctx.active # None
      PROVE  /\ CanUnsuspend(ctx)
             /\ <<EnsureUnsuspended(Bare(ctx))>> = Moved(ctx, [v \in Vertex |-> <<v>>][ctx.active])
  <2>1. [v \in Vertex |-> <<v>>][ctx.active] = <<ctx.active>>
    BY <1>2, ActiveVertex
  <2> QED BY <1>2, <2>1, BareMoves DEF CanUnsuspend
<1> QED BY <1>1, <1>2 DEF GoesOn

\* Without neighbors a context goes through a level of the recursion as it is.
LEMMA RecurseNone ==
  ASSUME NEW g \in Data, NEW ctx \in Context, Neighbors(g, ctx) = << >>
  PROVE  RunsTo(<<Recurser>>, g, <<ctx>>, <<ctx>>)
<1>1. ctx \in Received(Recurser)
  BY OpTypes DEF Received, Prepared
<1>2. Out(Recurser, g, ctx) = <<ctx>>
  BY OpTypes DEF Out, OneLevel
<1> QED BY <1>1, <1>2, OpTypes, RunsOp

Mover(ctx) == [v \in MaybeVertex |-> SplitAndMoveToVertex(ctx, v)]

\* Moving a context, as a function of where it goes.
LEMMA MoverType ==
  ASSUME NEW ctx \in Context
  PROVE  /\ IsMap(Mover(ctx), MaybeVertex, Context)
         /\ \A s \in Seq(MaybeVertex) : Moved(ctx, s) = Image(Mover(ctx), s)
<1>1. IsMap(Mover(ctx), MaybeVertex, Context)
  BY MoveType DEF Mover, IsMap
<1>2. ASSUME NEW s \in Seq(MaybeVertex)
      PROVE  Moved(ctx, s) = Image(Mover(ctx), s)
  <2>1. \A k \in 1..Len(s) : Mover(ctx)[s[k]] = SplitAndMoveToVertex(ctx, s[k])
    BY ElementOfSeq DEF Mover
  <2> QED BY <2>1 DEF Moved, Image
<1> QED BY <1>1, <1>2

\* Moving a context commutes with flattening.
LEMMA MovedFlatten ==
  ASSUME NEW ctx \in Context, NEW ss \in Seq(Seq(Vertex))
  PROVE  LET moved == [k \in 1..Len(ss) |-> Moved(ctx, ss[k])]
         IN  /\ moved \in Seq(Seq(Context))
             /\ Moved(ctx, FlattenSeq(ss)) = FlattenSeq(moved)
<1> DEFINE moved == [k \in 1..Len(ss) |-> Moved(ctx, ss[k])]
           f == Mover(ctx)
           images == [k \in 1..Len(ss) |-> Image(f, ss[k])]
<1>1. ss \in Seq(Seq(MaybeVertex))
  BY DEF MaybeVertex
<1>2. FlattenSeq(ss) \in Seq(MaybeVertex)
  BY <1>1, FlattenType
<1>3. \A k \in 1..Len(ss) : Moved(ctx, ss[k]) = Image(f, ss[k])
  <2>1. \A k \in 1..Len(ss) : ss[k] \in Seq(MaybeVertex)
    BY <1>1, ElementOfSeq
  <2> QED BY <2>1, MoverType
<1>4. moved = images
  <2> HIDE DEF f
  <2> QED BY <1>3
<1>5. images \in Seq(Seq(Context)) /\ Image(f, FlattenSeq(ss)) = FlattenSeq(images)
  <2>1. IsMap(f, MaybeVertex, Context)
    BY MoverType
  <2> HIDE DEF f
  <2> QED BY <1>1, <2>1, ImageFlatten
<1>6. Moved(ctx, FlattenSeq(ss)) = Image(f, FlattenSeq(ss))
  BY <1>2, MoverType
<1> HIDE DEF moved, images
<1>7. moved \in Seq(Seq(Context)) /\ Moved(ctx, FlattenSeq(ss)) = FlattenSeq(moved)
  BY <1>4, <1>5, <1>6
<1> QED BY <1>7 DEF moved

\* Where a context moves depends on what it recorded and suspended only.
LEMMA SameMoves ==
  ASSUME NEW c \in Context, NEW d \in Context, c.vertices = d.vertices, c.suspended = d.suspended, NEW s
  PROVE  Moved(c, s) = Moved(d, s)
<1>1. \A v : SplitAndMoveToVertex(c, v) = SplitAndMoveToVertex(d, v)
  BY Operations
<1> QED BY <1>1 DEF Moved

\* The first neighbor and what rides on it come out one after the other.
LEMMA FirstCarries ==
  ASSUME NEW ctx \in Context, ctx.active # None, Unsuspendable(ctx.piggyback), NEW v \in Vertex
  PROVE  LET first == FirstReached(ctx, v)
         IN  /\ first \in Context /\ first.active = v
             /\ first.vertices = ctx.vertices /\ first.suspended = ctx.suspended
             /\ Unsuspendable(first.piggyback)
             /\ Unsuspended(first.piggyback) = Unsuspended(ctx.piggyback) \o <<Bare(ctx)>>
             /\ Unsuspended(ctx.piggyback) \in Seq(Context)
<1> DEFINE first == FirstReached(ctx, v)
           d == EnsureSuspended(ctx)
           p == ctx.piggyback
<1>0. v \in MaybeVertex
  BY DEF MaybeVertex
<1>1. first = Ctx(v, ctx.vertices, ctx.suspended, Append(p, Bare(d))) /\ first \in Context
  BY <1>0, FirstReachedType
<1> HIDE DEF first
<1>2. first.active = v /\ first.vertices = ctx.vertices /\ first.suspended = ctx.suspended
      /\ first.piggyback = Append(p, Bare(d))
  BY <1>1 DEF Ctx
<1>3. /\ d \in Context /\ d.suspended = Append(ctx.suspended, ctx.active)
  BY SuspendType
<1>4. CanUnsuspend(Bare(d)) /\ Bare(d) \in Context
  <2>1. Bare(d).suspended = d.suspended /\ Bare(d) \in Context
    BY <1>3, BareType
  <2>2. Append(ctx.suspended, ctx.active) # << >>
    BY ContextIs, AppendProperties
  <2> QED BY <1>3, <2>1, <2>2 DEF CanUnsuspend
<1>5. p \in Seq(Context)
  BY ContextIs, RiderIsContext, SeqMonotonic
<1>6. Unsuspendable(p)
  OBVIOUS
<1>7. EnsureUnsuspended(Bare(d)) = Bare(ctx)
  BY BareMoves
<1> HIDE DEF d, p
<1>8. Unsuspendable(Append(p, Bare(d))) /\ Unsuspended(Append(p, Bare(d))) = Unsuspended(p) \o <<Bare(ctx)>>
  BY <1>4, <1>5, <1>6, <1>7, UnsuspendedAppend
<1>9. Unsuspended(p) \in Seq(Context)
  BY <1>5, <1>6, UnsuspendedType
<1> QED BY <1>1, <1>2, <1>8, <1>9 DEF first, p

\* Unsuspending nothing.
LEMMA UnsuspendedEmpty == Unsuspended(<< >>) = << >> /\ Unsuspendable(<< >>)
BY DEF Unsuspended, Unsuspendable

\* A level of the recursion before a block of stages makes longer walks.
LEMMA RecurseGoesOn ==
  ASSUME NEW g \in Data, NEW ops \in Seq(Stage), NEW X \in Data, GoesOn(ops, g, X),
         \A v \in Vertex : g[v] = << >> => X[v] = <<v>>
  PROVE  GoesOn(<<Recurser>> \o ops, g,
                [v \in Vertex |-> <<v>> \o FlattenSeq([i \in 1..Len(g[v]) |-> X[g[v][i]]])])
<1> DEFINE through(v) == FlattenSeq([i \in 1..Len(g[v]) |-> X[g[v][i]]])
           Y == [v \in Vertex |-> <<v>> \o through(v)]
           more == <<Recurser>> \o ops
<1>0. <<Recurser>> \in Seq(Stage)
  BY OpTypes
<1>1. ASSUME NEW ctx \in Context, Neighbors(g, ctx) = << >>, NEW out, Leaves(g, ops, ctx, out)
      PROVE  Leaves(g, more, ctx, out)
  <2>1. RunsTo(<<Recurser>>, g, <<ctx>>, <<ctx>>)
    BY <1>1, RecurseNone
  <2> QED BY <1>0, <1>1, <2>1, RunsThen DEF Leaves
<1>2. ASSUME NEW ctx \in Context, ctx.active = None, CanUnsuspend(ctx), Unsuspendable(ctx.piggyback)
      PROVE  Leaves(g, more, ctx, <<EnsureUnsuspended(Bare(ctx))>>)
  <2>1. Neighbors(g, ctx) = << >>
    BY <1>2 DEF Neighbors
  <2>2. Leaves(g, ops, ctx, <<EnsureUnsuspended(Bare(ctx))>>)
    BY <1>2 DEF GoesOn
  <2> HIDE DEF more
  <2> QED BY <1>1, <2>1, <2>2
<1>3. ASSUME NEW ctx \in Context, ctx.active # None, Unsuspendable(ctx.piggyback), g[ctx.active] = << >>
      PROVE  Leaves(g, more, ctx, Moved(ctx, Y[ctx.active]))
  <2>1. Neighbors(g, ctx) = << >> /\ ctx.active \in Vertex
    BY <1>3, ActiveVertex DEF Neighbors
  <2>2. Leaves(g, ops, ctx, Moved(ctx, X[ctx.active])) /\ X[ctx.active] = <<ctx.active>>
    BY <1>3, <2>1 DEF GoesOn
  <2>3. through(ctx.active) = << >>
    BY <1>3, FlattenEmpty
  <2>4. Y[ctx.active] = <<ctx.active>>
    <3>1. Y[ctx.active] = <<ctx.active>> \o through(ctx.active)
      BY <2>1
    <3> DEFINE one == <<ctx.active>>
    <3>2. one \in Seq(Vertex)
      BY <2>1
    <3> HIDE DEF through, Y, one
    <3>3. one \o << >> = one
      BY <3>2, ConcatEmptySeq
    <3> QED BY <2>3, <3>1, <3>3 DEF one
  <2> HIDE DEF more, Y
  <2> QED BY <1>1, <2>1, <2>2, <2>4
<1>4. ASSUME NEW ctx \in Context, ctx.active # None, Unsuspendable(ctx.piggyback), g[ctx.active] # << >>
      PROVE  Leaves(g, more, ctx, Moved(ctx, Y[ctx.active]))
  <2> DEFINE n == ctx.active
             s == g[n]
             h == Head(s)
             t == Tail(s)
             U == Unsuspended(ctx.piggyback)
             first == FirstReached(ctx, h)
             xt == [k \in 1..Len(t) |-> X[t[k]]]
             ft == [k \in 1..Len(t) |-> Moved(ctx, xt[k])]
  <2>1. n \in Vertex /\ s \in Seq(Vertex) /\ s # << >>
    BY <1>4, ActiveVertex DEF Data
  <2>2. Neighbors(g, ctx) = s
    BY <1>4 DEF Neighbors
  <2>2a. Y[n] = <<n>> \o through(n)
    <3> HIDE DEF through
    <3> QED BY <2>1
  <2>2b. through(n) = FlattenSeq([i \in 1..Len(s) |-> X[s[i]]])
    OBVIOUS
  <2> HIDE DEF n, s, Y, through
  <2>3. h \in Vertex /\ t \in Seq(Vertex) /\ t \in Seq(MaybeVertex) /\ <<h>> \o t = s
    <3>1. h \in Vertex /\ t \in Seq(Vertex) /\ <<h>> \o t = s
      BY <2>1, HeadTailProperties
    <3> QED BY <3>1 DEF MaybeVertex
  <2>3a. Len(s) = Len(t) + 1 /\ s[1] = h /\ \A k \in 1..Len(t) : s[k + 1] = t[k]
    BY <2>1
  <2> HIDE DEF h, t
  <2>4. /\ first \in Context /\ first.active = h
        /\ first.vertices = ctx.vertices /\ first.suspended = ctx.suspended
        /\ Unsuspendable(first.piggyback)
        /\ Unsuspended(first.piggyback) = U \o <<Bare(ctx)>>
        /\ U \in Seq(Context)
    BY <1>4, <2>3, FirstCarries
  <2>5. xt \in Seq(Seq(Vertex)) /\ X[h] \in Seq(Vertex)
    <3>1. \A k \in 1..Len(t) : t[k] \in Vertex
      BY <2>3, ElementOfSeq
    <3>2. \A k \in 1..Len(t) : X[t[k]] \in Seq(Vertex)
      BY <3>1 DEF Data
    <3> QED BY <2>3, <3>2 DEF Data
  <2>6. Len(xt) = Len(t) /\ \A k \in 1..Len(t) : xt[k] = X[t[k]]
    BY <2>3
  <2> HIDE DEF xt
  <2>7. ft \in Seq(Seq(Context)) /\ FlattenSeq(ft) = Moved(ctx, FlattenSeq(xt))
    BY <2>5, <2>6, MovedFlatten
  <2>7a. FlattenSeq(xt) \in Seq(Vertex)
    BY <2>5, FlattenType
  <2>8. Len(ft) = Len(t) /\ \A k \in 1..Len(t) : ft[k] = Moved(ctx, X[t[k]])
    BY <2>3, <2>6
  <2> HIDE DEF ft, first
  <2>9. RunsTo(ops, g, <<first>>, (U \o <<Bare(ctx)>>) \o Moved(ctx, X[h]))
    <3>1. Leaves(g, ops, first, Moved(first, X[first.active]))
      <4>1. first.active # None
        BY <2>3, <2>4, ContextAssumption
      <4> QED BY <2>4, <4>1 DEF GoesOn
    <3>2. Moved(first, X[h]) = Moved(ctx, X[h])
      BY <2>4, SameMoves
    <3>3. RunsTo(ops, g, <<first>>, Unsuspended(first.piggyback) \o Moved(first, X[h]))
      BY <3>1, <2>4 DEF Leaves
    <3> QED BY <2>4, <3>2, <3>3
  <2>10. ASSUME NEW k \in 1..Len(t)
         PROVE  RunsTo(ops, g, <<Moved(ctx, t)[k]>>, ft[k])
    <3> DEFINE c == SplitAndMoveToVertex(ctx, t[k])
    <3>1. t[k] \in Vertex /\ t[k] \in MaybeVertex
      BY <2>3, ElementOfSeq
    <3>2. Moved(ctx, t)[k] = c
      BY <2>3, MovedType
    <3>3. /\ c \in Context /\ c.active = t[k] /\ c.vertices = ctx.vertices
          /\ c.suspended = ctx.suspended /\ c.piggyback = << >>
      BY <3>1, MoveType
    <3> HIDE DEF c
    <3>4. Leaves(g, ops, c, Moved(c, X[c.active]))
      <4>1. c.active # None
        BY <3>1, <3>3, ContextAssumption
      <4>2. Unsuspendable(c.piggyback)
        BY <3>3, UnsuspendedEmpty
      <4> QED BY <3>3, <4>1, <4>2 DEF GoesOn
    <3>5. Moved(c, X[t[k]]) = Moved(ctx, X[t[k]])
      BY <3>3, SameMoves
    <3>6. RunsTo(ops, g, <<c>>, << >> \o Moved(ctx, X[t[k]]))
      BY <3>3, <3>4, <3>5, UnsuspendedEmpty DEF Leaves
    <3>7. << >> \o ft[k] = ft[k]
      <4>1. ft[k] \in Seq(Context)
        BY <2>7, <2>8, ElementOfSeq
      <4> QED BY <4>1, ConcatEmptySeq
    <3> QED BY <2>8, <3>2, <3>6, <3>7
  <2>11. RunsTo(ops, g, Moved(ctx, t), FlattenSeq(ft))
    <3>1. Moved(ctx, t) \in Seq(Context) /\ Len(Moved(ctx, t)) = Len(t)
      BY <2>3, MovedType
    <3> QED BY <2>7, <2>8, <2>10, <3>1, RunsEach
  <2> DEFINE out == ((U \o <<Bare(ctx)>>) \o Moved(ctx, X[h])) \o FlattenSeq(ft)
  <2>12. RunsTo(ops, g, <<first>> \o Moved(ctx, t), out)
    BY <2>9, <2>11, RunsJoined
  <2>13. RunsTo(<<Recurser>>, g, <<ctx>>, <<first>> \o Moved(ctx, t))
    <3>1. ctx \in Received(Recurser)
      BY OpTypes DEF Received, Prepared
    <3>2. Out(Recurser, g, ctx) = <<first>> \o Moved(ctx, t)
      BY <2>1, <2>2, OpTypes DEF Out, OneLevel, first, h, t
    <3> QED BY <3>1, <3>2, OpTypes, RunsOp
  <2>14. RunsTo(more, g, <<ctx>>, out)
    BY <1>0, <2>12, <2>13, RunsThen
  <2>15. through(n) = X[h] \o FlattenSeq(xt)
    <3> DEFINE xs == [i \in 1..Len(s) |-> X[s[i]]]
    <3>1. xs = <<X[h]>> \o xt
      <4>1. xs \in Seq(Seq(Vertex))
        <5>1. \A i \in 1..Len(s) : s[i] \in Vertex
          BY <2>1, ElementOfSeq
        <5>2. \A i \in 1..Len(s) : X[s[i]] \in Seq(Vertex)
          BY <5>1 DEF Data
        <5> QED BY <2>1, <5>2
      <4>2. Len(xs) = Len(s) /\ \A i \in 1..Len(s) : xs[i] = X[s[i]]
        BY <2>1
      <4> HIDE DEF xs
      <4>3. Joins(xs, <<X[h]>>, xt)
        <5>0. Len(t) \in Nat
          BY <2>3
        <5>1. 1 \in 1..Len(s) /\ \A k \in 1..Len(t) : 1 + k \in 1..Len(s)
          BY <5>0, <2>3a
        <5>2. Len(<<X[h]>>) = 1 /\ <<X[h]>>[1] = X[h]
          OBVIOUS
        <5>3. xs[1] = X[h]
          BY <4>2, <5>1, <2>3a
        <5>4. \A k \in 1..Len(t) : xs[1 + k] = xt[k]
          <6> SUFFICES ASSUME NEW k \in 1..Len(t) PROVE xs[1 + k] = xt[k]
            OBVIOUS
          <6>1. 1 + k = k + 1 /\ 1 + k \in 1..Len(s)
            BY <5>0, <5>1
          <6>2. xs[1 + k] = X[s[k + 1]]
            BY <4>2, <6>1
          <6> QED BY <6>2, <2>3a, <2>6
        <5>5. Len(xs) = 1 + Len(xt)
          BY <4>2, <2>3a, <2>6, <5>0
        <5> QED BY <5>2, <5>3, <5>4, <5>5, <2>6 DEF Joins
      <4>4. <<X[h]>> \in Seq(Seq(Vertex))
        BY <2>5
      <4> QED BY <4>1, <4>3, <4>4, <2>5, ConcatIs
    <3> HIDE DEF xs
    <3>2. FlattenSeq(xs) = X[h] \o FlattenSeq(xt)
      BY <3>1, <2>5, FlattenCons
    <3> QED BY <3>2, <2>2b DEF xs
  <2>16. out = U \o Moved(ctx, Y[n])
    <3> DEFINE F == FlattenSeq(xt)
               a == <<Bare(ctx)>>
               b == Moved(ctx, X[h])
               c == Moved(ctx, F)
    <3>1. X[h] \in Seq(MaybeVertex) /\ F \in Seq(MaybeVertex) /\ <<n>> \in Seq(MaybeVertex)
      BY <2>1, <2>5, <2>7a DEF MaybeVertex
    <3>2. Moved(ctx, <<n>>) = a
      BY BareMoves DEF n
    <3>3. b \in Seq(Context) /\ c \in Seq(Context) /\ a \in Seq(Context) /\ U \in Seq(Context)
      BY <3>1, <2>4, MovedType, BareType
    <3>3a. FlattenSeq(ft) = c
      BY <2>7
    <3> HIDE DEF F
    <3>4. X[h] \o F \in Seq(MaybeVertex)
      BY <3>1
    <3>5. Moved(ctx, X[h] \o F) = b \o c
      BY <3>1, MovedConcat
    <3>6. Moved(ctx, <<n>> \o (X[h] \o F)) = Moved(ctx, <<n>>) \o Moved(ctx, X[h] \o F)
      BY <3>1, <3>4, MovedConcat
    <3>7. Y[n] = <<n>> \o (X[h] \o F)
      BY <2>2a, <2>15 DEF F
    <3> HIDE DEF a, b, c, U
    <3>8. ((U \o a) \o b) \o c = U \o (a \o (b \o c))
      <4>1. Regroups(U, a, b, c)
        BY <3>3, ConcatRegroup
      <4> QED BY <4>1 DEF Regroups
    <3>9. out = ((U \o a) \o b) \o c
      BY <3>3a DEF a, b
    <3> HIDE DEF out
    <3> QED BY <3>2, <3>5, <3>6, <3>7, <3>8, <3>9
  <2> HIDE DEF out, more
  <2> QED BY <2>14, <2>16 DEF Leaves, n, U
<1>5. GoesOn(more, g, Y)
  <2>1. \A ctx \in Context : ctx.active # None /\ Unsuspendable(ctx.piggyback) =>
          Leaves(g, more, ctx, Moved(ctx, Y[ctx.active]))
    <3> HIDE DEF more, Y
    <3> QED BY <1>3, <1>4
  <2> HIDE DEF more, Y
  <2> QED BY <1>2, <2>1 DEF GoesOn
<1> QED BY <1>5

\* The implicit coercion ends the walks at the vertices it does not admit.
LEMMA CoerceGoesOn ==
  ASSUME NEW g \in Data, NEW ops \in Seq(Stage), NEW Y \in Data, GoesOn(ops, g, Y),
         NEW to \in SUBSET Vertex
  PROVE  GoesOn(<<Coercer(to)>> \o ops, g, [v \in Vertex |-> IF v \in to THEN Y[v] ELSE <<v>>])
<1> DEFINE Z == [v \in Vertex |-> IF v \in to THEN Y[v] ELSE <<v>>]
           more == <<Coercer(to)>> \o ops
           op == Coercer(to)
           After(ctx) == IF ctx.active \in to THEN ctx ELSE EnsureSuspended(ctx)
<1>0. op \in Stage /\ <<op>> \in Seq(Stage) /\ op.op = "coerce" /\ op.to = to
  BY OpTypes
<1> HIDE DEF op
<1>1. ASSUME NEW ctx \in Context
      PROVE  RunsTo(<<op>>, g, <<ctx>>, <<After(ctx)>>)
  <2>1. ctx \in Received(op)
    BY <1>0 DEF Received, Prepared
  <2>2. Out(op, g, ctx) = <<After(ctx)>>
    BY <1>0 DEF Out
  <2> HIDE DEF After
  <2> QED BY <1>0, <2>1, <2>2, RunsOp
<1>2. ASSUME NEW ctx \in Context, NEW out, After(ctx).piggyback = ctx.piggyback, Leaves(g, ops, After(ctx), out)
      PROVE  Leaves(g, more, ctx, out)
  <2>1. RunsTo(<<op>>, g, <<ctx>>, <<After(ctx)>>)
    BY <1>1
  <2> HIDE DEF After
  <2>2. RunsTo(ops, g, <<After(ctx)>>, Unsuspended(ctx.piggyback) \o out)
    BY <1>2 DEF Leaves
  <2>3. RunsTo(more, g, <<ctx>>, Unsuspended(ctx.piggyback) \o out)
    BY <1>0, <2>1, <2>2, RunsThen DEF op
  <2> QED BY <2>3 DEF Leaves
<1>3. ASSUME NEW ctx \in Context, ctx.active # None, Unsuspendable(ctx.piggyback)
      PROVE  Leaves(g, more, ctx, Moved(ctx, Z[ctx.active]))
  <2>0. ctx.active \in Vertex
    BY <1>3, ActiveVertex
  <2>1. CASE ctx.active \in to
    <3>1. After(ctx) = ctx /\ Z[ctx.active] = Y[ctx.active]
      BY <2>0, <2>1
    <3>2. Leaves(g, ops, ctx, Moved(ctx, Y[ctx.active]))
      BY <1>3 DEF GoesOn
    <3> HIDE DEF After, more, Z
    <3> QED BY <1>2, <3>1, <3>2
  <2>2. CASE ctx.active \notin to
    <3>1. After(ctx) = EnsureSuspended(ctx) /\ Z[ctx.active] = <<ctx.active>>
      BY <2>0, <2>2
    <3> DEFINE d == EnsureSuspended(ctx)
    <3>2. d \in Context /\ d.active = None /\ d.piggyback = ctx.piggyback
          /\ d.suspended = Append(ctx.suspended, ctx.active)
      BY <1>3, SuspendType
    <3>3. Append(ctx.suspended, ctx.active) # << >>
      BY ContextIs, AppendProperties
    <3>4. EnsureUnsuspended(Bare(d)) = Bare(ctx) /\ Moved(ctx, <<ctx.active>>) = <<Bare(ctx)>>
      BY <1>3, BareMoves
    <3> HIDE DEF d
    <3>5. CanUnsuspend(d) /\ Unsuspendable(d.piggyback)
      BY <1>3, <3>2, <3>3 DEF CanUnsuspend
    <3>6. Leaves(g, ops, d, <<EnsureUnsuspended(Bare(d))>>)
      BY <3>2, <3>5 DEF GoesOn
    <3>7. Leaves(g, ops, d, Moved(ctx, Z[ctx.active]))
      <4> HIDE DEF Z
      <4> QED BY <3>1, <3>4, <3>6
    <3>8. After(ctx) = d
      BY <3>1 DEF d
    <3> HIDE DEF After, more, Z
    <3> QED BY <1>2, <3>2, <3>7, <3>8
  <2> QED BY <2>1, <2>2
<1>4. ASSUME NEW ctx \in Context, ctx.active = None, CanUnsuspend(ctx), Unsuspendable(ctx.piggyback)
      PROVE  Leaves(g, more, ctx, <<EnsureUnsuspended(Bare(ctx))>>)
  <2>1. After(ctx) = ctx
    BY <1>4, Operations
  <2>2. Leaves(g, ops, ctx, <<EnsureUnsuspended(Bare(ctx))>>)
    BY <1>4 DEF GoesOn
  <2> HIDE DEF After, more
  <2> QED BY <1>2, <2>1, <2>2
<1>5. GoesOn(more, g, Z)
  <2> HIDE DEF more, Z
  <2> QED BY <1>3, <1>4 DEF GoesOn
<1> QED BY <1>5 DEF op

-----------------------------------------------------------------------------
(* The stages of a recursion.                                              *)

DeeperStages(to) == IF to = None THEN <<Recurser>> ELSE <<Coercer(to), Recurser>>

\* The stages of the levels below the first of a recursion.
Levels(to, l) == FlattenSeq([level \in 1..l |-> DeeperStages(to)])

Rest(to, l) == Levels(to, l) \o <<Unpacker>>

\* The stages of the deeper levels.
LEMMA LevelsAre ==
  ASSUME NEW to \in {None} \cup SUBSET Vertex
  PROVE  /\ DeeperStages(to) \in Seq(Stage)
         /\ Levels(to, 0) = << >>
         /\ \A l \in Nat : /\ Levels(to, l) \in Seq(Stage)
                           /\ Levels(to, l + 1) = DeeperStages(to) \o Levels(to, l)
<1> DEFINE d == DeeperStages(to)
           all(l) == [level \in 1..l |-> d]
<1>1. d \in Seq(Stage)
  <2>1. CASE to = None
    BY <2>1, OpTypes DEF DeeperStages
  <2>2. CASE to # None
    <3>1. Coercer(to) \in Stage /\ Recurser \in Stage
      BY <2>2, OpTypes
    <3> QED BY <2>2, <3>1 DEF DeeperStages
  <2> QED BY <2>1, <2>2
<1>2. Levels(to, 0) = << >>
  BY FlattenEmpty DEF Levels
<1> HIDE DEF d
<1>3. ASSUME NEW l \in Nat
      PROVE  /\ Levels(to, l) \in Seq(Stage)
             /\ Levels(to, l + 1) = d \o Levels(to, l)
  <2>1. all(l) \in Seq(Seq(Stage)) /\ all(l + 1) \in Seq(Seq(Stage)) /\ <<d>> \in Seq(Seq(Stage))
    BY <1>1
  <2>2. Joins(all(l + 1), <<d>>, all(l))
    BY DEF Joins
  <2>3. Levels(to, l) = FlattenSeq(all(l)) /\ Levels(to, l + 1) = FlattenSeq(all(l + 1))
    BY DEF Levels, d
  <2> HIDE DEF all
  <2>4. all(l + 1) = <<d>> \o all(l)
    BY <2>1, <2>2, ConcatIs
  <2>5. FlattenSeq(all(l + 1)) = d \o FlattenSeq(all(l)) /\ FlattenSeq(all(l)) \in Seq(Stage)
    BY <1>1, <2>1, <2>4, FlattenCons, FlattenType
  <2> QED BY <2>3, <2>5
<1> QED BY <1>1, <1>2, <1>3 DEF d

\* The stages after the first level.
LEMMA RestIs ==
  ASSUME NEW to \in {None} \cup SUBSET Vertex
  PROVE  /\ Rest(to, 0) = <<Unpacker>>
         /\ \A l \in Nat :
              /\ Rest(to, l) \in Seq(Stage)
              /\ Rest(to, l + 1) = IF to = None THEN <<Recurser>> \o Rest(to, l)
                                   ELSE <<Coercer(to)>> \o (<<Recurser>> \o Rest(to, l))
<1>0. <<Unpacker>> \in Seq(Stage) /\ <<Recurser>> \in Seq(Stage)
  BY OpTypes
<1>1. Rest(to, 0) = <<Unpacker>>
  BY <1>0, LevelsAre, ConcatEmptySeq DEF Rest
<1>2. ASSUME NEW l \in Nat
      PROVE  /\ Rest(to, l) \in Seq(Stage)
             /\ Rest(to, l + 1) = IF to = None THEN <<Recurser>> \o Rest(to, l)
                                  ELSE <<Coercer(to)>> \o (<<Recurser>> \o Rest(to, l))
  <2> DEFINE m == Levels(to, l)
             u == <<Unpacker>>
             r == <<Recurser>>
             c == <<Coercer(to)>>
  <2>1. m \in Seq(Stage) /\ Levels(to, l + 1) = DeeperStages(to) \o m
    BY LevelsAre
  <2>2. Rest(to, l) = m \o u /\ Rest(to, l + 1) = (DeeperStages(to) \o m) \o u
    BY <2>1 DEF Rest
  <2>3. u \in Seq(Stage) /\ r \in Seq(Stage)
    BY <1>0
  <2>4. CASE to = None
    <3>1. DeeperStages(to) = r
      BY <2>4 DEF DeeperStages
    <3> HIDE DEF m, u, r, c
    <3>2. (r \o m) \o u = r \o (m \o u) /\ m \o u \in Seq(Stage)
      BY <2>1, <2>3
    <3> QED BY <2>2, <2>4, <3>1, <3>2 DEF r
  <2>5. CASE to # None
    <3>1. DeeperStages(to) = c \o r /\ c \in Seq(Stage)
      BY <2>5, OpTypes DEF DeeperStages
    <3> HIDE DEF m, u, r, c
    <3>2. Regroups(c, r, m, u)
      BY <2>1, <2>3, <3>1, ConcatRegroup
    <3>3. m \o u \in Seq(Stage)
      BY <2>1, <2>3
    <3> QED BY <2>2, <2>5, <3>1, <3>2, <3>3 DEF r, c, Regroups
  <2> QED BY <2>4, <2>5
<1> QED BY <1>1, <1>2

OnwardAll(to, ends) == [v \in Vertex |-> Onward(to, ends, v)]

\* Where walks that pass the coercion may end.
LEMMA OnwardAllType ==
  ASSUME NEW to, NEW ends \in Data
  PROVE  OnwardAll(to, ends) \in Data
BY OnwardType DEF OnwardAll, Data

\* Below its first level, a recursion goes on to the ends of the walks that
\* the levels left allow.
LEMMA RestGoesOn ==
  ASSUME NEW g \in Data, NEW to \in {None} \cup SUBSET Vertex, NEW depth \in Nat,
         NEW E, AreEnds(E, g, to, depth)
  PROVE  \A l \in 0..depth : l + 1 \in 0..depth =>
           /\ GoesOn(Rest(to, l), g, OnwardAll(to, E[l]))
           /\ GoesOn(<<Recurser>> \o Rest(to, l), g, E[l + 1])
<1> DEFINE P(l) == GoesOn(Rest(to, l), g, OnwardAll(to, E[l]))
           Q(l) == GoesOn(<<Recurser>> \o Rest(to, l), g, E[l + 1])
<1>0. /\ \A d \in 0..depth : E[d] \in Data
      /\ \A v \in Vertex : E[0][v] = <<v>>
      /\ \A d \in 1..depth : \A v \in Vertex : E[d][v] = WalksFrom(g, to, E[d - 1], v)
  BY DEF AreEnds
<1>1. P(0)
  <2>1. OnwardAll(to, E[0]) = [v \in Vertex |-> <<v>>]
    <3>1. \A v \in Vertex : Onward(to, E[0], v) = <<v>>
      BY <1>0 DEF Onward
    <3> QED BY <3>1 DEF OnwardAll
  <2> QED BY <2>1, RestIs, UnpackGoesOn
<1>2. ASSUME NEW l \in 0..depth, l + 1 \in 0..depth, P(l)
      PROVE  Q(l)
  <2> DEFINE e == E[l]
             X == OnwardAll(to, e)
             next == E[l + 1]
             through(v) == FlattenSeq([i \in 1..Len(g[v]) |-> X[g[v][i]]])
             Y == [v \in Vertex |-> <<v>> \o through(v)]
             ops == Rest(to, l)
  <2>1. e \in Data /\ next \in Data
    BY <1>0, <1>2
  <2>2. X \in Data
    BY <2>1, OnwardAllType
  <2>3. ops \in Seq(Stage)
    <3>1. l \in Nat
      OBVIOUS
    <3> HIDE DEF P, Q
    <3> QED BY <3>1, RestIs
  <2>4. GoesOn(ops, g, X)
    BY <1>2
  <2>5. \A v \in Vertex : next[v] = WalksFrom(g, to, e, v)
    <3> SUFFICES ASSUME NEW v \in Vertex PROVE E[l + 1][v] = WalksFrom(g, to, E[l], v)
      OBVIOUS
    <3>1. l + 1 \in 1..depth /\ (l + 1) - 1 = l
      BY <1>2
    <3>2. E[l + 1][v] = WalksFrom(g, to, E[(l + 1) - 1], v)
      <4> HIDE DEF P, Q, Y, X, e, next, ops
      <4> QED BY <1>0, <3>1
    <3> QED BY <3>1, <3>2
  <2>6. \A v \in Vertex : g[v] = << >> => e[v] = <<v>>
    <3> SUFFICES ASSUME NEW v \in Vertex, g[v] = << >> PROVE e[v] = <<v>>
      OBVIOUS
    <3>1. CASE l = 0
      BY <1>0, <3>1
    <3>2. CASE l # 0
      <4>1. l \in 1..depth /\ l - 1 \in 0..depth
        BY <3>2
      <4>2. e[v] = WalksFrom(g, to, E[l - 1], v)
        BY <1>0, <4>1
      <4> DEFINE f == E[l - 1]
      <4>3. f \in Data
        BY <1>0, <4>1
      <4> HIDE DEF f, e, X, Y, next, ops, P, Q
      <4>4. WalksFrom(g, to, f, v) = <<v>> \o FlattenSeq([i \in 1..Len(g[v]) |-> Onward(to, f, g[v][i])])
        BY <4>3, WalksFromType
      <4>5. FlattenSeq([i \in 1..Len(g[v]) |-> Onward(to, f, g[v][i])]) = << >>
        BY FlattenEmpty
      <4>6. <<v>> \o << >> = <<v>>
        <5> DEFINE one == <<v>>
        <5>1. one \in Seq(Vertex)
          OBVIOUS
        <5> HIDE DEF one
        <5>2. one \o << >> = one
          BY <5>1, ConcatEmptySeq
        <5> QED BY <5>2 DEF one
      <4> QED BY <4>2, <4>4, <4>5, <4>6 DEF f
    <3> QED BY <3>1, <3>2
  <2>7. \A v \in Vertex : X[v] = Onward(to, e, v)
    BY DEF OnwardAll
  <2>8. \A v \in Vertex : g[v] = << >> => X[v] = <<v>>
    <3> HIDE DEF X, e
    <3> QED BY <2>6, <2>7 DEF Onward
  <2>9. GoesOn(<<Recurser>> \o ops, g, Y)
    <3> HIDE DEF X, e, ops, P, Q, next
    <3> QED BY <2>2, <2>3, <2>4, <2>8, RecurseGoesOn
  <2>10. Y = next
    <3>1. ASSUME NEW v \in Vertex PROVE <<v>> \o through(v) = next[v]
      <4> DEFINE s == g[v]
      <4>1. s \in Seq(Vertex)
        BY DEF Data
      <4>2. WalksFrom(g, to, e, v) = <<v>> \o FlattenSeq([i \in 1..Len(s) |-> Onward(to, e, s[i])])
        BY <2>1, WalksFromType
      <4>3. [i \in 1..Len(s) |-> Onward(to, e, s[i])] = [i \in 1..Len(s) |-> X[s[i]]]
        <5> HIDE DEF s, X, e, next, ops, P, Q
        <5>1. \A i \in 1..Len(s) : s[i] \in Vertex
          BY <4>1, ElementOfSeq
        <5> QED BY <5>1, <2>7
      <4>4. next[v] = WalksFrom(g, to, e, v)
        BY <2>5
      <4> HIDE DEF X, e, next, ops, P, Q
      <4> QED BY <4>2, <4>3, <4>4 DEF s
    <3>2. next = [v \in Vertex |-> next[v]]
      <4> HIDE DEF next
      <4> QED BY <2>1 DEF Data
    <3> HIDE DEF next, through
    <3> QED BY <3>1, <3>2
  <2> HIDE DEF Y, next
  <2> QED BY <2>9, <2>10 DEF ops, next
<1>3. ASSUME NEW l \in 0..depth, l + 1 \in 0..depth, P(l)
      PROVE  P(l + 1)
  <2> DEFINE Y == E[l + 1]
             ops == <<Recurser>> \o Rest(to, l)
  <2>1. Y \in Data /\ GoesOn(ops, g, Y)
    <3>1. Q(l)
      BY <1>2, <1>3
    <3> QED BY <1>0, <1>3, <3>1
  <2>2. ops \in Seq(Stage) /\ l \in Nat
    <3>0. l \in Nat
      OBVIOUS
    <3>1. Rest(to, l) \in Seq(Stage)
      <4> HIDE DEF P, Q
      <4> QED BY <3>0, RestIs
    <3>2. <<Recurser>> \in Seq(Stage)
      BY OpTypes
    <3> QED BY <3>0, <3>1, <3>2, ConcatProperties
  <2>3. CASE to = None
    <3>1. Rest(to, l + 1) = ops
      BY <2>2, <2>3, RestIs
    <3>2. OnwardAll(to, Y) = Y
      <4> HIDE DEF Y
      <4>1. OnwardAll(to, Y) = [v \in Vertex |-> Y[v]]
        BY <2>3 DEF OnwardAll, Onward, Deeper
      <4> QED BY <2>1, <4>1 DEF Data
    <3> QED BY <2>1, <3>1, <3>2
  <2>4. CASE to # None
    <3> DEFINE Z == [v \in Vertex |-> IF v \in to THEN Y[v] ELSE <<v>>]
    <3>1. to \in SUBSET Vertex
      BY <2>4
    <3>2. Rest(to, l + 1) = <<Coercer(to)>> \o ops
      BY <2>2, <2>4, RestIs
    <3>3. OnwardAll(to, Y) = Z
      <4> HIDE DEF Y
      <4> QED BY <2>4 DEF OnwardAll, Onward, Deeper
    <3>4. GoesOn(<<Coercer(to)>> \o ops, g, Z)
      <4> HIDE DEF Y, ops
      <4> QED BY <2>1, <2>2, <3>1, CoerceGoesOn
    <3> HIDE DEF Z, ops
    <3> QED BY <3>2, <3>3, <3>4
  <2> QED BY <2>3, <2>4
<1> DEFINE N == {l \in 0..depth : l + 1 \in 0..depth => P(l)}
<1>4. 0 \in N
  BY <1>1
<1>5. \A l \in N : l \in 0..depth - 1 => l + 1 \in N
  <2> SUFFICES ASSUME NEW l \in N, l \in 0..depth - 1, (l + 1) + 1 \in 0..depth PROVE P(l + 1)
    <3> HIDE DEF P
    <3> QED OBVIOUS
  <2>1. l \in 0..depth /\ l + 1 \in 0..depth
    OBVIOUS
  <2>2. P(l)
    <3> HIDE DEF P
    <3> QED BY <2>1
  <2> HIDE DEF P, N
  <2> QED BY <1>3, <2>1, <2>2
<1>6. 0..depth \subseteq N
  <2> HIDE DEF N
  <2> QED BY <1>4, <1>5, BoundedInduction
<1>7. \A l \in 0..depth : l + 1 \in 0..depth => P(l) /\ Q(l)
  <2> SUFFICES ASSUME NEW l \in 0..depth, l + 1 \in 0..depth PROVE P(l) /\ Q(l)
    <3> HIDE DEF P, Q
    <3> QED OBVIOUS
  <2>1. P(l)
    <3> HIDE DEF P, Q
    <3> QED BY <1>6
  <2> HIDE DEF P, Q
  <2> QED BY <1>2, <2>1
<1> QED BY <1>7

Activator(vid) == [op |-> "activate", vid |-> vid, recursing |-> FALSE]
RecursionActivator(vid) == [op |-> "activate", vid |-> vid, recursing |-> TRUE]
Resolver(edge) == [op |-> "neighbors", optional |-> edge.optional]
Recorder(vid) == [op |-> "record", vid |-> vid]
Checker(accepts) == [op |-> "check", accepts |-> accepts]

\* The other stages.
LEMMA MoreOpTypes ==
  /\ \A vid \in Vid :
       /\ Activator(vid) \in Stage /\ Activator(vid).op = "activate"
       /\ Activator(vid).vid = vid /\ ~ Activator(vid).recursing
       /\ RecursionActivator(vid) \in Stage /\ RecursionActivator(vid).op = "activate"
       /\ RecursionActivator(vid).vid = vid /\ RecursionActivator(vid).recursing
       /\ Recorder(vid) \in Stage /\ Recorder(vid).op = "record" /\ Recorder(vid).vid = vid
  /\ \A a \in SUBSET MaybeVertex :
       Checker(a) \in Stage /\ Checker(a).op = "check" /\ Checker(a).accepts = a
BY DEF Activator, RecursionActivator, Recorder, Checker, Stage

\* The fields of an edge.
LEMMA EdgeFields ==
  ASSUME NEW edge \in QueryEdge
  PROVE  /\ edge.from \in Nat /\ edge.optional \in BOOLEAN /\ edge.depth \in Nat
         /\ edge.coerceTo \in {None} \cup SUBSET Vertex
         /\ edge.checks \in Seq(SUBSET MaybeVertex)
BY DEF QueryEdge

\* The stage of resolve_neighbors().
LEMMA ResolverType ==
  ASSUME NEW edge \in QueryEdge
  PROVE  Resolver(edge) \in Stage /\ Resolver(edge).op = "neighbors"
         /\ Resolver(edge).optional = edge.optional
BY DEF QueryEdge, Resolver, Stage

\* The stages that resolve an edge.
Expansion(edge) ==
  IF edge.depth > 0 THEN ExpandRecursiveEdge(edge) ELSE ExpandNonRecursiveEdge(edge)

\* The stages of a recursive edge.
LEMMA RecursiveStages ==
  ASSUME NEW edge \in QueryEdge, edge.depth > 0, edge.from \in Vid
  PROVE  /\ ExpandRecursiveEdge(edge) =
              <<RecursionActivator(edge.from)>> \o (<<Recurser>> \o Rest(edge.coerceTo, edge.depth - 1))
         /\ ExpandRecursiveEdge(edge) \in Seq(Stage)
         /\ <<Recurser>> \o Rest(edge.coerceTo, edge.depth - 1) \in Seq(Stage)
<1> DEFINE to == edge.coerceTo
           l == edge.depth - 1
           a == <<RecursionActivator(edge.from)>>
           r == <<Recurser>>
           f == Levels(to, l)
           u == <<Unpacker>>
<1>1. to \in {None} \cup SUBSET Vertex /\ l \in Nat
  BY EdgeFields
<1>2. a \in Seq(Stage) /\ r \in Seq(Stage) /\ u \in Seq(Stage)
  <2>1. Recurser \in Stage /\ Unpacker \in Stage /\ RecursionActivator(edge.from) \in Stage
    BY OpTypes, MoreOpTypes
  <2> QED BY <2>1
<1>3. f \in Seq(Stage)
  <2> HIDE DEF to, l
  <2> QED BY <1>1, LevelsAre
<1>4. <<RecursionActivator(edge.from), Recurser>> = a \o r
  OBVIOUS
<1>5. ExpandRecursiveEdge(edge) = (<<RecursionActivator(edge.from), Recurser>> \o f) \o u
  BY DEF ExpandRecursiveEdge, RecursionActivator, Recurser, Unpacker, Levels, DeeperStages, Coercer
<1>6. Rest(to, l) = f \o u
  BY DEF Rest
<1> HIDE DEF a, r, f, u, to, l
<1>7. Regroups(a, r, f, u)
  BY <1>2, <1>3, ConcatRegroup
<1>8. f \o u \in Seq(Stage)
  BY <1>2, <1>3
<1>9. ExpandRecursiveEdge(edge) = a \o (r \o (f \o u))
  BY <1>4, <1>5, <1>7 DEF Regroups
<1> DEFINE fu == f \o u
<1>10. fu \in Seq(Stage)
  BY <1>8
<1> HIDE DEF fu
<1>11. r \o fu \in Seq(Stage)
  BY <1>2, <1>10
<1> DEFINE rfu == r \o fu
<1>12. rfu \in Seq(Stage)
  BY <1>11
<1> HIDE DEF rfu
<1>13. a \o rfu \in Seq(Stage)
  BY <1>2, <1>12
<1> QED BY <1>6, <1>9, <1>12, <1>13 DEF fu, rfu, a, r, to, l

\* What an edge reaches is a vertex or missing.
LEMMA ReachedType ==
  ASSUME NEW edge \in QueryEdge, NEW g \in Data, NEW v \in MaybeVertex
  PROVE  Semantics!Reached(edge, g, v) \in Seq(MaybeVertex)
<1>1. CASE v = None
  BY <1>1 DEF Semantics!Reached, MaybeVertex
<1>2. CASE v # None
  <2>1. v \in Vertex /\ g[v] \in Seq(Vertex) /\ edge.depth \in Nat
    BY <1>2, EdgeFields DEF MaybeVertex, Data
  <2>2. PICK E : AreEnds(E, g, edge.coerceTo, edge.depth)
                 /\ Semantics!Walks(g, edge.coerceTo, edge.depth) = E[edge.depth]
    BY <2>1, WalksEnd
  <2>3. E[edge.depth] \in Data
    BY <2>1, <2>2 DEF AreEnds
  <2>4. Semantics!Walks(g, edge.coerceTo, edge.depth)[v] \in Seq(Vertex)
    BY <2>1, <2>2, <2>3 DEF Data
  <2>5. Seq(Vertex) \subseteq Seq(MaybeVertex) /\ <<None>> \in Seq(MaybeVertex)
    BY SeqMonotonic DEF MaybeVertex
  <2> QED BY <1>2, <2>1, <2>4, <2>5 DEF Semantics!Reached
<1> QED BY <1>1, <1>2

\* The stage makes act of the context, which was m once it was marked.
Activates(op, g, ctx, m, act) ==
  /\ RunsTo(<<op>>, g, <<ctx>>, <<act>>)
  /\ act \in Context /\ act.active = ctx.vertices[op.vid] /\ act.active \in MaybeVertex
  /\ act.vertices = ctx.vertices /\ act.piggyback = << >>
  /\ act.suspended = m.suspended

\* The stage before an edge activates the vertex where it starts.
LEMMA ActivatorRuns ==
  ASSUME NEW g \in Data, NEW ctx \in Context, NEW op \in Stage, op.op = "activate",
         IsVisited(ctx, op.vid), Calm(ctx)
  PROVE  Activates(op, g, ctx, Marked(ctx, op.recursing),
                   ActivateVertex(Marked(ctx, op.recursing), op.vid))
<1> DEFINE vid == op.vid
           m == Marked(ctx, op.recursing)
           act == ActivateVertex(m, vid)
<1>1. vid \in Vid
  BY StageFields
<1>2. m \in Context /\ m.vertices = ctx.vertices /\ m.piggyback = << >>
  BY MarkedType DEF Calm
<1>2a. ctx \in Received(op)
  BY DEF Received, Prepared
<1>2b. Out(op, g, ctx) = <<act>>
  BY DEF Out
<1>2c. RunsTo(<<op>>, g, <<ctx>>, <<act>>)
  <2> HIDE DEF act, m
  <2> QED BY <1>2a, <1>2b, RunsOp
<1> HIDE DEF m
<1>3. IsVisited(m, vid)
  BY <1>2 DEF IsVisited
<1> HIDE DEF vid
<1>4. act \in Context /\ act = Ctx(m.vertices[vid], m.vertices, m.suspended, m.piggyback)
      /\ m.vertices[vid] \in MaybeVertex
  BY <1>1, <1>2, <1>3, ActivateType
<1> HIDE DEF act
<1>5. act.active = ctx.vertices[vid] /\ act.vertices = ctx.vertices /\ act.piggyback = << >>
      /\ act.suspended = m.suspended
  BY <1>2, <1>4 DEF Ctx
<1>6. Activates(op, g, ctx, m, act)
  BY <1>2, <1>2c, <1>4, <1>5 DEF Activates, vid
<1> QED BY <1>6 DEF act, vid, m

IsPair(s, a, b) == s = <<a>> \o <<b>>

\* A sequence of two.
LEMMA PairIs ==
  ASSUME NEW a, NEW b
  PROVE  IsPair(<<a, b>>, a, b)
<1> DEFINE S == {a, b}
           x == <<a>>
           y == <<b>>
           z == <<a, b>>
<1>1. a \in S /\ b \in S
  OBVIOUS
<1> HIDE DEF S
<1>2. x \in Seq(S) /\ y \in Seq(S) /\ z \in Seq(S)
  BY <1>1
<1>3. Joins(z, x, y)
  <2>1. Len(z) = 2 /\ Len(x) = 1 /\ Len(y) = 1
    OBVIOUS
  <2>2. z[1] = a /\ z[2] = b /\ x[1] = a /\ y[1] = b
    OBVIOUS
  <2> HIDE DEF x, y, z
  <2>3. \A k \in 1..Len(x) : z[k] = x[k]
    BY <2>1, <2>2
  <2>4. \A k \in 1..Len(y) : z[Len(x) + k] = y[k]
    BY <2>1, <2>2
  <2> QED BY <2>1, <2>3, <2>4 DEF Joins
<1> HIDE DEF x, y, z
<1>4. z = x \o y
  BY <1>2, <1>3, ConcatIs
<1> QED BY <1>4 DEF x, y, z, IsPair

\* The stages of an edge that is not recursive give what the edge reaches.
LEMMA PlainReaches ==
  ASSUME NEW edge \in QueryEdge, NEW g \in Data, NEW ctx \in Context,
         edge.from \in Vid, IsVisited(ctx, edge.from), Calm(ctx), edge.depth = 0
  PROVE  RunsTo(ExpandNonRecursiveEdge(edge), g, <<ctx>>,
                Moved(ctx, Semantics!Reached(edge, g, ctx.vertices[edge.from])))
<1> DEFINE v == ctx.vertices[edge.from]
           a == Activator(edge.from)
           r == Resolver(edge)
           act == ActivateVertex(ctx, edge.from)
           reached == Semantics!Reached(edge, g, v)
<1>1. /\ RunsTo(<<a>>, g, <<ctx>>, <<act>>)
      /\ act \in Context /\ act.active = v /\ v \in MaybeVertex
      /\ act.vertices = ctx.vertices /\ act.suspended = ctx.suspended
  <2>1. a \in Stage /\ a.op = "activate" /\ a.vid = edge.from /\ ~ a.recursing
    BY MoreOpTypes
  <2> HIDE DEF a
  <2>2. ctx = Marked(ctx, a.recursing)
    BY <2>1 DEF Marked
  <2>3. Activates(a, g, ctx, ctx, act)
    BY <2>1, <2>2, ActivatorRuns
  <2> HIDE DEF act, reached, r
  <2>4. /\ RunsTo(<<a>>, g, <<ctx>>, <<act>>)
        /\ act \in Context /\ act.active = ctx.vertices[a.vid] /\ act.active \in MaybeVertex
        /\ act.vertices = ctx.vertices /\ act.suspended = ctx.suspended
    BY <2>3 DEF Activates
  <2>5. a.vid = edge.from
    BY <2>1
  <2>6. ctx.vertices[a.vid] = v
    BY <2>5
  <2> HIDE DEF v
  <2> QED BY <2>4, <2>6
<1>2. r \in Stage /\ r.op = "neighbors" /\ r.optional = edge.optional
      /\ <<r>> \in Seq(Stage) /\ <<a>> \in Seq(Stage)
  <2>1. r \in Stage /\ a \in Stage
    BY MoreOpTypes, ResolverType
  <2> QED BY <2>1, ResolverType
<1>3. ExpandNonRecursiveEdge(edge) = <<a>> \o <<r>>
  <2>1. ExpandNonRecursiveEdge(edge) = <<a, r>>
    BY DEF ExpandNonRecursiveEdge, Activator, Resolver
  <2>2. <<a, r>> = <<a>> \o <<r>>
    <3>1. IsPair(<<a, r>>, a, r)
      BY PairIs
    <3> QED BY <3>1 DEF IsPair
  <2> QED BY <2>1, <2>2
<1>3a. reached = IF v = None THEN <<None>>
                 ELSE IF g[v] = << >> /\ edge.optional THEN <<None>> ELSE g[v]
  BY DEF Semantics!Reached
<1> HIDE DEF act, v, a, r, reached
<1>4. act \in Received(r)
  BY <1>1, <1>2 DEF Received, Prepared
<1>5. RunsTo(<<r>>, g, <<act>>, AlongEdge(act, Neighbors(g, act), edge.optional))
  <2>1. Out(r, g, act) = AlongEdge(act, Neighbors(g, act), edge.optional)
    BY <1>2 DEF Out
  <2> QED BY <1>2, <1>4, <2>1, RunsOp
<1>6. AlongEdge(act, Neighbors(g, act), edge.optional) = Moved(act, reached)
  <2> DEFINE missing == <<SplitAndMoveToVertex(act, None)>>
  <2>0. /\ Moved(act, <<None>>) = missing /\ Moved(act, << >>) = << >>
        /\ missing \in Seq(Context)
    <3>1. None \in MaybeVertex
      BY DEF MaybeVertex
    <3> QED BY <1>1, <3>1, MoveType DEF Moved
  <2>1. CASE v = None
    <3>1. Neighbors(g, act) = << >>
      BY <1>1, <2>1 DEF Neighbors
    <3>2. AlongEdge(act, << >>, edge.optional) = << >> \o missing
      BY <1>1, <2>0, <2>1 DEF AlongEdge
    <3> HIDE DEF missing
    <3>3. << >> \o missing = missing
      BY <2>0, ConcatEmptySeq
    <3> QED BY <1>3a, <2>0, <2>1, <3>1, <3>2, <3>3
  <2>2. CASE v # None /\ g[v] = << >> /\ edge.optional
    <3>1. Neighbors(g, act) = << >>
      BY <1>1, <2>2 DEF Neighbors
    <3>2. AlongEdge(act, << >>, edge.optional) = << >> \o missing
      BY <1>1, <2>0, <2>2 DEF AlongEdge
    <3> HIDE DEF missing
    <3>3. << >> \o missing = missing
      BY <2>0, ConcatEmptySeq
    <3> QED BY <1>3a, <2>0, <2>2, <3>1, <3>2, <3>3
  <2>3. CASE v # None /\ ~ (g[v] = << >> /\ edge.optional)
    <3>1. Neighbors(g, act) = g[v]
      BY <1>1, <2>3 DEF Neighbors
    <3>2. AlongEdge(act, g[v], edge.optional) = Moved(act, g[v]) \o << >>
      BY <1>1, <2>3 DEF AlongEdge
    <3>3. Moved(act, g[v]) \in Seq(Context)
      <4>1. v \in Vertex
        BY <1>1, <2>3 DEF MaybeVertex
      <4>2. g[v] \in Seq(MaybeVertex)
        BY <4>1 DEF Data, MaybeVertex
      <4> QED BY <1>1, <4>2, MovedType
    <3> DEFINE w == Moved(act, g[v])
    <3> HIDE DEF w
    <3>4. w \o << >> = w
      BY <3>3, ConcatEmptySeq DEF w
    <3> QED BY <1>3a, <2>3, <3>1, <3>2, <3>4 DEF w
  <2> QED BY <2>1, <2>2, <2>3
<1>7. Moved(act, reached) = Moved(ctx, reached)
  BY <1>1, SameMoves
<1>8. RunsTo(<<a>> \o <<r>>, g, <<ctx>>, Moved(ctx, reached))
  BY <1>1, <1>2, <1>5, <1>6, <1>7, RunsThen
<1> QED BY <1>3, <1>8 DEF reached, v

MarkedMissing(ctx) == IF ctx.active = None THEN PushSuspended(ctx, None) ELSE ctx

\* A recursion from a vertex that is there leaves the mark of one that is missing
\* elsewhere in the row.
Base(ctx, edge) ==
  IF edge.depth > 0 /\ ctx.vertices[edge.from] # None THEN MarkedMissing(ctx) ELSE ctx

\* The context that a recursion from a missing vertex starts with.
LEMMA MarkedMissingType ==
  ASSUME NEW ctx \in Context
  PROVE  /\ MarkedMissing(ctx) \in Context
         /\ MarkedMissing(ctx).vertices = ctx.vertices
         /\ MarkedMissing(ctx).piggyback = ctx.piggyback
         /\ \A op : op.recursing => MarkedMissing(ctx) = Marked(ctx, op.recursing)
         /\ ctx.active = None => MarkedMissing(ctx).suspended = Append(ctx.suspended, None)
<1>1. CASE ctx.active = None
  <2> DEFINE m == MarkedMissing(ctx)
             s == Append(ctx.suspended, None)
  <2>1. m = Ctx(ctx.active, ctx.vertices, s, ctx.piggyback)
    BY <1>1, Operations DEF MarkedMissing
  <2>2. s \in Seq(MaybeVertex)
    BY ContextIs, AppendProperties DEF MaybeVertex
  <2>3. \A op : op.recursing => m = Marked(ctx, op.recursing)
    BY <1>1 DEF Marked, MarkedMissing
  <2> HIDE DEF m, s
  <2>4. m \in Context
    BY <2>1, <2>2, ContextIs, CtxIsContext
  <2>5. m.vertices = ctx.vertices /\ m.piggyback = ctx.piggyback /\ m.suspended = s
    BY <2>1 DEF Ctx
  <2> QED BY <2>3, <2>4, <2>5 DEF m, s
<1>2. CASE ctx.active # None
  BY <1>2 DEF Marked, MarkedMissing
<1> QED BY <1>1, <1>2

\* The context that an edge moves to what it reaches.
LEMMA BaseType ==
  ASSUME NEW ctx \in Context, NEW edge, Calm(ctx)
  PROVE  /\ Base(ctx, edge) \in Context /\ Calm(Base(ctx, edge))
         /\ Base(ctx, edge).vertices = ctx.vertices
<1>1. CASE Base(ctx, edge) = ctx
  BY <1>1
<1>2. CASE Base(ctx, edge) = MarkedMissing(ctx)
  <2>1. /\ MarkedMissing(ctx) \in Context /\ MarkedMissing(ctx).vertices = ctx.vertices
        /\ MarkedMissing(ctx).piggyback = << >>
    BY MarkedMissingType DEF Calm
  <2>2. CASE ctx.active = None
    <3>1. Append(ctx.suspended, None) \in Seq({None})
      BY DEF Calm
    <3> QED BY <1>2, <2>1, <2>2, <3>1, MarkedMissingType DEF Calm
  <2>3. CASE ctx.active # None
    BY <2>3 DEF Base, MarkedMissing
  <2> QED BY <2>2, <2>3
<1> QED BY <1>1, <1>2 DEF Base

\* The stages of a recursive edge give what the edge reaches.
LEMMA RecursionReaches ==
  ASSUME NEW edge \in QueryEdge, NEW g \in Data, NEW ctx \in Context,
         edge.from \in Vid, IsVisited(ctx, edge.from), Calm(ctx), edge.depth > 0,
         ctx.vertices[edge.from] = None => ctx.active = None
  PROVE  RunsTo(ExpandRecursiveEdge(edge), g, <<ctx>>,
                Moved(Base(ctx, edge), Semantics!Reached(edge, g, ctx.vertices[edge.from])))
<1> DEFINE v == ctx.vertices[edge.from]
           a == RecursionActivator(edge.from)
           m == MarkedMissing(ctx)
           act == ActivateVertex(m, edge.from)
           to == edge.coerceTo
           depth == edge.depth
           l == depth - 1
           reached == Semantics!Reached(edge, g, v)
           rest == <<Recurser>> \o Rest(to, l)
<1>1. /\ RunsTo(<<a>>, g, <<ctx>>, <<act>>)
      /\ act \in Context /\ act.active = v /\ v \in MaybeVertex
      /\ act.vertices = ctx.vertices /\ act.piggyback = << >>
      /\ act.suspended = m.suspended
  <2>1. a \in Stage /\ a.op = "activate" /\ a.vid = edge.from /\ a.recursing
    BY MoreOpTypes
  <2> HIDE DEF a
  <2>2. m = Marked(ctx, a.recursing)
    BY <2>1, MarkedMissingType
  <2> HIDE DEF m
  <2>3. Activates(a, g, ctx, m, act)
    BY <2>1, <2>2, ActivatorRuns
  <2> HIDE DEF act
  <2> QED BY <2>1, <2>3 DEF Activates
<1>2. /\ ExpandRecursiveEdge(edge) = <<a>> \o rest
      /\ rest \in Seq(Stage) /\ <<a>> \in Seq(Stage)
  <2>1. a \in Stage
    BY MoreOpTypes
  <2>2. <<a>> \in Seq(Stage)
    <3> HIDE DEF a
    <3> QED BY <2>1
  <2> QED BY <2>2, RecursiveStages
<1>3. depth \in Nat /\ to \in {None} \cup SUBSET Vertex
  BY EdgeFields
<1>4. PICK E : AreEnds(E, g, to, depth) /\ Semantics!Walks(g, to, depth) = E[depth]
  <2> HIDE DEF depth, to
  <2> QED BY <1>3, WalksEnd
<1>5. l \in 0..depth /\ l + 1 = depth /\ l + 1 \in 0..depth
  BY <1>3
<1>6. v # None => reached = E[depth][v]
  BY <1>4 DEF Semantics!Reached
<1>7. v = None => reached = <<None>>
  BY DEF Semantics!Reached
<1>8. v # None => Base(ctx, edge) = m
  BY DEF Base
<1>9. v = None => Base(ctx, edge) = ctx
  BY DEF Base
<1>10. m \in Context /\ m.vertices = ctx.vertices
  BY MarkedMissingType
<1>11. v = None => m.suspended = Append(ctx.suspended, None)
  BY MarkedMissingType
<1>12. GoesOn(rest, g, E[depth])
  <2> HIDE DEF depth
  <2>1. \A k \in 0..depth : k + 1 \in 0..depth => GoesOn(<<Recurser>> \o Rest(to, k), g, E[k + 1])
    <3> HIDE DEF to
    <3> QED BY <1>3, <1>4, RestGoesOn
  <2> HIDE DEF l
  <2> QED BY <1>5, <2>1
<1> HIDE DEF v, a, m, act, rest, depth, reached
<1>13. Unsuspendable(act.piggyback) /\ Unsuspended(act.piggyback) = << >>
  BY <1>1, UnsuspendedEmpty
<1>14. ASSUME NEW out \in Seq(Context), Leaves(g, rest, act, out)
       PROVE  RunsTo(<<a>> \o rest, g, <<ctx>>, out)
  <2>1. << >> \o out = out
    BY ConcatEmptySeq
  <2>2. RunsTo(rest, g, <<act>>, out)
    BY <1>13, <1>14, <2>1 DEF Leaves
  <2> QED BY <1>1, <1>2, <2>2, RunsThen
<1>15. CASE v # None
  <2>1. Leaves(g, rest, act, Moved(act, E[depth][v]))
    BY <1>1, <1>12, <1>13, <1>15 DEF GoesOn
  <2>2. Moved(act, E[depth][v]) = Moved(m, reached)
    BY <1>1, <1>6, <1>10, <1>15, SameMoves
  <2>3. reached \in Seq(MaybeVertex)
    BY <1>1, ReachedType DEF reached
  <2>4. Moved(m, reached) \in Seq(Context)
    BY <1>10, <2>3, MovedType
  <2>5. RunsTo(<<a>> \o rest, g, <<ctx>>, Moved(m, reached))
    BY <1>14, <2>1, <2>2, <2>4
  <2> QED BY <1>2, <1>8, <1>15, <2>5 DEF reached, v
<1>16. CASE v = None
  <2> DEFINE s == ctx.suspended
             n == Len(s)
             b == Bare(act)
             c == EnsureUnsuspended(b)
  <2>1. act.suspended = Append(s, None) /\ s \in Seq(MaybeVertex)
    BY <1>1, <1>11, <1>16, ContextIs
  <2>2. /\ Len(Append(s, None)) = n + 1 /\ Append(s, None)[n + 1] = None
        /\ SubSeq(Append(s, None), 1, n) = s /\ n \in Nat /\ Append(s, None) # << >>
    BY <2>1
  <2>3. CanUnsuspend(act)
    BY <2>1, <2>2 DEF CanUnsuspend
  <2>4. Leaves(g, rest, act, <<c>>)
    BY <1>1, <1>12, <1>13, <1>16, <2>3 DEF GoesOn
  <2>5. b \in Context /\ b.active = None /\ b.vertices = ctx.vertices
        /\ b.suspended = act.suspended /\ b.piggyback = << >>
    BY <1>1, <1>16, BareType
  <2> HIDE DEF b
  <2>6. c = Ctx(b.suspended[Len(b.suspended)], b.vertices, SubSeq(b.suspended, 1, Len(b.suspended) - 1), b.piggyback)
    BY <2>5, Operations
  <2>7. c = Ctx(None, ctx.vertices, s, << >>)
    <3> HIDE DEF c, s, n
    <3>1. (n + 1) - 1 = n
      BY <2>2
    <3> QED BY <2>1, <2>2, <2>5, <2>6, <3>1
  <2>8. None \in MaybeVertex /\ SplitAndMoveToVertex(ctx, None) = c
    BY <2>7, Operations DEF MaybeVertex
  <2>9. Moved(ctx, <<None>>) = <<c>> /\ c \in Context
    <3> HIDE DEF c
    <3> QED BY <2>8, MoveType DEF Moved
  <2>10. RunsTo(<<a>> \o rest, g, <<ctx>>, <<c>>)
    <3>1. <<c>> \in Seq(Context)
      BY <2>9
    <3> DEFINE out == <<c>>
    <3> HIDE DEF c, out
    <3>2. RunsTo(<<a>> \o rest, g, <<ctx>>, out)
      BY <1>14, <2>4, <3>1 DEF out
    <3> QED BY <3>2 DEF out
  <2> HIDE DEF c
  <2> QED BY <1>2, <1>7, <1>9, <1>16, <2>9, <2>10 DEF reached, v
<1> QED BY <1>15, <1>16

\* The stages of an edge move a context to all that the edge reaches from the
\* vertex it starts at.
LEMMA ExpansionReaches ==
  ASSUME NEW edge \in QueryEdge, NEW g \in Data, NEW ctx \in Context,
         edge.from \in Vid, IsVisited(ctx, edge.from), Calm(ctx),
         ctx.vertices[edge.from] = None => ctx.active = None
  PROVE  /\ Expansion(edge) \in Seq(Stage)
         /\ RunsTo(Expansion(edge), g, <<ctx>>,
                   Moved(Base(ctx, edge), Semantics!Reached(edge, g, ctx.vertices[edge.from])))
<1>1. CASE edge.depth > 0
  BY <1>1, RecursionReaches, RecursiveStages DEF Expansion
<1>2. CASE ~ edge.depth > 0
  <2>1. edge.depth = 0
    BY <1>2, EdgeFields
  <2>2. Expansion(edge) = ExpandNonRecursiveEdge(edge) /\ Base(ctx, edge) = ctx
    BY <1>2 DEF Expansion, Base
  <2>3. ExpandNonRecursiveEdge(edge) = <<Activator(edge.from), Resolver(edge)>>
    BY DEF ExpandNonRecursiveEdge, Activator, Resolver
  <2>4. Activator(edge.from) \in Stage /\ Resolver(edge) \in Stage
    BY MoreOpTypes, ResolverType
  <2>5. ExpandNonRecursiveEdge(edge) \in Seq(Stage)
    BY <2>3, <2>4
  <2> QED BY <2>1, <2>2, <2>5, PlainReaches
<1> QED BY <1>1, <1>2

Checks(checks) == [i \in 1..Len(checks) |-> Checker(checks[i])]

\* The stages of some checks.
LEMMA ChecksType ==
  ASSUME NEW checks \in Seq(SUBSET MaybeVertex)
  PROVE  /\ Checks(checks) \in Seq(Stage) /\ Len(Checks(checks)) = Len(checks)
         /\ \A i \in 1..Len(checks) : /\ checks[i] \in SUBSET MaybeVertex
                                      /\ Checks(checks)[i] \in Stage
                                      /\ Checks(checks)[i].op = "check"
                                      /\ Checks(checks)[i].accepts = checks[i]
<1>1. \A i \in 1..Len(checks) : checks[i] \in SUBSET MaybeVertex
  BY ElementOfSeq
<1>2. \A i \in 1..Len(checks) : /\ Checker(checks[i]) \in Stage
                                /\ Checker(checks[i]).op = "check"
                                /\ Checker(checks[i]).accepts = checks[i]
  BY <1>1, MoreOpTypes
<1>3. Checks(checks) \in Seq(Stage) /\ Len(Checks(checks)) = Len(checks)
      /\ \A i \in 1..Len(checks) : Checks(checks)[i] = Checker(checks[i])
  BY <1>2 DEF Checks
<1> QED BY <1>1, <1>2, <1>3

\* The stages at entry into a vertex.
LEMMA EnterStages ==
  ASSUME NEW vid \in Vid, NEW checks \in Seq(SUBSET MaybeVertex)
  PROVE  /\ EnterVertex(vid, checks) = Checks(checks) \o <<Recorder(vid)>>
         /\ EnterVertex(vid, checks) \in Seq(Stage)
<1>1. DOMAIN checks = 1..Len(checks)
  OBVIOUS
<1>2. [i \in DOMAIN checks |-> [op |-> "check", accepts |-> checks[i]]] = Checks(checks)
  BY <1>1 DEF Checks, Checker
<1> DEFINE c == Checks(checks)
           r == Recorder(vid)
<1>3. EnterVertex(vid, checks) = Append(c, r)
  BY <1>2 DEF EnterVertex, Recorder
<1>4. c \in Seq(Stage) /\ r \in Stage
  BY ChecksType, MoreOpTypes
<1> HIDE DEF c, r
<1>5. Append(c, r) = c \o <<r>> /\ Append(c, r) \in Seq(Stage)
  BY <1>4, AppendIsConcat, AppendProperties
<1> QED BY <1>3, <1>5 DEF c, r

IsPassed(ctx, checks, k) == \A i \in 1..k : ctx.active \in checks[i]

\* Checks let a context through that passes them all.
LEMMA ChecksRun ==
  ASSUME NEW g \in Data, NEW ctx \in Context, NEW checks \in Seq(SUBSET MaybeVertex)
  PROVE  RunsTo(Checks(checks), g, <<ctx>>,
                IF Semantics!Passes(ctx.active, checks) THEN <<ctx>> ELSE << >>)
<1> DEFINE n == Len(checks)
           ops == Checks(checks)
           T == [k \in 0..n |-> IF IsPassed(ctx, checks, k) THEN <<ctx>> ELSE << >>]
<1>0. n \in Nat /\ DOMAIN checks = 1..n
  OBVIOUS
<1>1. ops \in Seq(Stage) /\ Len(ops) = n
      /\ \A i \in 1..n : ops[i] \in Stage /\ ops[i].op = "check" /\ ops[i].accepts = checks[i]
  BY ChecksType
<1>2. T \in [0..n -> Seq(Context)]
  OBVIOUS
<1> HIDE DEF ops
<1>3. ASSUME NEW k \in 1..n
      PROVE  T[k - 1] \in Seq(Received(ops[k])) /\ T[k] = Each(ops[k], g, T[k - 1])
  <2> DEFINE op == ops[k]
  <2>1. k - 1 \in 0..n /\ k \in 0..n
    BY <1>0
  <2>2. op \in Stage /\ op.op = "check" /\ op.accepts = checks[k]
    BY <1>1
  <2>3. IsPassed(ctx, checks, k) <=> IsPassed(ctx, checks, k - 1) /\ ctx.active \in checks[k]
    <3>1. \A i : i \in 1..k <=> i \in 1..(k - 1) \/ i = k
      OBVIOUS
    <3> QED BY <3>1 DEF IsPassed
  <2> HIDE DEF op
  <2>4. ctx \in Received(op)
    BY <2>2 DEF Received, Prepared
  <2>5. <<ctx>> \in Seq(Received(op)) /\ << >> \in Seq(Received(op))
    BY <2>4
  <2>6. T[k - 1] \in Seq(Received(op))
    BY <2>1, <2>5
  <2>7. CASE IsPassed(ctx, checks, k - 1)
    <3>1. T[k - 1] = <<ctx>>
      BY <2>1, <2>7
    <3>2. Each(op, g, <<ctx>>) = Out(op, g, ctx)
      BY <2>2, <2>4, EachOne
    <3>3. Out(op, g, ctx) = IF ctx.active \in checks[k] THEN <<ctx>> ELSE << >>
      BY <2>2 DEF Out
    <3>4. T[k] = IF ctx.active \in checks[k] THEN <<ctx>> ELSE << >>
      BY <2>1, <2>3, <2>7
    <3> HIDE DEF T
    <3> QED BY <2>6, <3>1, <3>2, <3>3, <3>4 DEF op
  <2>8. CASE ~ IsPassed(ctx, checks, k - 1)
    <3>1. T[k - 1] = << >> /\ T[k] = << >>
      BY <2>1, <2>3, <2>8
    <3>2. Each(op, g, << >>) = << >>
      BY EachNone
    <3> HIDE DEF T
    <3> QED BY <2>6, <3>1, <3>2 DEF op
  <2> QED BY <2>7, <2>8
<1>4. T[0] = <<ctx>>
  <2>1. IsPassed(ctx, checks, 0)
    BY DEF IsPassed
  <2> QED BY <1>0, <2>1
<1>5. T[n] = IF Semantics!Passes(ctx.active, checks) THEN <<ctx>> ELSE << >>
  <2>1. IsPassed(ctx, checks, n) <=> Semantics!Passes(ctx.active, checks)
    BY <1>0 DEF IsPassed, Semantics!Passes
  <2> QED BY <1>0, <2>1
<1> HIDE DEF T
<1>6. IsRun(T, ops, g)
  BY <1>1, <1>2, <1>3 DEF IsRun
<1> QED BY <1>1, <1>4, <1>5, <1>6 DEF RunsTo, ops

\* A vertex is recorded if it passes its coercion and its filters.
LEMMA EnterRuns ==
  ASSUME NEW g \in Data, NEW ctx \in Context, NEW vid \in Vid,
         NEW checks \in Seq(SUBSET MaybeVertex), ~ IsVisited(ctx, vid), Calm(ctx)
  PROVE  RunsTo(EnterVertex(vid, checks), g, <<ctx>>,
                IF Semantics!Passes(ctx.active, checks) THEN <<RecordVertex(ctx, vid)>> ELSE << >>)
<1> DEFINE c == Checks(checks)
           op == Recorder(vid)
           rec == RecordVertex(ctx, vid)
           passes == Semantics!Passes(ctx.active, checks)
<1>1. EnterVertex(vid, checks) = c \o <<op>> /\ c \in Seq(Stage)
  BY EnterStages, ChecksType
<1>2. op \in Stage /\ op.op = "record" /\ op.vid = vid
  BY MoreOpTypes
<1>3. RunsTo(c, g, <<ctx>>, IF passes THEN <<ctx>> ELSE << >>)
  BY ChecksRun
<1> HIDE DEF c, op, passes
<1>4. <<op>> \in Seq(Stage)
  BY <1>2
<1>5. CASE passes
  <2>1. ctx \in Received(op)
    BY <1>2 DEF Received, Prepared
  <2>2. Out(op, g, ctx) = <<rec>>
    BY <1>2 DEF Out
  <2>3. RunsTo(<<op>>, g, <<ctx>>, <<rec>>)
    BY <1>2, <2>1, <2>2, RunsOp
  <2>4. RunsTo(c, g, <<ctx>>, <<ctx>>)
    BY <1>3, <1>5
  <2> HIDE DEF rec
  <2>5. RunsTo(c \o <<op>>, g, <<ctx>>, <<rec>>)
    BY <1>1, <1>4, <2>3, <2>4, RunsThen
  <2> QED BY <1>1, <1>5, <2>5 DEF passes, rec
<1>6. CASE ~ passes
  <2>1. RunsTo(<<op>>, g, << >>, << >>)
    BY <1>4, RunsNothing
  <2>2. RunsTo(c, g, <<ctx>>, << >>)
    BY <1>3, <1>6
  <2>3. RunsTo(c \o <<op>>, g, <<ctx>>, << >>)
    BY <1>1, <1>4, <2>1, <2>2, RunsThen
  <2> QED BY <1>1, <1>6, <2>3 DEF passes
<1> QED BY <1>5, <1>6

-----------------------------------------------------------------------------
(* Rows.                                                                   *)

Rowed(n) == [1..n -> MaybeVertex]

Row(ctx, n) == [vid \in 1..n |-> ctx.vertices[vid]]

\* The context has reached Vid n of the plan: it recorded the Vids up to n, and
\* what lies below a missing vertex is missing.
Stands(ctx, p, n) ==
  /\ ctx \in Context /\ Calm(ctx)
  /\ \A vid \in Vid : IsVisited(ctx, vid) <=> vid \in 1..n
  /\ ctx.active = ctx.vertices[n]
  /\ \A vid \in 2..n : ctx.vertices[p.edges[vid - 1].from] = None => ctx.vertices[vid] = None

\* The fields of a plan.
LEMMA PlanFields ==
  ASSUME NEW p \in Plans
  PROVE  /\ p.checks \in Seq(SUBSET MaybeVertex)
         /\ p.edges \in Seq(QueryEdge) /\ Len(p.edges) \in Nat
         /\ \A vid \in 1..Len(p.edges) + 1 : vid \in Vid
         /\ \A e \in 1..Len(p.edges) :
              /\ p.edges[e] \in QueryEdge
              /\ p.edges[e].from \in 1..e /\ p.edges[e].from \in Vid
              /\ p.edges[e].checks \in Seq(SUBSET MaybeVertex)
              /\ \A vid \in p.edges[e].from + 1..e : p.edges[vid - 1].from >= p.edges[e].from
<1>1. /\ p.checks \in Seq(SUBSET MaybeVertex)
      /\ p.edges \in Seq(QueryEdge)
      /\ 1..Len(p.edges) + 1 \subseteq Vid
      /\ \A e \in DOMAIN p.edges : p.edges[e].from \in 1..e
      /\ Semantics!DepthFirst(p.edges)
  BY ExecutionAssumption
<1> DEFINE edges == p.edges
           n == Len(edges)
<1>2. DOMAIN edges = 1..n /\ n \in Nat
  BY <1>1
<1>3. \A e \in 1..n : edges[e] \in QueryEdge
  BY <1>1, ElementOfSeq
<1>4. \A e \in 1..n : \A vid \in edges[e].from + 1..e : edges[vid - 1].from >= edges[e].from
  BY <1>1, <1>2 DEF Semantics!DepthFirst
<1>5. \A e \in 1..n : edges[e].from \in 1..e
  BY <1>1, <1>2
<1>6. \A e \in 1..n : edges[e].from \in 1..n + 1
  BY <1>2, <1>5
<1> HIDE DEF edges, n
<1>7. \A e \in 1..n : edges[e].from \in Vid /\ edges[e].checks \in Seq(SUBSET MaybeVertex)
  BY <1>1, <1>3, <1>6, EdgeFields DEF edges, n
<1> QED BY <1>1, <1>2, <1>3, <1>4, <1>5, <1>7 DEF edges, n

\* Below a missing vertex there is no active one.
LEMMA BelowMissing ==
  ASSUME NEW p \in Plans, NEW e \in 1..Len(p.edges), NEW ctx, Stands(ctx, p, e),
         ctx.vertices[p.edges[e].from] = None
  PROVE  ctx.active = None
<1> DEFINE f == p.edges[e].from
           v == ctx.vertices
           Missing(vid) == v[vid] = None
           N == {k \in 0..e - f : \A vid \in f..f + k : Missing(vid)}
<1>1. /\ f \in 1..e /\ e \in Nat
      /\ \A vid \in f + 1..e : p.edges[vid - 1].from >= f
  BY PlanFields
<1>2. \A vid \in 2..e : p.edges[vid - 1].from \in 1..vid - 1
  <2> HIDE DEF f, v, Missing, N
  <2> SUFFICES ASSUME NEW vid \in 2..e PROVE p.edges[vid - 1].from \in 1..(vid - 1)
    OBVIOUS
  <2> DEFINE n == Len(p.edges)
  <2>1. n \in Nat /\ e \in 1..n
    BY PlanFields
  <2> HIDE DEF n
  <2>2. vid - 1 \in 1..n
    BY <2>1
  <2> DEFINE d == vid - 1
  <2>3. d \in 1..Len(p.edges)
    BY <2>2 DEF n
  <2> HIDE DEF d
  <2>4. p.edges[d].from \in 1..d
    BY <2>3, PlanFields
  <2> QED BY <2>4 DEF d
<1>3. \A vid \in 2..e : Missing(p.edges[vid - 1].from) => Missing(vid)
  BY DEF Stands
<1>4. Missing(f)
  OBVIOUS
<1>5. e - f \in Nat
  BY <1>1
<1> HIDE DEF f, v, Missing
<1>6. 0 \in N
  BY <1>1, <1>4, <1>5
<1>7. \A k \in N : k \in 0..(e - f) - 1 => k + 1 \in N
  <2> SUFFICES ASSUME NEW k \in 0..(e - f) - 1, \A vid \in f..f + k : Missing(vid)
               PROVE  k + 1 \in 0..e - f /\ \A vid \in f..f + (k + 1) : Missing(vid)
    OBVIOUS
  <2> DEFINE w == f + (k + 1)
  <2>1. w \in 2..e /\ w \in f + 1..e /\ w - 1 = f + k
    BY <1>1
  <2>2. p.edges[w - 1].from \in f..f + k
    <3> DEFINE x == p.edges[w - 1].from
    <3> HIDE DEF w
    <3>1. x >= f
      BY <1>1, <2>1
    <3>2. x \in 1..w - 1
      BY <1>2, <2>1
    <3> HIDE DEF x
    <3>3. x \in f..f + k
      BY <1>1, <2>1, <3>1, <3>2
    <3> QED BY <3>3 DEF x
  <2>3. Missing(w)
    BY <1>3, <2>1, <2>2
  <2>4. \A vid \in f..w : vid \in f..f + k \/ vid = w
    BY <1>1
  <2>5. k + 1 \in 0..e - f
    BY <1>5
  <2> QED BY <2>3, <2>4, <2>5
<1>8. e - f \in N
  <2> HIDE DEF N
  <2>1. 0..e - f \subseteq N
    BY <1>5, <1>6, <1>7, BoundedInduction
  <2> QED BY <1>5, <2>1
<1>9. Missing(e)
  <2>1. f + (e - f) = e /\ e \in f..e
    BY <1>1
  <2> QED BY <1>8, <2>1
<1> QED BY <1>9 DEF Missing, v, Stands

\* A vertex enters the row at Vid d.
Entered(ctx, d) == [x \in MaybeVertex |-> RecordVertex(SplitAndMoveToVertex(ctx, x), d)]

RowFn(n) == [ctx \in Context |-> Row(ctx, n)]

\* A context that enters a vertex records it.
LEMMA EnteredType ==
  ASSUME NEW b \in Context, NEW d \in Vid
  PROVE  /\ IsMap(Entered(b, d), MaybeVertex, Context)
         /\ \A x \in MaybeVertex :
              LET c == Entered(b, d)[x]
              IN  /\ c = RecordVertex(SplitAndMoveToVertex(b, x), d) /\ c \in Context
                  /\ c.active = x /\ c.vertices = With(b.vertices, d, x)
                  /\ c.suspended = b.suspended /\ c.piggyback = << >>
<1>1. ASSUME NEW x \in MaybeVertex
      PROVE  LET c == RecordVertex(SplitAndMoveToVertex(b, x), d)
             IN  /\ c \in Context
                 /\ c.active = x /\ c.vertices = With(b.vertices, d, x)
                 /\ c.suspended = b.suspended /\ c.piggyback = << >>
  <2> DEFINE m == SplitAndMoveToVertex(b, x)
             c == RecordVertex(m, d)
  <2>1. /\ m \in Context /\ m.active = x /\ m.vertices = b.vertices
        /\ m.suspended = b.suspended /\ m.piggyback = << >>
    BY MoveType
  <2> HIDE DEF m
  <2>2. c \in Context /\ c = Ctx(m.active, With(m.vertices, d, m.active), m.suspended, m.piggyback)
    BY <2>1, RecordType
  <2> HIDE DEF c
  <2>3. /\ c.active = x /\ c.vertices = With(b.vertices, d, x)
        /\ c.suspended = b.suspended /\ c.piggyback = << >>
    BY <2>1, <2>2 DEF Ctx
  <2> QED BY <2>2, <2>3 DEF c, m
<1>2. \A x \in MaybeVertex : Entered(b, d)[x] = RecordVertex(SplitAndMoveToVertex(b, x), d)
  BY DEF Entered
<1>3. IsMap(Entered(b, d), MaybeVertex, Context)
  BY <1>1 DEF Entered, IsMap
<1> QED BY <1>1, <1>2, <1>3

\* Passing(), one vertex at a time.
LEMMA PassingIs ==
  ASSUME NEW X, NEW s \in Seq(X), NEW checks
  PROVE  LET picks == [k \in 1..Len(s) |-> IF Semantics!Passes(s[k], checks) THEN <<s[k]>> ELSE << >>]
         IN  /\ picks \in Seq(Seq(X))
             /\ Semantics!Passing(s, checks) = FlattenSeq(picks)
             /\ Semantics!Passing(s, checks) \in Seq(X)
<1> DEFINE picks == [k \in 1..Len(s) |-> IF Semantics!Passes(s[k], checks) THEN <<s[k]>> ELSE << >>]
<1>1. picks \in Seq(Seq(X))
  <2>1. \A k \in 1..Len(s) : <<s[k]>> \in Seq(X) /\ << >> \in Seq(X)
    BY ElementOfSeq
  <2> QED BY <2>1
<1>2. DOMAIN s = 1..Len(s)
  OBVIOUS
<1>3. Semantics!Passing(s, checks) = Semantics!FlattenSeq(picks)
  BY <1>2 DEF Semantics!Passing, Semantics!MapFlat
<1> HIDE DEF picks
<1>4. Semantics!Passing(s, checks) = FlattenSeq(picks) /\ FlattenSeq(picks) \in Seq(X)
  BY <1>1, <1>3, SameFlatten, FlattenType
<1> QED BY <1>1, <1>4 DEF picks

\* A context that enters another Vid stands there, and its row is longer by
\* the vertex it entered with.
LEMMA EnteredStands ==
  ASSUME NEW p \in Plans, NEW e \in 1..Len(p.edges), NEW ctx, Stands(ctx, p, e),
         NEW b \in Context, Calm(b), b.vertices = ctx.vertices, NEW x \in MaybeVertex,
         ctx.vertices[p.edges[e].from] = None => x = None
  PROVE  /\ Stands(Entered(b, e + 1)[x], p, e + 1)
         /\ Row(Entered(b, e + 1)[x], e + 1) = Append(Row(ctx, e), x)
         /\ Row(ctx, e) \in Rowed(e) /\ Append(Row(ctx, e), x) \in Rowed(e + 1)
<1> DEFINE d == e + 1
           c == Entered(b, d)[x]
           v == ctx.vertices
           n == Len(p.edges)
<1>1. d \in Vid /\ d \in 1..n + 1 /\ e \in 1..n /\ n \in Nat
  <2>1. n \in Nat /\ d \in 1..n + 1
    BY PlanFields
  <2> HIDE DEF d
  <2> QED BY <2>1, PlanFields
<1>2. /\ c \in Context /\ c.active = x /\ c.vertices = With(v, d, x)
      /\ c.suspended = b.suspended /\ c.piggyback = << >>
  <2> HIDE DEF d
  <2>1. /\ c \in Context /\ c.active = x /\ c.vertices = With(b.vertices, d, x)
        /\ c.suspended = b.suspended /\ c.piggyback = << >>
    BY <1>1, EnteredType
  <2> QED BY <2>1
<1>3. v \in Recorded /\ \A vid \in Vid : v[vid] # Unvisited <=> vid \in 1..e
  BY ContextIs DEF Stands, IsVisited
<1> HIDE DEF c, v, n
<1>4. \A vid \in Vid : c.vertices[vid] = IF vid = d THEN x ELSE v[vid]
  BY <1>1, <1>2, <1>3 DEF With, Recorded
<1>5. x # Unvisited
  BY ContextAssumption DEF MaybeVertex
<1>6. \A vid \in 1..n + 1 : vid \in Vid
  BY PlanFields DEF n
<1>7. \A vid \in Vid : IsVisited(c, vid) <=> vid \in 1..d
  <2> SUFFICES ASSUME NEW vid \in Vid PROVE c.vertices[vid] # Unvisited <=> vid \in 1..d
    BY DEF IsVisited
  <2>1. CASE vid = d
    BY <1>1, <1>4, <1>5, <2>1
  <2>2. CASE vid # d
    <3>1. vid \in 1..d <=> vid \in 1..e
      BY <1>1, <2>2
    <3> QED BY <1>3, <1>4, <2>2, <3>1
  <2> QED BY <2>1, <2>2
<1>8. ASSUME NEW vid \in 2..d, c.vertices[p.edges[vid - 1].from] = None
      PROVE  c.vertices[vid] = None
  <2> DEFINE k == vid - 1
             f == p.edges[k].from
  <2>1. k \in 1..n /\ vid \in Vid /\ k \in 1..e
    BY <1>1, <1>6
  <2>2. f \in 1..k /\ f \in Vid
    <3> HIDE DEF k
    <3> QED BY <2>1, PlanFields DEF n
  <2>3. f # d
    BY <1>1, <2>1, <2>2
  <2>4. v[f] = None
    <3>1. c.vertices[f] = None
      BY <1>8
    <3> HIDE DEF f, d
    <3> QED BY <1>4, <2>2, <2>3, <3>1
  <2>5. CASE vid = d
    <3>1. k = e
      BY <1>1, <2>5
    <3>2. x = None
      BY <2>4, <3>1 DEF v
    <3> QED BY <1>4, <2>1, <2>5, <3>2
  <2>6. CASE vid # d
    <3>1. vid \in 2..e
      BY <1>1, <2>6
    <3>2. \A w \in 2..e : v[p.edges[w - 1].from] = None => v[w] = None
      BY DEF Stands, v
    <3>3. v[vid] = None
      BY <2>4, <3>1, <3>2
    <3> QED BY <1>4, <2>1, <2>6, <3>3
  <2> QED BY <2>5, <2>6
<1>9. Calm(c)
  BY <1>2 DEF Calm
<1>10. c.active = c.vertices[d]
  BY <1>1, <1>2, <1>4
<1>11. Stands(c, p, d)
  <2> HIDE DEF d
  <2> QED BY <1>2, <1>7, <1>8, <1>9, <1>10 DEF Stands
<1>12. \A vid \in 1..e : v[vid] \in MaybeVertex /\ vid \in Vid
  BY <1>1, <1>3, <1>6 DEF Recorded
<1> DEFINE r == Row(ctx, e)
<1>13. r \in Seq(MaybeVertex) /\ Len(r) = e /\ r \in Rowed(e) /\ \A vid \in 1..e : r[vid] = v[vid]
  BY <1>1, <1>12 DEF Row, Rowed, v
<1> HIDE DEF r
<1>14. /\ Append(r, x) \in Seq(MaybeVertex) /\ Len(Append(r, x)) = d
       /\ Append(r, x)[d] = x /\ \A vid \in 1..e : Append(r, x)[vid] = r[vid]
       /\ DOMAIN Append(r, x) = 1..d
  <2>1. /\ Append(r, x) \in Seq(MaybeVertex) /\ Len(Append(r, x)) = d
        /\ Append(r, x)[d] = x /\ \A vid \in 1..e : Append(r, x)[vid] = r[vid]
    BY <1>1, <1>13, AppendProperties
  <2>2. DOMAIN Append(r, x) = 1..d
    BY <2>1
  <2> QED BY <2>1, <2>2
<1>15. Append(r, x) = [vid \in 1..d |-> Append(r, x)[vid]]
  <2> DEFINE a == Append(r, x)
  <2>1. a \in Seq(MaybeVertex) /\ DOMAIN a = 1..d
    BY <1>14
  <2> HIDE DEF a
  <2>2. a = [vid \in DOMAIN a |-> a[vid]]
    BY <2>1
  <2> QED BY <2>1, <2>2 DEF a
<1>16. \A vid \in 1..d : Append(r, x)[vid] = c.vertices[vid]
  <2> SUFFICES ASSUME NEW vid \in 1..d PROVE Append(r, x)[vid] = c.vertices[vid]
    OBVIOUS
  <2>1. CASE vid = d
    BY <1>1, <1>4, <1>14, <2>1
  <2>2. CASE vid # d
    <3>1. vid \in 1..e
      BY <1>1, <2>2
    <3>2. vid \in Vid
      BY <1>12, <3>1
    <3> QED BY <1>4, <1>13, <1>14, <2>2, <3>1, <3>2
  <2> QED BY <2>1, <2>2
<1>17. Row(c, d) = Append(r, x)
  BY <1>15, <1>16 DEF Row
<1>18. Append(r, x) \in Rowed(d)
  <2> DEFINE a == Append(r, x)
  <2>1. \A vid \in 1..d : a[vid] \in MaybeVertex
    BY <1>14, ElementOfSeq
  <2> HIDE DEF a
  <2>2. [vid \in 1..d |-> a[vid]] \in Rowed(d)
    BY <2>1 DEF Rowed
  <2> QED BY <1>15, <2>2 DEF a
<1> QED BY <1>11, <1>13, <1>17, <1>18 DEF c, r, d

\* The stages of an edge make of a context what extends its row.
LEMMA EdgeExtends ==
  ASSUME NEW p \in Plans, NEW e \in 1..Len(p.edges), NEW g \in Data, NEW ctx, Stands(ctx, p, e)
  PROVE  \E s \in Seq(Context) :
           /\ ExpandEdge(e, p.edges[e]) \in Seq(Stage)
           /\ RunsTo(ExpandEdge(e, p.edges[e]), g, <<ctx>>, s)
           /\ \A k \in 1..Len(s) : Stands(s[k], p, e + 1)
           /\ Image(RowFn(e + 1), s) = Semantics!ExtendRow(Row(ctx, e), p.edges[e], g)
           /\ Row(ctx, e) \in Rowed(e)
           /\ Semantics!ExtendRow(Row(ctx, e), p.edges[e], g) \in Seq(Rowed(e + 1))
<1> DEFINE edge == p.edges[e]
           checks == edge.checks
           from == edge.from
           v == ctx.vertices[from]
           d == e + 1
           b == Base(ctx, edge)
           reached == Semantics!Reached(edge, g, v)
           targets == Semantics!Passing(reached, checks)
           F == Entered(b, d)
           s == Image(F, targets)
           X == IF v = None THEN {None} ELSE MaybeVertex
           picks == [k \in 1..Len(reached) |->
                       IF Semantics!Passes(reached[k], checks) THEN <<reached[k]>> ELSE << >>]
           outs == [k \in 1..Len(picks) |-> Image(F, picks[k])]
<1>1. /\ edge \in QueryEdge /\ from \in 1..e /\ from \in Vid
      /\ checks \in Seq(SUBSET MaybeVertex)
  BY PlanFields
<1>2. d \in Vid /\ e \in Nat
  <2>1. d \in 1..Len(p.edges) + 1 /\ e \in Nat
    BY PlanFields
  <2> HIDE DEF d
  <2> QED BY <2>1, PlanFields
<1>3. ctx \in Context /\ Calm(ctx) /\ IsVisited(ctx, from) /\ ~ IsVisited(ctx, d)
  <2>1. d \notin 1..e
    BY <1>2
  <2> HIDE DEF d, from
  <2> QED BY <1>1, <1>2, <2>1 DEF Stands
<1>4. b \in Context /\ Calm(b) /\ b.vertices = ctx.vertices
  BY <1>3, BaseType
<1>5. v = None => ctx.active = None
  BY BelowMissing
<1>6. v \in MaybeVertex
  BY <1>1, <1>3, ActivateType
<1>7. reached \in Seq(MaybeVertex)
  <2> HIDE DEF edge, v
  <2> QED BY <1>1, <1>6, ReachedType
<1>8. reached \in Seq(X)
  <2>1. CASE v = None
    BY <2>1 DEF Semantics!Reached
  <2>2. CASE v # None
    BY <1>7, <2>2
  <2> QED BY <2>1, <2>2
<1>9. RunsTo(Expansion(edge), g, <<ctx>>, Moved(b, reached)) /\ Expansion(edge) \in Seq(Stage)
  <2> HIDE DEF edge
  <2> QED BY <1>1, <1>3, <1>5, ExpansionReaches
<1>10. /\ IsMap(F, MaybeVertex, Context)
       /\ \A x \in MaybeVertex :
            /\ F[x] = RecordVertex(SplitAndMoveToVertex(b, x), d)
  <2> HIDE DEF b, d
  <2> QED BY <1>2, <1>4, EnteredType
<1>11. /\ picks \in Seq(Seq(MaybeVertex)) /\ targets = FlattenSeq(picks)
       /\ targets \in Seq(X) /\ targets \in Seq(MaybeVertex)
  <2> HIDE DEF reached, checks, X
  <2>1. /\ picks \in Seq(Seq(MaybeVertex)) /\ targets = FlattenSeq(picks)
        /\ targets \in Seq(MaybeVertex)
    BY <1>7, PassingIs
  <2>2. targets \in Seq(X)
    BY <1>8, PassingIs
  <2> QED BY <2>1, <2>2
<1>12. ExpandEdge(e, edge) = Expansion(edge) \o EnterVertex(d, checks)
  BY DEF ExpandEdge, Expansion, Semantics!EdgeVid
<1>13. EnterVertex(d, checks) \in Seq(Stage)
  <2> HIDE DEF d, checks
  <2> QED BY <1>1, <1>2, EnterStages
<1>14. Len(picks) = Len(reached)
       /\ \A k \in 1..Len(reached) :
            picks[k] = IF Semantics!Passes(reached[k], checks) THEN <<reached[k]>> ELSE << >>
  <2> HIDE DEF reached, checks
  <2> QED BY <1>7
<1> HIDE DEF edge, checks, from, v, d, b, reached, targets, F, X, picks
<1>15. outs \in Seq(Seq(Context)) /\ s = FlattenSeq(outs)
  BY <1>10, <1>11, ImageFlatten
<1>16. Len(outs) = Len(reached) /\ \A k \in 1..Len(reached) : outs[k] = Image(F, picks[k])
  BY <1>7, <1>11, <1>14
<1> HIDE DEF outs
<1>17. ASSUME NEW k \in 1..Len(reached)
       PROVE  RunsTo(EnterVertex(d, checks), g, <<Moved(b, reached)[k]>>, outs[k])
  <2> DEFINE x == reached[k]
             c == SplitAndMoveToVertex(b, x)
             rec == RecordVertex(c, d)
             passes == Semantics!Passes(x, checks)
  <2>1. x \in MaybeVertex
    BY <1>7, ElementOfSeq
  <2>2. Moved(b, reached)[k] = c
    BY <1>4, <1>7, MovedType
  <2>3. /\ c \in Context /\ c.active = x /\ c.vertices = b.vertices
        /\ c.suspended = b.suspended /\ c.piggyback = << >>
    BY <1>4, <2>1, MoveType
  <2>4. picks[k] = IF passes THEN <<x>> ELSE << >>
    BY <1>14
  <2>4a. F[x] = rec
    BY <1>10, <2>1
  <2> HIDE DEF c
  <2>5. ~ IsVisited(c, d) /\ Calm(c)
    BY <1>3, <1>4, <2>3 DEF IsVisited, Calm
  <2>6. RunsTo(EnterVertex(d, checks), g, <<c>>, IF Semantics!Passes(c.active, checks) THEN <<rec>> ELSE << >>)
    BY <1>1, <1>2, <2>3, <2>5, EnterRuns
  <2>7. Image(F, picks[k]) = IF passes THEN <<rec>> ELSE << >>
    <3> HIDE DEF rec, x, passes
    <3> QED BY <2>4, <2>4a DEF Image
  <2> HIDE DEF rec, x
  <2> QED BY <1>16, <2>2, <2>3, <2>6, <2>7
<1>18. RunsTo(EnterVertex(d, checks), g, Moved(b, reached), s)
  <2>1. Moved(b, reached) \in Seq(Context) /\ Len(Moved(b, reached)) = Len(reached)
    BY <1>4, <1>7, MovedType
  <2> HIDE DEF s
  <2> QED BY <1>13, <1>15, <1>16, <1>17, <2>1, RunsEach
<1>19. RunsTo(ExpandEdge(e, edge), g, <<ctx>>, s)
  <2> HIDE DEF s
  <2> QED BY <1>9, <1>12, <1>13, <1>18, RunsThen
<1>20. ExpandEdge(e, edge) \in Seq(Stage)
  BY <1>9, <1>12, <1>13, ConcatProperties
<1>21. /\ s \in Seq(Context) /\ Len(s) = Len(targets)
       /\ \A k \in 1..Len(targets) : s[k] = F[targets[k]]
  <2> HIDE DEF s
  <2> QED BY <1>10, <1>11, ImageType DEF s
<1> HIDE DEF s
<1>22. ASSUME NEW k \in 1..Len(targets)
       PROVE  /\ Stands(s[k], p, d) /\ Row(s[k], d) = Append(Row(ctx, e), targets[k])
              /\ Append(Row(ctx, e), targets[k]) \in Rowed(d)
  <2> DEFINE x == targets[k]
  <2>1. x \in MaybeVertex /\ x \in X
    BY <1>11, ElementOfSeq
  <2>2. v = None => x = None
    BY <2>1 DEF X
  <2> HIDE DEF x
  <2>3. ctx.vertices[p.edges[e].from] = None => x = None
    BY <2>2 DEF v, from, edge
  <2>4. /\ Stands(Entered(b, e + 1)[x], p, e + 1)
        /\ Row(Entered(b, e + 1)[x], e + 1) = Append(Row(ctx, e), x)
        /\ Append(Row(ctx, e), x) \in Rowed(e + 1)
    BY <1>4, <2>1, <2>3, EnteredStands
  <2> QED BY <1>21, <2>4 DEF F, d, x
<1>23. Row(ctx, e) \in Rowed(e) /\ Row(ctx, e)[from] = v
  <2>1. Row(ctx, e) \in Rowed(e)
    <3>1. None \in MaybeVertex
      BY DEF MaybeVertex
    <3> QED BY <1>4, <3>1, EnteredStands
  <2>2. Row(ctx, e)[from] = v
    BY <1>1 DEF Row, v
  <2> QED BY <2>1, <2>2
<1> DEFINE extended == [i \in 1..Len(targets) |-> Append(Row(ctx, e), targets[i])]
<1>24. Semantics!ExtendRow(Row(ctx, e), edge, g) = extended
  <2>1. DOMAIN targets = 1..Len(targets)
    BY <1>11
  <2>2. Semantics!ExtendRow(Row(ctx, e), edge, g) = [i \in DOMAIN targets |-> Append(Row(ctx, e), targets[i])]
    BY <1>23 DEF Semantics!ExtendRow, targets, reached, checks, from
  <2> QED BY <2>1, <2>2
<1>25. Image(RowFn(d), s) = extended
  <2>1. \A k \in 1..Len(targets) : RowFn(d)[s[k]] = Row(s[k], d)
    BY <1>21, ElementOfSeq DEF RowFn
  <2>2. \A k \in 1..Len(targets) : RowFn(d)[s[k]] = Append(Row(ctx, e), targets[k])
    BY <2>1, <1>22
  <2> QED BY <1>21, <2>2 DEF Image
<1>26. extended \in Seq(Rowed(d))
  BY <1>11, <1>22
<1> HIDE DEF extended
<1> QED BY <1>19, <1>20, <1>21, <1>22, <1>23, <1>24, <1>25, <1>26 DEF d, edge

\* The rows after another edge.
RowsStep(x, edge, g) == FlattenSeq([i \in DOMAIN x |-> Semantics!ExtendRow(x[i], edge, g)])

Roots(p, starting) ==
  [i \in DOMAIN Semantics!Passing(starting, p.checks) |-> <<Semantics!Passing(starting, p.checks)[i]>>]

AreRows(R, p, g, base) ==
  R = [e \in 0..Len(p.edges) |-> IF e = 0 THEN base ELSE RowsStep(R[e - 1], p.edges[e], g)]

\* Rows(), by what its recursive function satisfies.
LEMMA RowsAre ==
  ASSUME NEW p, NEW g, NEW starting
  PROVE  Semantics!Rows(p, g, starting) =
           (CHOOSE R : AreRows(R, p, g, Roots(p, starting)))[Len(p.edges)]
BY SameFlatten DEF Semantics!Rows, Semantics!MapFlat, AreRows, Roots, RowsStep

\* Rows grow by one vertex at each edge.
LEMMA ExtendRowType ==
  ASSUME NEW p \in Plans, NEW e \in 1..Len(p.edges), NEW g \in Data, NEW row \in Rowed(e)
  PROVE  Semantics!ExtendRow(row, p.edges[e], g) \in Seq(Rowed(e + 1))
<1> DEFINE edge == p.edges[e]
           v == row[edge.from]
           reached == Semantics!Reached(edge, g, v)
           targets == Semantics!Passing(reached, edge.checks)
<1>1. edge \in QueryEdge /\ edge.from \in 1..e /\ e \in Nat
  BY PlanFields
<1>2. v \in MaybeVertex
  <2> HIDE DEF edge
  <2> QED BY <1>1 DEF Rowed
<1>3. reached \in Seq(MaybeVertex)
  <2> HIDE DEF edge, v
  <2> QED BY <1>1, <1>2, ReachedType
<1>4. targets \in Seq(MaybeVertex)
  <2> HIDE DEF reached, edge
  <2> QED BY <1>3, PassingIs
<1>5. Semantics!ExtendRow(row, edge, g) = [i \in DOMAIN targets |-> Append(row, targets[i])]
  BY DEF Semantics!ExtendRow
<1> HIDE DEF targets, edge
<1>6. row \in Seq(MaybeVertex) /\ Len(row) = e
  BY <1>1 DEF Rowed
<1>7. ASSUME NEW x \in MaybeVertex PROVE Append(row, x) \in Rowed(e + 1)
  <2> DEFINE a == Append(row, x)
  <2>1. a \in Seq(MaybeVertex) /\ Len(a) = e + 1
    BY <1>6, AppendProperties
  <2> HIDE DEF a
  <2>2. a \in [1..e + 1 -> MaybeVertex]
    BY <2>1
  <2> QED BY <2>2 DEF a, Rowed
<1>8. \A i \in 1..Len(targets) : Append(row, targets[i]) \in Rowed(e + 1)
  BY <1>4, <1>7, ElementOfSeq
<1>9. DOMAIN targets = 1..Len(targets) /\ Len(targets) \in Nat
  BY <1>4
<1>10. [i \in 1..Len(targets) |-> Append(row, targets[i])] \in Seq(Rowed(e + 1))
  BY <1>8, <1>9
<1> QED BY <1>5, <1>9, <1>10 DEF edge

\* All rows grow.
LEMMA RowsStepType ==
  ASSUME NEW p \in Plans, NEW e \in 1..Len(p.edges), NEW g \in Data, NEW x \in Seq(Rowed(e))
  PROVE  LET all == [i \in 1..Len(x) |-> Semantics!ExtendRow(x[i], p.edges[e], g)]
         IN  /\ all \in Seq(Seq(Rowed(e + 1)))
             /\ RowsStep(x, p.edges[e], g) = FlattenSeq(all)
             /\ RowsStep(x, p.edges[e], g) \in Seq(Rowed(e + 1))
<1> DEFINE all == [i \in 1..Len(x) |-> Semantics!ExtendRow(x[i], p.edges[e], g)]
<1>1. DOMAIN x = 1..Len(x)
  OBVIOUS
<1>2. all \in Seq(Seq(Rowed(e + 1)))
  <2>1. \A i \in 1..Len(x) : x[i] \in Rowed(e)
    BY ElementOfSeq
  <2>2. \A i \in 1..Len(x) : Semantics!ExtendRow(x[i], p.edges[e], g) \in Seq(Rowed(e + 1))
    BY <2>1, ExtendRowType
  <2> QED BY <2>2
<1>3. RowsStep(x, p.edges[e], g) = FlattenSeq(all)
  BY <1>1 DEF RowsStep
<1> HIDE DEF all
<1>4. FlattenSeq(all) \in Seq(Rowed(e + 1))
  BY <1>2, FlattenType
<1> QED BY <1>2, <1>3, <1>4 DEF all

\* There is a function that unfolds as the rows do.
LEMMA RowsExist ==
  ASSUME NEW p \in Plans, NEW g \in Data, NEW base \in Seq(Rowed(1))
  PROVE  \E R : AreRows(R, p, g, base)
<1> DEFINE n == Len(p.edges)
           S == UNION {Seq(Rowed(k)) : k \in 1..n + 1}
           next(k, x) == RowsStep(x, p.edges[k], g)
           Steps == [k \in 1..n |-> [x \in S |-> IF x \in Seq(Rowed(k)) THEN next(k, x) ELSE x]]
<1>0. n \in Nat
  BY PlanFields
<1>1. \A k \in 1..n : \A x \in Seq(Rowed(k)) : next(k, x) \in Seq(Rowed(k + 1))
  BY RowsStepType
<1>1a. \A k \in 1..n + 1 : Seq(Rowed(k)) \subseteq S
  OBVIOUS
<1> HIDE DEF next, S
<1>2. \A k \in 1..n : \A x \in S : (IF x \in Seq(Rowed(k)) THEN next(k, x) ELSE x) \in S
  <2> SUFFICES ASSUME NEW k \in 1..n, NEW x \in S, x \in Seq(Rowed(k)) PROVE next(k, x) \in S
    OBVIOUS
  <2>1. k + 1 \in 1..n + 1
    BY <1>0
  <2>2. next(k, x) \in Seq(Rowed(k + 1))
    BY <1>1
  <2> QED BY <1>1a, <2>1, <2>2
<1>3. AreSteps(Steps, n, S)
  BY <1>2 DEF AreSteps
<1>4. base \in S
  <2>1. 1 \in 1..n + 1
    BY <1>0
  <2> QED BY <1>1a, <2>1
<1>5. PICK R : IsRecursion(R, n, S, base, Steps)
  <2> HIDE DEF Steps, n
  <2> QED BY <1>0, <1>3, <1>4, RecursionExists
<1>6. R \in [0..n -> S] /\ R[0] = base /\ \A k \in 1..n : R[k] = Steps[k][R[k - 1]]
  BY <1>5 DEF IsRecursion
<1>7. ASSUME NEW k \in 1..n, R[k - 1] \in Seq(Rowed(k))
      PROVE  R[k] = next(k, R[k - 1])
  <2> DEFINE x == R[k - 1]
  <2>1. k - 1 \in 0..n
    BY <1>0
  <2>2. x \in S
    BY <1>6, <2>1
  <2>3. Steps[k] = [y \in S |-> IF y \in Seq(Rowed(k)) THEN next(k, y) ELSE y]
    OBVIOUS
  <2>4. R[k] = Steps[k][x] /\ x \in Seq(Rowed(k))
    BY <1>6, <1>7
  <2> HIDE DEF Steps, x
  <2>5. Steps[k][x] = next(k, x)
    BY <2>2, <2>3, <2>4
  <2> QED BY <2>4, <2>5 DEF x
<1> HIDE DEF Steps
<1> DEFINE P(k) == R[k] \in Seq(Rowed(k + 1))
           N == {k \in 0..n : P(k)}
<1>8. 0 \in N
  BY <1>0, <1>6
<1>9. \A k \in N : k \in 0..n - 1 => k + 1 \in N
  <2> SUFFICES ASSUME NEW k \in 0..n - 1, P(k) PROVE k + 1 \in 0..n /\ P(k + 1)
    OBVIOUS
  <2> DEFINE d == k + 1
  <2>1. d \in 1..n /\ d - 1 = k /\ d \in 0..n
    BY <1>0
  <2>2. R[d - 1] \in Seq(Rowed(d))
    BY <2>1
  <2> HIDE DEF d
  <2>3. R[d] = next(d, R[d - 1]) /\ next(d, R[d - 1]) \in Seq(Rowed(d + 1))
    BY <1>1, <1>7, <2>1, <2>2
  <2> QED BY <2>1, <2>3 DEF d
<1>10. \A k \in 0..n : P(k)
  <2> HIDE DEF N, P
  <2>1. 0..n \subseteq N
    BY <1>0, <1>8, <1>9, BoundedInduction
  <2> QED BY <2>1 DEF N
<1>11. \A k \in 0..n : R[k] = IF k = 0 THEN base ELSE next(k, R[k - 1])
  <2> SUFFICES ASSUME NEW k \in 1..n PROVE R[k] = next(k, R[k - 1])
    BY <1>0, <1>6
  <2>1. k - 1 \in 0..n /\ (k - 1) + 1 = k
    BY <1>0
  <2>2. R[k - 1] \in Seq(Rowed(k))
    BY <1>10, <2>1
  <2> QED BY <1>7, <2>2
<1>12. R = [k \in 0..n |-> IF k = 0 THEN base ELSE next(k, R[k - 1])]
  <2> HIDE DEF P, N
  <2> QED BY <1>6, <1>11
<1> QED BY <1>12 DEF AreRows, next

\* The rows after an edge are the rows before it, extended.
LEMMA RowsUnfold ==
  ASSUME NEW p \in Plans, NEW g, NEW base, NEW R, AreRows(R, p, g, base)
  PROVE  R[0] = base /\ \A e \in 1..Len(p.edges) : R[e] = RowsStep(R[e - 1], p.edges[e], g)
<1> DEFINE n == Len(p.edges)
           F(e) == IF e = 0 THEN base ELSE RowsStep(R[e - 1], p.edges[e], g)
           all == [e \in 0..n |-> F(e)]
<1>0. n \in Nat
  BY PlanFields
<1>1. R = all
  BY DEF AreRows
<1>2. \A e \in 0..n : all[e] = F(e)
  <2> HIDE DEF F
  <2> QED OBVIOUS
<1>3. \A e \in 0..n : R[e] = F(e)
  <2> HIDE DEF F, all
  <2> QED BY <1>1, <1>2
<1>4. F(0) = base /\ \A e \in 1..n : F(e) = RowsStep(R[e - 1], p.edges[e], g)
  OBVIOUS
<1> HIDE DEF F, all
<1>5. 0 \in 0..n /\ \A e \in 1..n : e \in 0..n
  <2> HIDE DEF n
  <2> QED BY <1>0
<1> HIDE DEF n
<1>6. R[0] = base /\ \A e \in 1..n : R[e] = RowsStep(R[e - 1], p.edges[e], g)
  BY <1>3, <1>4, <1>5
<1> QED BY <1>6 DEF n

\* Rows() starts with the roots and takes one edge after the other.
LEMMA RowsUnfolded ==
  ASSUME NEW p \in Plans, NEW g \in Data, NEW starting, Roots(p, starting) \in Seq(Rowed(1))
  PROVE  \E R : /\ R[0] = Roots(p, starting)
                /\ \A e \in 1..Len(p.edges) : R[e] = RowsStep(R[e - 1], p.edges[e], g)
                /\ Semantics!Rows(p, g, starting) = R[Len(p.edges)]
<1> DEFINE base == Roots(p, starting)
<1>1. AreRows(CHOOSE R : AreRows(R, p, g, base), p, g, base)
  <2> HIDE DEF base
  <2> QED BY RowsExist DEF base
<1> QED BY <1>1, RowsUnfold, RowsAre

NewOnes(s) == [k \in 1..Len(s) |-> NewContext(s[k])]

\* A starting vertex enters the row at Vid 1.
Started == [x \in Vertex |-> RecordVertex(NewContext(x), 1)]

\* DataContext::new() has recorded nothing.
LEMMA NewType ==
  ASSUME NEW x \in Vertex
  PROVE  /\ NewContext(x) \in Context /\ NewContext(x).active = x
         /\ NewContext(x).suspended = << >> /\ NewContext(x).piggyback = << >>
         /\ NewContext(x).vertices \in Recorded
         /\ \A vid \in Vid : NewContext(x).vertices[vid] = Unvisited
<1> DEFINE v == [w \in Vid |-> Unvisited]
<1>1. NewContext(x) = Ctx(x, v, << >>, << >>)
  BY DEF NewContext, Ctx
<1>2. v \in Recorded /\ x \in MaybeVertex /\ \A w \in Vid : v[w] = Unvisited
  BY DEF Recorded, MaybeVertex
<1> HIDE DEF v
<1>3. << >> \in Seq(MaybeVertex) /\ << >> \in Seq(Rider)
  OBVIOUS
<1>4. Ctx(x, v, << >>, << >>) \in Context
  BY <1>2, <1>3, CtxIsContext
<1>5. /\ Ctx(x, v, << >>, << >>).active = x /\ Ctx(x, v, << >>, << >>).vertices = v
      /\ Ctx(x, v, << >>, << >>).suspended = << >> /\ Ctx(x, v, << >>, << >>).piggyback = << >>
  BY DEF Ctx
<1> QED BY <1>1, <1>2, <1>4, <1>5

\* The contexts of the starting vertices.
LEMMA NewOnesType ==
  ASSUME NEW s \in Seq(Vertex)
  PROVE  /\ NewOnes(s) \in Seq(Context) /\ Len(NewOnes(s)) = Len(s)
         /\ \A k \in 1..Len(s) : s[k] \in Vertex /\ NewOnes(s)[k] = NewContext(s[k])
<1>1. Len(s) \in Nat /\ \A k \in 1..Len(s) : s[k] \in Vertex /\ NewContext(s[k]) \in Context
  BY NewType, ElementOfSeq
<1> QED BY <1>1 DEF NewOnes

\* A context that has entered Vid 1 stands there.
LEMMA StartedStands ==
  ASSUME NEW p \in Plans
  PROVE  /\ IsMap(Started, Vertex, Context)
         /\ \A x \in Vertex : /\ Started[x] = RecordVertex(NewContext(x), 1)
                              /\ Stands(Started[x], p, 1)
                              /\ Row(Started[x], 1) = <<x>>
<1>1. 1 \in Vid
  <2>1. 1 \in 1..Len(p.edges) + 1
    BY PlanFields
  <2> QED BY <2>1, PlanFields
<1>2. ASSUME NEW x \in Vertex
      PROVE  /\ RecordVertex(NewContext(x), 1) \in Context
             /\ Stands(RecordVertex(NewContext(x), 1), p, 1)
             /\ Row(RecordVertex(NewContext(x), 1), 1) = <<x>>
  <2> DEFINE c == NewContext(x)
             r == RecordVertex(c, 1)
  <2>1. /\ c \in Context /\ c.active = x /\ c.suspended = << >> /\ c.piggyback = << >>
        /\ c.vertices \in Recorded /\ \A vid \in Vid : c.vertices[vid] = Unvisited
    BY NewType
  <2> HIDE DEF c
  <2>2. r \in Context /\ r = Ctx(c.active, With(c.vertices, 1, c.active), c.suspended, c.piggyback)
    BY <1>1, <2>1, RecordType
  <2> HIDE DEF r
  <2>3. /\ r.active = x /\ r.vertices = With(c.vertices, 1, x)
        /\ r.suspended = << >> /\ r.piggyback = << >>
    BY <2>1, <2>2 DEF Ctx
  <2>4. \A vid \in Vid : r.vertices[vid] = IF vid = 1 THEN x ELSE Unvisited
    BY <1>1, <2>1, <2>3 DEF With, Recorded
  <2>5. x # Unvisited
    BY ContextAssumption
  <2>6. \A vid \in Vid : IsVisited(r, vid) <=> vid \in 1..1
    BY <2>4, <2>5 DEF IsVisited
  <2>7. r.active = r.vertices[1]
    BY <1>1, <2>3, <2>4
  <2>8. \A vid \in 2..1 : FALSE
    OBVIOUS
  <2>9. Calm(r)
    BY <2>3 DEF Calm
  <2>10. Stands(r, p, 1)
    BY <2>2, <2>6, <2>7, <2>8, <2>9 DEF Stands
  <2>11. Row(r, 1) = <<x>>
    BY <1>1, <2>4 DEF Row
  <2> QED BY <2>2, <2>10, <2>11 DEF r, c
<1> QED BY <1>2 DEF Started, IsMap

\* What the stages of the root vertex make of the starting vertices.
LEMMA RootsEnter ==
  ASSUME NEW p \in Plans, NEW g \in Data, NEW starting \in Seq(Vertex)
  PROVE  \E s \in Seq(Context) :
           /\ EnterVertex(1, p.checks) \in Seq(Stage)
           /\ RunsTo(EnterVertex(1, p.checks), g, NewOnes(starting), s)
           /\ \A k \in 1..Len(s) : Stands(s[k], p, 1)
           /\ Image(RowFn(1), s) = Roots(p, starting)
           /\ Roots(p, starting) \in Seq(Rowed(1))
<1> DEFINE checks == p.checks
           targets == Semantics!Passing(starting, checks)
           F == Started
           s == Image(F, targets)
           picks == [k \in 1..Len(starting) |->
                       IF Semantics!Passes(starting[k], checks) THEN <<starting[k]>> ELSE << >>]
           outs == [k \in 1..Len(picks) |-> Image(F, picks[k])]
           news == NewOnes(starting)
<1>1. checks \in Seq(SUBSET MaybeVertex) /\ 1 \in Vid
  <2>1. 1 \in 1..Len(p.edges) + 1
    BY PlanFields
  <2> QED BY <2>1, PlanFields
<1>2. EnterVertex(1, checks) \in Seq(Stage)
  <2> HIDE DEF checks
  <2> QED BY <1>1, EnterStages
<1>3. /\ picks \in Seq(Seq(Vertex)) /\ targets = FlattenSeq(picks) /\ targets \in Seq(Vertex)
  <2> HIDE DEF checks
  <2> QED BY PassingIs
<1>4. Len(picks) = Len(starting)
       /\ \A k \in 1..Len(starting) :
            picks[k] = IF Semantics!Passes(starting[k], checks) THEN <<starting[k]>> ELSE << >>
  <2> HIDE DEF checks
  <2> QED OBVIOUS
<1>5. /\ IsMap(F, Vertex, Context)
      /\ \A x \in Vertex : F[x] = RecordVertex(NewContext(x), 1) /\ Stands(F[x], p, 1) /\ Row(F[x], 1) = <<x>>
  BY StartedStands
<1>6. /\ news \in Seq(Context) /\ Len(news) = Len(starting)
      /\ \A k \in 1..Len(starting) : starting[k] \in Vertex /\ news[k] = NewContext(starting[k])
  BY NewOnesType
<1>6a. Roots(p, starting) = [i \in DOMAIN targets |-> <<targets[i]>>]
  BY DEF Roots
<1> HIDE DEF checks, targets, F, picks, news
<1>7. outs \in Seq(Seq(Context)) /\ s = FlattenSeq(outs)
  BY <1>3, <1>5, ImageFlatten
<1>8. Len(outs) = Len(starting) /\ \A k \in 1..Len(starting) : outs[k] = Image(F, picks[k])
  BY <1>3, <1>4
<1> HIDE DEF outs
<1>9. ASSUME NEW k \in 1..Len(starting)
      PROVE  RunsTo(EnterVertex(1, checks), g, <<news[k]>>, outs[k])
  <2> DEFINE x == starting[k]
             c == NewContext(x)
             rec == RecordVertex(c, 1)
             passes == Semantics!Passes(x, checks)
  <2>1. x \in Vertex /\ news[k] = c
    BY <1>6
  <2>2. /\ c \in Context /\ c.active = x /\ c.suspended = << >> /\ c.piggyback = << >>
        /\ \A vid \in Vid : c.vertices[vid] = Unvisited
    BY <2>1, NewType
  <2>3. picks[k] = IF passes THEN <<x>> ELSE << >>
    BY <1>4
  <2>4. F[x] = rec
    BY <1>5, <2>1
  <2> HIDE DEF c
  <2>5. ~ IsVisited(c, 1) /\ Calm(c)
    BY <1>1, <2>2 DEF IsVisited, Calm
  <2>6. RunsTo(EnterVertex(1, checks), g, <<c>>, IF Semantics!Passes(c.active, checks) THEN <<rec>> ELSE << >>)
    BY <1>1, <2>2, <2>5, EnterRuns
  <2>7. Image(F, picks[k]) = IF passes THEN <<rec>> ELSE << >>
    <3> HIDE DEF rec, x, passes
    <3> QED BY <2>3, <2>4 DEF Image
  <2> HIDE DEF rec, x
  <2> QED BY <1>8, <2>1, <2>2, <2>6, <2>7
<1>10. RunsTo(EnterVertex(1, checks), g, news, s)
  <2> HIDE DEF s
  <2> QED BY <1>2, <1>6, <1>7, <1>8, <1>9, RunsEach
<1>11. /\ s \in Seq(Context) /\ Len(s) = Len(targets)
       /\ \A k \in 1..Len(targets) : s[k] = F[targets[k]]
  <2> HIDE DEF s
  <2> QED BY <1>3, <1>5, ImageType DEF s
<1> HIDE DEF s
<1>12. ASSUME NEW k \in 1..Len(targets)
       PROVE  targets[k] \in Vertex /\ Stands(s[k], p, 1) /\ RowFn(1)[s[k]] = <<targets[k]>>
  <2>1. targets[k] \in Vertex
    BY <1>3, ElementOfSeq
  <2>2. s[k] \in Context
    BY <1>11, ElementOfSeq
  <2> QED BY <1>5, <1>11, <2>1, <2>2 DEF RowFn
<1> DEFINE all == [i \in 1..Len(targets) |-> <<targets[i]>>]
<1>13. Roots(p, starting) = all
  <2>1. DOMAIN targets = 1..Len(targets)
    BY <1>3
  <2> QED BY <2>1, <1>6a
<1>14. Image(RowFn(1), s) = all
  BY <1>11, <1>12 DEF Image
<1>15. all \in Seq(Rowed(1))
  <2>1. \A i \in 1..Len(targets) : <<targets[i]>> \in Rowed(1)
    <3> SUFFICES ASSUME NEW i \in 1..Len(targets) PROVE <<targets[i]>> \in [1..1 -> MaybeVertex]
      BY DEF Rowed
    <3>1. targets[i] \in MaybeVertex
      BY <1>12 DEF MaybeVertex
    <3> QED BY <3>1
  <2> QED BY <2>1, <1>3
<1> HIDE DEF all
<1> QED BY <1>2, <1>10, <1>11, <1>12, <1>13, <1>14, <1>15 DEF checks, news

\* The stages of an edge.
LEMMA EdgeStages ==
  ASSUME NEW p \in Plans, NEW e \in 1..Len(p.edges)
  PROVE  ExpandEdge(e, p.edges[e]) \in Seq(Stage)
<1> DEFINE edge == p.edges[e]
           d == e + 1
<1>1. edge \in QueryEdge /\ edge.from \in Vid /\ edge.checks \in Seq(SUBSET MaybeVertex)
  BY PlanFields
<1>2. d \in Vid
  <2>1. d \in 1..Len(p.edges) + 1
    BY PlanFields
  <2> HIDE DEF d
  <2> QED BY <2>1, PlanFields
<1>3. ExpandEdge(e, edge) = Expansion(edge) \o EnterVertex(d, edge.checks)
  BY DEF ExpandEdge, Expansion, Semantics!EdgeVid
<1> HIDE DEF edge, d
<1>4. EnterVertex(d, edge.checks) \in Seq(Stage)
  BY <1>1, <1>2, EnterStages
<1>5. Expansion(edge) \in Seq(Stage)
  <2>1. CASE edge.depth > 0
    BY <1>1, <2>1, RecursiveStages DEF Expansion
  <2>2. CASE ~ edge.depth > 0
    <3>1. Expansion(edge) = ExpandNonRecursiveEdge(edge)
      BY <2>2 DEF Expansion
    <3>2. ExpandNonRecursiveEdge(edge) = <<Activator(edge.from), Resolver(edge)>>
      BY DEF ExpandNonRecursiveEdge, Activator, Resolver
    <3>3. Activator(edge.from) \in Stage /\ Resolver(edge) \in Stage
      BY <1>1, MoreOpTypes, ResolverType
    <3> QED BY <3>1, <3>2, <3>3
  <2> QED BY <2>1, <2>2
<1>6. Expansion(edge) \o EnterVertex(d, edge.checks) \in Seq(Stage)
  BY <1>4, <1>5, ConcatProperties
<1> QED BY <1>3, <1>6 DEF edge

Blocks(p) == [e \in 1..Len(p.edges) |-> ExpandEdge(e, p.edges[e])]

\* The chain up to edge e.
ChainTo(p, e) == EnterVertex(1, p.checks) \o FlattenSeq(SubSeq(Blocks(p), 1, e))

\* compute_component() appends the stages of the edges, one after another.
LEMMA ChainSteps ==
  ASSUME NEW p \in Plans
  PROVE  /\ ChainTo(p, 0) = EnterVertex(1, p.checks)
         /\ \A e \in 0..Len(p.edges) : ChainTo(p, e) \in Seq(Stage)
         /\ \A e \in 1..Len(p.edges) :
              ChainTo(p, e) = ChainTo(p, e - 1) \o ExpandEdge(e, p.edges[e])
         /\ ComputeComponent(p) = ChainTo(p, Len(p.edges))
<1> DEFINE n == Len(p.edges)
           a == EnterVertex(1, p.checks)
           B == Blocks(p)
           pre(e) == SubSeq(B, 1, e)
           f(e) == FlattenSeq(pre(e))
<1>1. n \in Nat /\ p.edges \in Seq(QueryEdge) /\ p.checks \in Seq(SUBSET MaybeVertex)
  BY PlanFields
<1>2. 1 \in Vid
  <2>1. 1 \in 1..n + 1
    BY <1>1
  <2> QED BY <2>1, PlanFields
<1>3. a \in Seq(Stage)
  BY <1>1, <1>2, EnterStages
<1>4. B \in Seq(Seq(Stage)) /\ Len(B) = n /\ \A e \in 1..n : B[e] = ExpandEdge(e, p.edges[e])
  <2>1. \A e \in 1..n : ExpandEdge(e, p.edges[e]) \in Seq(Stage)
    BY EdgeStages
  <2> HIDE DEF n
  <2> QED BY <1>1, <2>1 DEF Blocks, n
<1>5. ComputeComponent(p) = a \o FlattenSeq(B)
  <2>1. DOMAIN p.edges = 1..n
    BY <1>1
  <2>2. ComputeComponent(p) = a \o Semantics!FlattenSeq(B)
        \/ ComputeComponent(p) = a \o FlattenSeq(B)
    BY <2>1 DEF ComputeComponent, Semantics!RootVid, Blocks
  <2> QED BY <2>2, SameFlatten
<1>6. \A e \in 0..n : ChainTo(p, e) = a \o f(e)
  BY DEF ChainTo
<1> HIDE DEF n, a, B
<1>7. /\ pre(0) = << >> /\ pre(n) = B
      /\ \A e \in 0..n : pre(e) \in Seq(Seq(Stage))
      /\ \A k \in 0..n - 1 : k + 1 \in 1..n /\ pre(k + 1) = Append(pre(k), B[k + 1])
  BY <1>4, PrefixStep
<1> HIDE DEF pre
<1>8. \A e \in 0..n : f(e) \in Seq(Stage)
  BY <1>7, FlattenType
<1>9. f(0) = << >>
  BY <1>7, FlattenEmpty
<1>10. ASSUME NEW e \in 1..n
       PROVE  f(e) = f(e - 1) \o B[e] /\ B[e] \in Seq(Stage)
  <2> DEFINE k == e - 1
  <2>1. k \in 0..n - 1 /\ k + 1 = e /\ k \in 0..n
    BY <1>1
  <2> HIDE DEF k
  <2>2. pre(e) = Append(pre(k), B[e]) /\ pre(k) \in Seq(Seq(Stage)) /\ B[e] \in Seq(Stage)
    BY <1>4, <1>7, <2>1, ElementOfSeq
  <2>3. f(e) = f(k) \o B[e]
    BY <2>2, FlattenAppend
  <2> QED BY <2>2, <2>3 DEF k
<1> HIDE DEF f
<1>11. /\ ChainTo(p, 0) = a
       /\ \A e \in 0..n : ChainTo(p, e) \in Seq(Stage)
  <2>1. a \o << >> = a /\ 0 \in 0..n
    BY <1>1, <1>3, ConcatEmptySeq
  <2>2. \A e \in 0..n : a \o f(e) \in Seq(Stage)
    BY <1>3, <1>8, ConcatProperties
  <2> QED BY <1>6, <1>9, <2>1, <2>2
<1>12. ASSUME NEW e \in 1..n
       PROVE  ChainTo(p, e) = ChainTo(p, e - 1) \o B[e]
  <2> DEFINE k == e - 1
             x == f(k)
             y == B[e]
  <2>1. k \in 0..n /\ e \in 0..n
    BY <1>1
  <2>2. x \in Seq(Stage) /\ y \in Seq(Stage) /\ f(e) = x \o y
    BY <1>8, <1>10, <2>1
  <2>3. ChainTo(p, e) = a \o f(e) /\ ChainTo(p, k) = a \o x
    BY <1>6, <2>1
  <2> HIDE DEF x, y, k
  <2>4. Associates(a, x, y)
    BY <1>3, <2>2, ConcatAssociates
  <2>5. a \o (x \o y) = (a \o x) \o y
    BY <2>4 DEF Associates
  <2> QED BY <2>2, <2>3, <2>5 DEF k, y
<1>13. ComputeComponent(p) = ChainTo(p, n)
  <2>1. n \in 0..n /\ f(n) = FlattenSeq(B)
    BY <1>1, <1>7 DEF f
  <2> QED BY <2>1, <1>5, <1>6
<1> QED BY <1>4, <1>11, <1>12, <1>13 DEF n, a

\* An edge makes t of a context that stands at it.
Extends(t, p, e, g, ctx) ==
  /\ t \in Seq(Context)
  /\ RunsTo(ExpandEdge(e, p.edges[e]), g, <<ctx>>, t)
  /\ \A k \in 1..Len(t) : Stands(t[k], p, e + 1)
  /\ Image(RowFn(e + 1), t) = Semantics!ExtendRow(Row(ctx, e), p.edges[e], g)

\* The stages of an edge extend the rows as the nested loops do.
LEMMA EdgeExtendsAll ==
  ASSUME NEW p \in Plans, NEW e \in 1..Len(p.edges), NEW g \in Data,
         NEW s \in Seq(Context), \A k \in 1..Len(s) : Stands(s[k], p, e)
  PROVE  \E t \in Seq(Context) :
           /\ RunsTo(ExpandEdge(e, p.edges[e]), g, s, t)
           /\ \A k \in 1..Len(t) : Stands(t[k], p, e + 1)
           /\ Image(RowFn(e + 1), t) = RowsStep(Image(RowFn(e), s), p.edges[e], g)
           /\ RowsStep(Image(RowFn(e), s), p.edges[e], g) \in Seq(Rowed(e + 1))
<1> DEFINE d == e + 1
           ops == ExpandEdge(e, p.edges[e])
           edge == p.edges[e]
           x == Image(RowFn(e), s)
           f == [k \in 1..Len(s) |-> CHOOSE t : Extends(t, p, e, g, s[k])]
           t == FlattenSeq(f)
           images == [k \in 1..Len(f) |-> Image(RowFn(d), f[k])]
           all == [i \in 1..Len(x) |-> Semantics!ExtendRow(x[i], edge, g)]
           Standing == {c \in Context : Stands(c, p, d)}
<1>1. \A k \in 1..Len(s) : Stands(s[k], p, e) /\ s[k] \in Context
  BY ElementOfSeq
<1>2. ASSUME NEW k \in 1..Len(s)
      PROVE  /\ Extends(f[k], p, e, g, s[k])
             /\ Row(s[k], e) \in Rowed(e)
  <2>1. Row(s[k], e) \in Rowed(e) /\ \E u : Extends(u, p, e, g, s[k])
    BY <1>1, EdgeExtends DEF Extends
  <2>2. Extends(CHOOSE u : Extends(u, p, e, g, s[k]), p, e, g, s[k])
    BY <2>1
  <2> QED BY <2>1, <2>2
<1>3. ops \in Seq(Stage)
  BY EdgeStages
<1>4. Len(s) \in Nat /\ DOMAIN f = 1..Len(s)
  OBVIOUS
<1>5. \A i \in 1..Len(s) : f = [k \in 1..Len(s) |-> f[k]]
  OBVIOUS
<1> HIDE DEF f, d, ops, edge
<1>6. ASSUME NEW k \in 1..Len(s)
      PROVE  /\ f[k] \in Seq(Context) /\ RunsTo(ops, g, <<s[k]>>, f[k])
             /\ \A j \in 1..Len(f[k]) : Stands(f[k][j], p, d)
             /\ Image(RowFn(d), f[k]) = Semantics!ExtendRow(Row(s[k], e), edge, g)
  BY <1>2 DEF Extends, d, ops, edge
<1>7. f \in Seq(Seq(Context)) /\ Len(f) = Len(s)
  <2>1. f = [k \in 1..Len(s) |-> f[k]]
    BY DEF f
  <2>2. \A k \in 1..Len(s) : f[k] \in Seq(Context)
    BY <1>6
  <2> QED BY <1>4, <2>1, <2>2, SeqIs
<1>8. t \in Seq(Context) /\ RunsTo(ops, g, s, t)
  <2>1. \A k \in 1..Len(s) : RunsTo(ops, g, <<s[k]>>, f[k])
    BY <1>6
  <2>2. RunsTo(ops, g, s, t)
    BY <1>3, <1>7, <2>1, RunsEach
  <2> QED BY <1>7, <2>2, FlattenType
<1>9. \A k \in 1..Len(t) : Stands(t[k], p, d)
  <2>1. f \in Seq(Seq(Standing))
    <3>1. ASSUME NEW k \in 1..Len(f) PROVE f[k] \in Seq(Standing)
      <4> DEFINE q == f[k]
      <4>1. q \in Seq(Context) /\ \A j \in 1..Len(q) : Stands(q[j], p, d)
        BY <1>6, <1>7
      <4> HIDE DEF q
      <4>2. \A j \in 1..Len(q) : q[j] \in Standing
        BY <4>1, ElementOfSeq
      <4> HIDE DEF Standing
      <4>3. q \in Seq(Standing)
        BY <4>1, <4>2
      <4> QED BY <4>3 DEF q
    <3> HIDE DEF Standing
    <3> QED BY <1>7, <3>1, SeqOfElements
  <2>2. t \in Seq(Standing)
    <3> HIDE DEF Standing
    <3> QED BY <2>1, FlattenType
  <2>3. \A k \in 1..Len(t) : t[k] \in Standing
    <3> HIDE DEF Standing, t
    <3> QED BY <2>2, ElementOfSeq
  <2> HIDE DEF t
  <2> QED BY <2>3 DEF Standing
<1> DEFINE Rowing == {Row(c, d) : c \in Context}
<1>10. IsMap(RowFn(d), Context, Rowing)
  BY DEF IsMap, RowFn
<1>11. Image(RowFn(d), t) = FlattenSeq(images)
  <2> HIDE DEF Rowing
  <2> QED BY <1>7, <1>10, ImageFlatten
<1>12. /\ x \in Seq(Rowed(e)) /\ Len(x) = Len(s)
       /\ \A k \in 1..Len(s) : x[k] = Row(s[k], e)
  <2>1. \A k \in 1..Len(s) : RowFn(e)[s[k]] = Row(s[k], e) /\ Row(s[k], e) \in Rowed(e)
    BY <1>1, <1>2 DEF RowFn
  <2>2. x = [k \in 1..Len(s) |-> RowFn(e)[s[k]]]
    BY DEF Image
  <2>3. [k \in 1..Len(s) |-> RowFn(e)[s[k]]] \in Seq(Rowed(e))
    BY <1>4, <2>1
  <2> QED BY <1>4, <2>1, <2>2, <2>3
<1> HIDE DEF x
<1>13. RowsStep(x, edge, g) = FlattenSeq(all) /\ RowsStep(x, edge, g) \in Seq(Rowed(d))
  BY <1>12, RowsStepType DEF edge, d
<1>14. images = all
  BY <1>6, <1>7, <1>12
<1> HIDE DEF t, all, images
<1>15. Image(RowFn(d), t) = RowsStep(x, edge, g)
  BY <1>11, <1>13, <1>14
<1> QED BY <1>8, <1>9, <1>13, <1>15 DEF d, ops, edge, x

Made(p, e, g, starting, s, rows) ==
  /\ s \in Seq(Context)
  /\ RunsTo(ChainTo(p, e), g, NewOnes(starting), s)
  /\ \A k \in 1..Len(s) : Stands(s[k], p, e + 1)
  /\ Image(RowFn(e + 1), s) = rows

\* The chain of iterators makes of the starting vertices exactly the rows of
\* the nested loops, in their order, and on the way every stage gets what it
\* counts on (IsRun in RunsTo).
THEOREM ChainYieldsTheRows ==
  ASSUME NEW p \in Plans, NEW g \in Data, NEW starting \in Seq(Vertex)
  PROVE  /\ ComputeComponent(p) \in Seq(Stage)
         /\ \E s \in Seq(Context) :
              /\ RunsTo(ComputeComponent(p), g, NewOnes(starting), s)
              /\ \A k \in 1..Len(s) : Stands(s[k], p, Len(p.edges) + 1)
              /\ Image(RowFn(Len(p.edges) + 1), s) = Semantics!Rows(p, g, starting)
<1> DEFINE n == Len(p.edges)
           start == NewOnes(starting)
<1>0. n \in Nat
  BY PlanFields
<1>1. /\ ChainTo(p, 0) = EnterVertex(1, p.checks)
      /\ \A e \in 0..n : ChainTo(p, e) \in Seq(Stage)
      /\ \A e \in 1..n : ChainTo(p, e) = ChainTo(p, e - 1) \o ExpandEdge(e, p.edges[e])
      /\ ComputeComponent(p) = ChainTo(p, n)
  BY ChainSteps
<1>2. PICK s0 \in Seq(Context) :
           /\ RunsTo(EnterVertex(1, p.checks), g, start, s0)
           /\ \A k \in 1..Len(s0) : Stands(s0[k], p, 1)
           /\ Image(RowFn(1), s0) = Roots(p, starting)
           /\ Roots(p, starting) \in Seq(Rowed(1))
  BY RootsEnter
<1>3. PICK R : /\ R[0] = Roots(p, starting)
               /\ \A e \in 1..n : R[e] = RowsStep(R[e - 1], p.edges[e], g)
               /\ Semantics!Rows(p, g, starting) = R[n]
  BY <1>2, RowsUnfolded
<1> HIDE DEF n
<1> DEFINE P(e) == \E s : Made(p, e, g, starting, s, R[e])
           N == {e \in 0..n : P(e)}
<1>4. P(0)
  BY <1>1, <1>2, <1>3 DEF Made
<1>5. ASSUME NEW e \in 0..n - 1, P(e) PROVE P(e + 1)
  <2> DEFINE d == e + 1
             ops == ExpandEdge(d, p.edges[d])
             chain == ChainTo(p, e)
  <2>1. d \in 1..n /\ d - 1 = e /\ e \in 0..n
    BY <1>0
  <2>2. PICK s : Made(p, e, g, starting, s, R[e])
    BY <1>5
  <2>3. /\ s \in Seq(Context) /\ RunsTo(chain, g, start, s) /\ \A k \in 1..Len(s) : Stands(s[k], p, d)
        /\ Image(RowFn(d), s) = R[e]
    BY <2>2 DEF Made
  <2> HIDE DEF d
  <2>4. PICK t \in Seq(Context) :
           /\ RunsTo(ops, g, s, t)
           /\ \A k \in 1..Len(t) : Stands(t[k], p, d + 1)
           /\ Image(RowFn(d + 1), t) = RowsStep(Image(RowFn(d), s), p.edges[d], g)
    BY <2>1, <2>3, EdgeExtendsAll DEF n
  <2>5. R[d] = Image(RowFn(d + 1), t)
    BY <1>3, <2>1, <2>3, <2>4
  <2>6. ChainTo(p, d) = chain \o ops /\ chain \in Seq(Stage) /\ ops \in Seq(Stage)
    BY <1>1, <2>1, EdgeStages DEF n
  <2> HIDE DEF chain, ops, start
  <2>7. RunsTo(chain \o ops, g, start, t)
    BY <2>3, <2>4, <2>6, RunsThen
  <2>8. Made(p, d, g, starting, t, R[d])
    BY <2>4, <2>5, <2>6, <2>7 DEF Made, start
  <2> QED BY <2>8 DEF d
<1>6. n \in N
  <2> HIDE DEF P
  <2>1. 0 \in N
    BY <1>0, <1>4
  <2>2. ASSUME NEW k \in N, k \in 0..n - 1 PROVE k + 1 \in N
    <3>1. P(k + 1) /\ k + 1 \in 0..n
      BY <1>0, <1>5, <2>2
    <3> QED BY <3>1
  <2> HIDE DEF N
  <2>3. 0..n \subseteq N
    BY <1>0, <2>1, <2>2, BoundedInduction
  <2> QED BY <1>0, <2>3
<1>7. PICK s : Made(p, n, g, starting, s, R[n])
  BY <1>6
<1>8. /\ s \in Seq(Context) /\ RunsTo(ChainTo(p, n), g, start, s)
      /\ \A k \in 1..Len(s) : Stands(s[k], p, n + 1)
      /\ Image(RowFn(n + 1), s) = R[n]
  BY <1>7 DEF Made
<1>9. n \in 0..n
  BY <1>0
<1> QED BY <1>1, <1>3, <1>8, <1>9 DEF n

-----------------------------------------------------------------------------
(* The contexts on their way.                                              *)

\* What the inner iterator x of a stage has still to answer.
Remaining(op, x) ==
  CASE x.op = "edge" ->
         Moved(x.ctx, x.neighbors)
         \o (IF /\ ~ x.ended
                /\ \/ x.ctx.active = None
                   \/ ~ x.hasNeighbors /\ x.neighbors = << >> /\ op.optional
               THEN <<SplitAndMoveToVertex(x.ctx, None)>> ELSE << >>)
    [] x.op = "recursive" ->
         IF x.ctx = None THEN Moved(x.base, x.neighbors) ELSE OneLevel(x.ctx, x.neighbors)
    [] x.op = "unpack" -> Unsuspended(x.contexts)
    [] x.op = "none" -> << >>

\* The inner iterators a stage may have.
Expander(op) ==
  {NoIterator}
    \cup { x \in [op : {"edge"}, ctx : Context, neighbors : Seq(Vertex),
                  hasNeighbors : BOOLEAN, ended : BOOLEAN] :
             op.op = "neighbors" }
    \cup { x \in [op : {"recursive"}, ctx : Context \cup {None}, base : Context \cup {None},
                  neighbors : Seq(Vertex)] :
             op.op = "recurse" /\ (x.ctx = None => x.neighbors = << >> \/ x.base \in Context) }
    \cup { x \in [op : {"unpack"}, contexts : Seq(Context)] :
             op.op = "unpack" /\ Unsuspendable(x.contexts) }

\* W[i] is what comes to stage i: what waits in its queue, then what the stage
\* before it has begun to answer, then what that stage will make of what comes
\* to it.
IsPending(W, ops, g, q, x, src) ==
  /\ W \in [1..Len(ops) + 1 -> Seq(Context)]
  /\ W[1] = q[1] \o NewOnes(src)
  /\ \A i \in 1..Len(ops) :
       /\ x[i] \in Expander(ops[i])
       /\ W[i] \in Seq(Received(ops[i]))
       /\ W[i + 1] = q[i + 1] \o (Remaining(ops[i], x[i]) \o Each(ops[i], g, W[i]))

\* The rows that come to the consumer are the rows of the query.
Means(W, p, ops, rows) ==
  LET out == W[Len(ops) + 1]
      n == Len(p.edges) + 1
  IN  /\ \A k \in 1..Len(out) : Stands(out[k], p, n)
      /\ Image(RowFn(n), out) = rows

Pending ==
  \E W : IsPending(W, stages, graph, queue, inner, source) /\ Means(W, plan, stages, answer)

\* An iterator that has ended was left with nothing to answer.
EndedInOrder ==
  /\ ended[1] => source = << >>
  /\ \A i \in 1..Len(stages) :
       ended[i + 1] => ended[i] /\ queue[i] = << >> /\ inner[i] = NoIterator
  /\ \A i \in 1..Consumer : turn < i => ~ ended[i]

Chained ==
  /\ plan \in Plans /\ graph \in Graphs /\ source \in Seq(Vertex)
  /\ stages \in Seq(Stage)
  /\ turn \in 0..Consumer
  /\ queue \in [1..Consumer -> Seq(Context)]
  /\ ended \in [1..Consumer -> BOOLEAN]
  /\ DOMAIN inner = 1..Consumer
  /\ inner[Consumer] = NoIterator

IInv == Chained /\ EndedInOrder /\ Pending

\* A sequence is its head and its tail.
LEMMA HeadTail ==
  ASSUME NEW S, NEW s \in Seq(S), s # << >>
  PROVE  /\ Head(s) \in S /\ Tail(s) \in Seq(S) /\ Len(s) \in Nat /\ Len(s) > 0
         /\ s[1] = Head(s)
         /\ Joins(s, <<Head(s)>>, Tail(s))
<1> DEFINE h == Head(s)
           t == Tail(s)
           n == Len(s)
<1>1. h \in S /\ t \in Seq(S) /\ n \in Nat /\ n > 0 /\ h = s[1] /\ Len(t) = n - 1
      /\ \A k \in 1..n - 1 : t[k] = s[k + 1]
  <2>1. n \in Nat /\ n # 0
    BY EmptySeq
  <2>2. h \in S /\ t \in Seq(S) /\ Len(t) = n - 1 /\ \A k \in 1..Len(t) : t[k] = s[k + 1]
    BY HeadTailProperties
  <2> HIDE DEF t, n
  <2> QED BY <2>1, <2>2
<1> HIDE DEF h, t, n
<1>2. Joins(s, <<h>>, t)
  <2>1. Len(<<h>>) = 1 /\ <<h>>[1] = h
    OBVIOUS
  <2>2. \A k \in 1..1 : k = 1
    OBVIOUS
  <2>3. \A k \in 1..Len(t) : 1 + k = k + 1 /\ k \in 1..n - 1
    BY <1>1
  <2>4. Len(s) = 1 + Len(t)
    BY <1>1 DEF n
  <2> QED BY <1>1, <2>1, <2>2, <2>3, <2>4 DEF Joins
<1> QED BY <1>1, <1>2 DEF h, t, n

\* Moving a context to the vertices that are left.
LEMMA MovedHead ==
  ASSUME NEW ctx \in Context, NEW s \in Seq(MaybeVertex), s # << >>
  PROVE  Moved(ctx, s) = <<SplitAndMoveToVertex(ctx, Head(s))>> \o Moved(ctx, Tail(s))
<1> DEFINE h == Head(s)
           t == Tail(s)
<1>1. h \in MaybeVertex /\ t \in Seq(MaybeVertex) /\ Joins(s, <<h>>, t)
  BY HeadTail
<1> HIDE DEF h, t
<1>2. <<h>> \in Seq(MaybeVertex)
  BY <1>1
<1>3. s = <<h>> \o t
  BY <1>1, <1>2, ConcatIs
<1>4. Moved(ctx, <<h>> \o t) = Moved(ctx, <<h>>) \o Moved(ctx, t)
  BY <1>1, <1>2, MovedConcat
<1>5. Moved(ctx, <<h>>) = <<SplitAndMoveToVertex(ctx, h)>>
  BY DEF Moved
<1> QED BY <1>3, <1>4, <1>5 DEF h, t

\* Unsuspending the contexts that are left.
LEMMA UnsuspendedHead ==
  ASSUME NEW s \in Seq(Context), Unsuspendable(s), s # << >>
  PROVE  /\ Head(s) \in Context /\ Tail(s) \in Seq(Context) /\ Unsuspendable(Tail(s))
         /\ EnsureUnsuspended(Head(s)) \in Context
         /\ Unsuspended(s) = <<EnsureUnsuspended(Head(s))>> \o Unsuspended(Tail(s))
<1> DEFINE h == Head(s)
           t == Tail(s)
           a == Unsuspended(s)
           b == <<EnsureUnsuspended(h)>>
           c == Unsuspended(t)
<1>1. h \in Context /\ t \in Seq(Context) /\ Joins(s, <<h>>, t) /\ Len(s) \in Nat /\ Len(s) > 0 /\ s[1] = h
  BY HeadTail
<1> HIDE DEF h, t
<1>2. Len(s) = 1 + Len(t) /\ \A k \in 1..Len(t) : s[1 + k] = t[k] /\ 1 + k \in 1..Len(s)
  <2>1. Len(<<h>>) = 1
    OBVIOUS
  <2>2. Len(t) \in Nat
    BY <1>1
  <2> QED BY <1>1, <2>1, <2>2 DEF Joins
<1>3. CanUnsuspend(h) /\ Unsuspendable(t)
  <2>1. 1 \in 1..Len(s)
    BY <1>1
  <2> QED BY <1>1, <1>2, <2>1 DEF Unsuspendable
<1>4. /\ a \in Seq(Context) /\ Len(a) = Len(s) /\ \A k \in 1..Len(s) : a[k] = EnsureUnsuspended(s[k])
      /\ c \in Seq(Context) /\ Len(c) = Len(t) /\ \A k \in 1..Len(t) : c[k] = EnsureUnsuspended(t[k])
      /\ EnsureUnsuspended(h) \in Context
  BY <1>1, <1>3, UnsuspendedType, UnsuspendType
<1>5. b \in Seq(Context) /\ Len(b) = 1 /\ b[1] = EnsureUnsuspended(h)
  BY <1>4
<1> HIDE DEF a, b, c
<1>6. Joins(a, b, c)
  <2>1. \A k \in 1..1 : k = 1 /\ a[k] = EnsureUnsuspended(h)
    BY <1>1, <1>4
  <2> QED BY <1>2, <1>4, <1>5, <2>1 DEF Joins
<1>7. a = b \o c
  BY <1>4, <1>5, <1>6, ConcatIs
<1> QED BY <1>1, <1>3, <1>4, <1>7 DEF a, b, c, h, t

EdgeIt(ctx, left, has, end) ==
  [op |-> "edge", ctx |-> ctx, neighbors |-> left, hasNeighbors |-> has, ended |-> end]

RecursiveIt(ctx, base, left) ==
  [op |-> "recursive", ctx |-> ctx, base |-> base, neighbors |-> left]

UnpackIt(contexts) == [op |-> "unpack", contexts |-> contexts]

EdgeIts == [op : {"edge"}, ctx : Context, neighbors : Seq(Vertex), hasNeighbors : BOOLEAN, ended : BOOLEAN]

RecursiveIts ==
  [op : {"recursive"}, ctx : Context \cup {None}, base : Context \cup {None}, neighbors : Seq(Vertex)]

\* The inner iterator of a plain edge.
LEMMA EdgeItIs ==
  ASSUME NEW op \in Stage, NEW x \in Expander(op), x.op = "edge"
  PROVE  /\ op.op = "neighbors" /\ x \in EdgeIts
         /\ x.ctx \in Context /\ x.neighbors \in Seq(Vertex)
         /\ x.hasNeighbors \in BOOLEAN /\ x.ended \in BOOLEAN
<1>1. NoIterator.op = "none"
  BY DEF NoIterator
<1>2. \A y \in RecursiveIts : y.op = "recursive"
  BY DEF RecursiveIts
<1>3. \A y \in [op : {"unpack"}, contexts : Seq(Context)] : y.op = "unpack"
  OBVIOUS
<1>4. x \in EdgeIts /\ op.op = "neighbors"
  BY <1>1, <1>2, <1>3 DEF Expander, EdgeIts, RecursiveIts
<1> QED BY <1>4 DEF EdgeIts

\* The inner iterator of a recursion.
LEMMA RecursiveItIs ==
  ASSUME NEW op \in Stage, NEW x \in Expander(op), x.op = "recursive"
  PROVE  /\ op.op = "recurse" /\ x \in RecursiveIts
         /\ x.ctx \in Context \cup {None} /\ x.base \in Context \cup {None}
         /\ x.neighbors \in Seq(Vertex)
         /\ x.ctx = None => x.neighbors = << >> \/ x.base \in Context
<1>1. NoIterator.op = "none"
  BY DEF NoIterator
<1>2. \A y \in EdgeIts : y.op = "edge"
  BY DEF EdgeIts
<1>3. \A y \in [op : {"unpack"}, contexts : Seq(Context)] : y.op = "unpack"
  OBVIOUS
<1>4. x \in RecursiveIts /\ op.op = "recurse" /\ (x.ctx = None => x.neighbors = << >> \/ x.base \in Context)
  BY <1>1, <1>2, <1>3 DEF Expander, EdgeIts, RecursiveIts
<1> QED BY <1>4 DEF RecursiveIts

\* The inner iterator that unpacks a context.
LEMMA UnpackItIs ==
  ASSUME NEW op \in Stage, NEW x \in Expander(op), x.op = "unpack"
  PROVE  /\ op.op = "unpack" /\ x.contexts \in Seq(Context) /\ Unsuspendable(x.contexts)
         /\ x = UnpackIt(x.contexts)
<1>1. NoIterator.op = "none"
  BY DEF NoIterator
<1>2. \A y \in EdgeIts : y.op = "edge"
  BY DEF EdgeIts
<1>3. \A y \in RecursiveIts : y.op = "recursive"
  BY DEF RecursiveIts
<1>4. x \in [op : {"unpack"}, contexts : Seq(Context)] /\ op.op = "unpack" /\ Unsuspendable(x.contexts)
  BY <1>1, <1>2, <1>3 DEF Expander, EdgeIts, RecursiveIts
<1> QED BY <1>4 DEF UnpackIt

\* Which stage has which inner iterator.
LEMMA ExpanderKinds ==
  ASSUME NEW op \in Stage, NEW x \in Expander(op)
  PROVE  /\ x.op \in {"none", "edge", "recursive", "unpack"}
         /\ x.op = "none" => x = NoIterator
         /\ op.op \notin {"neighbors", "recurse", "unpack"} => x = NoIterator
<1>1. NoIterator.op = "none"
  BY DEF NoIterator
<1>2. \A y \in EdgeIts : y.op = "edge"
  BY DEF EdgeIts
<1>3. \A y \in RecursiveIts : y.op = "recursive"
  BY DEF RecursiveIts
<1>4. \A y \in [op : {"unpack"}, contexts : Seq(Context)] : y.op = "unpack"
  OBVIOUS
<1> QED BY <1>1, <1>2, <1>3, <1>4 DEF Expander, EdgeIts, RecursiveIts

\* The answer of a plain edge for what is missing.
MissingLeft(op, x) ==
  IF /\ ~ x.ended
     /\ \/ x.ctx.active = None
        \/ ~ x.hasNeighbors /\ x.neighbors = << >> /\ op.optional
  THEN <<SplitAndMoveToVertex(x.ctx, None)>> ELSE << >>

\* What an inner iterator has still to answer, by its kind.
LEMMA RemainingIs ==
  ASSUME NEW op, NEW x
  PROVE  /\ x.op = "none" => Remaining(op, x) = << >>
         /\ x.op = "edge" => Remaining(op, x) = Moved(x.ctx, x.neighbors) \o MissingLeft(op, x)
         /\ x.op = "recursive" =>
              Remaining(op, x) = IF x.ctx = None THEN Moved(x.base, x.neighbors)
                                                 ELSE OneLevel(x.ctx, x.neighbors)
         /\ x.op = "unpack" => Remaining(op, x) = Unsuspended(x.contexts)
BY DEF Remaining, MissingLeft

\* A stage without an inner iterator has nothing to answer.
LEMMA NoneRemains ==
  ASSUME NEW op
  PROVE  /\ Remaining(op, NoIterator) = << >>
         /\ NoIterator \in Expander(op)
         /\ NoIterator.op = "none"
BY RemainingIs DEF NoIterator, Expander

\* Vertices are vertices or missing.
LEMMA VerticesAreMaybe ==
  ASSUME NEW s \in Seq(Vertex)
  PROVE  s \in Seq(MaybeVertex)
<1>1. Vertex \subseteq MaybeVertex
  BY DEF MaybeVertex
<1> QED BY <1>1, SeqMonotonic

\* Moving a context nowhere.
LEMMA MovedNothing ==
  ASSUME NEW ctx
  PROVE  Moved(ctx, << >>) = << >>
BY DEF Moved

\* The context without a vertex, if it is still to come.
LEMMA MissingLeftType ==
  ASSUME NEW op, NEW x, x.ctx \in Context
  PROVE  MissingLeft(op, x) \in Seq(Context)
<1>1. SplitAndMoveToVertex(x.ctx, None) \in Context
  BY MoveType DEF MaybeVertex
<1>2. <<SplitAndMoveToVertex(x.ctx, None)>> \in Seq(Context)
  BY <1>1
<1> QED BY <1>2 DEF MissingLeft

\* What is left to answer are contexts.
LEMMA RemainingType ==
  ASSUME NEW op \in Stage, NEW x \in Expander(op)
  PROVE  Remaining(op, x) \in Seq(Context)
<1>1. CASE x.op = "none"
  <2>1. Remaining(op, x) = << >>
    BY <1>1, RemainingIs
  <2> QED BY <2>1
<1>2. CASE x.op = "edge"
  <2>1. x.ctx \in Context /\ x.neighbors \in Seq(MaybeVertex)
    BY <1>2, EdgeItIs, VerticesAreMaybe
  <2>2. Moved(x.ctx, x.neighbors) \in Seq(Context) /\ MissingLeft(op, x) \in Seq(Context)
    BY <2>1, MovedType, MissingLeftType
  <2>3. Moved(x.ctx, x.neighbors) \o MissingLeft(op, x) \in Seq(Context)
    BY <2>2, ConcatProperties
  <2> QED BY <1>2, <2>3, RemainingIs
<1>3. CASE x.op = "recursive"
  <2>1. /\ x.ctx \in Context \cup {None} /\ x.neighbors \in Seq(MaybeVertex)
        /\ x.ctx = None => x.neighbors = << >> \/ x.base \in Context
    BY <1>3, RecursiveItIs, VerticesAreMaybe
  <2>2. CASE x.ctx = None /\ x.neighbors = << >>
    <3>1. Remaining(op, x) = << >>
      BY <1>3, <2>2, RemainingIs, MovedNothing
    <3> QED BY <3>1
  <2>3. CASE x.ctx = None /\ x.base \in Context
    BY <1>3, <2>1, <2>3, RemainingIs, MovedType
  <2>4. CASE x.ctx # None
    BY <1>3, <2>1, <2>4, RemainingIs, OneLevelType
  <2> QED BY <2>1, <2>2, <2>3, <2>4
<1>4. CASE x.op = "unpack"
  BY <1>4, UnpackItIs, RemainingIs, UnsuspendedType
<1> QED BY <1>1, <1>2, <1>3, <1>4, ExpanderKinds

\* After one more neighbor.
NextNeighbor(x) == [x EXCEPT !.neighbors = Tail(@), !.hasNeighbors = TRUE]

\* EdgeExpander::next() with a neighbor left answers the first context that is left.
LEMMA EdgeNext ==
  ASSUME NEW op \in Stage, NEW x \in Expander(op), x.op = "edge", x.neighbors # << >>
  PROVE  /\ NextNeighbor(x) \in Expander(op)
         /\ SplitAndMoveToVertex(x.ctx, Head(x.neighbors)) \in Context
         /\ Remaining(op, x) =
              <<SplitAndMoveToVertex(x.ctx, Head(x.neighbors))>> \o Remaining(op, NextNeighbor(x))
<1> DEFINE y == NextNeighbor(x)
           s == x.neighbors
           h == Head(s)
           t == Tail(s)
           c == SplitAndMoveToVertex(x.ctx, h)
           a == <<c>>
           b == Moved(x.ctx, t)
           m == MissingLeft(op, x)
<1>1. op.op = "neighbors" /\ x \in EdgeIts /\ x.ctx \in Context /\ s \in Seq(Vertex)
  BY EdgeItIs
<1>2. s \in Seq(MaybeVertex)
  BY <1>1, VerticesAreMaybe
<1>3. h \in Vertex /\ t \in Seq(Vertex) /\ h \in MaybeVertex /\ t \in Seq(MaybeVertex)
  <2>1. s # << >>
    OBVIOUS
  <2> HIDE DEF s
  <2> QED BY <1>1, <1>2, <2>1, HeadTail
<1>4. Moved(x.ctx, s) = a \o b
  <2>1. s # << >>
    OBVIOUS
  <2> HIDE DEF s
  <2> QED BY <1>1, <1>2, <2>1, MovedHead
<1>5. /\ y \in EdgeIts /\ y.op = "edge" /\ y.ctx = x.ctx /\ y.neighbors = t
      /\ y.hasNeighbors = TRUE /\ y.ended = x.ended
  <2>1. y = [[x EXCEPT !.neighbors = t] EXCEPT !.hasNeighbors = TRUE]
    BY DEF NextNeighbor
  <2> DEFINE z == [x EXCEPT !.neighbors = t]
  <2>2. z \in EdgeIts /\ z.op = "edge" /\ z.ctx = x.ctx /\ z.neighbors = t /\ z.ended = x.ended
    BY <1>1, <1>3 DEF EdgeIts
  <2>3. y = [z EXCEPT !.hasNeighbors = TRUE]
    BY <2>1
  <2> HIDE DEF z, y
  <2> QED BY <2>2, <2>3 DEF EdgeIts
<1>6. y \in Expander(op)
  BY <1>1, <1>5 DEF Expander, EdgeIts
<1>7. MissingLeft(op, y) = m
  BY <1>5 DEF MissingLeft
<1>8. c \in Context
  BY <1>1, <1>3, MoveType
<1>9. a \in Seq(Context) /\ b \in Seq(Context) /\ m \in Seq(Context)
  <2>1. a \in Seq(Context)
    BY <1>8
  <2>2. b \in Seq(Context)
    BY <1>1, <1>3, MovedType
  <2>3. m \in Seq(Context)
    BY <1>1, MissingLeftType
  <2> QED BY <2>1, <2>2, <2>3
<1>10. Remaining(op, x) = Moved(x.ctx, s) \o m /\ Remaining(op, y) = b \o m
  BY <1>5, <1>7, RemainingIs
<1> HIDE DEF y, s, h, t, c, a, b, m
<1>11. Associates(a, b, m)
  BY <1>9, ConcatAssociates
<1>12. Remaining(op, x) = a \o Remaining(op, y)
  BY <1>4, <1>10, <1>11 DEF Associates
<1> QED BY <1>6, <1>8, <1>12 DEF y, s, h, c, a

\* EdgeExpander::next() without neighbors left answers the context without a vertex or ends.
LEMMA EdgeLast ==
  ASSUME NEW op \in Stage, NEW x \in Expander(op), x.op = "edge", x.neighbors = << >>
  PROVE  LET y == [x EXCEPT !.ended = TRUE]
             missing == ~ x.ended /\ (x.ctx.active = None \/ (~ x.hasNeighbors /\ op.optional))
         IN  /\ missing => /\ y \in Expander(op) /\ Remaining(op, y) = << >>
                           /\ SplitAndMoveToVertex(x.ctx, None) \in Context
                           /\ Remaining(op, x) = <<SplitAndMoveToVertex(x.ctx, None)>>
             /\ ~ missing => Remaining(op, x) = << >>
<1> DEFINE y == [x EXCEPT !.ended = TRUE]
           missing == ~ x.ended /\ (x.ctx.active = None \/ (~ x.hasNeighbors /\ op.optional))
           c == SplitAndMoveToVertex(x.ctx, None)
<1>1. op.op = "neighbors" /\ x \in EdgeIts /\ x.ctx \in Context
  BY EdgeItIs
<1>2. /\ y \in EdgeIts /\ y.op = "edge" /\ y.ctx = x.ctx /\ y.neighbors = << >> /\ y.ended = TRUE
  BY <1>1 DEF EdgeIts
<1>3. y \in Expander(op)
  BY <1>1, <1>2 DEF Expander, EdgeIts
<1>4. c \in Context
  BY <1>1, MoveType DEF MaybeVertex
<1> HIDE DEF y
<1>5. Remaining(op, y) = << >>
  <2>1. MissingLeft(op, y) = << >> /\ Moved(y.ctx, y.neighbors) = << >>
    BY <1>2, MovedNothing DEF MissingLeft
  <2> QED BY <1>2, <2>1, RemainingIs
<1>6. Remaining(op, x) = MissingLeft(op, x)
  <2>1. Moved(x.ctx, x.neighbors) = << >> /\ MissingLeft(op, x) \in Seq(Context)
    BY <1>1, MovedNothing, MissingLeftType
  <2> QED BY <2>1, RemainingIs, ConcatEmptySeq
<1>7. MissingLeft(op, x) = IF missing THEN <<c>> ELSE << >>
  BY DEF MissingLeft
<1> HIDE DEF missing, c
<1> QED BY <1>3, <1>4, <1>5, <1>6, <1>7 DEF y, missing, c

FirstNeighbor(x) ==
  [x EXCEPT !.neighbors = Tail(@), !.ctx = None, !.base = SplitAndMoveToVertex(x.ctx, None)]

\* RecursiveEdgeExpander::next() for the first neighbor.
LEMMA RecursiveFirstNext ==
  ASSUME NEW op \in Stage, NEW x \in Expander(op), x.op = "recursive", x.neighbors # << >>, x.ctx # None
  PROVE  /\ FirstNeighbor(x) \in Expander(op)
         /\ FirstReached(x.ctx, Head(x.neighbors)) \in Context
         /\ Remaining(op, x) =
              <<FirstReached(x.ctx, Head(x.neighbors))>> \o Remaining(op, FirstNeighbor(x))
<1> DEFINE y == FirstNeighbor(x)
           s == x.neighbors
           h == Head(s)
           t == Tail(s)
           b == SplitAndMoveToVertex(x.ctx, None)
<1>1. op.op = "recurse" /\ x \in RecursiveIts /\ x.ctx \in Context /\ s \in Seq(Vertex) /\ s # << >>
  BY RecursiveItIs
<1>2. b \in Context /\ None \in MaybeVertex
  BY <1>1, MoveType DEF MaybeVertex
<1>3. h \in Vertex /\ t \in Seq(Vertex)
  <2> HIDE DEF s
  <2> QED BY <1>1, HeadTail
<1>4. t \in Seq(MaybeVertex) /\ h \in MaybeVertex
  <2> HIDE DEF t, h
  <2> QED BY <1>3, VerticesAreMaybe DEF MaybeVertex
<1>5. /\ y \in RecursiveIts /\ y.op = "recursive" /\ y.ctx = None /\ y.base = b /\ y.neighbors = t
  <2> DEFINE z == [x EXCEPT !.neighbors = t]
             w == [z EXCEPT !.ctx = None]
  <2>1. y = [w EXCEPT !.base = b]
    BY DEF FirstNeighbor
  <2>2. z \in RecursiveIts /\ z.op = "recursive" /\ z.neighbors = t
    BY <1>1, <1>3 DEF RecursiveIts
  <2> HIDE DEF z, y, b
  <2>3. w \in RecursiveIts /\ w.op = "recursive" /\ w.neighbors = t /\ w.ctx = None
    BY <2>2 DEF RecursiveIts
  <2> HIDE DEF w
  <2> QED BY <1>2, <2>1, <2>3 DEF RecursiveIts
<1> HIDE DEF y, b
<1>6. y \in Expander(op)
  BY <1>1, <1>2, <1>5 DEF Expander, RecursiveIts
<1>7. FirstReached(x.ctx, h) \in Context
  <2> HIDE DEF h
  <2> QED BY <1>1, <1>4, FirstReachedType
<1>8. Remaining(op, x) = <<FirstReached(x.ctx, h)>> \o Moved(x.ctx, t)
  BY <1>1, RemainingIs DEF OneLevel
<1>9. Moved(b, t) = Moved(x.ctx, t)
  <2> HIDE DEF t
  <2>1. \A k \in 1..Len(t) : SplitAndMoveToVertex(b, t[k]) = SplitAndMoveToVertex(x.ctx, t[k])
    BY <1>1, <1>2, <1>4, MoveMove, ElementOfSeq DEF b
  <2> QED BY <2>1 DEF Moved
<1>10. Remaining(op, y) = Moved(b, t)
  BY <1>5, RemainingIs
<1> QED BY <1>6, <1>7, <1>8, <1>9, <1>10 DEF y

OtherNeighbor(x) == [x EXCEPT !.neighbors = Tail(@)]

\* RecursiveEdgeExpander::next() for the others.
LEMMA RecursiveOtherNext ==
  ASSUME NEW op \in Stage, NEW x \in Expander(op), x.op = "recursive", x.neighbors # << >>, x.ctx = None
  PROVE  /\ OtherNeighbor(x) \in Expander(op)
         /\ SplitAndMoveToVertex(x.base, Head(x.neighbors)) \in Context
         /\ Remaining(op, x) =
              <<SplitAndMoveToVertex(x.base, Head(x.neighbors))>> \o Remaining(op, OtherNeighbor(x))
<1> DEFINE y == OtherNeighbor(x)
           s == x.neighbors
           h == Head(s)
           t == Tail(s)
           b == x.base
<1>1. op.op = "recurse" /\ x \in RecursiveIts /\ b \in Context /\ s \in Seq(Vertex) /\ s # << >>
  BY RecursiveItIs
<1>2. s \in Seq(MaybeVertex)
  <2> HIDE DEF s
  <2> QED BY <1>1, VerticesAreMaybe
<1>3. h \in Vertex /\ t \in Seq(Vertex) /\ h \in MaybeVertex /\ Moved(b, s) = <<SplitAndMoveToVertex(b, h)>> \o Moved(b, t)
  <2> HIDE DEF s, b
  <2> QED BY <1>1, <1>2, HeadTail, MovedHead
<1>5. /\ y \in RecursiveIts /\ y.op = "recursive" /\ y.ctx = None /\ y.base = b /\ y.neighbors = t
  <2>1. y = [x EXCEPT !.neighbors = t]
    BY DEF OtherNeighbor
  <2> QED BY <1>1, <1>3, <2>1 DEF RecursiveIts
<1>5a. SplitAndMoveToVertex(b, h) \in Context
  <2> HIDE DEF h, b
  <2> QED BY <1>1, <1>3, MoveType
<1>5b. Remaining(op, x) = Moved(b, s)
  BY RemainingIs
<1> HIDE DEF y, b
<1>6. y \in Expander(op)
  BY <1>1, <1>5 DEF Expander, RecursiveIts
<1>7. Remaining(op, y) = Moved(b, t)
  BY <1>5, RemainingIs
<1> QED BY <1>3, <1>5a, <1>5b, <1>6, <1>7 DEF y, b

\* RecursiveEdgeExpander::next() without neighbors left.
LEMMA RecursiveLast ==
  ASSUME NEW op \in Stage, NEW x \in Expander(op), x.op = "recursive", x.neighbors = << >>
  PROVE  /\ x.ctx # None => /\ [x EXCEPT !.ctx = None] \in Expander(op)
                            /\ Remaining(op, [x EXCEPT !.ctx = None]) = << >>
                            /\ x.ctx \in Context
                            /\ Remaining(op, x) = <<x.ctx>>
         /\ x.ctx = None => Remaining(op, x) = << >>
<1> DEFINE y == [x EXCEPT !.ctx = None]
<1>1. op.op = "recurse" /\ x \in RecursiveIts /\ x.ctx \in Context \cup {None}
  BY RecursiveItIs
<1>2. y \in RecursiveIts /\ y.op = "recursive" /\ y.ctx = None /\ y.neighbors = << >>
  BY <1>1 DEF RecursiveIts
<1> HIDE DEF y
<1>3. y \in Expander(op)
  BY <1>1, <1>2 DEF Expander, RecursiveIts
<1>4. Remaining(op, y) = << >>
  BY <1>2, RemainingIs, MovedNothing
<1>5. x.ctx = None => Remaining(op, x) = << >>
  BY RemainingIs, MovedNothing
<1>6. x.ctx # None => Remaining(op, x) = <<x.ctx>>
  BY RemainingIs DEF OneLevel
<1> QED BY <1>1, <1>3, <1>4, <1>5, <1>6 DEF y

NextContext(x) == [x EXCEPT !.contexts = Tail(@)]

\* The next context of those that were unpacked.
LEMMA UnpackNext ==
  ASSUME NEW op \in Stage, NEW x \in Expander(op), x.op = "unpack"
  PROVE  /\ x.contexts # << >> =>
              /\ NextContext(x) \in Expander(op)
              /\ EnsureUnsuspended(Head(x.contexts)) \in Context
              /\ Remaining(op, x) = <<EnsureUnsuspended(Head(x.contexts))>> \o Remaining(op, NextContext(x))
         /\ x.contexts = << >> => Remaining(op, x) = << >>
<1> DEFINE s == x.contexts
           y == UnpackIt(Tail(s))
<1>1. op.op = "unpack" /\ s \in Seq(Context) /\ Unsuspendable(s) /\ x = UnpackIt(s)
  BY UnpackItIs
<1>2. Remaining(op, x) = Unsuspended(s)
  BY RemainingIs
<1>3. NextContext(x) = y
  <2>1. NextContext(x) = [x EXCEPT !.contexts = Tail(s)]
    BY DEF NextContext
  <2> DEFINE t == Tail(s)
  <2>2. x = [op |-> "unpack", contexts |-> s]
    BY <1>1 DEF UnpackIt
  <2> HIDE DEF s, t
  <2>3. [x EXCEPT !.contexts = t] = [op |-> "unpack", contexts |-> t]
    BY <2>2
  <2> QED BY <2>1, <2>3 DEF UnpackIt, t
<1>4. y.op = "unpack" /\ y.contexts = Tail(s)
  BY DEF UnpackIt
<1>5. Remaining(op, y) = Unsuspended(Tail(s))
  BY <1>4, RemainingIs
<1>6. CASE s # << >>
  <2>1. /\ Tail(s) \in Seq(Context) /\ Unsuspendable(Tail(s))
        /\ EnsureUnsuspended(Head(s)) \in Context
        /\ Unsuspended(s) = <<EnsureUnsuspended(Head(s))>> \o Unsuspended(Tail(s))
    <3> HIDE DEF s
    <3> QED BY <1>1, <1>6, UnsuspendedHead
  <2>2. y \in Expander(op)
    <3> DEFINE t == Tail(s)
    <3>1. t \in Seq(Context) /\ Unsuspendable(t) /\ y = UnpackIt(t)
      BY <2>1
    <3> HIDE DEF t, y
    <3>2. y \in [op : {"unpack"}, contexts : Seq(Context)] /\ y.contexts = t
      BY <3>1 DEF UnpackIt
    <3> QED BY <1>1, <3>1, <3>2 DEF Expander
  <2> QED BY <1>2, <1>3, <1>5, <1>6, <2>1, <2>2
<1>7. CASE s = << >>
  BY <1>2, <1>7 DEF Unsuspended
<1> QED BY <1>6, <1>7

\* The inner iterator that a stage starts for a context.
Begun(op, g, ctx) ==
  CASE op.op = "neighbors" -> EdgeIt(ctx, Neighbors(g, ctx), FALSE, FALSE)
    [] op.op = "recurse" -> RecursiveIt(ctx, None, Neighbors(g, ctx))
    [] op.op = "unpack" -> UnpackIt(UnpackPiggyback(ctx))

\* An inner iterator that begins has everything to answer.
LEMMA BegunAnswers ==
  ASSUME NEW op \in Stage, NEW g \in Data, NEW ctx \in Received(op),
         op.op \in {"neighbors", "recurse", "unpack"}
  PROVE  Begun(op, g, ctx) \in Expander(op) /\ Remaining(op, Begun(op, g, ctx)) = Out(op, g, ctx)
<1> DEFINE s == Neighbors(g, ctx)
           x == Begun(op, g, ctx)
<1>1. ctx \in Context /\ Prepared(op, ctx)
  BY DEF Received
<1>2. s \in Seq(Vertex) /\ s \in Seq(MaybeVertex)
  BY <1>1, NeighborsType
<1>3. CASE op.op = "neighbors"
  <2> DEFINE m == IF ctx.active = None \/ (s = << >> /\ op.optional)
                    THEN <<SplitAndMoveToVertex(ctx, None)>> ELSE << >>
  <2>1. x = EdgeIt(ctx, s, FALSE, FALSE)
    BY <1>3 DEF Begun
  <2>2. Out(op, g, ctx) = Moved(ctx, s) \o m
    BY <1>3 DEF Out, AlongEdge
  <2> HIDE DEF s, x, m
  <2>3. x \in EdgeIts /\ x.op = "edge" /\ x.ctx = ctx /\ x.neighbors = s /\ x.hasNeighbors = FALSE /\ x.ended = FALSE
    BY <1>1, <1>2, <2>1 DEF EdgeIts, EdgeIt
  <2>4. x \in Expander(op)
    BY <1>3, <2>3 DEF Expander, EdgeIts
  <2>5. MissingLeft(op, x) = m
    BY <2>3 DEF MissingLeft, m
  <2>6. Remaining(op, x) = Moved(ctx, s) \o m
    BY <2>3, <2>5, RemainingIs
  <2> QED BY <2>2, <2>4, <2>6 DEF x
<1>4. CASE op.op = "recurse"
  <2>1. x = RecursiveIt(ctx, None, s)
    BY <1>4 DEF Begun
  <2>2. Out(op, g, ctx) = OneLevel(ctx, s)
    BY <1>4 DEF Out
  <2>3. ctx # None
    BY <1>1, ExecutionAssumption
  <2> HIDE DEF s, x
  <2>4. x \in RecursiveIts /\ x.op = "recursive" /\ x.ctx = ctx /\ x.neighbors = s
    BY <1>1, <1>2, <2>1 DEF RecursiveIts, RecursiveIt
  <2>5. x \in Expander(op)
    BY <1>4, <2>3, <2>4 DEF Expander, RecursiveIts
  <2>6. Remaining(op, x) = OneLevel(ctx, s)
    BY <2>3, <2>4, RemainingIs
  <2> QED BY <2>2, <2>5, <2>6 DEF x
<1>5. CASE op.op = "unpack"
  <2> DEFINE u == UnpackPiggyback(ctx)
  <2>1. x = UnpackIt(u)
    BY <1>5 DEF Begun
  <2>2. Out(op, g, ctx) = Unsuspended(u)
    BY <1>5 DEF Out
  <2>3. u \in Seq(Context) /\ Unsuspendable(u)
    BY <1>1, <1>5, UnpackedType DEF Prepared
  <2> HIDE DEF x, u
  <2>4. x \in [op : {"unpack"}, contexts : Seq(Context)] /\ x.op = "unpack" /\ x.contexts = u
    BY <2>1, <2>3 DEF UnpackIt
  <2>5. x \in Expander(op)
    BY <1>5, <2>3, <2>4 DEF Expander
  <2>6. Remaining(op, x) = Unsuspended(u)
    BY <2>4, RemainingIs
  <2> QED BY <2>2, <2>5, <2>6 DEF x
<1> QED BY <1>3, <1>4, <1>5

\* What waits in a queue is the beginning of what comes to its stage.
LEMMA QueueIsPrefix ==
  ASSUME NEW W, NEW ops \in Seq(Stage), NEW g \in Data, NEW q \in [1..Len(ops) + 1 -> Seq(Context)],
         NEW x, NEW src \in Seq(Vertex), IsPending(W, ops, g, q, x, src), NEW i \in 1..Len(ops) + 1
  PROVE  \E rest \in Seq(Context) : Joins(W[i], q[i], rest)
<1> DEFINE n == Len(ops)
<1>0. n \in Nat
  OBVIOUS
<1>a. /\ W[1] = q[1] \o NewOnes(src)
      /\ \A k \in 1..n :
           /\ ops[k] \in Stage /\ x[k] \in Expander(ops[k]) /\ W[k] \in Seq(Received(ops[k]))
           /\ W[k + 1] = q[k + 1] \o (Remaining(ops[k], x[k]) \o Each(ops[k], g, W[k]))
  BY ElementOfSeq DEF IsPending
<1>1. CASE i = 1
  <2>1. q[1] \in Seq(Context) /\ NewOnes(src) \in Seq(Context)
    <3>1. 1 \in 1..n + 1
      BY <1>0
    <3> QED BY <3>1, NewOnesType
  <2> DEFINE a == q[1]
             b == NewOnes(src)
  <2>2. a \in Seq(Context) /\ b \in Seq(Context) /\ W[1] = a \o b
    BY <1>a, <2>1
  <2> HIDE DEF a, b
  <2>3. Joins(W[1], a, b)
    BY <2>2, ConcatJoins
  <2> QED BY <1>1, <2>2, <2>3 DEF a
<1>2. CASE i # 1
  <2> DEFINE k == i - 1
             op == ops[k]
             r == Remaining(op, x[k])
             e == Each(op, g, W[k])
  <2>1. k \in 1..n /\ k + 1 = i
    BY <1>0, <1>2
  <2> HIDE DEF k, n
  <2>2. op \in Stage /\ x[k] \in Expander(op) /\ W[k] \in Seq(Received(op))
        /\ W[k + 1] = q[k + 1] \o (r \o e)
    BY <1>a, <2>1
  <2> HIDE DEF op
  <2>3. r \in Seq(Context) /\ e \in Seq(Context)
    BY <2>2, RemainingType, EachType
  <2> HIDE DEF r, e
  <2>4. r \o e \in Seq(Context)
    BY <2>3, ConcatProperties
  <2>5. q[i] \in Seq(Context)
    OBVIOUS
  <2> DEFINE t == r \o e
             a == q[i]
  <2>6. t \in Seq(Context) /\ a \in Seq(Context) /\ W[i] = a \o t
    BY <2>1, <2>2, <2>4, <2>5
  <2> HIDE DEF t, a
  <2>7. Joins(W[i], a, t)
    BY <2>6, ConcatJoins
  <2> QED BY <2>6, <2>7 DEF a
<1> QED BY <1>1, <1>2

\* A stage takes one context and passes on what it makes of it, of which it
\* keeps what its inner iterator has still to answer.
TakesOne(ops, g, q, x, q2, x2, i, out) ==
  /\ q[i] # << >> /\ x[i] = NoIterator
  /\ q2[i] = Tail(q[i]) /\ q2[i + 1] = q[i + 1] \o out
  /\ \A j \in 1..Len(ops) + 1 : j # i /\ j # i + 1 => q2[j] = q[j]
  /\ x2[i] \in Expander(ops[i])
  /\ \A j \in 1..Len(ops) : j # i => x2[j] = x[j]
  /\ Out(ops[i], g, Head(q[i])) = out \o Remaining(ops[i], x2[i])

\* What a stage makes of what comes to it, the first context apart.
LEMMA EachFirst ==
  ASSUME NEW op \in Stage, NEW g \in Data, NEW w \in Seq(Received(op)), w # << >>
  PROVE  /\ Head(w) \in Received(op) /\ Tail(w) \in Seq(Received(op))
         /\ Out(op, g, Head(w)) \in Seq(Context) /\ Each(op, g, Tail(w)) \in Seq(Context)
         /\ Each(op, g, w) = Out(op, g, Head(w)) \o Each(op, g, Tail(w))
<1> DEFINE h == Head(w)
           t == Tail(w)
<1>1. h \in Received(op) /\ t \in Seq(Received(op)) /\ Joins(w, <<h>>, t)
  BY HeadTail
<1> HIDE DEF h, t
<1>2. <<h>> \in Seq(Received(op))
  BY <1>1
<1>3. w = <<h>> \o t
  BY <1>1, <1>2, ConcatIs
<1>4. Each(op, g, <<h>> \o t) = Each(op, g, <<h>>) \o Each(op, g, t)
  BY <1>1, <1>2, EachConcat
<1>5. Each(op, g, <<h>>) = Out(op, g, h) /\ Out(op, g, h) \in Seq(Context) /\ Each(op, g, t) \in Seq(Context)
  BY <1>1, EachOne, OutType, EachType
<1> QED BY <1>1, <1>3, <1>4, <1>5 DEF h, t

\* When a stage takes a context, the same comes to the consumer.
LEMMA PendingTakes ==
  ASSUME NEW W, NEW ops \in Seq(Stage), NEW g \in Data, NEW q \in [1..Len(ops) + 1 -> Seq(Context)],
         NEW x, NEW src \in Seq(Vertex), IsPending(W, ops, g, q, x, src), NEW i \in 1..Len(ops),
         NEW q2, NEW x2, NEW out \in Seq(Context), TakesOne(ops, g, q, x, q2, x2, i, out)
  PROVE  \E V : IsPending(V, ops, g, q2, x2, src) /\ V[Len(ops) + 1] = W[Len(ops) + 1]
<1> DEFINE n == Len(ops)
           op == ops[i]
           w == W[i]
           h == Head(w)
           t == Tail(w)
           V == [W EXCEPT ![i] = t]
           r == Remaining(op, x2[i])
           e == Each(op, g, t)
           a == q[i + 1]
<1>0. n \in Nat /\ i \in 1..n + 1 /\ i + 1 \in 1..n + 1 /\ op \in Stage
  BY ElementOfSeq
<1>1. /\ W \in [1..n + 1 -> Seq(Context)]
      /\ W[1] = q[1] \o NewOnes(src)
      /\ \A k \in 1..n :
           /\ ops[k] \in Stage /\ x[k] \in Expander(ops[k]) /\ W[k] \in Seq(Received(ops[k]))
           /\ W[k + 1] = q[k + 1] \o (Remaining(ops[k], x[k]) \o Each(ops[k], g, W[k]))
  BY ElementOfSeq DEF IsPending
<1>2. /\ q[i] # << >> /\ x[i] = NoIterator
      /\ q2[i] = Tail(q[i]) /\ q2[i + 1] = a \o out
      /\ \A j \in 1..n + 1 : j # i /\ j # i + 1 => q2[j] = q[j]
      /\ x2[i] \in Expander(op)
      /\ \A j \in 1..n : j # i => x2[j] = x[j]
      /\ Out(op, g, Head(q[i])) = out \o r
  BY DEF TakesOne
<1>3. PICK rest \in Seq(Context) : Joins(w, q[i], rest)
  BY <1>0, QueueIsPrefix
<1>4. q[i] \in Seq(Context) /\ a \in Seq(Context) /\ w \in Seq(Context) /\ w \in Seq(Received(op))
  BY <1>0, <1>1
<1> HIDE DEF n
<1>5. w = q[i] \o rest
  <2> HIDE DEF w
  <2> QED BY <1>3, <1>4, ConcatIs
<1>6. Shifts(q[i], rest)
  BY <1>2, <1>4, ConcatShifts
<1>7. t = Tail(q[i]) \o rest /\ h = Head(q[i]) /\ w # << >>
  BY <1>5, <1>6 DEF Shifts
<1>8. /\ h \in Received(op) /\ t \in Seq(Received(op)) /\ e \in Seq(Context)
      /\ Each(op, g, w) = Out(op, g, h) \o e
  <2> HIDE DEF op, w
  <2> QED BY <1>0, <1>4, <1>7, EachFirst
<1>9. t \in Seq(Context)
  <2> HIDE DEF t
  <2>1. Received(op) \subseteq Context
    BY DEF Received
  <2> QED BY <1>8, <2>1, SeqMonotonic
<1>10. /\ V \in [1..n + 1 -> Seq(Context)] /\ V[i] = t
       /\ \A k \in 1..n + 1 : k # i => V[k] = W[k]
  <2> HIDE DEF t
  <2> QED BY <1>0, <1>1, <1>9
<1>11. r \in Seq(Context)
  <2> HIDE DEF op
  <2> QED BY <1>0, <1>2, RemainingType
\* What comes to the next stage stays the same.
<1>12. W[i + 1] = a \o Each(op, g, w)
  <2>1. W[i + 1] = a \o (Remaining(op, NoIterator) \o Each(op, g, w))
    <3>1. i \in 1..n
      BY DEF n
    <3>2. W[i + 1] = a \o (Remaining(op, x[i]) \o Each(op, g, w))
      BY <1>1, <3>1
    <3> HIDE DEF a, op, w
    <3> QED BY <1>2, <3>2
  <2> DEFINE f == Each(op, g, w)
  <2>2. f \in Seq(Context)
    <3> HIDE DEF op, w
    <3> QED BY <1>0, <1>4, EachType
  <2>3. W[i + 1] = a \o (Remaining(op, NoIterator) \o f)
    BY <2>1
  <2> HIDE DEF f, op, a, w
  <2>4. << >> \o f = f
    BY <2>2, ConcatEmptySeq
  <2>5. Remaining(op, NoIterator) = << >>
    BY NoneRemains
  <2> QED BY <2>3, <2>4, <2>5 DEF f
<1>13. W[i + 1] = q2[i + 1] \o (r \o e)
  <2>1. Out(op, g, h) = out \o r
    BY <1>2, <1>7
  <2> HIDE DEF a, r, e, op, h, w
  <2>2. W[i + 1] = a \o ((out \o r) \o e)
    BY <1>8, <1>12, <2>1
  <2>3. Nests(a, out, r, e)
    BY <1>4, <1>8, <1>11, ConcatNests
  <2> QED BY <1>2, <2>2, <2>3 DEF Nests
\* What comes to the stage itself has lost its first context.
<1>14. ASSUME NEW b \in Seq(Context), w = q[i] \o b
       PROVE  V[i] = q2[i] \o b
  <2>1. Shifts(q[i], b)
    BY <1>2, <1>4, ConcatShifts
  <2> HIDE DEF V
  <2>2. Tail(w) = Tail(q[i]) \o b
    BY <1>14, <2>1 DEF Shifts
  <2> QED BY <1>2, <1>10, <2>2
<1> HIDE DEF V, r, e, op, t, h
<1>15. V[1] = q2[1] \o NewOnes(src)
  <2>1. CASE i = 1
    <3>1. NewOnes(src) \in Seq(Context)
      BY NewOnesType
    <3> QED BY <1>1, <1>14, <2>1, <3>1
  <2>2. CASE i # 1
    <3>1. 1 \in 1..n + 1 /\ 1 # i /\ 1 # i + 1
      BY <1>0, <2>2
    <3> QED BY <1>1, <1>2, <1>10, <3>1
  <2> QED BY <2>1, <2>2
<1>16. ASSUME NEW k \in 1..n
       PROVE  /\ x2[k] \in Expander(ops[k])
              /\ V[k] \in Seq(Received(ops[k]))
              /\ V[k + 1] = q2[k + 1] \o (Remaining(ops[k], x2[k]) \o Each(ops[k], g, V[k]))
  <2>1. k \in 1..n + 1 /\ k + 1 \in 1..n + 1
    BY <1>0
  <2>2. CASE k = i
    <3>1. V[k + 1] = W[k + 1]
      BY <1>10, <2>1, <2>2
    <3>2. V[k + 1] = q2[k + 1] \o (r \o e)
      BY <1>13, <2>2, <3>1
    <3> QED BY <1>2, <1>8, <1>10, <2>2, <3>2 DEF op, r, e
  <2>3. CASE k # i /\ k + 1 # i
    <3>1. V[k + 1] = W[k + 1] /\ V[k] = W[k] /\ x2[k] = x[k] /\ q2[k + 1] = q[k + 1]
      BY <1>2, <1>10, <2>1, <2>3
    <3> QED BY <1>1, <3>1
  <2>4. CASE k + 1 = i
    <3> DEFINE b == Remaining(ops[k], x[k]) \o Each(ops[k], g, W[k])
    <3>1. b \in Seq(Context)
      <4> DEFINE y == Remaining(ops[k], x[k])
                 z == Each(ops[k], g, W[k])
      <4>1. y \in Seq(Context) /\ z \in Seq(Context)
        BY <1>1, RemainingType, EachType
      <4> HIDE DEF y, z
      <4>2. y \o z \in Seq(Context)
        BY <4>1, ConcatProperties
      <4> QED BY <4>2 DEF y, z
    <3>2. w = q[i] \o b
      BY <1>1, <2>4
    <3>3. V[k] = W[k] /\ x2[k] = x[k]
      <4>1. k # i /\ k \in 1..n + 1
        BY <2>1, <2>4
      <4>2. V[k] = W[k]
        BY <1>10, <4>1
      <4>3. x2[k] = x[k]
        BY <1>2, <4>1
      <4> QED BY <4>2, <4>3
    <3>4. b = Remaining(ops[k], x2[k]) \o Each(ops[k], g, V[k])
      BY <3>3
    <3> HIDE DEF b, w
    <3>5. V[i] = q2[i] \o b
      BY <1>14, <3>1, <3>2
    <3>6. V[k + 1] = q2[k + 1] \o (Remaining(ops[k], x2[k]) \o Each(ops[k], g, V[k]))
      BY <2>4, <3>4, <3>5
    <3> QED BY <1>1, <3>3, <3>6
  <2> QED BY <2>2, <2>3, <2>4
<1>17. IsPending(V, ops, g, q2, x2, src)
  BY <1>10, <1>15, <1>16 DEF IsPending, n
<1>18. V[n + 1] = W[n + 1]
  <2>1. n + 1 \in 1..n + 1 /\ n + 1 # i
    BY <1>0
  <2> QED BY <1>10, <2>1
<1> QED BY <1>17, <1>18 DEF n

\* The inner iterator of a stage answers some of what it had still to answer.
AnswersSome(ops, q, x, q2, x2, i, out) ==
  /\ q2[i + 1] = q[i + 1] \o out
  /\ \A j \in 1..Len(ops) + 1 : j # i + 1 => q2[j] = q[j]
  /\ x2[i] \in Expander(ops[i])
  /\ \A j \in 1..Len(ops) : j # i => x2[j] = x[j]
  /\ Remaining(ops[i], x[i]) = out \o Remaining(ops[i], x2[i])

\* When an inner iterator answers, the same comes to every stage.
LEMMA PendingAnswers ==
  ASSUME NEW W, NEW ops \in Seq(Stage), NEW g \in Data, NEW q \in [1..Len(ops) + 1 -> Seq(Context)],
         NEW x, NEW src \in Seq(Vertex), IsPending(W, ops, g, q, x, src), NEW i \in 1..Len(ops),
         NEW q2, NEW x2, NEW out \in Seq(Context), AnswersSome(ops, q, x, q2, x2, i, out)
  PROVE  IsPending(W, ops, g, q2, x2, src)
<1> DEFINE n == Len(ops)
           op == ops[i]
           r == Remaining(op, x2[i])
           e == Each(op, g, W[i])
           a == q[i + 1]
<1>0. n \in Nat /\ i \in 1..n /\ i \in 1..n + 1 /\ i + 1 \in 1..n + 1 /\ op \in Stage
  BY ElementOfSeq
<1>1. /\ W \in [1..n + 1 -> Seq(Context)]
      /\ W[1] = q[1] \o NewOnes(src)
      /\ \A k \in 1..n :
           /\ ops[k] \in Stage /\ x[k] \in Expander(ops[k]) /\ W[k] \in Seq(Received(ops[k]))
           /\ W[k + 1] = q[k + 1] \o (Remaining(ops[k], x[k]) \o Each(ops[k], g, W[k]))
  BY ElementOfSeq DEF IsPending
<1>2. /\ q2[i + 1] = a \o out
      /\ \A j \in 1..n + 1 : j # i + 1 => q2[j] = q[j]
      /\ x2[i] \in Expander(op)
      /\ \A j \in 1..n : j # i => x2[j] = x[j]
      /\ Remaining(op, x[i]) = out \o r
  BY DEF AnswersSome
<1>3. a \in Seq(Context)
  BY <1>0
<1> HIDE DEF n
<1>4. W[i + 1] = a \o (Remaining(op, x[i]) \o e) /\ W[i] \in Seq(Received(op))
  BY <1>0, <1>1
<1> HIDE DEF op, r, a
<1>5. r \in Seq(Context) /\ e \in Seq(Context)
  BY <1>0, <1>2, <1>4, RemainingType, EachType DEF r
<1> HIDE DEF e
<1>6. W[i + 1] = q2[i + 1] \o (r \o e)
  <2>1. W[i + 1] = a \o ((out \o r) \o e)
    BY <1>2, <1>4
  <2>2. Nests(a, out, r, e)
    BY <1>3, <1>5, ConcatNests
  <2> QED BY <1>2, <2>1, <2>2 DEF Nests
<1>7. W[1] = q2[1] \o NewOnes(src)
  <2>1. 1 \in 1..n + 1 /\ 1 # i + 1
    BY <1>0
  <2> QED BY <1>1, <1>2, <2>1
<1>8. ASSUME NEW k \in 1..n
      PROVE  /\ x2[k] \in Expander(ops[k]) /\ W[k] \in Seq(Received(ops[k]))
             /\ W[k + 1] = q2[k + 1] \o (Remaining(ops[k], x2[k]) \o Each(ops[k], g, W[k]))
  <2>1. k + 1 \in 1..n + 1
    BY <1>0
  <2>2. CASE k = i
    BY <1>1, <1>2, <1>6, <2>2 DEF op, r, e
  <2>3. CASE k # i
    <3>1. k + 1 # i + 1
      BY <1>0, <2>3
    <3>2. q2[k + 1] = q[k + 1] /\ x2[k] = x[k]
      BY <1>2, <2>1, <2>3, <3>1
    <3> QED BY <1>1, <3>2
  <2> QED BY <2>2, <2>3
<1> QED BY <1>1, <1>7, <1>8 DEF IsPending, n

\* The first of the starting vertices.
LEMMA NewOnesHead ==
  ASSUME NEW src \in Seq(Vertex), src # << >>
  PROVE  /\ NewContext(Head(src)) \in Context /\ Tail(src) \in Seq(Vertex)
         /\ NewOnes(src) = <<NewContext(Head(src))>> \o NewOnes(Tail(src))
<1> DEFINE h == Head(src)
           t == Tail(src)
           F == [x \in Vertex |-> NewContext(x)]
<1>1. h \in Vertex /\ t \in Seq(Vertex) /\ Joins(src, <<h>>, t)
  BY HeadTail
<1> HIDE DEF h, t
<1>2. <<h>> \in Seq(Vertex) /\ NewContext(h) \in Context
  BY <1>1, NewType
<1>3. src = <<h>> \o t
  BY <1>1, <1>2, ConcatIs
<1>4. IsMap(F, Vertex, Context) /\ \A x \in Vertex : F[x] = NewContext(x)
  <2>1. \A x \in Vertex : NewContext(x) \in Context
    BY NewType
  <2>2. F \in [Vertex -> Context]
    BY <2>1
  <2> QED BY <2>2 DEF IsMap
<1> HIDE DEF F
<1>5. Image(F, <<h>> \o t) = Image(F, <<h>>) \o Image(F, t)
  <2> DEFINE u == <<h>>
  <2>1. u \in Seq(Vertex) /\ t \in Seq(Vertex) /\ IsMap(F, Vertex, Context)
    BY <1>1, <1>2, <1>4
  <2> HIDE DEF u
  <2>2. Image(F, u \o t) = Image(F, u) \o Image(F, t)
    BY <2>1, ImageConcat
  <2> QED BY <2>2 DEF u
<1>6. ASSUME NEW s \in Seq(Vertex) PROVE NewOnes(s) = Image(F, s)
  <2>1. \A k \in 1..Len(s) : F[s[k]] = NewContext(s[k])
    BY <1>4, ElementOfSeq
  <2> QED BY <2>1 DEF NewOnes, Image
<1>7. NewOnes(src) = NewOnes(<<h>>) \o NewOnes(t)
  BY <1>1, <1>2, <1>3, <1>5, <1>6
<1>8. NewOnes(<<h>>) = <<NewContext(h)>>
  BY DEF NewOnes
<1> QED BY <1>1, <1>2, <1>7, <1>8 DEF h, t

\* The source answers the first stage.
LEMMA PendingStarts ==
  ASSUME NEW W, NEW ops \in Seq(Stage), NEW g \in Data, NEW q \in [1..Len(ops) + 1 -> Seq(Context)],
         NEW x, NEW src \in Seq(Vertex), IsPending(W, ops, g, q, x, src), src # << >>,
         NEW q2, q2[1] = Append(q[1], NewContext(Head(src))),
         \A j \in 1..Len(ops) + 1 : j # 1 => q2[j] = q[j]
  PROVE  IsPending(W, ops, g, q2, x, Tail(src))
<1> DEFINE n == Len(ops)
           a == q[1]
           c == NewContext(Head(src))
           t == NewOnes(Tail(src))
<1>0. n \in Nat /\ 1 \in 1..n + 1
  OBVIOUS
<1>1. /\ W \in [1..n + 1 -> Seq(Context)]
      /\ W[1] = a \o NewOnes(src)
      /\ \A k \in 1..n :
           /\ x[k] \in Expander(ops[k]) /\ W[k] \in Seq(Received(ops[k]))
           /\ W[k + 1] = q[k + 1] \o (Remaining(ops[k], x[k]) \o Each(ops[k], g, W[k]))
  BY DEF IsPending
<1>2. c \in Context /\ NewOnes(src) = <<c>> \o t /\ Tail(src) \in Seq(Vertex)
  BY NewOnesHead
<1>3. a \in Seq(Context) /\ t \in Seq(Context)
  BY <1>0, <1>2, NewOnesType
<1>4. q2[1] = Append(a, c) /\ \A k \in 1..n : q2[k + 1] = q[k + 1]
  <2>1. \A k \in 1..n : k + 1 \in 1..n + 1 /\ k + 1 # 1
    BY <1>0
  <2> QED BY <2>1
<1> HIDE DEF a, c, t, n
<1>5. <<c>> \in Seq(Context) /\ Append(a, c) = a \o <<c>>
  BY <1>2, <1>3, AppendIsConcat
<1>6. Associates(a, <<c>>, t)
  BY <1>3, <1>5, ConcatAssociates
<1>7. W[1] = q2[1] \o t
  BY <1>1, <1>2, <1>4, <1>5, <1>6 DEF Associates
<1> QED BY <1>1, <1>4, <1>7 DEF IsPending, n, t

\* When nothing waits anywhere, all that comes to the consumer has come.
LEMMA NothingPending ==
  ASSUME NEW W, NEW ops \in Seq(Stage), NEW g \in Data, NEW q \in [1..Len(ops) + 1 -> Seq(Context)],
         NEW x, IsPending(W, ops, g, q, x, << >>),
         \A i \in 1..Len(ops) : q[i] = << >> /\ x[i] = NoIterator
  PROVE  W[Len(ops) + 1] = q[Len(ops) + 1]
<1> DEFINE n == Len(ops)
           P(k) == W[k + 1] = q[k + 1]
           N == {k \in 0..n : P(k)}
<1>0. n \in Nat
  OBVIOUS
<1>1. /\ W[1] = q[1] \o NewOnes(<< >>)
      /\ \A k \in 1..n : W[k + 1] = q[k + 1] \o (Remaining(ops[k], x[k]) \o Each(ops[k], g, W[k]))
  BY DEF IsPending
<1>2. \A k \in 1..n : q[k] = << >> /\ x[k] = NoIterator
  OBVIOUS
<1>3. \A k \in 1..n + 1 : q[k] \in Seq(Context)
  OBVIOUS
<1> HIDE DEF n
<1>4. P(0)
  <2>1. NewOnes(<< >>) = << >>
    BY DEF NewOnes
  <2>2. q[1] \o << >> = q[1]
    <3>1. 1 \in 1..n + 1
      BY <1>0
    <3> QED BY <1>3, <3>1, ConcatEmptySeq
  <2>3. W[1] = q[1] /\ 0 + 1 = 1
    BY <1>1, <2>1, <2>2
  <2> QED BY <2>3
<1>5. ASSUME NEW k \in 0..n - 1, P(k) PROVE P(k + 1)
  <2> DEFINE d == k + 1
  <2>1. d \in 1..n /\ d + 1 \in 1..n + 1
    BY <1>0
  <2>2. W[d] = q[d]
    BY <1>5
  <2> HIDE DEF d
  <2>3. W[d] = << >> /\ W[d + 1] = q[d + 1] \o (Remaining(ops[d], NoIterator) \o Each(ops[d], g, W[d]))
    BY <1>1, <1>2, <2>1, <2>2
  <2>4. Remaining(ops[d], NoIterator) = << >> /\ Each(ops[d], g, << >>) = << >>
    BY NoneRemains, EachNone
  <2>5. W[d + 1] = q[d + 1] \o (<< >> \o << >>)
    BY <2>3, <2>4
  <2>6. << >> \o << >> = << >>
    OBVIOUS
  <2>7. q[d + 1] \o << >> = q[d + 1]
    BY <1>3, <2>1, ConcatEmptySeq
  <2>8. W[d + 1] = q[d + 1]
    BY <2>5, <2>6, <2>7
  <2> QED BY <2>8 DEF d
<1>6. n \in N
  <2> HIDE DEF P
  <2>1. 0 \in N
    BY <1>0, <1>4
  <2>2. ASSUME NEW k \in N, k \in 0..n - 1 PROVE k + 1 \in N
    <3>1. P(k + 1) /\ k + 1 \in 0..n
      BY <1>0, <1>5, <2>2
    <3> QED BY <3>1
  <2> HIDE DEF N
  <2>3. 0..n \subseteq N
    BY <1>0, <2>1, <2>2, BoundedInduction
  <2> QED BY <1>0, <2>3
<1> QED BY <1>6 DEF n

\* Once the consumer has seen the end, every iterator has ended.
LEMMA AllEnded ==
  ASSUME NEW n \in Nat, NEW end, end[n + 1], \A i \in 1..n : end[i + 1] => end[i]
  PROVE  \A i \in 1..n + 1 : end[i]
<1> DEFINE P(k) == end[n + 1 - k]
           N == {k \in 0..n : P(k)}
<1>1. 0 \in N
  OBVIOUS
<1>2. ASSUME NEW k \in N, k \in 0..n - 1 PROVE k + 1 \in N
  <2> DEFINE i == n - k
  <2>1. i \in 1..n /\ i + 1 = n + 1 - k /\ i = n + 1 - (k + 1) /\ k + 1 \in 0..n
    BY <1>2
  <2>2. end[i + 1]
    BY <1>2, <2>1
  <2> HIDE DEF i
  <2>3. end[i]
    BY <2>1, <2>2
  <2> QED BY <2>1, <2>3
<1>3. 0..n \subseteq N
  <2> HIDE DEF N
  <2> QED BY <1>1, <1>2, BoundedInduction
<1>4. ASSUME NEW i \in 1..n + 1 PROVE end[i]
  <2> DEFINE k == n + 1 - i
  <2>1. k \in 0..n /\ i = n + 1 - k
    OBVIOUS
  <2> HIDE DEF k
  <2>2. P(k)
    BY <1>3, <2>1
  <2> QED BY <2>1, <2>2
<1> QED BY <1>4

\* At first what comes to the consumer is what the chain makes of the starting vertices.
LEMMA PendingAtFirst ==
  ASSUME NEW ops \in Seq(Stage), NEW g \in Data, NEW src \in Seq(Vertex), NEW s,
         RunsTo(ops, g, NewOnes(src), s), NEW q, NEW x,
         \A i \in 1..Len(ops) + 1 : q[i] = << >> /\ x[i] = NoIterator
  PROVE  \E W : IsPending(W, ops, g, q, x, src) /\ W[Len(ops) + 1] = s
<1> DEFINE n == Len(ops)
           start == NewOnes(src)
<1>0. n \in Nat /\ \A k \in 1..n : ops[k] \in Stage
  BY ElementOfSeq
<1>1. PICK T : IsRun(T, ops, g) /\ T[0] = start /\ T[n] = s
  BY DEF RunsTo
<1>2. /\ T \in [0..n -> Seq(Context)]
      /\ \A k \in 1..n : T[k - 1] \in Seq(Received(ops[k])) /\ T[k] = Each(ops[k], g, T[k - 1])
  BY <1>1 DEF IsRun
<1>3. start \in Seq(Context)
  BY NewOnesType
<1> HIDE DEF n, start
<1> DEFINE W == [i \in 1..n + 1 |-> T[i - 1]]
<1>4. W \in [1..n + 1 -> Seq(Context)] /\ \A i \in 1..n + 1 : W[i] = T[i - 1]
  <2>1. \A i \in 1..n + 1 : i - 1 \in 0..n
    BY <1>0
  <2> QED BY <1>2, <2>1
<1> HIDE DEF W
<1>5. W[1] = start /\ W[n + 1] = s
  <2>1. 1 \in 1..n + 1 /\ n + 1 \in 1..n + 1 /\ 1 - 1 = 0 /\ (n + 1) - 1 = n
    BY <1>0
  <2> QED BY <1>1, <1>4, <2>1
<1>6. q[1] = << >> /\ \A k \in 1..n : q[k] = << >> /\ q[k + 1] = << >> /\ x[k] = NoIterator
  <2>1. 1 \in 1..n + 1 /\ \A k \in 1..n : k \in 1..n + 1 /\ k + 1 \in 1..n + 1
    BY <1>0
  <2> QED BY <2>1 DEF n
<1>7. W[1] = q[1] \o start
  BY <1>3, <1>5, <1>6, ConcatEmptySeq
<1>8. ASSUME NEW k \in 1..n
      PROVE  /\ x[k] \in Expander(ops[k]) /\ W[k] \in Seq(Received(ops[k]))
             /\ W[k + 1] = q[k + 1] \o (Remaining(ops[k], x[k]) \o Each(ops[k], g, W[k]))
  <2>1. k \in 1..n + 1 /\ k + 1 \in 1..n + 1 /\ (k + 1) - 1 = k
    BY <1>0
  <2>2. W[k] = T[k - 1] /\ W[k + 1] = T[k]
    BY <1>4, <2>1
  <2>3. W[k] \in Seq(Received(ops[k])) /\ W[k + 1] = Each(ops[k], g, W[k])
    BY <1>2, <2>2
  <2> DEFINE e == Each(ops[k], g, W[k])
  <2>4. e \in Seq(Context)
    BY <1>0, <2>3, EachType
  <2>4a. W[k + 1] = e
    BY <2>3
  <2> HIDE DEF e
  <2>5. << >> \o e = e
    BY <2>4, ConcatEmptySeq
  <2>6. Remaining(ops[k], x[k]) = << >> /\ x[k] \in Expander(ops[k])
    BY <1>6, NoneRemains
  <2>7. q[k + 1] = << >>
    BY <1>6
  <2>8. W[k + 1] = q[k + 1] \o (Remaining(ops[k], x[k]) \o e)
    BY <2>4a, <2>5, <2>6, <2>7
  <2> QED BY <2>3, <2>6, <2>8 DEF e
<1>9. IsPending(W, ops, g, q, x, src)
  BY <1>4, <1>7, <1>8 DEF IsPending, n, start
<1> QED BY <1>5, <1>9 DEF n

Queues(q, ops) == q \in [1..Len(ops) + 1 -> Seq(Context)]

\* The same comes to the consumer.
ComesTo(out, ops, g, q, x, src) ==
  \E W : IsPending(W, ops, g, q, x, src) /\ W[Len(ops) + 1] = out

Idle(ops, q, x) == \A i \in 1..Len(ops) + 1 : q[i] = << >> /\ x[i] = NoIterator

\* The same, by its name.
LEMMA ComesAtFirst ==
  ASSUME NEW ops \in Seq(Stage), NEW g \in Data, NEW src \in Seq(Vertex), NEW s,
         RunsTo(ops, g, NewOnes(src), s), NEW q, NEW x, Idle(ops, q, x)
  PROVE  ComesTo(s, ops, g, q, x, src)
BY PendingAtFirst DEF ComesTo, Idle

\* The same, by its name.
LEMMA ComesAfterTakes ==
  ASSUME NEW W, NEW ops \in Seq(Stage), NEW g \in Data, NEW q, Queues(q, ops),
         NEW x, NEW src \in Seq(Vertex), IsPending(W, ops, g, q, x, src), NEW i \in 1..Len(ops),
         NEW q2, NEW x2, NEW out \in Seq(Context), TakesOne(ops, g, q, x, q2, x2, i, out)
  PROVE  ComesTo(W[Len(ops) + 1], ops, g, q2, x2, src)
<1>1. q \in [1..Len(ops) + 1 -> Seq(Context)]
  BY DEF Queues
<1>2. \E V : IsPending(V, ops, g, q2, x2, src) /\ V[Len(ops) + 1] = W[Len(ops) + 1]
  BY <1>1, PendingTakes
<1> QED BY <1>2 DEF ComesTo

\* The data sets considered are data.
LEMMA GraphsAreData == Graphs \subseteq Data
BY ExecutionAssumption DEF Data

\* The inductive invariant holds at first.
LEMMA InitIInv == Init => IInv
<1> SUFFICES ASSUME Init PROVE IInv
  OBVIOUS
<1>1. /\ plan \in Plans /\ graph \in Graphs /\ source \in Starting
      /\ stages = ComputeComponent(plan)
      /\ answer = Semantics!Rows(plan, graph, source)
      /\ turn = Consumer
      /\ queue = [i \in 1..Consumer |-> << >>]
      /\ ended = [i \in 1..Consumer |-> FALSE]
      /\ inner = [i \in 1..Consumer |-> NoIterator]
  BY DEF Init
<1>2. graph \in Data /\ source \in Seq(Vertex)
  BY <1>1, ExecutionAssumption DEF Data
<1> DEFINE n == Len(stages)
           m == Len(plan.edges) + 1
<1>3. /\ stages \in Seq(Stage)
      /\ \E s \in Seq(Context) :
           /\ RunsTo(stages, graph, NewOnes(source), s)
           /\ \A k \in 1..Len(s) : Stands(s[k], plan, m)
           /\ Image(RowFn(m), s) = answer
  BY <1>1, <1>2, ChainYieldsTheRows
<1>4. n \in Nat /\ Consumer = n + 1 /\ Consumer \in 1..Consumer /\ 1 \in 1..Consumer
  BY <1>3 DEF Consumer
<1>5. \A i \in 1..n + 1 : queue[i] = << >> /\ inner[i] = NoIterator /\ ended[i] = FALSE
  BY <1>1, <1>4
<1>6. Chained
  <2>1. << >> \in Seq(Context)
    OBVIOUS
  <2>2. queue \in [1..Consumer -> Seq(Context)] /\ ended \in [1..Consumer -> BOOLEAN]
        /\ DOMAIN inner = 1..Consumer /\ inner[Consumer] = NoIterator
    BY <1>1, <1>4, <2>1
  <2>3. turn \in 0..Consumer
    BY <1>1, <1>4
  <2> QED BY <1>1, <1>2, <1>3, <2>2, <2>3 DEF Chained
<1>7. EndedInOrder
  <2>1. \A i \in 1..n : i + 1 \in 1..n + 1
    BY <1>4
  <2> QED BY <1>4, <1>5, <2>1 DEF EndedInOrder
<1>8. Pending
  <2>1. PICK s \in Seq(Context) :
           /\ RunsTo(stages, graph, NewOnes(source), s)
           /\ \A k \in 1..Len(s) : Stands(s[k], plan, m)
           /\ Image(RowFn(m), s) = answer
    BY <1>3
  <2>2. PICK W : IsPending(W, stages, graph, queue, inner, source) /\ W[n + 1] = s
    <3>1. Idle(stages, queue, inner)
      BY <1>5 DEF Idle
    <3> HIDE DEF n, m
    <3>2. ComesTo(s, stages, graph, queue, inner, source)
      BY <1>2, <1>3, <2>1, <3>1, ComesAtFirst
    <3> QED BY <3>2 DEF ComesTo, n
  <2>3. Means(W, plan, stages, answer)
    BY <2>1, <2>2 DEF Means
  <2> QED BY <2>2, <2>3 DEF Pending
<1> QED BY <1>6, <1>7, <1>8 DEF IInv

\* No iterator ends while a stage before it deals with a context.
LEMMA EndedKeeps ==
  ASSUME EndedInOrder, stages \in Seq(Stage), NEW i \in 1..Len(stages), turn = i, turn' \in {i, i + 1},
         \A j \in 1..Len(stages) : j # i /\ j # i + 1 => queue'[j] = queue[j],
         \A j \in 1..Len(stages) : j # i => inner'[j] = inner[j],
         UNCHANGED <<stages, source, ended>>
  PROVE  EndedInOrder'
<1> DEFINE n == Len(stages)
<1>1. n \in Nat /\ Consumer = n + 1 /\ Consumer' = Consumer /\ stages' = stages /\ source' = source /\ ended' = ended
  BY DEF Consumer
<1>2. /\ ended[1] => source = << >>
      /\ \A j \in 1..n : ended[j + 1] => ended[j] /\ queue[j] = << >> /\ inner[j] = NoIterator
      /\ \A j \in 1..n + 1 : turn < j => ~ ended[j]
  BY <1>1 DEF EndedInOrder
<1>3. ASSUME NEW j \in 1..n, ended[j + 1]
      PROVE  ended[j] /\ queue'[j] = << >> /\ inner'[j] = NoIterator
  <2>1. j + 1 \in 1..n + 1
    BY <1>1
  <2>2. ~ (turn < j + 1)
    BY <1>2, <1>3, <2>1
  <2>3. j # i /\ j # i + 1
    BY <2>2
  <2> QED BY <1>2, <1>3, <2>3
<1>4. ASSUME NEW j \in 1..n + 1, turn' < j PROVE ~ ended[j]
  <2>1. turn < j
    BY <1>4
  <2> QED BY <1>2, <2>1
<1> HIDE DEF n
<1>5. /\ ended'[1] => source' = << >>
      /\ \A j \in 1..n : ended'[j + 1] => ended'[j] /\ queue'[j] = << >> /\ inner'[j] = NoIterator
      /\ \A j \in 1..n + 1 : turn' < j => ~ ended'[j]
  BY <1>1, <1>2, <1>3, <1>4
<1> QED BY <1>1, <1>5 DEF EndedInOrder, n

\* The invariant is kept when a stage takes a context out of its queue.
LEMMA TakeKeeps ==
  ASSUME IInv, NEW i \in 1..Len(stages), NEW out \in Seq(Context),
         TakesOne(stages, graph, queue, inner, queue', inner', i, out),
         turn = i, turn' \in {i, i + 1},
         queue' \in [1..Consumer -> Seq(Context)],
         DOMAIN inner' = 1..Consumer, inner'[Consumer] = NoIterator,
         UNCHANGED <<plan, graph, stages, answer, source, ended>>
  PROVE  IInv'
<1> DEFINE n == Len(stages)
<1>1. Chained /\ EndedInOrder /\ Pending
  BY DEF IInv
<1>2. /\ plan \in Plans /\ graph \in Graphs /\ graph \in Data /\ source \in Seq(Vertex) /\ stages \in Seq(Stage)
      /\ queue \in [1..n + 1 -> Seq(Context)] /\ ended \in [1..Consumer -> BOOLEAN]
      /\ n \in Nat /\ Consumer = n + 1
  BY <1>1, GraphsAreData DEF Chained, Consumer
<1>3. /\ Consumer' = Consumer /\ stages' = stages /\ source' = source /\ ended' = ended
      /\ plan' = plan /\ graph' = graph /\ answer' = answer
  BY DEF Consumer
<1>4. Chained'
  <2>1. turn' \in 0..Consumer
    BY <1>2
  <2> QED BY <1>2, <1>3, <2>1 DEF Chained
<1>5. EndedInOrder'
  <2>1. /\ \A j \in 1..n + 1 : j # i /\ j # i + 1 => queue'[j] = queue[j]
        /\ \A j \in 1..n : j # i => inner'[j] = inner[j]
    BY DEF TakesOne
  <2>2. \A j \in 1..n : j \in 1..n + 1
    BY <1>2
  <2> QED BY <1>1, <1>2, <2>1, <2>2, EndedKeeps
<1>6. Pending'
  <2>1. PICK W : IsPending(W, stages, graph, queue, inner, source) /\ Means(W, plan, stages, answer)
    BY <1>1 DEF Pending
  <2>2. PICK V : IsPending(V, stages, graph, queue', inner', source) /\ V[n + 1] = W[n + 1]
    <3>1. Queues(queue, stages)
      BY <1>2 DEF Queues
    <3>2. ComesTo(W[Len(stages) + 1], stages, graph, queue', inner', source)
      BY <1>2, <2>1, <3>1, ComesAfterTakes
    <3> QED BY <3>2 DEF ComesTo
  <2>3. Means(V, plan, stages, answer)
    BY <2>1, <2>2 DEF Means
  <2> QED BY <1>3, <2>2, <2>3 DEF Pending
<1> QED BY <1>4, <1>5, <1>6 DEF IInv

\* The invariant is kept when an inner iterator answers.
LEMMA AnswerKeeps ==
  ASSUME IInv, NEW i \in 1..Len(stages), NEW out \in Seq(Context),
         AnswersSome(stages, queue, inner, queue', inner', i, out),
         turn = i, turn' \in {i, i + 1},
         queue' \in [1..Consumer -> Seq(Context)],
         DOMAIN inner' = 1..Consumer, inner'[Consumer] = NoIterator,
         UNCHANGED <<plan, graph, stages, answer, source, ended>>
  PROVE  IInv'
<1> DEFINE n == Len(stages)
<1>1. Chained /\ EndedInOrder /\ Pending
  BY DEF IInv
<1>2. /\ plan \in Plans /\ graph \in Graphs /\ graph \in Data /\ source \in Seq(Vertex) /\ stages \in Seq(Stage)
      /\ queue \in [1..n + 1 -> Seq(Context)] /\ ended \in [1..Consumer -> BOOLEAN]
      /\ n \in Nat /\ Consumer = n + 1
  BY <1>1, GraphsAreData DEF Chained, Consumer
<1>3. /\ Consumer' = Consumer /\ stages' = stages /\ source' = source /\ ended' = ended
      /\ plan' = plan /\ graph' = graph /\ answer' = answer
  BY DEF Consumer
<1>4. Chained'
  <2>1. turn' \in 0..Consumer
    BY <1>2
  <2> QED BY <1>2, <1>3, <2>1 DEF Chained
<1>5. EndedInOrder'
  <2>1. /\ \A j \in 1..n + 1 : j # i + 1 => queue'[j] = queue[j]
        /\ \A j \in 1..n : j # i => inner'[j] = inner[j]
    BY DEF AnswersSome
  <2>2. \A j \in 1..n : j \in 1..n + 1
    BY <1>2
  <2> QED BY <1>1, <1>2, <2>1, <2>2, EndedKeeps
<1>6. Pending'
  <2>1. PICK W : IsPending(W, stages, graph, queue, inner, source) /\ Means(W, plan, stages, answer)
    BY <1>1 DEF Pending
  <2>2. IsPending(W, stages, graph, queue', inner', source)
    BY <1>2, <2>1, PendingAnswers
  <2> QED BY <1>3, <2>1, <2>2 DEF Pending
<1> QED BY <1>4, <1>5, <1>6 DEF IInv

\* What the invariant says of each stage.
LEMMA StagesNow ==
  ASSUME IInv
  PROVE  /\ stages \in Seq(Stage) /\ graph \in Data /\ Len(stages) \in Nat /\ Consumer = Len(stages) + 1
         /\ queue \in [1..Consumer -> Seq(Context)]
         /\ DOMAIN stages = 1..Len(stages)
         /\ DOMAIN inner = 1..Consumer /\ inner[Consumer] = NoIterator
         /\ ended \in [1..Consumer -> BOOLEAN]
         /\ \A i \in 1..Len(stages) :
              /\ i \in 1..Consumer /\ i + 1 \in 1..Consumer /\ i # Consumer
              /\ stages[i] \in Stage /\ queue[i] \in Seq(Context) /\ queue[i] \in Seq(Received(stages[i]))
              /\ queue[i + 1] \in Seq(Context)
              /\ inner[i] \in Expander(stages[i])
<1> DEFINE n == Len(stages)
<1>1. /\ graph \in Data /\ stages \in Seq(Stage) /\ source \in Seq(Vertex)
      /\ queue \in [1..Consumer -> Seq(Context)]
      /\ DOMAIN inner = 1..Consumer /\ inner[Consumer] = NoIterator
      /\ ended \in [1..Consumer -> BOOLEAN]
      /\ n \in Nat /\ Consumer = n + 1
  BY GraphsAreData DEF IInv, Chained, Consumer
<1>2. PICK W : IsPending(W, stages, graph, queue, inner, source)
  BY DEF IInv, Pending
<1>3. ASSUME NEW i \in 1..n
      PROVE  /\ i \in 1..Consumer /\ i + 1 \in 1..Consumer /\ i # Consumer
             /\ stages[i] \in Stage /\ queue[i] \in Seq(Context) /\ queue[i] \in Seq(Received(stages[i]))
             /\ queue[i + 1] \in Seq(Context)
             /\ inner[i] \in Expander(stages[i])
  <2>1. i \in 1..Consumer /\ i + 1 \in 1..Consumer /\ i # Consumer
    BY <1>1
  <2>2. stages[i] \in Stage /\ queue[i] \in Seq(Context) /\ queue[i + 1] \in Seq(Context)
    BY <1>1, <2>1, ElementOfSeq
  <2>3. inner[i] \in Expander(stages[i]) /\ W[i] \in Seq(Received(stages[i]))
    BY <1>2 DEF IsPending
  <2>4. queue[i] \in Seq(Received(stages[i]))
    <3>1. queue \in [1..Len(stages) + 1 -> Seq(Context)] /\ i \in 1..Len(stages) + 1
      BY <1>1, <2>1
    <3>2. PICK rest \in Seq(Context) : Joins(W[i], queue[i], rest)
      BY <1>1, <1>2, <3>1, QueueIsPrefix
    <3> DEFINE a == queue[i]
               w == W[i]
               S == Received(stages[i])
    <3>3. w \in Seq(S) /\ a \in Seq(Context) /\ Joins(w, a, rest)
      BY <2>2, <2>3, <3>2
    <3> HIDE DEF a, w, S
    <3>4. \A k \in 1..Len(a) : k \in 1..Len(w) /\ a[k] = w[k]
      BY <3>3 DEF Joins
    <3>5. \A k \in 1..Len(a) : a[k] \in S
      BY <3>3, <3>4, ElementOfSeq
    <3>6. a \in Seq(S)
      BY <3>3, <3>5, SeqOfElements
    <3> QED BY <3>6 DEF a, S
  <2> QED BY <2>1, <2>2, <2>3, <2>4
<1>4. DOMAIN stages = 1..n
  BY <1>1
<1> QED BY <1>1, <1>3, <1>4

\* What the invariant says of the context that a stage takes.
LEMMA HeadNow ==
  ASSUME IInv, NEW i \in 1..Len(stages), queue[i] # << >>
  PROVE  /\ Head(queue[i]) \in Received(stages[i]) /\ Head(queue[i]) \in Context
         /\ Prepared(stages[i], Head(queue[i]))
         /\ Tail(queue[i]) \in Seq(Context)
         /\ Out(stages[i], graph, Head(queue[i])) \in Seq(Context)
<1> DEFINE a == queue[i]
           op == stages[i]
<1>1. a \in Seq(Received(op)) /\ a \in Seq(Context) /\ op \in Stage /\ graph \in Data
  BY StagesNow
<1>2. a # << >>
  OBVIOUS
<1> HIDE DEF a, op
<1>3. Head(a) \in Received(op) /\ Tail(a) \in Seq(Context)
  BY <1>1, <1>2, HeadTail
<1>4. Head(a) \in Context /\ Prepared(op, Head(a))
  BY <1>3 DEF Received
<1>5. Out(op, graph, Head(a)) \in Seq(Context)
  BY <1>1, <1>3, OutType
<1> QED BY <1>3, <1>4, <1>5 DEF a, op

\* Stages that answer one context for one that they take.
LEMMA PassKeeps ==
  ASSUME IInv, NEW i \in 1..Len(stages), Takes(i), NEW ctx,
         Out(stages[i], graph, Head(queue[i])) = <<ctx>>,
         queue' = Passed(i, ctx), turn' = i + 1,
         UNCHANGED <<plan, graph, stages, answer, source, ended, inner>>
  PROVE  IInv'
<1>1. turn = i /\ inner[i] = NoIterator /\ queue[i] # << >>
  BY DEF Takes
<1>2. /\ queue \in [1..Consumer -> Seq(Context)]
      /\ DOMAIN inner = 1..Consumer /\ inner[Consumer] = NoIterator
      /\ i \in 1..Consumer /\ i + 1 \in 1..Consumer /\ Consumer = Len(stages) + 1
      /\ stages[i] \in Stage /\ queue[i + 1] \in Seq(Context)
  BY StagesNow
<1>3. Tail(queue[i]) \in Seq(Context) /\ <<ctx>> \in Seq(Context)
  BY <1>1, HeadNow
<1>4. ctx \in Context
  <2>1. <<ctx>>[1] = ctx /\ Len(<<ctx>>) = 1
    OBVIOUS
  <2> QED BY <1>3, <2>1, ElementOfSeq
<1>5. Append(queue[i + 1], ctx) = queue[i + 1] \o <<ctx>> /\ Append(queue[i + 1], ctx) \in Seq(Context)
  BY <1>2, <1>4, AppendIsConcat, AppendProperties
<1> DEFINE a == Tail(queue[i])
           b == Append(queue[i + 1], ctx)
<1>6. i # i + 1
  BY <1>2
<1>7. queue' = [queue EXCEPT ![i] = a, ![i + 1] = b]
  BY <1>6 DEF Passed
<1>8. a \in Seq(Context) /\ b \in Seq(Context)
  BY <1>3, <1>5
<1> HIDE DEF a, b
<1>9. /\ queue' \in [1..Consumer -> Seq(Context)]
      /\ queue'[i] = a /\ queue'[i + 1] = b
      /\ \A j \in 1..Consumer : j # i /\ j # i + 1 => queue'[j] = queue[j]
  BY <1>2, <1>6, <1>7, <1>8
<1>10. Out(stages[i], graph, Head(queue[i])) = <<ctx>> \o Remaining(stages[i], inner'[i])
  <2>1. Remaining(stages[i], inner'[i]) = << >>
    BY <1>1, NoneRemains
  <2>2. <<ctx>> \o << >> = <<ctx>>
    BY <1>3, ConcatEmptySeq
  <2> QED BY <2>1, <2>2
<1>11. TakesOne(stages, graph, queue, inner, queue', inner', i, <<ctx>>)
  <2>1. inner'[i] \in Expander(stages[i])
    BY <1>1, NoneRemains
  <2> QED BY <1>1, <1>2, <1>5, <1>9, <1>10, <2>1 DEF TakesOne, a, b
<1>12. turn' \in {i, i + 1} /\ DOMAIN inner' = 1..Consumer /\ inner'[Consumer] = NoIterator
  BY <1>2
<1> QED BY <1>1, <1>3, <1>9, <1>11, <1>12, TakeKeeps

\* The stage that an action is about.
LEMMA OpStage ==
  ASSUME IInv, NEW i, NEW op, IsOp(i, op)
  PROVE  i \in 1..Len(stages) /\ stages[i].op = op /\ stages[i] \in Stage
BY StagesNow DEF IsOp

\* record_vertex() keeps the invariant.
LEMMA RecordKeeps == ASSUME IInv, NEW i \in 1..Consumer, Record(i) PROVE IInv'
<1> DEFINE c == Head(queue[i])
<1>1. /\ Takes(i) /\ IsOp(i, "record")
      /\ queue' = Passed(i, RecordVertex(c, stages[i].vid)) /\ turn' = i + 1
      /\ UNCHANGED <<plan, graph, stages, answer, source, ended, inner>>
  BY DEF Record
<1>2. i \in 1..Len(stages) /\ stages[i].op = "record"
  BY <1>1, OpStage
<1>3. Out(stages[i], graph, c) = <<RecordVertex(c, stages[i].vid)>>
  BY <1>2 DEF Out
<1> QED BY <1>1, <1>2, <1>3, PassKeeps

\* Activating a vertex keeps the invariant.
LEMMA ActivateKeeps == ASSUME IInv, NEW i \in 1..Consumer, Activate(i) PROVE IInv'
<1> DEFINE c == Head(queue[i])
           d == ActivateVertex(MarkMissing(i, c), stages[i].vid)
<1>1. /\ Takes(i) /\ IsOp(i, "activate")
      /\ queue' = Passed(i, d) /\ turn' = i + 1
      /\ UNCHANGED <<plan, graph, stages, answer, source, ended, inner>>
  BY DEF Activate
<1>2. i \in 1..Len(stages) /\ stages[i].op = "activate"
  BY <1>1, OpStage
<1>3. Out(stages[i], graph, c) = <<d>>
  BY <1>2 DEF Out, Marked, MarkMissing
<1> HIDE DEF d
<1> QED BY <1>1, <1>2, <1>3, PassKeeps

\* A context that passes a check keeps the invariant.
LEMMA KeepKeeps == ASSUME IInv, NEW i \in 1..Consumer, Keep(i) PROVE IInv'
<1> DEFINE c == Head(queue[i])
<1>1. /\ Takes(i) /\ IsOp(i, "check") /\ c.active \in stages[i].accepts
      /\ queue' = Passed(i, c) /\ turn' = i + 1
      /\ UNCHANGED <<plan, graph, stages, answer, source, ended, inner>>
  BY DEF Keep
<1>2. i \in 1..Len(stages) /\ stages[i].op = "check"
  BY <1>1, OpStage
<1>3. Out(stages[i], graph, c) = <<c>>
  BY <1>1, <1>2 DEF Out
<1> QED BY <1>1, <1>2, <1>3, PassKeeps

\* The coercion of a recursion keeps the invariant.
LEMMA CoerceKeeps == ASSUME IInv, NEW i \in 1..Consumer, CoerceDeeper(i) PROVE IInv'
<1> DEFINE c == Head(queue[i])
           d == SuspendUncoercible(i, c)
<1>1. /\ Takes(i) /\ IsOp(i, "coerce")
      /\ queue' = Passed(i, d) /\ turn' = i + 1
      /\ UNCHANGED <<plan, graph, stages, answer, source, ended, inner>>
  BY DEF CoerceDeeper
<1>2. i \in 1..Len(stages) /\ stages[i].op = "coerce"
  BY <1>1, OpStage
<1>3. Out(stages[i], graph, c) = <<d>>
  BY <1>2 DEF Out, SuspendUncoercible
<1> HIDE DEF d
<1> QED BY <1>1, <1>2, <1>3, PassKeeps

\* Stages that take a context and answer nothing at once.
LEMMA TakeOnlyKeeps ==
  ASSUME IInv, NEW i \in 1..Len(stages), Takes(i), NEW x \in Expander(stages[i]),
         Out(stages[i], graph, Head(queue[i])) = Remaining(stages[i], x),
         queue' = [queue EXCEPT ![i] = Tail(@)],
         inner'[i] = x, \A j \in 1..Consumer : j # i => inner'[j] = inner[j], DOMAIN inner' = DOMAIN inner,
         UNCHANGED <<plan, graph, stages, answer, source, turn, ended>>
  PROVE  IInv'
<1>1. turn = i /\ inner[i] = NoIterator /\ queue[i] # << >>
  BY DEF Takes
<1>2. /\ queue \in [1..Consumer -> Seq(Context)]
      /\ DOMAIN inner = 1..Consumer /\ inner[Consumer] = NoIterator
      /\ i \in 1..Consumer /\ i + 1 \in 1..Consumer /\ i # Consumer /\ Consumer = Len(stages) + 1
      /\ stages[i] \in Stage /\ queue[i + 1] \in Seq(Context)
  BY StagesNow
<1>3. Tail(queue[i]) \in Seq(Context)
  BY <1>1, HeadNow
<1> DEFINE a == Tail(queue[i])
<1>4. queue' = [queue EXCEPT ![i] = a] /\ a \in Seq(Context)
  BY <1>3
<1>5. i # i + 1
  BY <1>2
<1> HIDE DEF a
<1>6. /\ queue' \in [1..Consumer -> Seq(Context)] /\ queue'[i] = a
      /\ \A j \in 1..Consumer : j # i => queue'[j] = queue[j]
  BY <1>2, <1>4
<1>7. queue'[i + 1] = queue[i + 1] \o << >>
  <2>1. queue'[i + 1] = queue[i + 1]
    BY <1>2, <1>5, <1>6
  <2> QED BY <1>2, <2>1, ConcatEmptySeq
<1>8. /\ inner'[i] = x /\ \A j \in 1..Len(stages) : j # i => inner'[j] = inner[j]
  <2>1. \A j \in 1..Len(stages) : j \in 1..Consumer
    BY <1>2
  <2> QED BY <1>2, <2>1
<1>8a. inner'[Consumer] = NoIterator /\ DOMAIN inner' = 1..Consumer
  BY <1>2
<1>9. Remaining(stages[i], x) = << >> \o Remaining(stages[i], x)
  BY <1>2, RemainingType, ConcatEmptySeq
<1>10. TakesOne(stages, graph, queue, inner, queue', inner', i, << >>)
  BY <1>1, <1>2, <1>6, <1>7, <1>8, <1>9 DEF TakesOne, a
<1>11. turn' \in {i, i + 1} /\ << >> \in Seq(Context)
  BY <1>1
<1> QED BY <1>1, <1>6, <1>8a, <1>10, <1>11, TakeKeeps

\* A context that fails a check keeps the invariant.
LEMMA DropKeeps == ASSUME IInv, NEW i \in 1..Consumer, Drop(i) PROVE IInv'
<1> DEFINE c == Head(queue[i])
<1>1. /\ Takes(i) /\ IsOp(i, "check") /\ c.active \notin stages[i].accepts
      /\ queue' = [queue EXCEPT ![i] = Tail(@)]
      /\ UNCHANGED <<plan, graph, stages, answer, source, turn, ended, inner>>
  BY DEF Drop
<1>2. i \in 1..Len(stages) /\ stages[i].op = "check" /\ inner[i] = NoIterator
  BY <1>1, OpStage DEF Takes
<1>3. Out(stages[i], graph, c) = Remaining(stages[i], NoIterator)
  BY <1>1, <1>2, NoneRemains DEF Out
<1>4. inner'[i] = NoIterator /\ (\A j \in 1..Consumer : j # i => inner'[j] = inner[j]) /\ DOMAIN inner' = DOMAIN inner
  BY <1>1, <1>2
<1>5. NoIterator \in Expander(stages[i])
  BY NoneRemains
<1> QED BY <1>1, <1>2, <1>3, <1>4, <1>5, TakeOnlyKeeps

\* An inner iterator that begins keeps the invariant.
LEMMA ExpandKeeps == ASSUME IInv, NEW i \in 1..Consumer, Expand(i) PROVE IInv'
<1> DEFINE c == Head(queue[i])
           x == NewExpander(i, c)
<1>1. /\ Takes(i) /\ \E op \in {"neighbors", "recurse", "unpack"} : IsOp(i, op)
      /\ inner' = [inner EXCEPT ![i] = x]
      /\ queue' = [queue EXCEPT ![i] = Tail(@)]
      /\ UNCHANGED <<plan, graph, stages, answer, source, turn, ended>>
  BY DEF Expand
<1>2. i \in 1..Len(stages) /\ stages[i].op \in {"neighbors", "recurse", "unpack"}
  BY <1>1, OpStage
<1>3. i \in DOMAIN stages /\ stages[i] \in Stage /\ graph \in Data /\ queue[i] # << >>
  BY <1>1, <1>2, StagesNow DEF Takes
<1>4. x = Begun(stages[i], graph, c)
  <2>1. \A op : IsOp(i, op) <=> stages[i].op = op
    BY <1>3 DEF IsOp
  <2> QED BY <1>2, <2>1 DEF NewExpander, Begun, ResolveNeighbors, Neighbors, EdgeIt, RecursiveIt, UnpackIt
<1>5. c \in Received(stages[i])
  BY <1>2, <1>3, HeadNow
<1>6. x \in Expander(stages[i]) /\ Out(stages[i], graph, c) = Remaining(stages[i], x)
  <2> HIDE DEF c, x
  <2> QED BY <1>2, <1>3, <1>4, <1>5, BegunAnswers
<1> HIDE DEF x
<1>7. inner'[i] = x /\ (\A j \in 1..Consumer : j # i => inner'[j] = inner[j]) /\ DOMAIN inner' = DOMAIN inner
  BY <1>1, StagesNow
<1> QED BY <1>1, <1>2, <1>6, <1>7, TakeOnlyKeeps

\* An inner iterator that answers what was next keeps the invariant.
LEMMA InnerAnswersKeeps ==
  ASSUME IInv, NEW i \in 1..Len(stages), turn = i, NEW ctx \in Context, NEW x \in Expander(stages[i]),
         Remaining(stages[i], inner[i]) = <<ctx>> \o Remaining(stages[i], x),
         InnerAnswers(i, ctx, x)
  PROVE  IInv'
<1>1. /\ inner' = [inner EXCEPT ![i] = x]
      /\ queue' = [queue EXCEPT ![i + 1] = Append(@, ctx)]
      /\ turn' = i + 1
      /\ UNCHANGED <<plan, graph, stages, answer, source, ended>>
  BY DEF InnerAnswers
<1>2. /\ queue \in [1..Consumer -> Seq(Context)]
      /\ DOMAIN inner = 1..Consumer /\ inner[Consumer] = NoIterator
      /\ i \in 1..Consumer /\ i + 1 \in 1..Consumer /\ i # Consumer /\ Consumer = Len(stages) + 1
      /\ queue[i + 1] \in Seq(Context)
  BY StagesNow
<1> DEFINE b == Append(queue[i + 1], ctx)
<1>3. b = queue[i + 1] \o <<ctx>> /\ b \in Seq(Context) /\ <<ctx>> \in Seq(Context)
  BY <1>2, AppendIsConcat, AppendProperties
<1>4. queue' = [queue EXCEPT ![i + 1] = b]
  BY <1>1
<1> HIDE DEF b
<1>5. /\ queue' \in [1..Consumer -> Seq(Context)] /\ queue'[i + 1] = b
      /\ \A j \in 1..Consumer : j # i + 1 => queue'[j] = queue[j]
  BY <1>2, <1>3, <1>4
<1>6. /\ inner'[i] = x /\ \A j \in 1..Len(stages) : j # i => inner'[j] = inner[j]
  <2>1. \A j \in 1..Len(stages) : j \in 1..Consumer
    BY <1>2
  <2> QED BY <1>1, <1>2, <2>1
<1>7. inner'[Consumer] = NoIterator /\ DOMAIN inner' = 1..Consumer
  BY <1>1, <1>2
<1>8. AnswersSome(stages, queue, inner, queue', inner', i, <<ctx>>)
  BY <1>2, <1>3, <1>5, <1>6 DEF AnswersSome
<1>9. turn' \in {i, i + 1}
  BY <1>1
<1> QED BY <1>1, <1>3, <1>5, <1>7, <1>8, <1>9, AnswerKeeps

\* An inner iterator that ends with nothing left keeps the invariant.
LEMMA InnerEndsKeeps ==
  ASSUME IInv, NEW i \in 1..Len(stages), turn = i, Remaining(stages[i], inner[i]) = << >>, InnerEnds(i)
  PROVE  IInv'
<1>1. /\ inner' = [inner EXCEPT ![i] = NoIterator]
      /\ UNCHANGED <<plan, graph, stages, answer, source, turn, queue, ended>>
  BY DEF InnerEnds
<1>2. /\ queue \in [1..Consumer -> Seq(Context)]
      /\ DOMAIN inner = 1..Consumer /\ inner[Consumer] = NoIterator
      /\ i \in 1..Consumer /\ i + 1 \in 1..Consumer /\ i # Consumer /\ Consumer = Len(stages) + 1
      /\ queue[i + 1] \in Seq(Context)
  BY StagesNow
<1>3. << >> \in Seq(Context) /\ queue'[i + 1] = queue[i + 1] \o << >>
  BY <1>1, <1>2, ConcatEmptySeq
<1>4. /\ inner'[i] = NoIterator /\ \A j \in 1..Len(stages) : j # i => inner'[j] = inner[j]
  <2>1. \A j \in 1..Len(stages) : j \in 1..Consumer
    BY <1>2
  <2> QED BY <1>1, <1>2, <2>1
<1>5. inner'[Consumer] = NoIterator /\ DOMAIN inner' = 1..Consumer
  BY <1>1, <1>2
<1>6. /\ Remaining(stages[i], inner[i]) = << >> \o Remaining(stages[i], inner'[i])
      /\ inner'[i] \in Expander(stages[i])
  <2>1. << >> \o << >> = << >>
    OBVIOUS
  <2> QED BY <1>4, <2>1, NoneRemains
<1>7. AnswersSome(stages, queue, inner, queue', inner', i, << >>)
  BY <1>1, <1>3, <1>4, <1>6 DEF AnswersSome
<1>8. turn' \in {i, i + 1} /\ queue' \in [1..Consumer -> Seq(Context)]
  BY <1>1, <1>2
<1> QED BY <1>1, <1>3, <1>5, <1>7, <1>8, AnswerKeeps

\* The inner iterator that an action is about.
LEMMA RunsNow ==
  ASSUME IInv, NEW i, NEW op, Runs(i, op)
  PROVE  /\ i \in 1..Len(stages) /\ turn = i /\ inner[i].op = op
         /\ stages[i] \in Stage /\ inner[i] \in Expander(stages[i])
BY StagesNow DEF Runs

\* The next neighbor of a plain edge.
LEMMA EdgeNeighborKeeps == ASSUME IInv, NEW i \in 1..Consumer, EdgeNeighbor(i) PROVE IInv'
<1> DEFINE x == inner[i]
           c == SplitAndMoveToVertex(x.ctx, Head(x.neighbors))
           y == NextNeighbor(x)
<1>1. Runs(i, "edge") /\ x.neighbors # << >> /\ InnerAnswers(i, c, y)
  BY DEF EdgeNeighbor, NextNeighbor
<1>2. i \in 1..Len(stages) /\ turn = i /\ x.op = "edge" /\ stages[i] \in Stage /\ x \in Expander(stages[i])
  BY <1>1, RunsNow
<1>3. c \in Context /\ y \in Expander(stages[i])
      /\ Remaining(stages[i], x) = <<c>> \o Remaining(stages[i], y)
  <2> HIDE DEF x
  <2> QED BY <1>1, <1>2, EdgeNext
<1> HIDE DEF c, y
<1> QED BY <1>1, <1>2, <1>3, InnerAnswersKeeps

\* The context without a vertex of a plain edge.
LEMMA EdgeMissingKeeps == ASSUME IInv, NEW i \in 1..Consumer, EdgeMissing(i) PROVE IInv'
<1> DEFINE x == inner[i]
           c == SplitAndMoveToVertex(x.ctx, None)
           y == [x EXCEPT !.ended = TRUE]
           op == stages[i]
<1>1. Runs(i, "edge") /\ x.neighbors = << >> /\ YieldsMissing(i, x) /\ InnerAnswers(i, c, y)
  BY DEF EdgeMissing
<1>2. i \in 1..Len(stages) /\ turn = i /\ x.op = "edge" /\ op \in Stage /\ x \in Expander(op)
  BY <1>1, RunsNow
<1>3. ~ x.ended /\ (x.ctx.active = None \/ (~ x.hasNeighbors /\ op.optional))
  BY <1>1 DEF YieldsMissing
<1>4. c \in Context /\ y \in Expander(op) /\ Remaining(op, x) = <<c>> /\ Remaining(op, y) = << >>
  <2> HIDE DEF x, op
  <2> QED BY <1>1, <1>2, <1>3, EdgeLast
<1>5. <<c>> = <<c>> \o << >>
  <2>1. <<c>> \in Seq(Context)
    BY <1>4
  <2> QED BY <2>1, ConcatEmptySeq
<1>6. Remaining(op, x) = <<c>> \o Remaining(op, y)
  BY <1>4, <1>5
<1> HIDE DEF c, y
<1> QED BY <1>1, <1>2, <1>4, <1>6, InnerAnswersKeeps

\* The end of a plain edge.
LEMMA EdgeEndKeeps == ASSUME IInv, NEW i \in 1..Consumer, EdgeEnd(i) PROVE IInv'
<1> DEFINE x == inner[i]
           op == stages[i]
<1>1. Runs(i, "edge") /\ x.neighbors = << >> /\ ~ YieldsMissing(i, x) /\ InnerEnds(i)
  BY DEF EdgeEnd
<1>2. i \in 1..Len(stages) /\ turn = i /\ x.op = "edge" /\ op \in Stage /\ x \in Expander(op)
  BY <1>1, RunsNow
<1>3. ~ (~ x.ended /\ (x.ctx.active = None \/ (~ x.hasNeighbors /\ op.optional)))
  BY <1>1 DEF YieldsMissing
<1>4. Remaining(op, x) = << >>
  <2> HIDE DEF x, op
  <2> QED BY <1>1, <1>2, <1>3, EdgeLast
<1> QED BY <1>1, <1>2, <1>4, InnerEndsKeeps

\* The first neighbor of a recursion.
LEMMA RecursiveFirstKeeps == ASSUME IInv, NEW i \in 1..Consumer, RecursiveFirst(i) PROVE IInv'
<1> DEFINE x == inner[i]
           c == FirstReached(x.ctx, Head(x.neighbors))
           y == FirstNeighbor(x)
<1>1. Runs(i, "recursive") /\ x.neighbors # << >> /\ x.ctx # None /\ InnerAnswers(i, c, y)
  BY DEF RecursiveFirst, FirstReached, FirstNeighbor
<1>2. i \in 1..Len(stages) /\ turn = i /\ x.op = "recursive" /\ stages[i] \in Stage /\ x \in Expander(stages[i])
  BY <1>1, RunsNow
<1>3. c \in Context /\ y \in Expander(stages[i])
      /\ Remaining(stages[i], x) = <<c>> \o Remaining(stages[i], y)
  <2> HIDE DEF x
  <2> QED BY <1>1, <1>2, RecursiveFirstNext
<1> HIDE DEF c, y
<1> QED BY <1>1, <1>2, <1>3, InnerAnswersKeeps

\* The other neighbors of a recursion.
LEMMA RecursiveNeighborKeeps == ASSUME IInv, NEW i \in 1..Consumer, RecursiveNeighbor(i) PROVE IInv'
<1> DEFINE x == inner[i]
           c == SplitAndMoveToVertex(x.base, Head(x.neighbors))
           y == OtherNeighbor(x)
<1>1. Runs(i, "recursive") /\ x.neighbors # << >> /\ x.ctx = None /\ InnerAnswers(i, c, y)
  BY DEF RecursiveNeighbor, OtherNeighbor
<1>2. i \in 1..Len(stages) /\ turn = i /\ x.op = "recursive" /\ stages[i] \in Stage /\ x \in Expander(stages[i])
  BY <1>1, RunsNow
<1>3. c \in Context /\ y \in Expander(stages[i])
      /\ Remaining(stages[i], x) = <<c>> \o Remaining(stages[i], y)
  <2> HIDE DEF x
  <2> QED BY <1>1, <1>2, RecursiveOtherNext
<1> HIDE DEF c, y
<1> QED BY <1>1, <1>2, <1>3, InnerAnswersKeeps

\* A recursion without neighbors.
LEMMA RecursiveLeafKeeps == ASSUME IInv, NEW i \in 1..Consumer, RecursiveLeaf(i) PROVE IInv'
<1> DEFINE x == inner[i]
           c == x.ctx
           y == [x EXCEPT !.ctx = None]
           op == stages[i]
<1>1. Runs(i, "recursive") /\ x.neighbors = << >> /\ c # None /\ InnerAnswers(i, c, y)
  BY DEF RecursiveLeaf
<1>2. i \in 1..Len(stages) /\ turn = i /\ x.op = "recursive" /\ op \in Stage /\ x \in Expander(op)
  BY <1>1, RunsNow
<1>3. c \in Context /\ y \in Expander(op) /\ Remaining(op, x) = <<c>> /\ Remaining(op, y) = << >>
  <2> HIDE DEF x, op
  <2> QED BY <1>1, <1>2, RecursiveLast
<1> HIDE DEF c, y
<1>4. <<c>> = <<c>> \o << >>
  <2>1. <<c>> \in Seq(Context)
    BY <1>3
  <2> QED BY <2>1, ConcatEmptySeq
<1>5. Remaining(op, x) = <<c>> \o Remaining(op, y)
  BY <1>3, <1>4
<1> QED BY <1>1, <1>2, <1>3, <1>5, InnerAnswersKeeps

\* The end of a level of a recursion.
LEMMA RecursiveEndKeeps == ASSUME IInv, NEW i \in 1..Consumer, RecursiveEnd(i) PROVE IInv'
<1> DEFINE x == inner[i]
           op == stages[i]
<1>1. Runs(i, "recursive") /\ x.neighbors = << >> /\ x.ctx = None /\ InnerEnds(i)
  BY DEF RecursiveEnd
<1>2. i \in 1..Len(stages) /\ turn = i /\ x.op = "recursive" /\ op \in Stage /\ x \in Expander(op)
  BY <1>1, RunsNow
<1>3. Remaining(op, x) = << >>
  <2> HIDE DEF x, op
  <2> QED BY <1>1, <1>2, RecursiveLast
<1> QED BY <1>1, <1>2, <1>3, InnerEndsKeeps

\* The next unpacked context.
LEMMA UnpackKeeps == ASSUME IInv, NEW i \in 1..Consumer, Unpack(i) PROVE IInv'
<1> DEFINE x == inner[i]
           c == EnsureUnsuspended(Head(x.contexts))
           y == NextContext(x)
           op == stages[i]
<1>1. Runs(i, "unpack") /\ x.contexts # << >> /\ InnerAnswers(i, c, y)
  BY DEF Unpack, NextContext
<1>2. i \in 1..Len(stages) /\ turn = i /\ x.op = "unpack" /\ op \in Stage /\ x \in Expander(op)
  BY <1>1, RunsNow
<1>3. c \in Context /\ y \in Expander(op) /\ Remaining(op, x) = <<c>> \o Remaining(op, y)
  <2> HIDE DEF x, op
  <2> QED BY <1>1, <1>2, UnpackNext
<1> HIDE DEF c, y
<1> QED BY <1>1, <1>2, <1>3, InnerAnswersKeeps

\* The end of the unpacked contexts.
LEMMA UnpackEndKeeps == ASSUME IInv, NEW i \in 1..Consumer, UnpackEnd(i) PROVE IInv'
<1> DEFINE x == inner[i]
           op == stages[i]
<1>1. Runs(i, "unpack") /\ x.contexts = << >> /\ InnerEnds(i)
  BY DEF UnpackEnd
<1>2. i \in 1..Len(stages) /\ turn = i /\ x.op = "unpack" /\ op \in Stage /\ x \in Expander(op)
  BY <1>1, RunsNow
<1>3. Remaining(op, x) = << >>
  <2> HIDE DEF x, op
  <2> QED BY <1>1, <1>2, UnpackNext
<1> QED BY <1>1, <1>2, <1>3, InnerEndsKeeps

\* Pulling the iterator before keeps the invariant.
LEMMA PullKeeps == ASSUME IInv, NEW i \in 1..Consumer, Pull(i) PROVE IInv'
<1> DEFINE n == Len(stages)
<1>1. /\ turn = i /\ ~ ended[i] /\ turn' = i - 1
      /\ UNCHANGED <<plan, graph, stages, answer, source, queue, ended, inner>>
  BY DEF Pull
<1>2. Chained /\ EndedInOrder /\ Pending /\ n \in Nat /\ Consumer = n + 1 /\ Consumer' = Consumer
  BY <1>1, StagesNow DEF IInv, Consumer
<1>3. Chained'
  <2>1. turn' \in 0..Consumer
    BY <1>1, <1>2
  <2> QED BY <1>1, <1>2, <2>1 DEF Chained
<1>4. EndedInOrder'
  <2>1. ASSUME NEW j \in 1..Consumer, turn' < j PROVE ~ ended[j]
    <3>1. j = i \/ turn < j
      BY <1>1, <1>2, <2>1
    <3> QED BY <1>1, <1>2, <3>1 DEF EndedInOrder
  <2> QED BY <1>1, <1>2, <2>1 DEF EndedInOrder
<1>5. Pending'
  BY <1>1, <1>2 DEF Pending
<1> QED BY <1>3, <1>4, <1>5 DEF IInv

\* An iterator that ends keeps the invariant.
LEMMA EndKeeps == ASSUME IInv, NEW i \in 1..Consumer, End(i) PROVE IInv'
<1> DEFINE n == Len(stages)
<1>1. /\ turn = i /\ i \in DOMAIN stages /\ inner[i] = NoIterator /\ queue[i] = << >> /\ ended[i]
      /\ ended' = [ended EXCEPT ![i + 1] = TRUE] /\ turn' = i + 1
      /\ UNCHANGED <<plan, graph, stages, answer, source, queue, inner>>
  BY DEF End
<1>2. Chained /\ EndedInOrder /\ Pending /\ n \in Nat /\ Consumer = n + 1 /\ Consumer' = Consumer
      /\ i \in 1..n /\ i + 1 \in 1..n + 1 /\ ended \in [1..Consumer -> BOOLEAN]
  <2>1. i \in 1..n /\ n \in Nat
    BY <1>1, StagesNow
  <2>2. i + 1 \in 1..n + 1
    BY <2>1
  <2> QED BY <1>1, <2>1, <2>2, StagesNow DEF IInv, Consumer
<1>3. ended' \in [1..Consumer -> BOOLEAN] /\ ended'[i + 1] = TRUE
      /\ \A j \in 1..Consumer : j # i + 1 => ended'[j] = ended[j]
  BY <1>1, <1>2
<1>4. Chained'
  <2>1. turn' \in 0..Consumer
    BY <1>1, <1>2
  <2> QED BY <1>1, <1>2, <1>3, <2>1 DEF Chained
<1>5. EndedInOrder'
  <2>1. ended'[1] => source = << >>
    <3>1. 1 \in 1..Consumer /\ 1 # i + 1
      BY <1>2
    <3> QED BY <1>2, <1>3, <3>1 DEF EndedInOrder
  <2>2. ASSUME NEW j \in 1..n, ended'[j + 1]
        PROVE  ended'[j] /\ queue[j] = << >> /\ inner[j] = NoIterator
    <3>1. j \in 1..Consumer /\ j + 1 \in 1..Consumer
      BY <1>2
    <3>2. ended[j] /\ queue[j] = << >> /\ inner[j] = NoIterator
      <4>1. CASE j = i
        BY <1>1, <4>1
      <4>2. CASE j # i
        <5>1. j + 1 # i + 1
          BY <1>2, <4>2
        <5>2. ended[j + 1]
          BY <1>3, <2>2, <3>1, <5>1
        <5> QED BY <1>2, <5>2 DEF EndedInOrder
      <4> QED BY <4>1, <4>2
    <3> QED BY <1>3, <3>1, <3>2
  <2>3. ASSUME NEW j \in 1..Consumer, turn' < j PROVE ~ ended'[j]
    <3>1. j # i + 1 /\ turn < j
      BY <1>1, <1>2, <2>3
    <3> QED BY <1>2, <1>3, <3>1 DEF EndedInOrder
  <2> HIDE DEF n
  <2> QED BY <1>1, <1>2, <2>1, <2>2, <2>3 DEF EndedInOrder, n
<1>6. Pending'
  BY <1>1, <1>2 DEF Pending
<1> QED BY <1>4, <1>5, <1>6 DEF IInv

\* The source keeps the invariant.
LEMMA SourceKeeps == ASSUME IInv, ResolveStartingVertices PROVE IInv'
<1> DEFINE n == Len(stages)
<1>1. /\ turn = 0 /\ turn' = 1
      /\ UNCHANGED <<plan, graph, stages, answer, inner>>
  BY DEF ResolveStartingVertices
<1>2. /\ Chained /\ EndedInOrder /\ Pending /\ n \in Nat /\ Consumer = n + 1 /\ Consumer' = Consumer
      /\ 1 \in 1..Consumer /\ ended \in [1..Consumer -> BOOLEAN]
      /\ queue \in [1..Consumer -> Seq(Context)]
      /\ stages \in Seq(Stage) /\ graph \in Data /\ source \in Seq(Vertex)
  <2>1. n \in Nat /\ Consumer = n + 1
    BY StagesNow
  <2>2. 1 \in 1..n + 1
    BY <2>1
  <2> QED BY <1>1, <2>1, <2>2, StagesNow DEF IInv, Consumer, Chained
<1>3. \A j \in 1..Consumer : ~ ended[j]
  <2>1. \A j \in 1..Consumer : turn < j
    BY <1>1
  <2> QED BY <1>2, <2>1 DEF EndedInOrder
<1>4. CASE source = << >>
  <2>1. ended' = [ended EXCEPT ![1] = TRUE] /\ UNCHANGED <<source, queue>>
    BY <1>4 DEF ResolveStartingVertices
  <2>2. ended' \in [1..Consumer -> BOOLEAN]
        /\ \A j \in 1..Consumer : j # 1 => ended'[j] = ended[j]
    BY <1>2, <2>1
  <2>3. Chained'
    <3>1. turn' \in 0..Consumer
      BY <1>1, <1>2
    <3> QED BY <1>1, <1>2, <2>1, <2>2, <3>1 DEF Chained
  <2>4. EndedInOrder'
    <3>1. \A j \in 1..n : ~ ended'[j + 1]
      <4>1. \A j \in 1..n : j + 1 \in 1..Consumer /\ j + 1 # 1
        BY <1>2
      <4> QED BY <1>3, <2>2, <4>1
    <3>2. \A j \in 1..Consumer : turn' < j => ~ ended'[j]
      <4>1. \A j \in 1..Consumer : turn' < j => j # 1
        BY <1>1
      <4> QED BY <1>3, <2>2, <4>1
    <3> QED BY <1>1, <1>2, <1>4, <2>1, <3>1, <3>2 DEF EndedInOrder
  <2>5. Pending'
    BY <1>1, <1>2, <2>1 DEF Pending
  <2> QED BY <2>3, <2>4, <2>5 DEF IInv
<1>5. CASE source # << >>
  <2> DEFINE c == NewContext(Head(source))
             b == Append(queue[1], c)
  <2>1. source' = Tail(source) /\ ended' = ended /\ queue' = [queue EXCEPT ![1] = b]
    BY <1>5 DEF ResolveStartingVertices
  <2>2. c \in Context /\ Tail(source) \in Seq(Vertex)
    BY <1>2, <1>5, NewOnesHead
  <2>3. b \in Seq(Context)
    <3> HIDE DEF c
    <3> QED BY <1>2, <2>2, AppendProperties
  <2> HIDE DEF b
  <2>4. queue' \in [1..Consumer -> Seq(Context)] /\ queue'[1] = b
        /\ \A j \in 1..Consumer : j # 1 => queue'[j] = queue[j]
    BY <1>2, <2>1, <2>3
  <2>5. Chained'
    <3>1. turn' \in 0..Consumer
      BY <1>1, <1>2
    <3> QED BY <1>1, <1>2, <2>1, <2>2, <2>4, <3>1 DEF Chained
  <2>6. EndedInOrder'
    <3>1. \A j \in 1..n : j + 1 \in 1..Consumer
      BY <1>2
    <3>2. \A j \in 1..Consumer : ~ ended'[j]
      BY <1>3, <2>1
    <3> QED BY <1>1, <1>2, <3>1, <3>2 DEF EndedInOrder
  <2>7. Pending'
    <3>1. PICK W : IsPending(W, stages, graph, queue, inner, source) /\ Means(W, plan, stages, answer)
      BY <1>2 DEF Pending
    <3>2. /\ queue \in [1..Len(stages) + 1 -> Seq(Context)]
          /\ queue'[1] = Append(queue[1], NewContext(Head(source)))
          /\ \A j \in 1..Len(stages) + 1 : j # 1 => queue'[j] = queue[j]
      BY <1>2, <2>4 DEF b
    <3>3. IsPending(W, stages, graph, queue', inner, Tail(source))
      BY <1>2, <1>5, <3>1, <3>2, PendingStarts
    <3> QED BY <1>1, <2>1, <3>1, <3>3 DEF Pending
  <2> QED BY <2>5, <2>6, <2>7 DEF IInv
<1> QED BY <1>4, <1>5

\* Every step keeps the invariant.
LEMMA NextIInv == IInv /\ [Next]_vars => IInv'
<1> SUFFICES ASSUME IInv, [Next]_vars PROVE IInv'
  OBVIOUS
<1>1. CASE ResolveStartingVertices
  BY <1>1, SourceKeeps
<1>2. ASSUME NEW i \in 1..Consumer, Step(i) PROVE IInv'
  BY <1>2, PullKeeps, EndKeeps, RecordKeeps, ActivateKeeps, KeepKeeps, DropKeeps, CoerceKeeps,
     ExpandKeeps, EdgeNeighborKeeps, EdgeMissingKeeps, EdgeEndKeeps, RecursiveFirstKeeps,
     RecursiveNeighborKeeps, RecursiveLeafKeeps, RecursiveEndKeeps, UnpackKeeps, UnpackEndKeeps
     DEF Step
<1>3. CASE UNCHANGED vars
  <2>1. UNCHANGED <<plan, graph, stages, answer, source, turn, queue, ended, inner>>
    BY <1>3 DEF vars
  <2>2. Consumer' = Consumer
    BY <2>1 DEF Consumer
  <2>3. Chained'
    BY <2>1, <2>2 DEF IInv, Chained
  <2>4. EndedInOrder'
    BY <2>1, <2>2 DEF IInv, EndedInOrder
  <2>5. Pending'
    BY <2>1 DEF IInv, Pending
  <2> QED BY <2>3, <2>4, <2>5 DEF IInv
<1>4. CASE Done
  BY <1>3, <1>4 DEF Done
<1> QED BY <1>1, <1>2, <1>3, <1>4 DEF Next

\* The inductive invariant: what is on its way and what has come is the answer.
THEOREM SpecIInv == Spec => []IInv
BY InitIInv, NextIInv, PTL DEF Spec

-----------------------------------------------------------------------------
(* What the inductive invariant says of the contexts that wait.            *)

\* An element of a sequence.
LEMMA InRange ==
  ASSUME NEW S, NEW s \in Seq(S), NEW e \in Range(s)
  PROVE  \E k \in 1..Len(s) : e = s[k] /\ e \in S
<1>1. DOMAIN s = 1..Len(s)
  OBVIOUS
<1> QED BY <1>1, ElementOfSeq DEF Range

\* The chain is type correct: whatever the plan, the data and the batching of
\* the adapters, contexts keep the shape of DataContext.
THEOREM TypeCorrect == Spec => []TypeOK
<1>1. IInv => TypeOK
  BY DEF IInv, Chained, TypeOK
<1> QED BY <1>1, SpecIInv, PTL

\* Every context that waits is one its stage is prepared for.
LEMMA WaitingArePrepared ==
  ASSUME IInv, NEW i \in 1..Len(stages), NEW ctx \in Range(queue[i])
  PROVE  Prepared(stages[i], ctx)
<1>1. queue[i] \in Seq(Received(stages[i]))
  BY StagesNow
<1>2. ctx \in Received(stages[i])
  BY <1>1, InRange
<1> QED BY <1>2 DEF Received

\* Every unpacked context can be unsuspended.
LEMMA UnpackedCanUnsuspend ==
  ASSUME IInv, NEW i \in 1..Len(stages), inner[i].op = "unpack", NEW ctx \in Range(inner[i].contexts)
  PROVE  stages[i].op = "unpack" /\ CanUnsuspend(ctx)
<1>1. stages[i] \in Stage /\ inner[i] \in Expander(stages[i])
  BY StagesNow
<1>2. stages[i].op = "unpack" /\ inner[i].contexts \in Seq(Context) /\ Unsuspendable(inner[i].contexts)
  BY <1>1, UnpackItIs
<1>3. PICK k \in 1..Len(inner[i].contexts) : ctx = inner[i].contexts[k]
  BY <1>2, InRange
<1> QED BY <1>2, <1>3 DEF Unsuspendable

\* Nothing that the execution unwraps is missing: a Vid is recorded once, an
\* edge starts where a vertex was recorded, nothing rides on a context that
\* leaves a recursion, and the stack of suspended vertices is not popped when
\* it is empty.
THEOREM NeverPanics == Spec => []NoPanic
<1>1. ASSUME IInv PROVE NoPanic
  <2> SUFFICES ASSUME NEW i \in DOMAIN stages
               PROVE  /\ IsOp(i, "record") => \A ctx \in Held(i) : ~ IsVisited(ctx, stages[i].vid)
                      /\ IsOp(i, "activate") =>
                           \A ctx \in Held(i) : IsVisited(ctx, stages[i].vid) /\ ctx.piggyback = << >>
                      /\ IsOp(i, "unpack") => \A ctx \in Held(i) : CanUnsuspend(ctx)
    BY DEF NoPanic
  <2>1. i \in 1..Len(stages)
    BY <1>1, StagesNow
  <2>2. ASSUME NEW ctx \in Held(i)
        PROVE  \/ Prepared(stages[i], ctx)
               \/ stages[i].op = "unpack" /\ CanUnsuspend(ctx)
    <3>1. CASE ctx \in Range(queue[i])
      BY <1>1, <2>1, <3>1, WaitingArePrepared
    <3>2. CASE inner[i].op = "unpack" /\ ctx \in Range(inner[i].contexts)
      BY <1>1, <2>1, <3>2, UnpackedCanUnsuspend
    <3> QED BY <2>2, <3>1, <3>2 DEF Held
  <2>3. ASSUME IsOp(i, "record"), NEW ctx \in Held(i) PROVE ~ IsVisited(ctx, stages[i].vid)
    BY <2>2, <2>3 DEF IsOp, Prepared
  <2>4. ASSUME IsOp(i, "activate"), NEW ctx \in Held(i)
        PROVE  IsVisited(ctx, stages[i].vid) /\ ctx.piggyback = << >>
    BY <2>2, <2>4 DEF IsOp, Prepared, Calm
  <2>5. ASSUME IsOp(i, "unpack"), NEW ctx \in Held(i) PROVE CanUnsuspend(ctx)
    BY <2>2, <2>5 DEF IsOp, Prepared
  <2> QED BY <2>3, <2>4, <2>5
<1> QED BY <1>1, SpecIInv, PTL

\* Every context that has come to the consumer stands at the last Vid.
LEMMA ConsumedStand ==
  ASSUME IInv
  PROVE  /\ \A k \in 1..Len(queue[Consumer]) : Stands(queue[Consumer][k], plan, Len(plan.edges) + 1)
         /\ queue[Consumer] \in Seq(Context)
<1>1. PICK W : IsPending(W, stages, graph, queue, inner, source) /\ Means(W, plan, stages, answer)
  BY DEF IInv, Pending
<1>2. /\ stages \in Seq(Stage) /\ graph \in Data /\ source \in Seq(Vertex)
      /\ queue \in [1..Len(stages) + 1 -> Seq(Context)]
      /\ Len(stages) \in Nat /\ Consumer = Len(stages) + 1
  BY StagesNow DEF IInv, Chained
<1>3. Consumer \in 1..Len(stages) + 1 /\ queue[Consumer] \in Seq(Context)
  BY <1>2
<1>4. PICK rest \in Seq(Context) : Joins(W[Consumer], queue[Consumer], rest)
  BY <1>1, <1>2, <1>3, QueueIsPrefix
<1>5. \A k \in 1..Len(W[Consumer]) : Stands(W[Consumer][k], plan, Len(plan.edges) + 1)
  BY <1>1, <1>2 DEF Means
<1>6. \A k \in 1..Len(queue[Consumer]) :
        k \in 1..Len(W[Consumer]) /\ W[Consumer][k] = queue[Consumer][k]
  BY <1>4 DEF Joins
<1> QED BY <1>3, <1>5, <1>6

\* No vertex stays suspended outside a recursion: what waits to be recorded,
\* to be expanded or to be yielded has its own vertex, carries nobody, and
\* what is left on its stack marks missing vertices only.
THEOREM NobodyLeftSuspended == Spec => []NothingLeftSuspended
<1>1. ASSUME IInv PROVE NothingLeftSuspended
  <2> SUFFICES ASSUME NEW i \in 1..Consumer,
                      i = Consumer \/ IsOp(i, "activate") \/ IsOp(i, "record"),
                      NEW ctx \in Range(queue[i])
               PROVE  Calm(ctx)
    BY DEF NothingLeftSuspended, Calm
  <2>1. CASE i = Consumer
    <3>1. PICK k \in 1..Len(queue[Consumer]) : ctx = queue[Consumer][k]
      BY <1>1, <2>1, ConsumedStand, InRange
    <3>2. Stands(ctx, plan, Len(plan.edges) + 1)
      BY <1>1, <3>1, ConsumedStand
    <3> QED BY <3>2 DEF Stands
  <2>2. CASE i # Consumer
    <3>1. i \in 1..Len(stages)
      BY <1>1, <2>2, StagesNow
    <3>2. Prepared(stages[i], ctx)
      BY <1>1, <3>1, WaitingArePrepared
    <3> QED BY <2>2, <3>2 DEF IsOp, Prepared
  <2> QED BY <2>1, <2>2
<1> QED BY <1>1, SpecIInv, PTL

-----------------------------------------------------------------------------
(* The chain implements the stream of rows.                                *)

\* The rows that the consumer has got are the first rows of the answer, and
\* all of them once it has seen the end.
YieldedInOrder ==
  LET yielded == queue[Consumer]
      n == Len(plan.edges) + 1
  IN  /\ yielded \in Seq(Context)
      /\ Len(answer) \in Nat
      /\ DOMAIN answer = 1..Len(answer)
      /\ answer = [k \in 1..Len(answer) |-> answer[k]]
      /\ Len(yielded) <= Len(answer)
      /\ \A k \in 1..Len(yielded) : answer[k] = Row(yielded[k], n)
      /\ ended[Consumer] => Len(yielded) = Len(answer)

\* The invariant says it.
LEMMA IInvYieldsInOrder == IInv => YieldedInOrder
<1> SUFFICES ASSUME IInv PROVE YieldedInOrder
  OBVIOUS
<1> DEFINE m == Len(stages)
           n == Len(plan.edges) + 1
           a == queue[Consumer]
<1>1. PICK W : IsPending(W, stages, graph, queue, inner, source) /\ Means(W, plan, stages, answer)
  BY DEF IInv, Pending
<1>2. /\ stages \in Seq(Stage) /\ graph \in Data /\ source \in Seq(Vertex)
      /\ queue \in [1..Len(stages) + 1 -> Seq(Context)]
      /\ m \in Nat /\ Consumer = m + 1
  BY StagesNow DEF IInv, Chained
<1>3. Consumer \in 1..Len(stages) + 1 /\ a \in Seq(Context)
  BY <1>2
<1> DEFINE w == W[Consumer]
<1>4. PICK rest \in Seq(Context) : Joins(w, a, rest)
  BY <1>1, <1>2, <1>3, QueueIsPrefix
<1>5. w \in Seq(Context)
  BY <1>1, <1>2, <1>3 DEF IsPending
<1>6. Image(RowFn(n), w) = answer
  BY <1>1, <1>2 DEF Means
<1>7. ended[Consumer] => w = a
  <2>1. SUFFICES ASSUME ended[m + 1] PROVE W[m + 1] = queue[m + 1]
    BY <1>2
  <2>2. \A i \in 1..m : ended[i + 1] => ended[i]
    BY DEF IInv, EndedInOrder
  <2>3. \A i \in 1..m + 1 : ended[i]
    <3> HIDE DEF m
    <3> QED BY <1>2, <2>1, <2>2, AllEnded
  <2>4. 1 \in 1..m + 1
    BY <1>2
  <2>5. source = << >>
    BY <2>3, <2>4 DEF IInv, EndedInOrder
  <2>6. ASSUME NEW i \in 1..Len(stages) PROVE queue[i] = << >> /\ inner[i] = NoIterator
    <3>1. i + 1 \in 1..m + 1
      BY <1>2
    <3>2. ended[i + 1]
      BY <2>3, <3>1
    <3> QED BY <3>2 DEF IInv, EndedInOrder
  <2>7. IsPending(W, stages, graph, queue, inner, << >>)
    BY <1>1, <2>5
  <2>8. W[Len(stages) + 1] = queue[Len(stages) + 1]
    BY <1>2, <2>6, <2>7, NothingPending
  <2> QED BY <2>8
<1> HIDE DEF w, a
<1>8. /\ Len(a) <= Len(w) /\ \A k \in 1..Len(a) : k \in 1..Len(w) /\ w[k] = a[k]
  <2>1. Len(w) \in Nat /\ Len(a) \in Nat /\ Len(rest) \in Nat
    BY <1>3, <1>4, <1>5
  <2> QED BY <1>4, <2>1 DEF Joins
<1>9. /\ answer = [k \in 1..Len(w) |-> RowFn(n)[w[k]]] /\ Len(w) \in Nat
  BY <1>5, <1>6 DEF Image
<1>10. Len(answer) = Len(w) /\ DOMAIN answer = 1..Len(w)
       /\ answer = [k \in 1..Len(answer) |-> answer[k]]
       /\ \A k \in 1..Len(w) : answer[k] = RowFn(n)[w[k]]
  BY <1>9
<1>11. ASSUME NEW k \in 1..Len(a) PROVE answer[k] = Row(a[k], n)
  <2>1. k \in 1..Len(w) /\ w[k] = a[k] /\ a[k] \in Context
    BY <1>3, <1>8, ElementOfSeq
  <2> QED BY <1>10, <2>1 DEF RowFn
<1>12. ended[Consumer] => Len(a) = Len(answer)
  BY <1>7, <1>10
<1> QED BY <1>3, <1>8, <1>9, <1>10, <1>11, <1>12 DEF YieldedInOrder, a

\* What a step does to what the consumer has got.
LEMMA StepsAtConsumer ==
  ASSUME IInv, [Next]_vars
  PROVE  /\ plan' = plan /\ answer' = answer /\ Consumer' = Consumer
         /\ \/ queue'[Consumer] = queue[Consumer] /\ ended'[Consumer] = ended[Consumer]
            \/ \E ctx : queue'[Consumer] = Append(queue[Consumer], ctx)
                        /\ ended'[Consumer] = ended[Consumer]
            \/ queue'[Consumer] = queue[Consumer] /\ ~ ended[Consumer] /\ ended'[Consumer]
<1> DEFINE c == Consumer
           Same == queue'[c] = queue[c] /\ ended'[c] = ended[c]
           Gets == \E ctx : queue'[c] = Append(queue[c], ctx) /\ ended'[c] = ended[c]
           Stops == queue'[c] = queue[c] /\ ~ ended[c] /\ ended'[c]
           Goal == Same \/ Gets \/ Stops
<1>1. /\ queue \in [1..c -> Seq(Context)] /\ ended \in [1..c -> BOOLEAN]
      /\ c \in Nat /\ c \in 1..c /\ 1 \in 1..c
      /\ DOMAIN stages = 1..c - 1 /\ c = Len(stages) + 1
      /\ inner[c] = NoIterator
      /\ \A i \in 1..c : turn < i => ~ ended[i]
  <2>1. Len(stages) \in Nat /\ c = Len(stages) + 1
    BY StagesNow
  <2>2. c \in 1..c /\ 1 \in 1..c /\ c - 1 = Len(stages)
    BY <2>1
  <2> QED BY <2>1, <2>2, StagesNow DEF IInv, EndedInOrder
<1> HIDE DEF c
<1>2. /\ UNCHANGED <<plan, stages, answer>>
  BY DEF Next, Step, vars, Done, ResolveStartingVertices, Pull, End, Record, Activate, Keep, Drop,
     CoerceDeeper, Expand, EdgeNeighbor, EdgeMissing, EdgeEnd, RecursiveFirst, RecursiveNeighbor,
     RecursiveLeaf, RecursiveEnd, Unpack, UnpackEnd, InnerAnswers, InnerEnds
\* A step that answers appends to the queue after its own.
<1>3. ASSUME NEW i \in 1..c - 1, NEW ctx, queue' = Passed(i, ctx), ended' = ended PROVE Goal
  <2>1. i # c /\ i \in 1..c /\ i + 1 \in 1..c /\ i + 1 # i
    BY <1>1
  <2>2. CASE i + 1 = c
    <3>1. queue'[c] = Append(queue[c], ctx)
      BY <1>1, <1>3, <2>1, <2>2 DEF Passed
    <3> QED BY <1>3, <3>1
  <2>3. CASE i + 1 # c
    <3>1. queue'[c] = queue[c]
      BY <1>1, <1>3, <2>1, <2>3 DEF Passed
    <3> QED BY <1>3, <3>1
  <2> QED BY <2>2, <2>3
<1>4. ASSUME NEW i \in 1..c - 1, NEW ctx, queue' = [queue EXCEPT ![i + 1] = Append(@, ctx)], ended' = ended
      PROVE  Goal
  <2>1. i + 1 \in 1..c
    BY <1>1
  <2>2. CASE i + 1 = c
    <3>1. queue'[c] = Append(queue[c], ctx)
      BY <1>1, <1>4, <2>1, <2>2
    <3> QED BY <1>4, <3>1
  <2>3. CASE i + 1 # c
    <3>1. queue'[c] = queue[c]
      BY <1>1, <1>4, <2>1, <2>3
    <3> QED BY <1>4, <3>1
  <2> QED BY <2>2, <2>3
<1>5. ASSUME NEW i \in 1..c - 1, queue' = [queue EXCEPT ![i] = Tail(@)], ended' = ended PROVE Goal
  <2>1. i # c
    BY <1>1
  <2>2. queue'[c] = queue[c]
    BY <1>1, <1>5, <2>1
  <2> QED BY <1>5, <2>2
<1>6. ASSUME UNCHANGED <<queue, ended>> PROVE Goal
  BY <1>6
<1>7. ASSUME NEW i \in 0..c - 1, turn = i, queue' = queue, ended' = [ended EXCEPT ![i + 1] = TRUE]
      PROVE  Goal
  <2>1. i + 1 \in 1..c /\ turn < i + 1
    BY <1>1, <1>7
  <2>2. CASE i + 1 = c
    <3>1. ~ ended[c] /\ ended'[c]
      BY <1>1, <1>7, <2>1, <2>2
    <3> QED BY <1>7, <3>1
  <2>3. CASE i + 1 # c
    <3>1. ended'[c] = ended[c]
      BY <1>1, <1>7, <2>3
    <3> QED BY <1>7, <3>1
  <2> QED BY <2>2, <2>3
<1>8. ASSUME ResolveStartingVertices PROVE Goal
  <2>1. turn = 0 /\ 0 \in 0..c - 1 /\ 0 + 1 = 1
    BY <1>1, <1>8 DEF ResolveStartingVertices
  <2>2. CASE source = << >>
    <3>1. queue' = queue /\ ended' = [ended EXCEPT ![0 + 1] = TRUE]
      BY <1>8, <2>1, <2>2 DEF ResolveStartingVertices
    <3> HIDE DEF Goal
    <3> QED BY <1>7, <2>1, <3>1
  <2>3. CASE source # << >>
    <3> DEFINE x == NewContext(Head(source))
    <3>1. queue' = [queue EXCEPT ![1] = Append(@, x)] /\ ended' = ended
      BY <1>8, <2>3 DEF ResolveStartingVertices
    <3> HIDE DEF x
    <3>2. CASE c = 1
      <4>1. queue'[c] = Append(queue[c], x)
        BY <1>1, <3>1, <3>2
      <4> QED BY <3>1, <4>1
    <3>3. CASE c # 1
      <4>1. queue'[c] = queue[c]
        BY <1>1, <3>1, <3>3
      <4> QED BY <3>1, <4>1
    <3> QED BY <3>2, <3>3
  <2> QED BY <2>2, <2>3
<1>9. ASSUME NEW i \in 1..c, Step(i) PROVE Goal
  <2>0. i \in DOMAIN stages => i \in 1..c - 1 /\ i \in 0..c - 1
    BY <1>1
  <2>1. inner[i].op \in {"edge", "recursive", "unpack"} /\ turn = i => i \in DOMAIN stages
    <3>1. NoIterator.op = "none"
      BY DEF NoIterator
    <3>2. i # c => i \in 1..c - 1
      BY <1>1
    <3> QED BY <1>1, <3>1, <3>2
  <2> HIDE DEF Goal
  <2>2. CASE Pull(i)
    BY <1>6, <2>2 DEF Pull
  <2>3. CASE End(i)
    BY <1>7, <2>0, <2>3 DEF End
  <2>4. CASE Record(i)
    BY <1>3, <2>0, <2>4 DEF Record, IsOp
  <2>5. CASE Activate(i)
    BY <1>3, <2>0, <2>5 DEF Activate, IsOp
  <2>6. CASE Keep(i)
    BY <1>3, <2>0, <2>6 DEF Keep, IsOp
  <2>7. CASE Drop(i)
    BY <1>5, <2>0, <2>7 DEF Drop, IsOp
  <2>8. CASE CoerceDeeper(i)
    BY <1>3, <2>0, <2>8 DEF CoerceDeeper, IsOp
  <2>9. CASE Expand(i)
    BY <1>5, <2>0, <2>9 DEF Expand, IsOp
  <2>10. CASE EdgeNeighbor(i)
    BY <1>4, <2>0, <2>10 DEF EdgeNeighbor, InnerAnswers, Runs
  <2>11. CASE EdgeMissing(i)
    BY <1>4, <2>0, <2>11 DEF EdgeMissing, InnerAnswers, Runs
  <2>12. CASE RecursiveFirst(i)
    BY <1>4, <2>0, <2>12 DEF RecursiveFirst, InnerAnswers, Runs
  <2>13. CASE RecursiveNeighbor(i)
    BY <1>4, <2>0, <2>13 DEF RecursiveNeighbor, InnerAnswers, Runs
  <2>14. CASE RecursiveLeaf(i)
    BY <1>4, <2>0, <2>14 DEF RecursiveLeaf, InnerAnswers, Runs
  <2>15. CASE Unpack(i)
    BY <1>4, <2>0, <2>15 DEF Unpack, InnerAnswers, Runs
  <2>16. CASE EdgeEnd(i) \/ RecursiveEnd(i) \/ UnpackEnd(i)
    BY <1>6, <2>16 DEF EdgeEnd, RecursiveEnd, UnpackEnd, InnerEnds
  <2> QED BY <1>9, <2>2, <2>3, <2>4, <2>5, <2>6, <2>7, <2>8, <2>9, <2>10, <2>11, <2>12, <2>13,
             <2>14, <2>15, <2>16 DEF Step
<1>10. Goal
  <2>1. CASE UNCHANGED vars
    BY <2>1 DEF vars
  <2> HIDE DEF Goal
  <2> QED BY <1>8, <1>9, <2>1 DEF Next, Done, c
<1> QED BY <1>2, <1>10 DEF Consumer, c

YieldsFirst == YieldedRows = [k \in 1..Len(queue[Consumer]) |-> answer[k]]

\* What has been yielded, by the answer.
LEMMA YieldedIsSeq == YieldedInOrder => YieldsFirst
<1> SUFFICES ASSUME YieldedInOrder PROVE YieldsFirst
  OBVIOUS
<1> DEFINE a == queue[Consumer]
           n == Len(plan.edges) + 1
<1>1. a \in Seq(Context) /\ \A k \in 1..Len(a) : answer[k] = Row(a[k], n)
  BY DEF YieldedInOrder
<1>2. YieldedRows = [k \in DOMAIN a |-> Row(a[k], n)]
  BY DEF YieldedRows, Row
<1> HIDE DEF a, n
<1>3. DOMAIN a = 1..Len(a)
  BY <1>1
<1>4. YieldedRows = [k \in 1..Len(a) |-> answer[k]]
  BY <1>1, <1>2, <1>3
<1> QED BY <1>4 DEF YieldsFirst, a

\* Such a step is a step of the stream, or none.
LEMMA StepStreams ==
  ASSUME YieldedInOrder, YieldedInOrder', plan' = plan, answer' = answer,
         \/ queue'[Consumer'] = queue[Consumer] /\ ended'[Consumer'] = ended[Consumer]
         \/ \E ctx : queue'[Consumer'] = Append(queue[Consumer], ctx)
                     /\ ended'[Consumer'] = ended[Consumer]
         \/ queue'[Consumer'] = queue[Consumer] /\ ~ ended[Consumer] /\ ended'[Consumer'],
         YieldsFirst, YieldsFirst'
  PROVE  [Stream!Next]_(Stream!streamVars)
<1> DEFINE a == queue[Consumer]
           b == queue'[Consumer']
           y == YieldedRows
           z == YieldedRows'
<1>1. /\ a \in Seq(Context) /\ Len(a) \in Nat /\ b \in Seq(Context) /\ Len(b) \in Nat
      /\ Len(a) <= Len(answer) /\ Len(b) <= Len(answer) /\ Len(answer) \in Nat
      /\ answer = [k \in 1..Len(answer) |-> answer[k]]
  BY DEF YieldedInOrder
<1>2. ended'[Consumer'] => Len(b) = Len(answer)
  BY DEF YieldedInOrder
<1>3. y = [k \in 1..Len(a) |-> answer[k]] /\ z = [k \in 1..Len(b) |-> answer[k]]
  BY DEF YieldsFirst
<1>4. \/ b = a /\ ended'[Consumer'] = ended[Consumer]
      \/ \E ctx : b = Append(a, ctx) /\ ended'[Consumer'] = ended[Consumer]
      \/ b = a /\ ~ ended[Consumer] /\ ended'[Consumer']
  OBVIOUS
<1>5. Finished = ended[Consumer] /\ Finished' = ended'[Consumer']
  BY DEF Finished
<1> HIDE DEF a, b
<1>6. Len(y) = Len(a)
  BY <1>1, <1>3
<1> HIDE DEF y, z
<1>7. CASE b = a /\ ended'[Consumer'] = ended[Consumer]
  <2>1. z = y
    BY <1>3, <1>7
  <2>2. UNCHANGED <<answer, YieldedRows, Finished>>
    BY <1>5, <1>7, <2>1 DEF y, z
  <2> QED BY <2>2 DEF Stream!streamVars
<1>8. CASE \E ctx : b = Append(a, ctx) /\ ended'[Consumer'] = ended[Consumer]
  <2>1. PICK ctx : b = Append(a, ctx) /\ ended'[Consumer'] = ended[Consumer]
    BY <1>8
  <2>2. Len(b) = Len(a) + 1
    BY <1>1, <2>1
  <2>3. z = Append(y, answer[Len(y) + 1])
    <3> DEFINE m == Len(a)
               last == answer[m + 1]
    <3>1. m \in Nat /\ Len(b) = m + 1 /\ Len(y) = m
      BY <1>1, <1>6, <2>2
    <3>2. y = [k \in 1..m |-> answer[k]] /\ z = [k \in 1..m + 1 |-> answer[k]]
      BY <1>3, <3>1
    <3> HIDE DEF m
    <3>3. DOMAIN y = 1..m
      BY <3>2
    <3>4. Append(y, last) = [k \in 1..m + 1 |-> IF k = m + 1 THEN last ELSE y[k]]
      BY <3>1, <3>2
    <3>5. \A k \in 1..m + 1 : k # m + 1 => k \in 1..m /\ y[k] = answer[k]
      BY <3>1, <3>2
    <3>6. z = Append(y, last)
      BY <3>2, <3>4, <3>5
    <3> QED BY <3>1, <3>6
  <2>4. Len(y) < Len(answer)
    BY <1>1, <1>6, <2>2
  <2>5. Stream!Yield
    BY <1>5, <2>1, <2>3, <2>4 DEF Stream!Yield, y, z
  <2> QED BY <2>5 DEF Stream!Next
<1>9. CASE b = a /\ ~ ended[Consumer] /\ ended'[Consumer']
  <2>1. z = y /\ Len(a) = Len(answer)
    BY <1>2, <1>3, <1>9
  <2>2. y = answer
    BY <1>1, <1>3, <2>1
  <2>3. Finished' = TRUE /\ Finished = FALSE
    BY <1>5, <1>9
  <2>4. Stream!Finish
    BY <2>1, <2>2, <2>3 DEF Stream!Finish, y, z
  <2> QED BY <2>4 DEF Stream!Next
<1> QED BY <1>4, <1>7, <1>8, <1>9

\* The chain starts as a stream does.
LEMMA InitStreams == Init => Stream!Init
<1> SUFFICES ASSUME Init PROVE Stream!Init
  OBVIOUS
<1>1. IInv
  BY InitIInv
<1>2. Consumer \in 1..Consumer
  <2>1. Len(stages) \in Nat /\ Consumer = Len(stages) + 1
    BY <1>1, StagesNow
  <2> QED BY <2>1
<1>3. queue[Consumer] = << >> /\ ended[Consumer] = FALSE
  BY <1>2 DEF Init
<1>4. YieldedRows = << >>
  BY <1>3 DEF YieldedRows
<1> QED BY <1>3, <1>4 DEF Stream!Init, Finished

\* The chain of iterators is a stream of the rows of the query: what it has
\* yielded is always a beginning of the rows of the nested loops, in their
\* order; it yields the next row or it ends, and it ends when none is left.
\* It is so for every query component, all data and all batching of the
\* adapters (execution.rs, compute_component() and what it calls).
THEOREM Streams == Spec => Stream!Init /\ [][Stream!Next]_(Stream!streamVars)
<1>1. Init => Stream!Init
  BY InitStreams
<1>2. IInv' => YieldedInOrder' /\ YieldsFirst'
  <2>1. IInv => YieldedInOrder /\ YieldsFirst
    BY IInvYieldsInOrder, YieldedIsSeq
  <2> QED BY <2>1, PTL
<1>3. ASSUME IInv, IInv', [Next]_vars PROVE [Stream!Next]_(Stream!streamVars)
  <2>1. YieldedInOrder /\ YieldedInOrder'
    BY <1>2, <1>3, IInvYieldsInOrder
  <2>2. /\ plan' = plan /\ answer' = answer
        /\ \/ queue'[Consumer'] = queue[Consumer] /\ ended'[Consumer'] = ended[Consumer]
           \/ \E ctx : queue'[Consumer'] = Append(queue[Consumer], ctx)
                       /\ ended'[Consumer'] = ended[Consumer]
           \/ queue'[Consumer'] = queue[Consumer] /\ ~ ended[Consumer] /\ ended'[Consumer']
    BY <1>3, StepsAtConsumer
  <2>3. YieldsFirst /\ YieldsFirst'
    BY <1>2, <1>3, IInvYieldsInOrder, YieldedIsSeq
  <2> QED BY <2>1, <2>2, <2>3, StepStreams
<1> QED BY <1>1, <1>3, SpecIInv, PTL DEF Spec
=============================================================================
