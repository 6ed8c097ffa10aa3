-------------------------------- MODULE HintsProofs ---------------------------
(***************************************************************************)
(* What intersecting candidates and excluding values from them does to the *)
(* values they admit; that the hints an adapter gets for a property leave  *)
(* out no value a kept row may have; that both ways of comparing integers  *)
(* are their order; and that a tag which a hint for an edge's destination  *)
(* says is known is in the contexts of the call.  For every set of         *)
(* numbers, every list of filters, every width of the integer types and    *)
(* every query.  At the end, what adapters may rely on when they ask for   *)
(* hints inside their calls: the query is in its carrier.                  *)
(***************************************************************************)
EXTENDS HintWidths, EdgeHints, QueryCarrier, FiniteSetTheorems, SequenceTheorems, WellFoundedInduction, TLAPS

-----------------------------------------------------------------------------
(* Candidate values.                                                       *)

\* The records a candidate can be.
LEMMA CandidateKinds ==
  ASSUME NEW c \in Candidate
  PROVE  \/ c = Impossible
         \/ c = All
         \/ \E v \in Value : c = Single(v)
         \/ \E list \in List : c = Multiple(list)
         \/ \E s \in Bound, e \in Bound, null \in BOOLEAN : c = Between(s, e, null)
BY DEF Candidate, RangeCandidate, Impossible, All, Single, Multiple, Between

\* A bound that is not open has an integer.
LEMMA BoundFields ==
  ASSUME NEW b \in Bound
  PROVE  /\ b.kind \in {"unbounded", "included", "excluded"}
         /\ b.kind # "unbounded" => b.at \in Number /\ b.at \in Int
BY NumbersAreInts DEF Bound

\* Restricting a list leaves a list.
LEMMA RestrictList ==
  ASSUME NEW list \in List, NEW S \in SUBSET DOMAIN list
  PROVE  /\ Restrict(list, S) \in List
         /\ DOMAIN Restrict(list, S) = S
         /\ \A p \in S : Restrict(list, S)[p] = list[p]
BY DEF Restrict, List

\* The constructors build candidates.
LEMMA Constructors ==
  /\ Impossible \in Candidate
  /\ All \in Candidate
  /\ Full \in Candidate
  /\ FullNonNull \in Candidate
  /\ \A v \in Value : Single(v) \in Candidate
  /\ \A list \in List : Multiple(list) \in Candidate
  /\ \A s \in Bound, e \in Bound, null \in BOOLEAN : Between(s, e, null) \in Candidate
  /\ Unbounded \in Bound
  /\ \A n \in Number : Included(n) \in Bound /\ ExcludedBound(n) \in Bound
BY DEF Impossible, All, Full, FullNonNull, Single, Multiple, Between, Candidate,
       RangeCandidate, Unbounded, Included, ExcludedBound, Bound

-----------------------------------------------------------------------------

\* normalize() changes the form of a range, never its values.
LEMMA NormalizeRangeExact ==
  ASSUME NEW s \in Bound, NEW e \in Bound, NEW null \in BOOLEAN
  PROVE  LET c == Between(s, e, null) IN
         /\ NormalizeRange(c) \in Candidate
         /\ \A v \in Value : Admits(NormalizeRange(c), v) <=> Admits(c, v)
         /\ Normalize(NormalizeRange(c)) = NormalizeRange(c)
<1> DEFINE c == Between(s, e, null)
<1> DEFINE pair == [p \in {1, 2} |-> IF p = 1 THEN Null ELSE c.start.at]
<1>1. c.kind = "range" /\ c.start = s /\ c.end = e /\ c.null = null /\ c \in Candidate
  BY Constructors DEF Between
<1>2. \A v \in Value : Admits(c, v) <=> RangeContains(c, v)
  BY <1>1 DEF Admits
<1> HIDE DEF c
<1>3. CASE Degenerate(c)
  <2>1. ASSUME NEW v \in Number PROVE ~ RangeContains(c, v)
    <3>1. v \in Int /\ v # Null
      BY NumbersAreInts, NullIsNoNumber
    <3>2. ~ (Above(c.start, v) /\ Below(c.end, v))
      BY <1>1, <1>3, <3>1, BoundFields DEF Degenerate, Above, Below
    <3> QED BY <3>1, <3>2 DEF RangeContains
  <2>2. CASE c.null
    <3>1. NormalizeRange(c) = Single(Null)
      BY <1>3, <2>2 DEF NormalizeRange
    <3>2. \A v \in Value : Admits(Single(Null), v) <=> v = Null
      BY DEF Admits, Single
    <3>3. \A v \in Value : RangeContains(c, v) <=> v = Null
      BY <2>1, <2>2 DEF Value, RangeContains
    <3>4. Normalize(Single(Null)) = Single(Null)
      BY DEF Normalize, Single
    <3> QED BY <1>2, <3>1, <3>2, <3>3, <3>4, Constructors DEF Value, c
  <2>3. CASE ~ c.null
    <3>1. NormalizeRange(c) = Impossible
      BY <1>3, <2>3 DEF NormalizeRange
    <3>2. \A v \in Value : ~ Admits(Impossible, v)
      BY DEF Admits, Impossible
    <3>3. \A v \in Value : ~ RangeContains(c, v)
      BY <2>1, <2>3 DEF Value, RangeContains
    <3>4. Normalize(Impossible) = Impossible
      BY DEF Normalize, Impossible
    <3> QED BY <1>2, <3>1, <3>2, <3>3, <3>4, Constructors DEF c
  <2> QED BY <2>2, <2>3
<1>4. CASE ~ Degenerate(c) /\ c = Full
  <2>1. NormalizeRange(c) = All
    BY <1>4 DEF NormalizeRange
  <2>2. \A v \in Value : Admits(All, v) /\ RangeContains(c, v)
    BY <1>4 DEF Admits, All, RangeContains, Full, Between, Above, Below, Unbounded
  <2>3. Normalize(All) = All
    BY DEF Normalize, All
  <2> QED BY <1>2, <2>1, <2>2, <2>3, Constructors DEF c
<1>5. CASE /\ ~ Degenerate(c) /\ c # Full
           /\ c.start = c.end /\ c.start.kind = "included"
  <2>1. c.start.at \in Number
    BY <1>1, <1>5 DEF Bound
  <2>2. ASSUME NEW v \in Number PROVE RangeContains(c, v) <=> v = c.start.at
    <3>1. v \in Int /\ v # Null /\ c.start.at \in Int
      BY <2>1, NumbersAreInts, NullIsNoNumber
    <3>2. (Above(c.start, v) /\ Below(c.end, v)) <=> v = c.start.at
      BY <1>5, <3>1 DEF Above, Below
    <3> QED BY <3>1, <3>2 DEF RangeContains
  <2>3. CASE c.null
    <3>1. NormalizeRange(c) = Multiple(pair)
      BY <1>5, <2>3 DEF NormalizeRange
    <3>2. /\ pair \in [{1, 2} -> Value]
          /\ DOMAIN pair = {1, 2} /\ pair[1] = Null /\ pair[2] = c.start.at
      BY <2>1 DEF Value
    <3>6. pair \in List
      BY <3>2, PairsFit DEF List
    <3> HIDE DEF pair
    <3>3. \A v \in Value : Admits(Multiple(pair), v) <=> v = Null \/ v = c.start.at
      BY <3>2 DEF Admits, Multiple
    <3>4. \A v \in Value : RangeContains(c, v) <=> v = Null \/ v = c.start.at
      BY <2>1, <2>2, <2>3, NullIsNoNumber DEF Value, RangeContains
    <3>5. Normalize(Multiple(pair)) = Multiple(pair)
      <4>1. Multiple(pair).values = pair /\ Multiple(pair).kind = "multiple"
        BY DEF Multiple
      <4>2. DOMAIN pair # {} /\ ~ \E p \in DOMAIN pair : DOMAIN pair = {p}
        BY <3>2
      <4> QED BY <4>1, <4>2 DEF Normalize, NormalizeMultiple
    <3> QED BY <1>2, <3>1, <3>3, <3>4, <3>5, <3>6, Constructors DEF c
  <2>4. CASE ~ c.null
    <3>1. NormalizeRange(c) = Single(c.start.at)
      BY <1>5, <2>4 DEF NormalizeRange
    <3>2. \A v \in Value : Admits(Single(c.start.at), v) <=> v = c.start.at
      BY DEF Admits, Single
    <3>3. \A v \in Value : RangeContains(c, v) <=> v = c.start.at
      BY <2>1, <2>2, <2>4, NullIsNoNumber DEF Value, RangeContains
    <3>4. Normalize(Single(c.start.at)) = Single(c.start.at)
      BY DEF Normalize, Single
    <3> QED BY <1>2, <2>1, <3>1, <3>2, <3>3, <3>4, Constructors DEF Value, c
  <2> QED BY <2>3, <2>4
<1>6. CASE /\ ~ Degenerate(c) /\ c # Full
           /\ ~ (c.start = c.end /\ c.start.kind = "included")
  <2>1. NormalizeRange(c) = c
    BY <1>6 DEF NormalizeRange
  <2>2. Normalize(c) = c
    BY <1>1, <2>1 DEF Normalize
  <2> QED BY <1>1, <2>1, <2>2 DEF c
<1> QED BY <1>3, <1>4, <1>5, <1>6 DEF c

\* normalize() changes the form of a list, never its values.
LEMMA NormalizeMultipleExact ==
  ASSUME NEW list \in List
  PROVE  LET c == Multiple(list) IN
         /\ NormalizeMultiple(c) \in Candidate
         /\ \A v \in Value : Admits(NormalizeMultiple(c), v) <=> Admits(c, v)
         /\ Normalize(NormalizeMultiple(c)) = NormalizeMultiple(c)
<1> DEFINE c == Multiple(list)
<1>1. c.kind = "multiple" /\ c.values = list /\ c \in Candidate
  BY Constructors DEF Multiple
<1>2. \A p \in DOMAIN list : list[p] \in Value
  BY DEF List
<1> HIDE DEF c
<1>3. \A v \in Value : Admits(c, v) <=> \E p \in DOMAIN list : list[p] = v
  BY <1>1 DEF Admits
<1>4. CASE DOMAIN list = {}
  <2>1. NormalizeMultiple(c) = Impossible
    BY <1>1, <1>4 DEF NormalizeMultiple
  <2>2. \A v \in Value : ~ Admits(Impossible, v)
    BY DEF Admits, Impossible
  <2>3. Normalize(Impossible) = Impossible
    BY DEF Normalize, Impossible
  <2> QED BY <1>3, <1>4, <2>1, <2>2, <2>3, Constructors DEF c
<1>5. CASE DOMAIN list # {} /\ \E p \in DOMAIN list : DOMAIN list = {p}
  <2>1. PICK p \in DOMAIN list : DOMAIN list = {p}
    BY <1>5
  <2>2. (CHOOSE q \in DOMAIN list : TRUE) = p
    BY <2>1
  <2>3. NormalizeMultiple(c) = Single(list[p])
    BY <1>1, <1>5, <2>2 DEF NormalizeMultiple
  <2>4. \A v \in Value : Admits(Single(list[p]), v) <=> v = list[p]
    BY DEF Admits, Single
  <2>5. Normalize(Single(list[p])) = Single(list[p])
    BY DEF Normalize, Single
  <2> QED BY <1>2, <1>3, <2>1, <2>3, <2>4, <2>5, Constructors DEF c
<1>6. CASE DOMAIN list # {} /\ ~ \E p \in DOMAIN list : DOMAIN list = {p}
  <2>1. NormalizeMultiple(c) = c
    BY <1>1, <1>6 DEF NormalizeMultiple
  <2>2. Normalize(c) = c
    BY <1>1, <2>1 DEF Normalize
  <2> QED BY <1>1, <2>1, <2>2 DEF c
<1> QED BY <1>4, <1>5, <1>6 DEF c

\* CandidateValue::normalize changes no candidate's values, and a second call
\* changes nothing.
THEOREM NormalizeExact ==
  ASSUME NEW c \in Candidate
  PROVE  /\ Normalize(c) \in Candidate
         /\ \A v \in Value : Admits(Normalize(c), v) <=> Admits(c, v)
         /\ Normalize(Normalize(c)) = Normalize(c)
<1>1. CASE c.kind \notin {"range", "multiple"}
  BY <1>1 DEF Normalize
<1>2. CASE c.kind = "range"
  <2>1. PICK s \in Bound, e \in Bound, null \in BOOLEAN : c = Between(s, e, null)
    BY <1>2, CandidateKinds DEF Impossible, All, Single, Multiple
  <2>2. Normalize(c) = NormalizeRange(c)
    BY <1>2 DEF Normalize
  <2> QED BY <2>1, <2>2, NormalizeRangeExact
<1>3. CASE c.kind = "multiple"
  <2>1. PICK list \in List : c = Multiple(list)
    BY <1>3, CandidateKinds DEF Impossible, All, Single, Between
  <2>2. Normalize(c) = NormalizeMultiple(c)
    BY <1>3 DEF Normalize
  <2> QED BY <2>1, <2>2, NormalizeMultipleExact
<1> QED BY <1>1, <1>2, <1>3

-----------------------------------------------------------------------------

\* The higher of two starts lets exactly the numbers through that both do.
LEMMA HigherStartExact ==
  ASSUME NEW a \in Bound, NEW b \in Bound
  PROVE  /\ HigherStart(a, b) \in Bound
         /\ \A n \in Number : Above(HigherStart(a, b), n) <=> Above(a, n) /\ Above(b, n)
<1>1. HigherStart(a, b) \in Bound
  BY DEF HigherStart
<1>2. ASSUME NEW n \in Number
      PROVE  Above(HigherStart(a, b), n) <=> Above(a, n) /\ Above(b, n)
  <2>1. n \in Int
    BY NumbersAreInts
  <2> QED BY <2>1, BoundFields DEF HigherStart, Above
<1> QED BY <1>1, <1>2

\* The lower of two ends lets exactly the numbers through that both do.
LEMMA LowerEndExact ==
  ASSUME NEW a \in Bound, NEW b \in Bound
  PROVE  /\ LowerEnd(a, b) \in Bound
         /\ \A n \in Number : Below(LowerEnd(a, b), n) <=> Below(a, n) /\ Below(b, n)
<1>1. LowerEnd(a, b) \in Bound
  BY DEF LowerEnd
<1>2. ASSUME NEW n \in Number
      PROVE  Below(LowerEnd(a, b), n) <=> Below(a, n) /\ Below(b, n)
  <2>1. n \in Int
    BY NumbersAreInts
  <2> QED BY <2>1, BoundFields DEF LowerEnd, Below
<1> QED BY <1>1, <1>2

\* Range::intersect keeps the values of both ranges.
LEMMA IntersectRangesExact ==
  ASSUME NEW c \in Candidate, NEW d \in Candidate, c.kind = "range", d.kind = "range"
  PROVE  /\ IntersectRanges(c, d) \in Candidate
         /\ \A v \in Value : Admits(IntersectRanges(c, d), v) <=> Admits(c, v) /\ Admits(d, v)
<1> DEFINE r == IntersectRanges(c, d)
<1>1. c.start \in Bound /\ c.end \in Bound /\ c.null \in BOOLEAN
  BY DEF Candidate, RangeCandidate
<1>2. d.start \in Bound /\ d.end \in Bound /\ d.null \in BOOLEAN
  BY DEF Candidate, RangeCandidate
<1>3. /\ r.kind = "range" /\ r.null = (c.null /\ d.null)
      /\ r.start = HigherStart(c.start, d.start) /\ r.end = LowerEnd(c.end, d.end)
  BY DEF IntersectRanges, Between
<1>4. r \in Candidate
  BY <1>1, <1>2, HigherStartExact, LowerEndExact, Constructors DEF IntersectRanges
<1> HIDE DEF r
<1>5. ASSUME NEW v \in Value PROVE RangeContains(r, v) <=> RangeContains(c, v) /\ RangeContains(d, v)
  <2>1. CASE v = Null
    BY <1>3, <2>1 DEF RangeContains
  <2>2. CASE v # Null
    <3>1. v \in Number
      BY <2>2 DEF Value
    <3>2. Above(r.start, v) <=> Above(c.start, v) /\ Above(d.start, v)
      BY <1>1, <1>2, <1>3, <3>1, HigherStartExact
    <3>3. Below(r.end, v) <=> Below(c.end, v) /\ Below(d.end, v)
      BY <1>1, <1>2, <1>3, <3>1, LowerEndExact
    <3> QED BY <2>2, <3>2, <3>3 DEF RangeContains
  <2> QED BY <2>1, <2>2
<1>6. \A v \in Value : Admits(r, v) <=> Admits(c, v) /\ Admits(d, v)
  BY <1>3, <1>5 DEF Admits
<1> QED BY <1>4, <1>6 DEF r

\* Retaining the values another candidate admits keeps the values of both.
LEMMA RetainExact ==
  ASSUME NEW list \in List, NEW d \in Candidate
  PROVE  /\ Multiple(Retain(list, d)) \in Candidate
         /\ \A v \in Value : Admits(Multiple(Retain(list, d)), v)
                               <=> Admits(Multiple(list), v) /\ Admits(d, v)
<1> DEFINE S == {p \in DOMAIN list : Admits(d, list[p])}
<1>1. /\ Restrict(list, S) \in List /\ DOMAIN Restrict(list, S) = S
      /\ \A p \in S : Restrict(list, S)[p] = list[p]
  BY RestrictList
<1>2. Retain(list, d) = Restrict(list, S)
  BY DEF Retain
<1>3. \A l \in List, v \in Value :
        Admits(Multiple(l), v) <=> \E p \in DOMAIN l : l[p] = v
  BY DEF Admits, Multiple
<1>4. ASSUME NEW v \in Value
      PROVE  (\E p \in S : list[p] = v) <=> (\E p \in DOMAIN list : list[p] = v) /\ Admits(d, v)
  OBVIOUS
<1> QED BY <1>1, <1>2, <1>3, <1>4, Constructors

\* The arms of intersect keep the values of both sides.
LEMMA NarrowExact ==
  ASSUME NEW c \in Candidate, NEW d \in Candidate, c.kind # "range"
  PROVE  /\ Narrow(c, d) \in Candidate
         /\ \A v \in Value : Admits(Narrow(c, d), v) <=> Admits(c, v) /\ Admits(d, v)
<1>0. \A v \in Value : ~ Admits(Impossible, v) /\ Admits(All, v)
  BY DEF Admits, Impossible, All
<1>00. \A v \in Value, w \in Value : Admits(Single(w), v) <=> v = w
  BY DEF Admits, Single
<1>1. CASE c = Impossible
  <2>1. Narrow(c, d) = Impossible
    BY <1>1 DEF Narrow, Impossible
  <2> QED BY <1>0, <1>1, <2>1
<1>2. CASE c = All
  <2>1. Narrow(c, d) = d
    BY <1>2 DEF Narrow, All
  <2> QED BY <1>0, <1>2, <2>1
<1>3. ASSUME NEW w \in Value, c = Single(w)
      PROVE  /\ Narrow(c, d) \in Candidate
             /\ \A v \in Value : Admits(Narrow(c, d), v) <=> Admits(c, v) /\ Admits(d, v)
  <2>1. Narrow(c, d) = IF Admits(d, w) THEN c ELSE Impossible
    BY <1>3 DEF Narrow, Single
  <2> QED BY <1>0, <1>00, <1>3, <2>1, Constructors
<1>4. ASSUME NEW list \in List, c = Multiple(list)
      PROVE  /\ Narrow(c, d) \in Candidate
             /\ \A v \in Value : Admits(Narrow(c, d), v) <=> Admits(c, v) /\ Admits(d, v)
  <2>0. c.kind = "multiple" /\ c.values = list
    BY <1>4 DEF Multiple
  <2>1. CASE d = Impossible
    <3>1. Narrow(c, d) = d
      BY <2>0, <2>1 DEF Narrow, Impossible
    <3> QED BY <1>0, <2>1, <3>1
  <2>2. CASE d = All
    <3>1. Narrow(c, d) = c
      BY <2>0, <2>2 DEF Narrow, All
    <3> QED BY <1>0, <2>2, <3>1
  <2>3. ASSUME NEW w \in Value, d = Single(w)
        PROVE  /\ Narrow(c, d) \in Candidate
               /\ \A v \in Value : Admits(Narrow(c, d), v) <=> Admits(c, v) /\ Admits(d, v)
    <3>1. Narrow(c, d) = IF Admits(c, w) THEN d ELSE Impossible
      BY <2>0, <2>3 DEF Narrow, Single
    <3> QED BY <1>0, <1>00, <2>3, <3>1, Constructors
  <2>4. CASE d.kind \in {"multiple", "range"}
    <3>1. Narrow(c, d) = Multiple(Retain(list, d))
      BY <2>0, <2>4 DEF Narrow
    <3> QED BY <1>4, <3>1, RetainExact
  <2> QED BY <2>1, <2>2, <2>3, <2>4, CandidateKinds DEF Multiple, Between
<1> QED BY <1>1, <1>2, <1>3, <1>4, CandidateKinds DEF Between

\* CandidateValue::intersect keeps exactly the values of both sides, whichever
\* of the twenty-five pairs of variants they are, and leaves a canonical candidate.
THEOREM IntersectExact ==
  ASSUME NEW c \in Candidate, NEW d \in Candidate
  PROVE  /\ Intersect(c, d) \in Candidate
         /\ \A v \in Value : Admits(Intersect(c, d), v) <=> Admits(c, v) /\ Admits(d, v)
         /\ Normalize(Intersect(c, d)) = Intersect(c, d)
<1>1. CASE c.kind # "range"
  <2>1. Intersect(c, d) = Normalize(Narrow(c, d))
    BY <1>1 DEF Intersect
  <2> QED BY <1>1, <2>1, NarrowExact, NormalizeExact
<1>2. CASE c.kind = "range" /\ d.kind = "range"
  <2>1. Intersect(c, d) = Normalize(IntersectRanges(c, d))
    BY <1>2 DEF Intersect
  <2> QED BY <1>2, <2>1, IntersectRangesExact, NormalizeExact
<1>3. CASE c.kind = "range" /\ d.kind # "range"
  <2>1. Intersect(c, d) = Normalize(Normalize(Narrow(d, c)))
    BY <1>3 DEF Intersect
  <2> QED BY <1>3, <2>1, NarrowExact, NormalizeExact
<1> QED BY <1>1, <1>2, <1>3

\* exclude_single_value rules out no value but the one it is told, admits none
\* it did not admit before, and keeps a canonical candidate canonical.
THEOREM ExcludeSound ==
  ASSUME NEW c \in Candidate, NEW w \in Value, Normalize(c) = c
  PROVE  /\ ExcludeSingle(c, w) \in Candidate
         /\ \A v \in Value : Admits(ExcludeSingle(c, w), v) => Admits(c, v)
         /\ \A v \in Value : Admits(c, v) /\ v # w => Admits(ExcludeSingle(c, w), v)
         /\ Normalize(ExcludeSingle(c, w)) = ExcludeSingle(c, w)
<1>0. \A v \in Value : ~ Admits(Impossible, v) /\ Admits(All, v)
  BY DEF Admits, Impossible, All
<1>00. Normalize(Impossible) = Impossible /\ Normalize(FullNonNull) = FullNonNull
  BY DEF Normalize, NormalizeRange, Degenerate, Impossible, FullNonNull, Full, Between, Unbounded
<1>1. CASE c = Impossible
  <2>1. ExcludeSingle(c, w) = c
    BY <1>1 DEF ExcludeSingle, Impossible
  <2> QED BY <2>1
<1>2. CASE c = All
  <2>1. ExcludeSingle(c, w) = IF w = Null THEN FullNonNull ELSE c
    BY <1>2 DEF ExcludeSingle, All
  <2>2. \A v \in Value : v # Null => Admits(FullNonNull, v)
    BY DEF Admits, FullNonNull, Between, RangeContains, Above, Below, Unbounded
  <2> QED BY <1>0, <1>00, <1>2, <2>1, <2>2, Constructors
<1>3. ASSUME NEW x \in Value, c = Single(x)
      PROVE  /\ ExcludeSingle(c, w) \in Candidate
             /\ \A v \in Value : Admits(ExcludeSingle(c, w), v) => Admits(c, v)
             /\ \A v \in Value : Admits(c, v) /\ v # w => Admits(ExcludeSingle(c, w), v)
             /\ Normalize(ExcludeSingle(c, w)) = ExcludeSingle(c, w)
  <2>1. ExcludeSingle(c, w) = IF x = w THEN Impossible ELSE c
    BY <1>3 DEF ExcludeSingle, Single
  <2>2. \A v \in Value : Admits(c, v) <=> v = x
    BY <1>3 DEF Admits, Single
  <2> QED BY <1>0, <1>00, <2>1, <2>2, Constructors
<1>4. ASSUME NEW list \in List, c = Multiple(list)
      PROVE  /\ ExcludeSingle(c, w) \in Candidate
             /\ \A v \in Value : Admits(ExcludeSingle(c, w), v) => Admits(c, v)
             /\ \A v \in Value : Admits(c, v) /\ v # w => Admits(ExcludeSingle(c, w), v)
             /\ Normalize(ExcludeSingle(c, w)) = ExcludeSingle(c, w)
  <2> DEFINE S == {p \in DOMAIN list : list[p] # w}
  <2> DEFINE d == Multiple(Restrict(list, S))
  <2>1. c.kind = "multiple" /\ c.values = list
    BY <1>4 DEF Multiple
  <2>2. ExcludeSingle(c, w) = Normalize(d)
    BY <2>1 DEF ExcludeSingle
  <2>3. /\ Restrict(list, S) \in List /\ DOMAIN Restrict(list, S) = S
        /\ \A p \in S : Restrict(list, S)[p] = list[p]
    BY RestrictList
  <2>4. \A l \in List, v \in Value :
          Admits(Multiple(l), v) <=> \E p \in DOMAIN l : l[p] = v
    BY DEF Admits, Multiple
  <2>5. \A v \in Value : Admits(d, v) <=> Admits(c, v) /\ v # w
    BY <1>4, <2>3, <2>4
  <2>6. d \in Candidate
    BY <2>3, Constructors
  <2> HIDE DEF d
  <2> QED BY <2>2, <2>5, <2>6, NormalizeExact
<1>5. ASSUME NEW s \in Bound, NEW e \in Bound, NEW null \in BOOLEAN, c = Between(s, e, null)
      PROVE  /\ ExcludeSingle(c, w) \in Candidate
             /\ \A v \in Value : Admits(ExcludeSingle(c, w), v) => Admits(c, v)
             /\ \A v \in Value : Admits(c, v) /\ v # w => Admits(ExcludeSingle(c, w), v)
             /\ Normalize(ExcludeSingle(c, w)) = ExcludeSingle(c, w)
  <2>1. c.kind = "range" /\ c.start = s /\ c.end = e /\ c.null = null
    BY <1>5 DEF Between
  <2>2. \A a \in Bound, b \in Bound, n \in BOOLEAN, v \in Value :
          Admits(Between(a, b, n), v)
            <=> IF v = Null THEN n ELSE Above(a, v) /\ Below(b, v)
    BY DEF Admits, Between, RangeContains
  <2>3. CASE w = Null
    <3>1. ExcludeSingle(c, w) = Normalize(Between(s, e, FALSE))
      BY <2>1, <2>3 DEF ExcludeSingle
    <3>2. Between(s, e, FALSE) \in Candidate
      BY Constructors
    <3>3. /\ ExcludeSingle(c, w) \in Candidate
          /\ Normalize(ExcludeSingle(c, w)) = ExcludeSingle(c, w)
          /\ \A v \in Value : Admits(ExcludeSingle(c, w), v) <=> Admits(Between(s, e, FALSE), v)
      BY <3>1, <3>2, NormalizeExact
    <3>4. \A v \in Value : Admits(Between(s, e, FALSE), v) <=> Admits(c, v) /\ v # Null
      BY <1>5, <2>2
    <3> QED BY <2>3, <3>3, <3>4
  <2>4. CASE w # Null
    <3>1. ExcludeSingle(c, w) = Normalize(Between(Opened(s, w), Opened(e, w), null))
      BY <2>1, <2>4 DEF ExcludeSingle
    <3>2. w \in Number
      BY <2>4 DEF Value
    <3>3. Opened(s, w) \in Bound /\ Opened(e, w) \in Bound
      BY <3>2, Constructors DEF Opened
    <3>4. ASSUME NEW n \in Number
          PROVE  /\ Above(Opened(s, w), n) <=> Above(s, n) /\ (s = Included(w) => n # w)
                 /\ Below(Opened(e, w), n) <=> Below(e, n) /\ (e = Included(w) => n # w)
      <4>1. n \in Int /\ w \in Int
        BY <3>2, NumbersAreInts
      <4>2. Above(Opened(s, w), n) <=> Above(s, n) /\ (s = Included(w) => n # w)
        BY <4>1 DEF Above, Opened, Included, ExcludedBound
      <4>3. Below(Opened(e, w), n) <=> Below(e, n) /\ (e = Included(w) => n # w)
        BY <4>1 DEF Below, Opened, Included, ExcludedBound
      <4> QED BY <4>2, <4>3
    <3>5. Between(Opened(s, w), Opened(e, w), null) \in Candidate
      BY <3>3, Constructors
    <3>6. \A v \in Value : Admits(ExcludeSingle(c, w), v)
            <=> IF v = Null THEN null
                ELSE Above(Opened(s, w), v) /\ Below(Opened(e, w), v)
      BY <2>2, <3>1, <3>3, <3>5, NormalizeExact
    <3>7. \A v \in Value : Admits(c, v) <=> IF v = Null THEN null ELSE Above(s, v) /\ Below(e, v)
      BY <1>5, <2>2
    <3>8. \A v \in Value : v = Null \/ v \in Number
      BY DEF Value
    <3>9. ExcludeSingle(c, w) \in Candidate
          /\ Normalize(ExcludeSingle(c, w)) = ExcludeSingle(c, w)
      BY <3>1, <3>5, NormalizeExact
    <3>10. \A v \in Value : Admits(ExcludeSingle(c, w), v) => Admits(c, v)
      BY <3>4, <3>6, <3>7, <3>8
    <3>11. \A v \in Value : Admits(c, v) /\ v # w => Admits(ExcludeSingle(c, w), v)
      BY <3>4, <3>6, <3>7, <3>8
    <3> QED BY <3>9, <3>10, <3>11
  <2> QED BY <2>3, <2>4
<1> QED BY <1>1, <1>2, <1>3, <1>4, <1>5, CandidateKinds

-----------------------------------------------------------------------------
(* Property hints.                                                         *)

\* The range of an ordering admits every number on the right side of its bound.
LEMMA RangeOfSound ==
  ASSUME NEW op \in Orderings, NEW n \in Number, NEW null \in BOOLEAN
  PROVE  /\ RangeOf(op, n, null) \in Candidate
         /\ \A v \in Value : Ordered(op, v, n) => Admits(RangeOf(op, n, null), v)
<1> DEFINE start == IF op = ">" THEN ExcludedBound(n) ELSE IF op = ">=" THEN Included(n) ELSE Unbounded
<1> DEFINE end == IF op = "<" THEN ExcludedBound(n) ELSE IF op = "<=" THEN Included(n) ELSE Unbounded
<1>1. RangeOf(op, n, null) = Between(start, end, null)
  BY DEF RangeOf, Orderings
<1>2. start \in Bound /\ end \in Bound
  BY Constructors
<1>3. ASSUME NEW v \in Value, Ordered(op, v, n)
      PROVE  v # Null /\ Above(start, v) /\ Below(end, v)
  <2>1. v # Null
    BY <1>3 DEF Ordered
  <2>2. v \in Int /\ n \in Int
    BY <2>1, NumbersAreInts DEF Value
  <2>3. /\ op = "<" => v < n
        /\ op = "<=" => v =< n
        /\ op = ">" => v > n
        /\ op = ">=" => v >= n
    BY <1>3 DEF Ordered
  <2>4. Above(start, v) /\ Below(end, v)
    BY <2>2, <2>3 DEF Above, Below, Orderings, Included, ExcludedBound, Unbounded
  <2> QED BY <2>1, <2>4
<1> HIDE DEF start, end
<1>4. \A v \in Value : Admits(Between(start, end, null), v)
                       <=> IF v = Null THEN null ELSE Above(start, v) /\ Below(end, v)
  BY DEF Admits, Between, RangeContains
<1> QED BY <1>1, <1>2, <1>3, <1>4, Constructors

\* A list admits the values in it.
LEMMA MultipleSound ==
  ASSUME NEW list \in List, NEW v \in Value
  PROVE  Admits(Multiple(list), v) <=> In(v, list)
BY DEF Admits, Multiple, In

\* The candidate a filter produces admits every value the filter accepts.
LEMMA ProducedSound ==
  ASSUME NEW f \in StaticFilter, Produces(f)
  PROVE  /\ Produced(f) \in Candidate
         /\ \A v \in Value : Satisfies(v, f) => Admits(Produced(f), v)
<1>0. \A v \in Value : v # Null => Admits(FullNonNull, v)
  BY DEF Admits, FullNonNull, Between, RangeContains, Above, Below, Unbounded
<1>1. CASE f.op = "is_null"
  <2>1. Produced(f) = Single(Null)
    BY <1>1 DEF Produced, Orderings
  <2>2. Admits(Single(Null), Null)
    BY DEF Admits, Single
  <2> QED BY <1>1, <2>1, <2>2, Constructors DEF Satisfies, Orderings, Value
<1>2. CASE f.op = "is_not_null"
  <2>1. Produced(f) = FullNonNull
    BY <1>2 DEF Produced, Orderings
  <2> QED BY <1>0, <1>2, <2>1, Constructors DEF Satisfies, Orderings
<1>3. CASE f.op = "="
  <2>1. f.value \in Value
    BY <1>3 DEF StaticFilter, Orderings
  <2>2. Produced(f) = Single(f.value)
    BY <1>3 DEF Produced, Orderings
  <2>3. Admits(Single(f.value), f.value)
    BY DEF Admits, Single
  <2> QED BY <1>3, <2>1, <2>2, <2>3, Constructors DEF Satisfies, Orderings
<1>4. CASE f.op = "!=" /\ f.value = Null
  <2>1. Produced(f) = FullNonNull
    BY <1>4 DEF Produced, Orderings
  <2>2. \A v \in Value : Satisfies(v, f) => v # Null
    BY <1>4 DEF Satisfies, Orderings
  <2> QED BY <1>0, <2>1, <2>2, Constructors
<1>5. CASE f.op \in Orderings
  <2>1. f.value \in Number
    BY <1>5 DEF StaticFilter, Orderings
  <2>2. Produced(f) = RangeOf(f.op, f.value, TRUE)
    BY <1>5 DEF Produced, Orderings
  <2>3. \A v \in Value : Satisfies(v, f) => Ordered(f.op, v, f.value)
    BY <1>5 DEF Satisfies, Orderings
  <2> QED BY <1>5, <2>1, <2>2, <2>3, RangeOfSound
<1>6. CASE f.op = "one_of"
  <2>1. f.values \in List
    BY <1>6 DEF StaticFilter, Orderings
  <2>2. Produced(f) = Multiple(f.values)
    BY <1>6 DEF Produced, Orderings
  <2>3. \A v \in Value : Satisfies(v, f) => In(v, f.values)
    BY <1>6 DEF Satisfies, Orderings
  <2> QED BY <2>1, <2>2, <2>3, MultipleSound, Constructors
<1> QED BY <1>1, <1>2, <1>3, <1>4, <1>5, <1>6 DEF Produces

\* A filter that disallows values accepts none of them.
LEMMA DisallowedSound ==
  ASSUME NEW f \in StaticFilter, ~ Produces(f), NEW p \in DOMAIN Disallowed(f)
  PROVE  /\ Disallowed(f)[p] \in Value
         /\ \A v \in Value : Satisfies(v, f) => v # Disallowed(f)[p]
<1>1. CASE f.op = "!="
  <2>1. f.value \in Value
    BY <1>1 DEF StaticFilter, Orderings
  <2>2. Disallowed(f) = [q \in {1} |-> f.value]
    BY <1>1 DEF Disallowed
  <2>3. Disallowed(f)[p] = f.value
    BY <2>2
  <2>4. \A v \in Value : Satisfies(v, f) => v # f.value
    BY <1>1 DEF Satisfies, Orderings
  <2> QED BY <2>1, <2>3, <2>4
<1>2. CASE f.op = "not_one_of"
  <2>1. f.values \in List
    BY <1>2 DEF StaticFilter, Orderings
  <2>2. Disallowed(f) = f.values
    BY <1>2 DEF Disallowed
  <2>3. \A v \in Value : Satisfies(v, f) => ~ In(v, f.values)
    BY <1>2 DEF Satisfies, Orderings
  <2> QED BY <2>1, <2>2, <2>3 DEF In, List
<1>3. CASE f.op \notin {"!=", "not_one_of"}
  <2>1. Disallowed(f) = << >>
    BY <1>3 DEF Disallowed
  <2> QED BY <2>1
<1> QED BY <1>1, <1>2, <1>3

\* A tag narrows the candidate, and with any filter but `>=` leaves in it
\* every value the filter accepts.
LEMMA WithTagSound ==
  ASSUME NEW f \in TagFilter, ~ Panics(f), NEW c \in Candidate, Normalize(c) = c
  PROVE  /\ WithTag(c, f) \in Candidate
         /\ Normalize(WithTag(c, f)) = WithTag(c, f)
         /\ \A v \in Value : Admits(WithTag(c, f), v) => Admits(c, v)
         /\ f.op # ">=" =>
              \A v \in Value : Admits(c, v) /\ SatisfiesTag(v, f) => Admits(WithTag(c, f), v)
<1>1. CASE IsMissing(f)
  BY <1>1 DEF WithTag
<1>2. CASE ~ IsMissing(f) /\ f.op = "="
  <2>1. f.value \in Value
    BY <1>2 DEF TagFilter, IsMissing, Orderings
  <2>2. WithTag(c, f) = Intersect(c, Single(f.value))
    BY <1>2 DEF WithTag, Orderings
  <2>3. \A v \in Value : SatisfiesTag(v, f) => Admits(Single(f.value), v)
    BY <1>2 DEF SatisfiesTag, Satisfies, IsMissing, Admits, Single, Orderings
  <2> QED BY <2>1, <2>2, <2>3, IntersectExact, Constructors
<1>3. CASE ~ IsMissing(f) /\ f.op = "!="
  <2>1. f.value \in Value
    BY <1>3 DEF TagFilter, IsMissing, Orderings
  <2>2. WithTag(c, f) = ExcludeSingle(c, f.value)
    BY <1>3 DEF WithTag, Orderings
  <2>3. \A v \in Value : SatisfiesTag(v, f) => v # f.value
    BY <1>3 DEF SatisfiesTag, Satisfies, IsMissing, Orderings
  <2> QED BY <2>1, <2>2, <2>3, ExcludeSound
<1>4. CASE ~ IsMissing(f) /\ f.op = "one_of"
  <2>1. f.values \in List
    BY <1>4 DEF TagFilter, IsMissing, Panics, Orderings
  <2>2. WithTag(c, f) = Intersect(c, Multiple(f.values))
    BY <1>4 DEF WithTag, Orderings
  <2>3. \A v \in Value : SatisfiesTag(v, f) => In(v, f.values)
    BY <1>4 DEF SatisfiesTag, IsMissing
  <2>4. Multiple(f.values) \in Candidate
    BY <2>1, Constructors
  <2> QED BY <2>1, <2>2, <2>3, <2>4, IntersectExact, MultipleSound
<1>5. CASE ~ IsMissing(f) /\ f.op \in Orderings
  <2>1. f.value \in Value /\ f.count \in BOOLEAN
    BY <1>5 DEF TagFilter, IsMissing, Orderings
  <2>2. f.value \in Number
    BY <1>5, <2>1 DEF Panics, Value
  <2>3. WithTag(c, f) = Intersect(c, TagRange(f.op, f.value, ~ f.count))
    BY <1>5 DEF WithTag, Orderings
  <2>4. (~ f.count) \in BOOLEAN
    BY <2>1
  <2>5. TagRange(f.op, f.value, ~ f.count) \in Candidate
    BY <1>5, <2>2, <2>4, RangeOfSound, Constructors DEF TagRange
  <2>6. \A v \in Value : SatisfiesTag(v, f) => Ordered(f.op, v, f.value)
    BY <1>5 DEF SatisfiesTag, Satisfies, IsMissing, Orderings
  <2>7. f.op # ">=" => TagRange(f.op, f.value, ~ f.count) = RangeOf(f.op, f.value, ~ f.count)
    BY DEF TagRange
  <2>8. \A v \in Value : Ordered(f.op, v, f.value) => Admits(RangeOf(f.op, f.value, ~ f.count), v)
    BY <1>5, <2>2, <2>4, RangeOfSound
  <2> HIDE DEF TagRange
  <2> QED BY <2>3, <2>5, <2>6, <2>7, <2>8, IntersectExact
<1>6. f.op \in {"=", "!=", "one_of"} \cup Orderings
  BY DEF TagFilter, Orderings
<1> QED BY <1>1, <1>2, <1>3, <1>4, <1>5, <1>6

-----------------------------------------------------------------------------

\* The filters of a query are filters.
LEMMA QueryFilters ==
  ASSUME query \in Queries
  PROVE  /\ \A i \in DOMAIN query.static : query.static[i] \in StaticFilter
         /\ \A i \in DOMAIN query.tagged : query.tagged[i] \in TagFilter
         /\ query.nullable \in BOOLEAN
BY QueriesAreFilters, FiltersAreFilters

\* A candidate before the tag: sound, and in canonical form.
IInv == TypeOK /\ Canonical /\ StaticSound

\* The invariant holds before any filter has been looked at.
LEMMA InitIInv == Init => IInv
<1> SUFFICES ASSUME Init PROVE IInv
  OBVIOUS
<1>1. TypeOK
  BY Constructors DEF Init, TypeOK, InitialCandidate
<1>2. Canonical
  BY DEF Init, Canonical, InitialCandidate, Normalize, NormalizeRange, Degenerate, All,
         FullNonNull, Full, Between, Unbounded
<1>3. StaticSound
  <2>1. \A v \in Value : Admits(All, v) /\ (v # Null => Admits(FullNonNull, v))
    BY DEF Admits, All, FullNonNull, Between, RangeContains, Above, Below, Unbounded
  <2> QED BY <2>1 DEF Init, StaticSound, Possible, InitialCandidate
<1> QED BY <1>1, <1>2, <1>3 DEF IInv

\* Every step keeps the invariant, and narrows the candidate.
LEMMA StepIInv ==
  ASSUME IInv, [Next]_vars
  PROVE  /\ IInv'
         /\ \A v \in Value : Admits(candidate', v) => Admits(candidate, v)
<1> USE DEF IInv
<1>0. /\ query \in Queries /\ candidate \in Candidate
      /\ at \in Nat \ {0} /\ place \in Nat \ {0}
      /\ \A i \in DOMAIN query.static : query.static[i] \in StaticFilter
      /\ \A i \in DOMAIN query.tagged : query.tagged[i] \in TagFilter
      /\ Normalize(candidate) = candidate
  BY QueryFilters DEF TypeOK, Canonical
<1>1. CASE IntersectFilter
  <2> DEFINE f == query.static[at]
  <2>1. /\ phase = "intersect" /\ phase' = phase /\ query' = query /\ place' = place
        /\ at' = at + 1 /\ f \in StaticFilter
        /\ candidate' = IF Produces(f) THEN Intersect(candidate, Produced(f)) ELSE candidate
    BY <1>0, <1>1 DEF IntersectFilter
  <2>2. \A v \in Value : Passes(v) => Satisfies(v, f)
    BY <1>1 DEF IntersectFilter, Passes
  <2> HIDE DEF f
  <2>3. /\ candidate' \in Candidate /\ Normalize(candidate') = candidate'
        /\ \A v \in Value : Admits(candidate', v) => Admits(candidate, v)
        /\ \A v \in Value : Satisfies(v, f) /\ Admits(candidate, v) => Admits(candidate', v)
    BY <1>0, <2>1, IntersectExact, ProducedSound
  <2>4. StaticSound'
    BY <2>1, <2>2, <2>3 DEF StaticSound, Possible, Passes
  <2> QED BY <1>0, <2>1, <2>3, <2>4 DEF TypeOK, Canonical
<1>2. CASE NoCandidate
  BY <1>2 DEF NoCandidate, TypeOK, Canonical, StaticSound, Possible, Passes
<1>3. CASE StartExcluding
  <2>1. candidate' = candidate /\ query' = query /\ phase = "intersect" /\ phase' = "exclude"
        /\ at' = 1 /\ place' = place
    BY <1>0, <1>3 DEF StartExcluding
  <2> QED BY <1>0, <2>1 DEF TypeOK, Canonical, StaticSound, Possible, Passes
<1>4. CASE ExcludeValue
  <2> DEFINE f == query.static[at]
  <2> DEFINE w == Disallowed(f)[place]
  <2>1. /\ phase = "exclude" /\ phase' = phase /\ query' = query /\ at' = at
        /\ place' = place + 1 /\ f \in StaticFilter /\ ~ Produces(f)
        /\ place \in DOMAIN Disallowed(f) /\ candidate' = ExcludeSingle(candidate, w)
    BY <1>0, <1>4 DEF ExcludeValue
  <2>2. \A v \in Value : Passes(v) => Satisfies(v, f)
    BY <1>4 DEF ExcludeValue, Passes
  <2> HIDE DEF f
  <2>3. w \in Value /\ \A v \in Value : Satisfies(v, f) => v # w
    BY <2>1, DisallowedSound
  <2> HIDE DEF w
  <2>4. /\ candidate' \in Candidate /\ Normalize(candidate') = candidate'
        /\ \A v \in Value : Admits(candidate', v) => Admits(candidate, v)
        /\ \A v \in Value : v # w /\ Admits(candidate, v) => Admits(candidate', v)
    BY <1>0, <2>1, <2>3, ExcludeSound
  <2>5. StaticSound'
    BY <2>1, <2>2, <2>3, <2>4 DEF StaticSound, Possible, Passes
  <2> QED BY <1>0, <2>1, <2>4, <2>5 DEF TypeOK, Canonical
<1>5. CASE NextExclusion
  BY <1>0, <1>5 DEF NextExclusion, TypeOK, Canonical, StaticSound, Possible, Passes
<1>6. CASE ReturnStatic
  BY <1>6 DEF ReturnStatic, TypeOK, Canonical, StaticSound, Possible, Passes
<1>7. CASE ResolveTag
  <2>1. PICK i \in DOMAIN query.tagged :
          IF Panics(query.tagged[i])
            THEN phase' = "panicked" /\ candidate' = candidate
            ELSE phase' = "resolved" /\ candidate' = WithTag(candidate, query.tagged[i])
    BY <1>7 DEF ResolveTag
  <2>2. query' = query /\ at' = at /\ place' = place
    BY <1>7 DEF ResolveTag
  <2>3. query.tagged[i] \in TagFilter
    BY <1>0
  <2>4. /\ candidate' \in Candidate /\ Normalize(candidate') = candidate'
        /\ \A v \in Value : Admits(candidate', v) => Admits(candidate, v)
    BY <1>0, <2>1, <2>3, WithTagSound
  <2>5. phase' \in {"panicked", "resolved"}
    BY <2>1
  <2> QED BY <1>0, <2>2, <2>4, <2>5 DEF TypeOK, Canonical, StaticSound
<1>8. CASE UNCHANGED vars
  BY <1>8 DEF vars, TypeOK, Canonical, StaticSound, Possible, Passes
<1> QED BY <1>1, <1>2, <1>3, <1>4, <1>5, <1>6, <1>7, <1>8 DEF Next, Done

-----------------------------------------------------------------------------

\* The candidate is always one of the code's variants, over any numbers.
THEOREM TypeCorrect == Spec => []TypeOK
<1>1. IInv /\ [Next]_vars => IInv'
  BY StepIInv
<1>2. IInv => TypeOK
  BY DEF IInv
<1> QED BY InitIInv, <1>1, <1>2, PTL DEF Spec

\* A static hint leaves out no value a kept row may have, whatever the filters,
\* their operands and their order.
THEOREM StaticHintsSound == Spec => []StaticSound
<1>1. IInv /\ [Next]_vars => IInv'
  BY StepIInv
<1>2. IInv => StaticSound
  BY DEF IInv
<1> QED BY InitIInv, <1>1, <1>2, PTL DEF Spec

\* Candidates are always in the form adapters match on.
THEOREM AlwaysCanonical == Spec => []Canonical
<1>1. IInv /\ [Next]_vars => IInv'
  BY StepIInv
<1>2. IInv => Canonical
  BY DEF IInv
<1> QED BY InitIInv, <1>1, <1>2, PTL DEF Spec

\* No step adds a value to the candidate.
THEOREM HintsNeverWiden == Spec => NeverWidens
<1>1. IInv /\ [Next]_vars => IInv'
  BY StepIInv
<1>2. IInv /\ [Next]_vars => [\A v \in Value : Admits(candidate', v) => Admits(candidate, v)]_vars
  BY StepIInv
<1> QED BY InitIInv, <1>1, <1>2, PTL DEF Spec, NeverWidens

\* A fold said to need an element fails its filters without one.
THEOREM RequiredElementJustified ==
  ASSUME 0 \in Number
  PROVE  Spec => []RequiredElementIsNeeded
<1>1. IInv /\ [Next]_vars => IInv'
  BY StepIInv
<1>2. ASSUME IInv PROVE RequiredElementIsNeeded
  <2> SUFFICES ASSUME RequiresElement, Passes(0) PROVE FALSE
    BY DEF RequiredElementIsNeeded
  <2>1. 0 \in Value /\ 0 # Null
    BY NullIsNoNumber DEF Value
  <2>2. Admits(candidate, 0)
    BY <1>2, <2>1 DEF IInv, StaticSound, RequiresElement, Possible
  <2>3. candidate \in Candidate
    BY <1>2 DEF IInv, TypeOK
  <2>4. CASE candidate.kind = "single"
    BY <2>2, <2>4 DEF Admits, RequiresElement, AtLeastOne
  <2>5. CASE candidate.kind = "multiple"
    BY <2>2, <2>5 DEF Admits, RequiresElement, AtLeastOne
  <2>6. CASE candidate.kind = "range"
    <3>1. Above(candidate.start, 0)
      BY <2>1, <2>2, <2>6 DEF Admits, RangeContains
    <3>2. candidate.start \in Bound
      BY <2>3, <2>6 DEF Candidate, RangeCandidate
    <3> QED BY <2>6, <3>1, <3>2, BoundFields DEF RequiresElement, AtLeastOne, Above
  <2> QED BY <2>4, <2>5, <2>6 DEF RequiresElement
<1> QED BY InitIInv, <1>1, <1>2, PTL DEF Spec

\* A dynamic hint leaves out no value a kept row may have either, as long as no
\* tag is compared with `>=`, whose hint the code gets wrong.
THEOREM DynamicHintsSound ==
  ASSUME \A f \in TagFilters : f.op # ">="
  PROVE  Spec => []DynamicSound
<1>1. IInv /\ [Next]_vars => IInv'
  BY StepIInv
<1>2. Init => DynamicSound
  BY DEF Init, DynamicSound
<1>3. ASSUME IInv, DynamicSound, [Next]_vars
      PROVE  DynamicSound'
  <2>0. query \in Queries /\ candidate \in Candidate /\ Normalize(candidate) = candidate
    BY <1>3 DEF IInv, TypeOK, Canonical
  <2>1. CASE ResolveTag
    <3>1. PICK i \in DOMAIN query.tagged :
            IF Panics(query.tagged[i])
              THEN phase' = "panicked" /\ candidate' = candidate
              ELSE phase' = "resolved" /\ candidate' = WithTag(candidate, query.tagged[i])
      BY <2>1 DEF ResolveTag
    <3>2. query' = query /\ phase \in {"none", "static"}
      BY <2>1 DEF ResolveTag
    <3>3. query.tagged[i] \in TagFilter /\ query.tagged[i].op # ">="
      BY <2>0, QueriesAreFilters, FiltersAreFilters
    <3>4. CASE Panics(query.tagged[i])
      BY <3>1, <3>4 DEF DynamicSound
    <3>5. CASE ~ Panics(query.tagged[i])
      <4>1. \A v \in Value : Admits(candidate, v) /\ SatisfiesTag(v, query.tagged[i])
                              => Admits(candidate', v)
        BY <2>0, <3>1, <3>3, <3>5, WithTagSound
      <4>2. \A v \in Value : Possible(v) /\ Passes(v) => Admits(candidate, v)
        BY <1>3, <3>2 DEF IInv, StaticSound
      <4> QED BY <3>2, <4>1, <4>2 DEF DynamicSound, Possible, Passes, PassesTags
    <3> QED BY <3>4, <3>5
  <2>2. CASE UNCHANGED vars
    BY <1>3, <2>2 DEF vars, DynamicSound, Possible, Passes, PassesTags
  <2>3. CASE \/ IntersectFilter \/ NoCandidate \/ StartExcluding
             \/ ExcludeValue \/ NextExclusion \/ ReturnStatic
    <3>1. phase' # "resolved"
      BY <2>3 DEF IntersectFilter, NoCandidate, StartExcluding, ExcludeValue,
                  NextExclusion, ReturnStatic
    <3> QED BY <3>1 DEF DynamicSound
  <2> QED BY <1>3, <2>1, <2>2, <2>3 DEF Next, Done
<1> QED BY InitIInv, <1>1, <1>2, <1>3, PTL DEF Spec

-----------------------------------------------------------------------------
(* The widths of the integers.                                             *)

\* A value that is a number.
LEMMA FormOf ==
  ASSUME NEW m \in Int, NEW v \in Forms(m)
  PROVE  /\ v.n = m
         /\ v.kind \in {"Int64", "Uint64"}
         /\ v.kind = "Int64" => m \in Int64
         /\ v.kind = "Uint64" => m \in Uint64
BY DEF Forms, FieldValue

\* The comparisons, one by one.
LEMMA HoldsMeans ==
  ASSUME NEW m \in Int, NEW n \in Int
  PROVE  /\ Holds("<", m, n) <=> m < n
         /\ Holds("<=", m, n) <=> m <= n
         /\ Holds(">", m, n) <=> n < m
         /\ Holds(">=", m, n) <=> n <= m
BY DEF Holds

\* filtering.rs: values are equal, or in order, as their numbers are.
LEMMA FiltersCompareNumbers ==
  ASSUME NEW m \in Int, NEW v \in Forms(m), NEW n \in Int, NEW w \in Forms(n)
  PROVE  /\ Equals(v, w) <=> m = n
         /\ \A op \in Orderings : Compares(op, v, w) <=> Holds(op, m, n)
<1>1. /\ v.n = m /\ v.kind \in {"Int64", "Uint64"}
      /\ v.kind = "Int64" => m \in Int64
      /\ v.kind = "Uint64" => m \in Uint64
      /\ w.n = n /\ w.kind \in {"Int64", "Uint64"}
      /\ w.kind = "Int64" => n \in Int64
      /\ w.kind = "Uint64" => n \in Uint64
  BY FormOf
<1>2. Equals(v, w) <=> m = n
  BY <1>1, MaxIntIsNat DEF Equals, Int64, Uint64
<1>3. ASSUME NEW op \in Orderings PROVE Compares(op, v, w) <=> Holds(op, m, n)
  <2>1. CASE v.kind = w.kind \/ m \in Int64 \cap Uint64 \/ n \in Int64 \cap Uint64
    BY <1>1, <2>1 DEF Compares
  <2>2. CASE v.kind = "Int64" /\ w.kind = "Uint64" /\ m \notin Uint64 /\ n \notin Int64
    <3>1. m < n
      BY <1>1, <2>2, MaxIntIsNat DEF Int64, Uint64
    <3>2. Compares(op, v, w) <=> op \in {"<", "<="}
      BY <1>1, <2>2 DEF Compares
    <3>3. /\ Holds("<", m, n) <=> "<" \in {"<", "<="}
          /\ Holds("<=", m, n) <=> "<=" \in {"<", "<="}
          /\ Holds(">", m, n) <=> ">" \in {"<", "<="}
          /\ Holds(">=", m, n) <=> ">=" \in {"<", "<="}
      BY <3>1, HoldsMeans
    <3>4. Holds(op, m, n) <=> op \in {"<", "<="}
      BY <3>3 DEF Orderings
    <3> QED BY <3>2, <3>4
  <2>3. CASE v.kind = "Uint64" /\ w.kind = "Int64" /\ n \notin Uint64 /\ m \notin Int64
    <3>1. n < m
      BY <1>1, <2>3, MaxIntIsNat DEF Int64, Uint64
    <3>2. Compares(op, v, w) <=> op \in {">", ">="}
      BY <1>1, <2>3 DEF Compares
    <3>3. /\ Holds("<", m, n) <=> "<" \in {">", ">="}
          /\ Holds("<=", m, n) <=> "<=" \in {">", ">="}
          /\ Holds(">", m, n) <=> ">" \in {">", ">="}
          /\ Holds(">=", m, n) <=> ">=" \in {">", ">="}
      BY <3>1, HoldsMeans
    <3>4. Holds(op, m, n) <=> op \in {">", ">="}
      BY <3>3 DEF Orderings
    <3> QED BY <3>2, <3>4
  <2> QED BY <1>1, <2>1, <2>2, <2>3
<1> QED BY <1>2, <1>3

\* value.rs: the same.
LEMMA ValuesCompareNumbers ==
  ASSUME NEW m \in Int, NEW v \in Forms(m), NEW n \in Int, NEW w \in Forms(n)
  PROVE  /\ Same(v, w) <=> m = n
         /\ AtMost(v, w) <=> m <= n
         /\ Less(v, w) <=> m < n
<1>1. /\ v.n = m /\ v.kind \in {"Int64", "Uint64"}
      /\ v.kind = "Int64" => m \in Int64
      /\ v.kind = "Uint64" => m \in Uint64
      /\ w.n = n /\ w.kind \in {"Int64", "Uint64"}
      /\ w.kind = "Int64" => n \in Int64
      /\ w.kind = "Uint64" => n \in Uint64
  BY FormOf
<1>2. ASSUME m \in Int64, n \in Uint64 PROVE CompareMixed(m, n) = Ordering(m, n)
  BY <1>2, MaxIntIsNat DEF CompareMixed, Ordering, Int64, Uint64
<1>3. ASSUME n \in Int64, m \in Uint64 PROVE CompareMixed(n, m) = Ordering(n, m)
  BY <1>3, MaxIntIsNat DEF CompareMixed, Ordering, Int64, Uint64
<1>4. Flipped(Ordering(n, m)) = Ordering(m, n)
  BY DEF Flipped, Ordering
<1>5. PartialCmp(v, w) = Ordering(m, n)
  BY <1>1, <1>2, <1>3, <1>4 DEF PartialCmp
<1>6. Same(v, w) <=> m = n
  <2>1. CASE v.kind = w.kind
    BY <1>1, <2>1 DEF Same
  <2>2. CASE v.kind = "Int64" /\ w.kind = "Uint64"
    <3>1. Same(v, w) <=> Ordering(m, n) = "equal"
      BY <1>1, <1>2, <2>2 DEF Same
    <3> QED BY <3>1 DEF Ordering
  <2>3. CASE v.kind = "Uint64" /\ w.kind = "Int64"
    <3>1. Same(v, w) <=> Ordering(n, m) = "equal"
      BY <1>1, <1>3, <2>3 DEF Same
    <3> QED BY <3>1 DEF Ordering
  <2> QED BY <1>1, <2>1, <2>2, <2>3
<1> QED BY <1>5, <1>6 DEF AtMost, Less, Ordering

\* A number's forms are there.
LEMMA HasForms ==
  ASSUME NEW m \in Number
  PROVE  m \in Int /\ m # Null /\ \E w : w \in Forms(m)
<1>1. m \in Int64 \/ m \in Uint64
  BY NumbersHaveForms
<1>2. m \in Int64 => [kind |-> "Int64", n |-> m] \in Forms(m)
  BY DEF Forms, FieldValue
<1>3. m \in Uint64 => [kind |-> "Uint64", n |-> m] \in Forms(m)
  BY DEF Forms, FieldValue
<1> QED BY <1>1, <1>2, <1>3, NumbersAreInts, NullIsNoNumber

\* A filter that keeps a value accepts its number.
LEMMA KeepsAccepted ==
  ASSUME NEW f \in StaticFilter, NEW n \in Number, NEW v \in Forms(n), Keeps(f, v)
  PROVE  Satisfies(n, f)
<1>1. n \in Int /\ n # Null
  BY HasForms
<1>2. \A m \in Number : m \in Int /\ \A w \in Forms(m) :
        (Equals(v, w) <=> n = m) /\ (Same(v, w) <=> n = m)
        /\ \A op \in Orderings : Compares(op, v, w) <=> Holds(op, n, m)
  BY <1>1, HasForms, FiltersCompareNumbers, ValuesCompareNumbers
<1>3. CASE f.op \in {"is_null", "is_not_null", "other"}
  BY <1>1, <1>3 DEF Keeps, Satisfies, Orderings
<1>4. CASE f.op \in {"=", "!="}
  <2>1. f.value \in Value
    BY <1>4 DEF StaticFilter, Orderings
  <2> QED BY <1>1, <1>2, <1>4, <2>1 DEF Keeps, Satisfies, Value, Orderings
<1>5. CASE f.op \in Orderings
  <2>1. f.value \in Number /\ f.value # Null
    BY <1>5, HasForms DEF StaticFilter, Orderings
  <2>2. \E w \in Forms(f.value) : Compares(f.op, v, w)
    BY <1>5 DEF Keeps, Orderings
  <2>3. Holds(f.op, n, f.value)
    BY <1>2, <1>5, <2>1, <2>2
  <2>4. Ordered(f.op, n, f.value)
    BY <1>1, <1>5, <2>1, <2>3 DEF Ordered, Holds, Orderings
  <2> QED BY <1>5, <2>4 DEF Satisfies, Orderings
<1>6. CASE f.op \in {"one_of", "not_one_of"}
  <2>1. f.values \in List
    BY <1>6 DEF StaticFilter, Orderings
  <2>2. \A p \in DOMAIN f.values : f.values[p] \in Number \cup {Null}
    BY <2>1 DEF List, Value
  <2>3. CASE f.op = "one_of"
    BY <1>2, <2>2, <2>3 DEF Keeps, Satisfies, In, Orderings
  <2>4. CASE f.op = "not_one_of"
    <3>1. \A p \in DOMAIN f.values : f.values[p] # n
      BY <1>1, <1>2, <2>2, <2>4 DEF Keeps, Orderings
    <3> QED BY <2>4, <3>1 DEF Satisfies, In, Orderings
  <2> QED BY <1>6, <2>3, <2>4
<1> QED BY <1>3, <1>4, <1>5, <1>6 DEF StaticFilter

\* A candidate that admits a number has all its forms.
LEMMA AdmittedIsOffered ==
  ASSUME NEW c \in Candidate, NEW n \in Number, NEW v \in Forms(n), Admits(c, n)
  PROVE  Offers(c, v)
<1>1. n \in Int /\ n # Null
  BY HasForms
<1>2. \A m \in Number : m \in Int /\ \A w \in Forms(m) :
        /\ Same(v, w) <=> n = m
        /\ AtMost(v, w) <=> n <= m
        /\ AtMost(w, v) <=> m <= n
        /\ Less(v, w) <=> n < m
        /\ Less(w, v) <=> m < n
  BY <1>1, HasForms, ValuesCompareNumbers
<1>3. CASE c = Impossible
  BY <1>3 DEF Admits, Impossible
<1>4. CASE c = All
  BY <1>4 DEF Offers, All
<1>5. ASSUME NEW u \in Value, c = Single(u) PROVE Offers(c, v)
  <2>1. c.kind = "single" /\ c.value = n
    BY <1>5 DEF Admits, Single
  <2> QED BY <1>1, <1>2, <2>1 DEF Offers
<1>6. ASSUME NEW list \in List, c = Multiple(list) PROVE Offers(c, v)
  <2>1. c.kind = "multiple" /\ \E p \in DOMAIN c.values : c.values[p] = n
    BY <1>6 DEF Admits, Multiple
  <2> QED BY <1>1, <1>2, <2>1 DEF Offers
<1>7. ASSUME NEW s \in Bound, NEW e \in Bound, NEW null \in BOOLEAN, c = Between(s, e, null)
      PROVE  Offers(c, v)
  <2>1. c.kind = "range" /\ c.start = s /\ c.end = e
    BY <1>7 DEF Between
  <2>2. Above(s, n) /\ Below(e, n)
    BY <1>1, <1>7, <2>1 DEF Admits, RangeContains
  <2>3. StartsBelow(s, v)
    BY <1>1, <1>2, <2>2, BoundFields DEF StartsBelow, Above
  <2>4. EndsAbove(e, v)
    BY <1>1, <1>2, <2>2, BoundFields DEF EndsAbove, Below
  <2> QED BY <2>1, <2>3, <2>4 DEF Offers
<1> QED BY <1>3, <1>4, <1>5, <1>6, <1>7, CandidateKinds

\* No hint leaves out an integer that the filters keep, whatever the widths of the
\* integer, of the filters' operands and of the hint's bounds.
THEOREM HintsSoundInAnyWidth == Spec => []SoundInAnyWidth
<1>1. ASSUME TypeOK, StaticSound PROVE SoundInAnyWidth
  <2> SUFFICES ASSUME phase \notin {"resolved", "panicked"}, NEW n \in Number, NEW v \in Forms(n),
                      \A i \in DOMAIN query.static : Keeps(query.static[i], v)
               PROVE  Offers(candidate, v)
    BY DEF SoundInAnyWidth
  <2>1. n \in Value /\ n # Null
    BY HasForms DEF Value
  <2>2. \A i \in DOMAIN query.static : query.static[i] \in StaticFilter
    BY <1>1, QueryFilters DEF TypeOK
  <2>3. Possible(n) /\ Passes(n)
    BY <2>1, <2>2, KeepsAccepted DEF Possible, Passes
  <2>4. candidate \in Candidate /\ Admits(candidate, n)
    BY <1>1, <2>1, <2>3 DEF TypeOK, StaticSound
  <2> QED BY <2>4, AdmittedIsOffered
<1> QED BY <1>1, TypeCorrect, StaticHintsSound, PTL

-----------------------------------------------------------------------------
\* A nonempty set of naturals has a least member.
LEMMA LeastNatural ==
  ASSUME NEW N, N \subseteq Nat, N # {}
  PROVE  \E m \in N : \A n \in N : m <= n
<1> DEFINE Up == {0..n : n \in N}
<1>1. Up \subseteq FiniteSubsetsOf(Nat) /\ Up # {}
  <2>1. \A n \in Nat : IsFiniteSet(0..n) /\ 0..n \subseteq Nat
    BY FS_Interval
  <2> QED BY <2>1 DEF FiniteSubsetsOf
<1>2. PICK s \in Up : \A t \in Up : ~ (<<t, s>> \in StrictSubsetOrdering(Nat))
  <2> HIDE DEF Up
  <2> QED BY <1>1, FS_StrictSubsetOrderingWellFounded, WFMin
<1>3. PICK m \in N : s = 0..m
  BY <1>2
<1>4. ASSUME NEW n \in N, ~(m <= n) PROVE FALSE
  <2>1. n < m /\ m \in Nat /\ n \in Nat
    BY <1>4
  <2>2. 0..n \in Up
    BY <2>1
  <2>3. <<0..n, s>> \in StrictSubsetOrdering(Nat)
    BY <1>3, <2>1 DEF StrictSubsetOrdering
  <2> QED BY <1>2, <2>2, <2>3
<1> QED BY <1>4

\* Induction from m to n.
LEMMA InductionFrom ==
  ASSUME NEW m \in Nat, NEW n \in Nat, NEW N, m \in N, \A d \in m..n - 1 : d \in N => d + 1 \in N
  PROVE  m..n \subseteq N
<1> DEFINE Bad == (m..n) \ N
<1>1. ASSUME Bad # {} PROVE FALSE
  <2>1. PICK k \in Bad : \A d \in Bad : k <= d
    <3>1. Bad \subseteq Nat
      OBVIOUS
    <3> HIDE DEF Bad
    <3> QED BY <3>1, <1>1, LeastNatural
  <2>2. k \in m..n /\ k \notin N /\ k # m
    BY <2>1
  <2>3. k - 1 \in m..n - 1 /\ k - 1 \in m..n /\ k = (k - 1) + 1 /\ ~(k <= k - 1)
    BY <2>2
  <2>4. k - 1 \in N
    BY <2>1, <2>3
  <2> QED BY <2>2, <2>3, <2>4
<1> QED BY <1>1

-----------------------------------------------------------------------------
(* Components of a query.                                                  *)

\* Each vertex but the first is after the one its edge starts at.
Grows(q) ==
  /\ q \in Seq(Vertex) /\ q # << >>
  /\ \A v \in DOMAIN q : v # 1 => q[v].from \in 1..v - 1

\* The roots of the components of the first n vertices.
AreRoots(f, q, n) ==
  f = [v \in 1..n |-> IF v = 1 \/ q[v].kind = "fold" THEN v ELSE f[q[v].from]]

LEMMA RootsExist ==
  ASSUME NEW q, Grows(q)
  PROVE  \E f : AreRoots(f, q, Len(q))
<1> DEFINE N == {n \in Nat : \E f : AreRoots(f, q, n)}
<1>0. Len(q) \in Nat /\ Len(q) >= 1 /\ DOMAIN q = 1..Len(q)
  BY DEF Grows
<1>1. 1 \in N
  <2> DEFINE f == [v \in 1..1 |-> 1]
  <2>1. f = [v \in 1..1 |-> IF v = 1 \/ q[v].kind = "fold" THEN v ELSE f[q[v].from]]
    OBVIOUS
  <2> HIDE DEF f
  <2> QED BY <2>1 DEF AreRoots
<1>2. ASSUME NEW n \in 1..Len(q) - 1, n \in N PROVE n + 1 \in N
  <2>1. n \in Nat /\ n + 1 \in Nat /\ n + 1 \in DOMAIN q /\ n + 1 # 1
    BY <1>0
  <2>2. PICK f : AreRoots(f, q, n)
    BY <1>2
  <2> DEFINE new == IF q[n + 1].kind = "fold" THEN n + 1 ELSE f[q[n + 1].from]
             g == [v \in 1..n + 1 |-> IF v = n + 1 THEN new ELSE f[v]]
  <2>3. \A v \in 1..n : f[v] = IF v = 1 \/ q[v].kind = "fold" THEN v ELSE f[q[v].from]
    BY <2>2 DEF AreRoots
  <2>4. \A v \in 2..n + 1 : q[v].from \in 1..n + 1 /\ q[v].from # n + 1
    <3>1. \A v \in 2..n + 1 : v \in DOMAIN q /\ v # 1
      BY <1>0, <2>1
    <3>2. \A v \in 2..n + 1 : q[v].from \in 1..v - 1
      BY <3>1 DEF Grows
    <3> QED BY <3>2, <2>1
  <2>5. ASSUME NEW v \in 1..n + 1
        PROVE  g[v] = IF v = 1 \/ q[v].kind = "fold" THEN v ELSE g[q[v].from]
    <3>1. v # 1 => g[q[v].from] = f[q[v].from]
      <4>1. v # 1 => v \in 2..n + 1
        BY <2>1
      <4> QED BY <4>1, <2>4
    <3>2. CASE v = n + 1
      <4>1. g[v] = new
        BY <3>2
      <4> QED BY <4>1, <3>1, <3>2, <2>1
    <3>3. CASE v # n + 1
      <4>1. v \in 1..n /\ g[v] = f[v]
        BY <2>1, <3>3
      <4> HIDE DEF g
      <4> QED BY <4>1, <3>1, <2>3
    <3> QED BY <3>2, <3>3
  <2>6. g = [v \in 1..n + 1 |-> g[v]]
    OBVIOUS
  <2> HIDE DEF g
  <2>7. g = [v \in 1..n + 1 |-> IF v = 1 \/ q[v].kind = "fold" THEN v ELSE g[q[v].from]]
    BY <2>5, <2>6
  <2> QED BY <2>1, <2>7 DEF AreRoots
<1> HIDE DEF N
<1>3. 1..Len(q) \subseteq N
  BY <1>0, <1>1, <1>2, InductionFrom
<1>4. Len(q) \in N
  BY <1>0, <1>3
<1> QED BY <1>4 DEF N

\* RootsIn() is that function.
LEMMA RootsAre ==
  ASSUME NEW q, Grows(q)
  PROVE  /\ DOMAIN RootsIn(q) = DOMAIN q
         /\ \A v \in DOMAIN q :
              RootsIn(q)[v] = IF v = 1 \/ q[v].kind = "fold" THEN v ELSE RootsIn(q)[q[v].from]
<1> DEFINE A == CHOOSE f : f = [v \in DOMAIN q |-> IF v = 1 \/ q[v].kind = "fold" THEN v ELSE f[q[v].from]]
<1>1. RootsIn(q) = A
  BY DEF RootsIn, RootVid
<1>2. A = [v \in DOMAIN q |-> IF v = 1 \/ q[v].kind = "fold" THEN v ELSE A[q[v].from]]
  <2>0. DOMAIN q = 1..Len(q)
    BY DEF Grows
  <2>1. \E f : f = [v \in DOMAIN q |-> IF v = 1 \/ q[v].kind = "fold" THEN v ELSE f[q[v].from]]
    BY RootsExist, <2>0 DEF AreRoots
  <2> QED BY <2>1
<1> HIDE DEF A
<1> QED BY <1>1, <1>2

\* A component's root is at or before its vertices, and in the component.
LEMMA RootsFacts ==
  ASSUME NEW q, Grows(q)
  PROVE  \A v \in DOMAIN q :
           LET root == RootsIn(q)[v]
           IN  /\ root \in 1..v /\ root \in DOMAIN q
               /\ RootsIn(q)[root] = root
               /\ root = 1 \/ q[root].kind = "fold"
<1> DEFINE R == RootsIn(q)
           Good(v) == /\ R[v] \in 1..v /\ R[v] \in DOMAIN q /\ R[R[v]] = R[v]
                      /\ R[v] = 1 \/ q[R[v]].kind = "fold"
           Bad == {v \in DOMAIN q : ~ Good(v)}
<1>0. DOMAIN q \subseteq Nat /\ DOMAIN q = 1..Len(q) /\ Len(q) \in Nat
  BY DEF Grows
<1>1. \A v \in DOMAIN q : R[v] = IF v = 1 \/ q[v].kind = "fold" THEN v ELSE R[q[v].from]
  BY RootsAre
<1> HIDE DEF R
<1>2. ASSUME Bad # {} PROVE FALSE
  <2>1. PICK v \in Bad : \A u \in Bad : v <= u
    <3>1. Bad \subseteq Nat
      BY <1>0
    <3> HIDE DEF Bad
    <3> QED BY <3>1, <1>2, LeastNatural
  <2>2. v \in DOMAIN q /\ ~ Good(v) /\ v \in Nat /\ v >= 1
    BY <2>1, <1>0
  <2>3. CASE v = 1 \/ q[v].kind = "fold"
    <3>1. R[v] = v
      BY <1>1, <2>2, <2>3
    <3>2. v \in 1..v
      BY <2>2
    <3> QED BY <3>1, <3>2, <2>2, <2>3
  <2>4. CASE ~ (v = 1 \/ q[v].kind = "fold")
    <3> DEFINE u == q[v].from
    <3>1. R[v] = R[u]
      BY <1>1, <2>2, <2>4
    <3>2. u \in 1..v - 1
      BY <2>2, <2>4 DEF Grows
    <3> HIDE DEF u
    <3>3. u \in DOMAIN q /\ ~ (v <= u) /\ 1..u \subseteq 1..v
      BY <3>2, <2>2, <1>0
    <3>4. Good(u)
      BY <3>3, <2>1
    <3> QED BY <3>1, <3>3, <3>4, <2>2
  <2> QED BY <2>3, <2>4
<1> QED BY <1>2 DEF R

\* The root of the component that a component's edge starts in.
Parent(q, r) == RootsIn(q)[q[r].from]

LEMMA ParentIsBefore ==
  ASSUME NEW q, Grows(q), NEW r \in DOMAIN q, r # 1
  PROVE  Parent(q, r) \in 1..r - 1 /\ Parent(q, r) \in DOMAIN q /\ r \in Nat
<1>0. DOMAIN q = 1..Len(q) /\ Len(q) \in Nat
  BY DEF Grows
<1>1. q[r].from \in 1..r - 1
  BY DEF Grows
<1> DEFINE u == q[r].from
<1>2. u \in DOMAIN q /\ r \in Nat /\ 1..u \subseteq 1..r - 1
  BY <1>0, <1>1
<1> HIDE DEF u
<1>3. RootsIn(q)[u] \in 1..u /\ RootsIn(q)[u] \in DOMAIN q
  BY <1>2, RootsFacts
<1> QED BY <1>2, <1>3 DEF Parent, u

\* What is around the first n vertices, taken as roots.
AreAround(f, q, n) == f = [r \in 1..n |-> IF r = 1 THEN {r} ELSE {r} \cup f[Parent(q, r)]]

LEMMA AroundExists ==
  ASSUME NEW q, Grows(q)
  PROVE  \E f : AreAround(f, q, Len(q))
<1> DEFINE N == {n \in Nat : \E f : AreAround(f, q, n)}
<1>0. Len(q) \in Nat /\ Len(q) >= 1 /\ DOMAIN q = 1..Len(q)
  BY DEF Grows
<1>1. 1 \in N
  <2> DEFINE f == [r \in 1..1 |-> {r}]
  <2>1. f = [r \in 1..1 |-> IF r = 1 THEN {r} ELSE {r} \cup f[Parent(q, r)]]
    OBVIOUS
  <2> HIDE DEF f
  <2> QED BY <2>1 DEF AreAround
<1>2. ASSUME NEW n \in 1..Len(q) - 1, n \in N PROVE n + 1 \in N
  <2>1. n \in Nat /\ n + 1 \in Nat /\ n + 1 \in DOMAIN q /\ n + 1 # 1
    BY <1>0
  <2>2. PICK f : AreAround(f, q, n)
    BY <1>2
  <2> DEFINE new == {n + 1} \cup f[Parent(q, n + 1)]
             g == [r \in 1..n + 1 |-> IF r = n + 1 THEN new ELSE f[r]]
  <2>3. \A r \in 1..n : f[r] = IF r = 1 THEN {r} ELSE {r} \cup f[Parent(q, r)]
    BY <2>2 DEF AreAround
  <2>4. \A r \in 1..n + 1 : r # 1 => Parent(q, r) \in 1..n + 1 /\ Parent(q, r) # n + 1
    <3>1. \A r \in 1..n + 1 : r \in DOMAIN q
      BY <1>0, <2>1
    <3>2. \A r \in 1..n + 1 : r # 1 => Parent(q, r) \in 1..r - 1
      BY <3>1, ParentIsBefore
    <3> QED BY <3>2, <2>1
  <2>5. ASSUME NEW r \in 1..n + 1
        PROVE  g[r] = IF r = 1 THEN {r} ELSE {r} \cup g[Parent(q, r)]
    <3>1. r # 1 => g[Parent(q, r)] = f[Parent(q, r)]
      BY <2>4
    <3>2. CASE r = n + 1
      <4>1. g[r] = new
        BY <3>2
      <4> QED BY <4>1, <3>1, <3>2, <2>1
    <3>3. CASE r # n + 1
      <4>1. r \in 1..n /\ g[r] = f[r]
        BY <2>1, <3>3
      <4> HIDE DEF g
      <4> QED BY <4>1, <3>1, <2>3
    <3> QED BY <3>2, <3>3
  <2>6. g = [r \in 1..n + 1 |-> g[r]]
    OBVIOUS
  <2> HIDE DEF g
  <2>7. g = [r \in 1..n + 1 |-> IF r = 1 THEN {r} ELSE {r} \cup g[Parent(q, r)]]
    BY <2>5, <2>6
  <2> QED BY <2>1, <2>7 DEF AreAround
<1> HIDE DEF N
<1>3. 1..Len(q) \subseteq N
  BY <1>0, <1>1, <1>2, InductionFrom
<1>4. Len(q) \in N
  BY <1>0, <1>3
<1> QED BY <1>4 DEF N

\* AroundIn() is that function.
LEMMA AroundIs ==
  ASSUME NEW q, Grows(q), NEW r \in DOMAIN q
  PROVE  AroundIn(q, r) = IF r = 1 THEN {r} ELSE {r} \cup AroundIn(q, Parent(q, r))
<1> DEFINE A == CHOOSE f : f = [u \in DOMAIN q |-> IF u = 1 THEN {u}
                                  ELSE {u} \cup f[RootsIn(q)[q[u].from]]]
<1>1. \A u : AroundIn(q, u) = A[u]
  BY DEF AroundIn, RootVid
<1>2. A = [u \in DOMAIN q |-> IF u = 1 THEN {u} ELSE {u} \cup A[RootsIn(q)[q[u].from]]]
  <2>0. DOMAIN q = 1..Len(q)
    BY DEF Grows
  <2>1. \E f : f = [u \in DOMAIN q |-> IF u = 1 THEN {u} ELSE {u} \cup f[RootsIn(q)[q[u].from]]]
    <3>1. PICK f : AreAround(f, q, Len(q))
      BY AroundExists
    <3>2. f = [u \in DOMAIN q |-> IF u = 1 THEN {u} ELSE {u} \cup f[RootsIn(q)[q[u].from]]]
      BY <3>1, <2>0 DEF AreAround, Parent
    <3> QED BY <3>2
  <2> QED BY <2>1
<1> HIDE DEF A
<1>3. A[r] = IF r = 1 THEN {r} ELSE {r} \cup A[RootsIn(q)[q[r].from]]
  BY <1>2
<1>4. A[r] = IF r = 1 THEN {r} ELSE {r} \cup A[Parent(q, r)]
  BY <1>3 DEF Parent
<1> QED BY <1>1, <1>4

\* Components around components.
LEMMA AroundFacts ==
  ASSUME NEW q, Grows(q)
  PROVE  \A r \in DOMAIN q :
           LET around == AroundIn(q, r)
           IN  /\ r \in around
               /\ around \subseteq 1..r /\ around \subseteq DOMAIN q
               /\ \A d \in around : AroundIn(q, d) \subseteq around
               /\ \A d \in around : d # r => \E f \in around : f # 1 /\ Parent(q, f) = d
<1> DEFINE A(r) == AroundIn(q, r)
           Good(r) == /\ r \in A(r)
                      /\ A(r) \subseteq 1..r /\ A(r) \subseteq DOMAIN q
                      /\ \A d \in A(r) : A(d) \subseteq A(r)
                      /\ \A d \in A(r) : d # r => \E f \in A(r) : f # 1 /\ Parent(q, f) = d
           Bad == {r \in DOMAIN q : ~ Good(r)}
<1>0. DOMAIN q \subseteq Nat /\ DOMAIN q = 1..Len(q) /\ Len(q) \in Nat
  BY DEF Grows
<1>1. \A r \in DOMAIN q : A(r) = IF r = 1 THEN {r} ELSE {r} \cup A(Parent(q, r))
  BY AroundIs
<1> HIDE DEF A
<1>2. ASSUME Bad # {} PROVE FALSE
  <2>1. PICK r \in Bad : \A u \in Bad : r <= u
    <3>1. Bad \subseteq Nat
      BY <1>0
    <3> HIDE DEF Bad
    <3> QED BY <3>1, <1>2, LeastNatural
  <2>2. r \in DOMAIN q /\ ~ Good(r) /\ r \in Nat /\ r >= 1 /\ r \in 1..r
    BY <2>1, <1>0
  <2>3. CASE r = 1
    <3>1. A(r) = {r}
      BY <1>1, <2>2, <2>3
    <3> QED BY <3>1, <2>2
  <2>4. CASE r # 1
    <3> DEFINE p == Parent(q, r)
    <3>1. A(r) = {r} \cup A(p)
      BY <1>1, <2>2, <2>4
    <3>2. p \in 1..r - 1 /\ p \in DOMAIN q
      BY <2>2, <2>4, ParentIsBefore
    <3>3. ~ (r <= p) /\ 1..p \subseteq 1..r
      BY <3>2, <2>2
    <3>4. Good(p)
      BY <3>2, <3>3, <2>1
    <3>5. \E f \in A(r) : f # 1 /\ Parent(q, f) = p
      BY <3>1, <2>4
    <3> HIDE DEF p
    <3>6. r \in A(r) /\ A(p) \subseteq A(r)
      BY <3>1
    <3>7. A(r) \subseteq 1..r /\ A(r) \subseteq DOMAIN q
      BY <3>1, <3>3, <3>4, <2>2
    <3>8. \A d \in A(r) : A(d) \subseteq A(r)
      BY <3>1, <3>4, <3>6
    <3>9. ASSUME NEW d \in A(r), d # r PROVE \E f \in A(r) : f # 1 /\ Parent(q, f) = d
      <4>1. d \in A(p)
        BY <3>1, <3>9
      <4>2. CASE d = p
        BY <4>2, <3>5
      <4>3. CASE d # p
        BY <4>1, <4>3, <3>4, <3>6
      <4> QED BY <4>2, <4>3
    <3> QED BY <3>6, <3>7, <3>8, <3>9, <2>2
  <2> QED BY <2>3, <2>4
<1> QED BY <1>2 DEF A

-----------------------------------------------------------------------------
(* What contexts hold.                                                     *)

Roots(q) == RootsIn(q)

\* ImportedTags() of a query.
Needed(q, fold) ==
  {tag \in {q[v].need : v \in {u \in DOMAIN q : fold \in AroundIn(q, Roots(q)[u])}} :
     /\ tag.by \in {"tag", "count"}
     /\ DefinedInQuery(q, tag) = Parent(q, fold)}

Contexts == [root : Nat, vertices : SUBSET Nat, counts : SUBSET Nat, imported : SUBSET Need]

\* A component being computed has recorded none but vertices of its own, and has
\* imported what the folds around it need.
IsContext(q, at_, c) ==
  /\ c \in Contexts
  /\ c.root \in DOMAIN q /\ Roots(q)[c.root] = c.root
  /\ \A v \in c.vertices : v \in DOMAIN q /\ Roots(q)[v] = c.root /\ v <= at_
  /\ \A f \in AroundIn(q, c.root) : f # 1 => Needed(q, f) \subseteq c.imported

\* Up to vertex n it has recorded every vertex and counted every fold of its own but
\* those in S; and there is nothing outside it.
UpTo(q, c, n, S) ==
  \A u \in c.root..n :
    /\ c.root \in AroundIn(q, Roots(q)[u])
    /\ u \notin S => /\ Roots(q)[u] = c.root => u \in c.vertices
                     /\ q[u].kind = "fold" /\ Parent(q, u) = c.root => u \in c.counts

\* What is not recorded yet.
Pending(at_, st) == IF st \in {"next", "outputs", "finished"} THEN {} ELSE {at_}

\* Where the execution is in the innermost component.
AtStage(q, at_, st, c) ==
  /\ st \in {"start", "entry", "argument", "record", "expand", "deepen"} => Roots(q)[at_] = c.root
  /\ st \in {"expand", "deepen"} => at_ # 1 /\ q[at_].kind # "fold"
  /\ st \in {"import", "fold"} => at_ # 1 /\ q[at_].kind = "fold" /\ Parent(q, at_) = c.root
  /\ st = "fold" => Needed(q, at_) \subseteq c.imported
  /\ st = "argument" => q[at_].need.by = "tag"

\* Each context is of a fold in the component of the one before.
Nested(q, cs) ==
  /\ cs \in Seq(Contexts) /\ cs # << >>
  /\ cs[1].root = 1
  /\ \A i \in DOMAIN cs : i # 1 => /\ cs[i].root # 1 /\ q[cs[i].root].kind = "fold"
                                   /\ Parent(q, cs[i].root) = cs[i - 1].root
  /\ \A i, j \in DOMAIN cs : i <= j => cs[i].root \in AroundIn(q, cs[j].root)

Computed(q, at_, st, cs) ==
  /\ at_ \in DOMAIN q /\ cs[Len(cs)].root <= at_
  /\ \A i \in DOMAIN cs : IsContext(q, at_, cs[i])
  /\ \A i \in DOMAIN cs : i # Len(cs) => UpTo(q, cs[i], at_, {cs[i + 1].root})
  /\ UpTo(q, cs[Len(cs)], at_, Pending(at_, st))
  /\ AtStage(q, at_, st, cs[Len(cs)])

\* From a call of op in the component of context c, the adapter has got to this.
\* Components that it went into begin after the frontier.
HintsFrom(q, c, op, info) ==
  /\ info.start \in DOMAIN q /\ info.vid \in DOMAIN q
  /\ info.frontier \in Nat /\ info.frontier <= info.vid
  /\ Roots(q)[info.start] = c.root
  /\ c.root \in AroundIn(q, Roots(q)[info.vid])
  /\ \A d \in AroundIn(q, Roots(q)[info.vid]) :
       d \in AroundIn(q, c.root) \/ info.frontier < d
  /\ op \in SettledOps => UpTo(q, c, info.frontier, {})

Hinting(q, cs, op, is) ==
  /\ \E S : is \in Seq(S)
  /\ is # << >>
  /\ HintsFrom(q, cs[Len(cs)], op, is[Len(is)])

HintsInv ==
  /\ IsQuery(ir)
  /\ Nested(ir, contexts)
  /\ Computed(ir, here, stage, contexts)
  /\ call # None => Hinting(ir, contexts, call.op, infos)

\* Such queries grow.
LEMMA QueriesGrow ==
  ASSUME NEW q, IsQuery(q)
  PROVE  Grows(q)
BY DEF IsQuery, RootVid, Grows

\* What a fold needs, in the model's words.
LEMMA NeededAre ==
  ASSUME NEW f
  PROVE  ImportedTags(f) = Needed(ir, f)
BY DEF ImportedTags, Needed, Roots, Parent, Vid, Around, ComponentRoots,
       DefinedIn

LEMMA NeededAreNeeds ==
  ASSUME NEW q, Grows(q), NEW f
  PROVE  Needed(q, f) \subseteq Need
<1>1. \A v \in DOMAIN q : q[v] \in Vertex
  BY DEF Grows
<1>2. \A v \in DOMAIN q : q[v].need \in Need
  BY <1>1 DEF Vertex
<1> QED BY <1>2 DEF Needed

\* The components that are in a fold follow each other.
LEMMA InsideFollow ==
  ASSUME NEW q, IsQuery(q), NEW f \in DOMAIN q, NEW v \in DOMAIN q,
         f \in AroundIn(q, Roots(q)[v]), NEW u \in f..v
  PROVE  f \in AroundIn(q, Roots(q)[u])
<1> DEFINE Out(w) == f \notin AroundIn(q, Roots(q)[w])
           N == {w \in Nat : w \in DOMAIN q => Out(w)}
<1>0. Grows(q) /\ DOMAIN q = 1..Len(q) /\ Len(q) \in Nat
  BY QueriesGrow DEF Grows
<1>1. ASSUME Out(u) PROVE FALSE
  <2>0. u \in Nat /\ v \in Nat /\ u <= v /\ f <= u /\ f \in Nat
    BY <1>0
  <2>1. u \in N
    BY <1>1, <2>0
  <2>2. ASSUME NEW w \in u..v - 1, w \in N PROVE w + 1 \in N
    <3>0. w \in DOMAIN q /\ w + 1 \in DOMAIN q /\ w + 1 \in Nat /\ w + 1 # 1 /\ (w + 1) - 1 = w /\ w + 1 # f
      BY <1>0, <2>0
    <3>1. Out(w)
      BY <2>2, <3>0
    <3> DEFINE x == w + 1
               p == Parent(q, x)
    <3> HIDE DEF x
    <3>2. p \in AroundIn(q, Roots(q)[w])
      <4>1. x \in DOMAIN q /\ x # 1 /\ x - 1 = w
        BY <3>0 DEF x
      <4> QED BY <4>1 DEF IsQuery, RootVid, Parent, Roots
    <3>3. AroundIn(q, p) \subseteq AroundIn(q, Roots(q)[w])
      <4>1. Roots(q)[w] \in DOMAIN q
        BY <1>0, <3>0, RootsFacts DEF Roots
      <4> QED BY <3>2, <4>1, <1>0, AroundFacts
    <3>4. x \in DOMAIN q /\ x # 1 /\ x # f
      BY <3>0 DEF x
    <3>5. Roots(q)[x] = IF q[x].kind = "fold" THEN x ELSE p
      BY <3>4, <1>0, RootsAre DEF Parent, Roots
    <3>6. AroundIn(q, x) = {x} \cup AroundIn(q, p)
      BY <3>4, <1>0, AroundIs
    <3>7. Out(x)
      BY <3>1, <3>3, <3>4, <3>5, <3>6
    <3> QED BY <3>0, <3>7 DEF x
  <2> HIDE DEF N
  <2>3. u..v \subseteq N
    BY <2>0, <2>1, <2>2, InductionFrom
  <2>4. v \in N
    BY <2>0, <2>3
  <2> QED BY <2>4 DEF N
<1> QED BY <1>1

\* What holds up to n holds before, and where there is nothing left out.
LEMMA UpToBefore ==
  ASSUME NEW q, NEW c \in Contexts, NEW n \in Nat, NEW S, UpTo(q, c, n, S), NEW m \in Nat, m <= n,
         \A u \in S : m < u
  PROVE  UpTo(q, c, m, {})
<1>1. c.root \in Nat
  BY DEF Contexts
<1>2. \A u \in c.root..m : u \in c.root..n /\ u \notin S
  BY <1>1
<1> QED BY <1>2 DEF UpTo

-----------------------------------------------------------------------------
(* What hints say.                                                         *)

\* A resolver that is called with a vertex of the component.
LEMMA AtVertexHints ==
  ASSUME NEW q, IsQuery(q), NEW at_, NEW c, IsContext(q, at_, c), NEW op,
         NEW v \in DOMAIN q, Roots(q)[v] = c.root, NEW completed \in BOOLEAN,
         op \in SettledOps => UpTo(q, c, IF completed THEN v ELSE v - 1, {})
  PROVE  HintsFrom(q, c, op, AtVertex(v, completed))
<1> DEFINE info == AtVertex(v, completed)
           n == IF completed THEN v ELSE v - 1
<1>0. Grows(q) /\ DOMAIN q = 1..Len(q) /\ Len(q) \in Nat
  BY QueriesGrow DEF Grows
<1>1. info.start = v /\ info.vid = v /\ info.frontier = n
  BY DEF AtVertex
<1>2. n \in Nat /\ n <= v
  BY <1>0
<1> HIDE DEF info, n
<1>3. c.root \in AroundIn(q, c.root)
  BY <1>0, AroundFacts DEF IsContext
<1>4. op \in SettledOps => UpTo(q, c, n, {})
  BY DEF n
<1>5. HintsFrom(q, c, op, info)
  BY <1>1, <1>2, <1>3, <1>4 DEF HintsFrom
<1> QED BY <1>5 DEF info

\* One that is called with an edge of the component that leads to vertex v.
LEMMA DestinationHints ==
  ASSUME NEW c, IsContext(ir, here, c), NEW op,
         IsQuery(ir), NEW v \in DOMAIN ir, v # 1,
         Parent(ir, v) = c.root,
         UpTo(ir, c, v - 1, {})
  PROVE  HintsFrom(ir, c, op, Destination(v))
<1> DEFINE q == ir
           info == Destination(v)
<1>0. Grows(q) /\ DOMAIN q = 1..Len(q) /\ Len(q) \in Nat
  BY QueriesGrow DEF Grows
<1>1. info.start = q[v].from /\ info.vid = v /\ info.frontier = v - 1
  BY DEF Destination
<1>2. v - 1 \in Nat /\ v - 1 <= v /\ v - 1 < v
  BY <1>0
<1>3. q[v].from \in DOMAIN q /\ Roots(q)[q[v].from] = c.root
  <2>1. q[v].from \in 1..v - 1
    BY <1>0 DEF Grows
  <2> QED BY <2>1, <1>0 DEF Parent, Roots
<1>4. Roots(q)[v] = IF q[v].kind = "fold" THEN v ELSE c.root
  BY <1>0, RootsAre DEF Roots, Parent
<1>5. c.root \in AroundIn(q, c.root)
  BY <1>0, AroundFacts DEF IsContext
<1>6. AroundIn(q, v) = {v} \cup AroundIn(q, c.root)
  BY <1>0, AroundIs
<1>7. /\ c.root \in AroundIn(q, Roots(q)[v])
      /\ \A d \in AroundIn(q, Roots(q)[v]) : d \in AroundIn(q, c.root) \/ v - 1 < d
  BY <1>2, <1>4, <1>5, <1>6
<1> HIDE DEF q, info
<1>8. HintsFrom(q, c, op, info)
  BY <1>1, <1>2, <1>3, <1>7, UpTo(q, c, v - 1, {}), v \in DOMAIN q DEF HintsFrom, q
<1> QED BY <1>8 DEF info, q

\* And on to a neighbor.
LEMMA NeighborHints ==
  ASSUME NEW c, IsContext(ir, here, c), NEW op, NEW info,
         IsQuery(ir), HintsFrom(ir, c, op, info),
         NEW v \in EdgesFrom(info)
  PROVE  HintsFrom(ir, c, op, NeighborOf(info, v))
<1> DEFINE q == ir
           next == NeighborOf(info, v)
<1>0. Grows(q) /\ DOMAIN q = 1..Len(q) /\ Len(q) \in Nat
  BY QueriesGrow DEF Grows
<1>1. next.start = info.start /\ next.vid = v /\ next.frontier = info.frontier
  BY DEF NeighborOf
<1>2. v \in DOMAIN q /\ v # 1 /\ q[v].from = info.vid
  BY DEF EdgesFrom, Vid, RootVid
<1>3. info.vid \in 1..v - 1 /\ info.frontier \in Nat /\ info.frontier <= info.vid /\ v \in Nat
  BY <1>0, <1>2 DEF Grows, HintsFrom
<1>4. info.frontier < v /\ info.frontier <= v
  BY <1>3
<1> DEFINE p == Roots(q)[info.vid]
<1>5. Parent(q, v) = p
  BY <1>2 DEF Parent, Roots
<1>6. Roots(q)[v] = IF q[v].kind = "fold" THEN v ELSE p
  BY <1>0, <1>2, RootsAre DEF Roots
<1>7. AroundIn(q, v) = {v} \cup AroundIn(q, p)
  BY <1>0, <1>2, <1>5, AroundIs
<1>8. /\ c.root \in AroundIn(q, p)
      /\ \A d \in AroundIn(q, p) : d \in AroundIn(q, c.root) \/ info.frontier < d
  BY DEF HintsFrom
<1> HIDE DEF p
<1>9. /\ c.root \in AroundIn(q, Roots(q)[v])
      /\ \A d \in AroundIn(q, Roots(q)[v]) : d \in AroundIn(q, c.root) \/ info.frontier < d
  BY <1>4, <1>6, <1>7, <1>8
<1>10. /\ info.start \in DOMAIN q /\ Roots(q)[info.start] = c.root
       /\ op \in SettledOps => UpTo(q, c, info.frontier, {})
  BY DEF HintsFrom
<1> HIDE DEF q, next
<1>11. HintsFrom(q, c, op, next)
  BY <1>1, <1>2, <1>3, <1>4, <1>9, <1>10 DEF HintsFrom
<1> QED BY <1>11 DEF next, q

\* A tag in a component around a component was imported by a fold in between.
LEMMA ImportedOnTheWay ==
  ASSUME NEW q, IsQuery(q), NEW at_, NEW c, IsContext(q, at_, c),
         NEW v \in DOMAIN q, c.root \in AroundIn(q, Roots(q)[v]),
         q[v].need.by \in {"tag", "count"},
         DefinedInQuery(q, q[v].need) \in AroundIn(q, c.root),
         DefinedInQuery(q, q[v].need) # c.root
  PROVE  q[v].need \in c.imported
<1> DEFINE tag == q[v].need
           d == DefinedInQuery(q, tag)
<1>0. Grows(q) /\ c.root \in DOMAIN q
  BY QueriesGrow DEF IsContext
<1>1. PICK f \in AroundIn(q, c.root) : f # 1 /\ Parent(q, f) = d
  BY <1>0, AroundFacts
<1>2. Roots(q)[v] \in DOMAIN q
  BY <1>0, RootsFacts DEF Roots
<1>3. f \in AroundIn(q, Roots(q)[v])
  <2>1. AroundIn(q, c.root) \subseteq AroundIn(q, Roots(q)[v])
    BY <1>0, <1>2, AroundFacts
  <2> QED BY <2>1, <1>1
<1>4. tag \in {q[w].need : w \in {u \in DOMAIN q : f \in AroundIn(q, Roots(q)[u])}}
  BY <1>3
<1> HIDE DEF tag, d
<1>5. tag \in Needed(q, f)
  BY <1>1, <1>4 DEF Needed, tag, d
<1> QED BY <1>1, <1>5 DEF IsContext, tag

\* A tag that the frontier has passed is in the contexts.
LEMMA HeldByContexts ==
  ASSUME NEW q, IsQuery(q), NEW at_, NEW c, IsContext(q, at_, c),
         NEW op \in SettledOps, NEW info, HintsFrom(q, c, op, info),
         q[info.vid].need.by \in {"tag", "count"}, q[info.vid].need.of <= info.frontier
  PROVE  LET tag == q[info.vid].need
         IN  IF tag.of < c.root THEN tag \in c.imported
             ELSE IF tag.by = "count" THEN tag.of \in c.counts
             ELSE Roots(q)[tag.of] = c.root /\ tag.of \in c.vertices
<1> DEFINE v == info.vid
           tag == q[v].need
           n == tag.of
           A(r) == AroundIn(q, r)
           d == DefinedInQuery(q, tag)
<1>0. Grows(q) /\ DOMAIN q = 1..Len(q) /\ Len(q) \in Nat /\ v \in DOMAIN q
  BY QueriesGrow DEF Grows, HintsFrom
<1>1. /\ n \in 1..v
      /\ tag.by = "count" => n # v /\ q[n].kind = "fold" /\ n \notin A(Roots(q)[v])
      /\ d \in A(Roots(q)[v])
  <2>1. IsInScope(q, v)
    BY <1>0 DEF IsQuery
  <2> QED BY <2>1 DEF IsInScope, Roots
<1>2. n \in DOMAIN q /\ n \in Nat /\ n >= 1
  BY <1>0, <1>1
<1>3. info.frontier \in Nat /\ n <= info.frontier
  BY DEF HintsFrom
<1>4. c.root \in DOMAIN q /\ c.root \in Nat /\ Roots(q)[c.root] = c.root
  BY <1>0 DEF IsContext
<1>5. d = IF tag.by = "tag" THEN Roots(q)[n] ELSE Parent(q, n)
  BY DEF DefinedInQuery, Roots, Parent
<1>6. tag.by = "count" => n # 1
  <2>1. q[1].kind = "root"
    BY <1>0 DEF IsQuery, RootVid
  <2> QED BY <2>1, <1>1
<1>7. d \in 1..n /\ (tag.by = "count" => d < n)
  <2>1. CASE tag.by = "tag"
    BY <2>1, <1>0, <1>2, <1>5, RootsFacts DEF Roots
  <2>2. CASE tag.by # "tag"
    <3>1. tag.by = "count"
      BY <2>2
    <3>2. Parent(q, n) \in 1..n - 1
      BY <3>1, <1>0, <1>2, <1>6, ParentIsBefore
    <3> QED BY <3>2, <1>2, <1>5, <2>2
  <2> QED BY <2>1, <2>2
<1>8. d \in A(c.root)
  <2>1. d \in A(c.root) \/ info.frontier < d
    BY <1>1 DEF HintsFrom
  <2>2. d \in Nat /\ d <= n
    BY <1>2, <1>7
  <2>3. ~ (info.frontier < d)
    BY <2>2, <1>2, <1>3
  <2> QED BY <2>1, <2>3
<1>9. tag.by \in {"tag", "count"}
  OBVIOUS
<1> HIDE DEF n, d, tag, v, A
<1>10. CASE n < c.root
  <2>1. d # c.root
    BY <1>2, <1>4, <1>7, <1>10
  <2>2. tag \in c.imported
    <3>1. c.root \in AroundIn(q, Roots(q)[v])
      BY DEF HintsFrom, v
    <3>2. DefinedInQuery(q, q[v].need) \in AroundIn(q, c.root)
      BY <1>8 DEF d, tag, A
    <3> QED BY <3>1, <3>2, <2>1, <1>0, <1>9, ImportedOnTheWay DEF d, tag
  <2> QED BY <2>2, <1>10 DEF tag, n, v
<1>11. CASE ~ (n < c.root)
  <2>1. n \in c.root..info.frontier
    BY <1>2, <1>3, <1>4, <1>11
  <2>2. UpTo(q, c, info.frontier, {})
    BY DEF HintsFrom
  <2>3. /\ c.root \in A(Roots(q)[n])
        /\ Roots(q)[n] = c.root => n \in c.vertices
        /\ q[n].kind = "fold" /\ Parent(q, n) = c.root => n \in c.counts
    BY <2>1, <2>2 DEF UpTo, A
  \* The component of the tag is around the context's, and in it.
  <2>4. A(c.root) \subseteq 1..c.root
    BY <1>0, <1>4, AroundFacts DEF A
  <2>5. d \in Nat /\ d <= c.root
    BY <2>4, <1>4, <1>8
  <2>6. CASE tag.by = "tag"
    <3>1. d = Roots(q)[n]
      BY <2>6, <1>5
    <3>2. c.root \in 1..d
      <4>1. d \in DOMAIN q
        BY <3>1, <1>0, <1>2, RootsFacts DEF Roots
      <4> QED BY <4>1, <2>3, <3>1, <1>0, AroundFacts DEF A
    <3>3. d = c.root
      BY <3>2, <2>5, <1>4
    <3> QED BY <3>1, <3>3, <2>3, <2>6, <1>11 DEF tag, n, v
  <2>7. CASE tag.by = "count"
    <3>1. q[n].kind = "fold" /\ n # 1 /\ d = Parent(q, n)
      BY <2>7, <1>1, <1>5, <1>6
    <3>2. Roots(q)[n] = n
      BY <3>1, <1>0, <1>2, RootsAre DEF Roots
    <3>3. A(n) = {n} \cup A(d)
      BY <3>1, <1>0, <1>2, AroundIs DEF A
    <3>4. n # c.root
      <4>1. c.root \in A(Roots(q)[v])
        BY DEF HintsFrom, v, A
      <4> QED BY <4>1, <2>7, <1>1
    <3>5. c.root \in A(d)
      BY <3>2, <3>3, <3>4, <2>3
    <3>6. c.root \in 1..d
      <4>1. d \in DOMAIN q
        BY <3>1, <1>0, <1>2, ParentIsBefore
      <4> QED BY <4>1, <3>5, <1>0, AroundFacts DEF A
    <3>7. d = c.root
      BY <3>6, <2>5, <1>4
    <3> QED BY <3>1, <3>7, <2>3, <2>7, <1>11 DEF tag, n, v
  <2> QED BY <2>6, <2>7, <1>9
<1> QED BY <1>10, <1>11

-----------------------------------------------------------------------------
(* What steps do to the contexts.                                          *)

LEMMA TopOf ==
  ASSUME NEW q, NEW cs, Nested(q, cs)
  PROVE  /\ Len(cs) \in Nat /\ Len(cs) >= 1 /\ Len(cs) \in DOMAIN cs /\ DOMAIN cs = 1..Len(cs)
         /\ \A i \in DOMAIN cs : cs[i] \in Contexts
BY DEF Nested

\* The component of a context is not one of those further in.
LEMMA OuterRoots ==
  ASSUME NEW q, IsQuery(q), NEW at_, NEW st, NEW cs, Nested(q, cs), Computed(q, at_, st, cs),
         NEW i \in DOMAIN cs, i # Len(cs)
  PROVE  cs[i].root < cs[Len(cs)].root /\ cs[i].root \in AroundIn(q, cs[Len(cs)].root)
<1> DEFINE n == Len(cs)
           A(r) == AroundIn(q, r)
<1>0. Grows(q) /\ DOMAIN q \subseteq Nat
  BY QueriesGrow DEF Grows
<1>1. n \in Nat /\ n \in DOMAIN cs /\ n - 1 \in DOMAIN cs /\ n # 1 /\ i <= n - 1 /\ i <= n
  BY TopOf
<1>2. \A j \in DOMAIN cs : cs[j].root \in DOMAIN q
  BY DEF Computed, IsContext
<1> HIDE DEF n
<1>3. cs[n].root # 1 /\ Parent(q, cs[n].root) = cs[n - 1].root
  BY <1>1 DEF Nested
<1>4. cs[n - 1].root \in 1..cs[n].root - 1 /\ cs[n].root \in Nat
  BY <1>0, <1>1, <1>2, <1>3, ParentIsBefore
<1>5. cs[i].root \in A(cs[n - 1].root) /\ cs[i].root \in A(cs[n].root)
  BY <1>1 DEF Nested
<1>6. A(cs[n - 1].root) \subseteq 1..cs[n - 1].root
  BY <1>0, <1>1, <1>2, AroundFacts
<1>7. cs[i].root \in 1..cs[n - 1].root
  BY <1>5, <1>6
<1> QED BY <1>4, <1>5, <1>7 DEF n

\* The innermost context is changed, and the stage.
LEMMA TopReplaced ==
  ASSUME NEW q, NEW at_, NEW st, NEW cs, Nested(q, cs), Computed(q, at_, st, cs),
         NEW st2, NEW c, c.root = cs[Len(cs)].root, IsContext(q, at_, c),
         UpTo(q, c, at_, Pending(at_, st2)), AtStage(q, at_, st2, c)
  PROVE  LET new == [cs EXCEPT ![Len(cs)] = c]
         IN  /\ Nested(q, new) /\ Computed(q, at_, st2, new)
             /\ new[Len(new)] = c
<1> DEFINE n == Len(cs)
           new == [cs EXCEPT ![n] = c]
<1>1. n \in Nat /\ n >= 1 /\ n \in DOMAIN cs /\ DOMAIN cs = 1..n /\ cs \in Seq(Contexts)
  BY TopOf DEF Nested
<1>2. c \in Contexts
  BY DEF IsContext
<1>3. /\ new \in Seq(Contexts) /\ Len(new) = n /\ DOMAIN new = DOMAIN cs
      /\ new[n] = c /\ \A i \in DOMAIN cs : i # n => new[i] = cs[i]
  BY <1>1, <1>2
<1> HIDE DEF new, n
<1>4. \A i \in DOMAIN cs : new[i].root = cs[i].root
  BY <1>3 DEF n
<1>5. new # << >>
  BY <1>1, <1>3
<1>6. \A i \in DOMAIN cs : i # 1 => i - 1 \in DOMAIN cs
  BY <1>1
<1>7. \A i \in DOMAIN cs : i # n => i + 1 \in DOMAIN cs
  BY <1>1
<1>8. 1 \in DOMAIN cs
  BY <1>1
<1>9. Nested(q, new)
  <2>1. new[1].root = 1
    BY <1>4, <1>8 DEF Nested
  <2>2. \A i \in DOMAIN new : i # 1 => /\ new[i].root # 1 /\ q[new[i].root].kind = "fold"
                                       /\ Parent(q, new[i].root) = new[i - 1].root
    BY <1>3, <1>4, <1>6 DEF Nested
  <2>3. \A i, j \in DOMAIN new : i <= j => new[i].root \in AroundIn(q, new[j].root)
    BY <1>3, <1>4 DEF Nested
  <2> QED BY <1>3, <1>5, <2>1, <2>2, <2>3 DEF Nested
<1>10. Computed(q, at_, st2, new)
  <2>1. at_ \in DOMAIN q /\ new[n].root <= at_
    BY <1>1, <1>4 DEF Computed, n
  <2>2. \A i \in DOMAIN new : IsContext(q, at_, new[i])
    BY <1>3 DEF Computed
  <2>3. ASSUME NEW i \in DOMAIN new, i # n PROVE UpTo(q, new[i], at_, {new[i + 1].root})
    <3>1. UpTo(q, cs[i], at_, {cs[i + 1].root})
      BY <1>3, <2>3 DEF Computed, n
    <3> QED BY <3>1, <1>3, <1>4, <1>7, <2>3
  <2> QED BY <1>3, <2>1, <2>2, <2>3 DEF Computed
<1> QED BY <1>3, <1>9, <1>10 DEF new, n

\* A fold is entered.
LEMMA FoldEntered ==
  ASSUME NEW q, IsQuery(q), NEW at_, NEW cs, Nested(q, cs), Computed(q, at_, "fold", cs)
  PROVE  LET new == Append(cs, NewContext(at_, cs[Len(cs)].imported))
         IN  Nested(q, new) /\ Computed(q, at_, "entry", new)
<1> DEFINE n == Len(cs)
           top == cs[n]
           c == NewContext(at_, top.imported)
           new == Append(cs, c)
           A(r) == AroundIn(q, r)
<1>0. Grows(q) /\ DOMAIN q = 1..Len(q) /\ Len(q) \in Nat
  BY QueriesGrow DEF Grows
<1>1. n \in Nat /\ n >= 1 /\ n \in DOMAIN cs /\ DOMAIN cs = 1..n /\ cs \in Seq(Contexts) /\ top \in Contexts
  BY TopOf DEF Nested
<1>2. /\ at_ \in DOMAIN q /\ at_ # 1 /\ q[at_].kind = "fold" /\ Parent(q, at_) = top.root
      /\ Needed(q, at_) \subseteq top.imported
      /\ IsContext(q, at_, top) /\ UpTo(q, top, at_, {at_})
  BY <1>1 DEF Computed, AtStage, Pending
<1>3. at_ \in Nat /\ at_ >= 1
  BY <1>0, <1>2
<1>4. c.root = at_ /\ c.vertices = {} /\ c.counts = {} /\ c.imported = top.imported /\ c \in Contexts
  BY <1>1, <1>3 DEF NewContext, Contexts
<1> HIDE DEF c
<1>5. /\ new \in Seq(Contexts) /\ Len(new) = n + 1 /\ DOMAIN new = 1..n + 1
      /\ new[n + 1] = c /\ \A i \in 1..n : new[i] = cs[i]
  BY <1>1, <1>4
<1>6. A(at_) = {at_} \cup A(top.root)
  BY <1>0, <1>2, AroundIs
<1>7. Roots(q)[at_] = at_
  BY <1>0, <1>2, RootsAre DEF Roots
<1> HIDE DEF new, n, top, A
<1>8. \A i \in 1..n + 1 : i \in DOMAIN cs \/ i = n + 1
  BY <1>1
<1>9. Nested(q, new)
  <2>1. new # << >> /\ new[1].root = 1
    <3>1. 1 \in 1..n /\ Len(new) # 0
      BY <1>1, <1>5
    <3> QED BY <3>1, <1>5 DEF Nested
  <2>2. ASSUME NEW i \in DOMAIN new, i # 1
        PROVE  /\ new[i].root # 1 /\ q[new[i].root].kind = "fold"
               /\ Parent(q, new[i].root) = new[i - 1].root
    <3>1. CASE i = n + 1
      <4>1. new[i] = c /\ new[i - 1] = top
        <5>1. i - 1 = n /\ n \in 1..n
          BY <1>1, <3>1
        <5> QED BY <5>1, <3>1, <1>5 DEF top
      <4> QED BY <4>1, <1>2, <1>4
    <3>2. CASE i # n + 1
      <4>1. i \in DOMAIN cs /\ i - 1 \in DOMAIN cs
        BY <1>1, <1>5, <2>2, <3>2
      <4>2. new[i] = cs[i] /\ new[i - 1] = cs[i - 1]
        BY <4>1, <1>1, <1>5
      <4> QED BY <4>1, <4>2, <2>2 DEF Nested
    <3> QED BY <3>1, <3>2
  <2>3. ASSUME NEW i \in DOMAIN new, NEW j \in DOMAIN new, i <= j PROVE new[i].root \in A(new[j].root)
    <3>1. CASE j = n + 1
      <4>1. CASE i = n + 1
        BY <3>1, <4>1, <1>4, <1>5, <1>6
      <4>2. CASE i # n + 1
        <5>1. i \in DOMAIN cs /\ i <= n /\ new[i] = cs[i]
          BY <1>1, <1>5, <4>2
        <5>2. cs[i].root \in A(top.root)
          BY <5>1, <1>1 DEF Nested, A, top
        <5> QED BY <5>1, <5>2, <3>1, <1>4, <1>5, <1>6
      <4> QED BY <4>1, <4>2
    <3>2. CASE j # n + 1
      <4>1. i \in DOMAIN cs /\ j \in DOMAIN cs
        BY <1>1, <1>5, <2>3, <3>2
      <4>2. new[i] = cs[i] /\ new[j] = cs[j]
        BY <4>1, <1>1, <1>5
      <4> QED BY <4>1, <4>2, <2>3 DEF Nested, A
    <3> QED BY <3>1, <3>2
  <2> QED BY <1>5, <2>1, <2>2, <2>3 DEF Nested, A
<1>10. Computed(q, at_, "entry", new)
  <2>1. IsContext(q, at_, c)
    <3>1. \A f \in A(at_) : f # 1 => Needed(q, f) \subseteq top.imported
      BY <1>2, <1>6 DEF IsContext, A
    <3> QED BY <3>1, <1>2, <1>4, <1>7 DEF IsContext, A
  <2>2. ASSUME NEW i \in DOMAIN new PROVE IsContext(q, at_, new[i])
    <3>1. CASE i = n + 1
      BY <3>1, <2>1, <1>5
    <3>2. CASE i # n + 1
      <4>1. i \in DOMAIN cs
        BY <3>2, <1>5, <1>8
      <4>2. new[i] = cs[i]
        BY <4>1, <1>1, <1>5
      <4> QED BY <4>1, <4>2 DEF Computed
    <3> QED BY <3>1, <3>2
  <2>3. ASSUME NEW i \in DOMAIN new, i # n + 1 PROVE UpTo(q, new[i], at_, {new[i + 1].root})
    <3>1. i \in DOMAIN cs /\ new[i] = cs[i]
      BY <1>1, <1>5, <1>8, <2>3
    <3>2. CASE i = n
      <4>1. new[i + 1].root = at_ /\ new[i] = top
        BY <3>1, <3>2, <1>4, <1>5 DEF top
      <4> QED BY <4>1, <1>2
    <3>3. CASE i # n
      <4>1. i + 1 \in 1..n
        BY <3>1, <3>3, <1>1
      <4>2. new[i + 1] = cs[i + 1]
        BY <4>1, <1>5
      <4> QED BY <4>2, <3>1, <3>3 DEF Computed, n
    <3> QED BY <3>2, <3>3
  <2>4. UpTo(q, c, at_, Pending(at_, "entry"))
    <3>1. Pending(at_, "entry") = {at_}
      BY DEF Pending
    <3>2. at_..at_ = {at_}
      BY <1>3
    <3> QED BY <3>1, <3>2, <1>4, <1>6, <1>7 DEF UpTo, A
  <2>5. AtStage(q, at_, "entry", c)
    BY <1>4, <1>7 DEF AtStage
  <2> QED BY <1>2, <1>3, <1>4, <1>5, <2>2, <2>3, <2>4, <2>5 DEF Computed
<1> QED BY <1>9, <1>10 DEF new, c, top, n

\* What a fold needs is not needed by those around it from the same component.
LEMMA NeededByOne ==
  ASSUME NEW q, Grows(q), NEW f \in DOMAIN q, NEW d \in AroundIn(q, Parent(q, f)), f # 1, d # 1
  PROVE  Needed(q, f) \cap Needed(q, d) = {}
<1>1. Parent(q, f) \in DOMAIN q
  BY ParentIsBefore
<1>2. d \in 1..Parent(q, f) /\ d \in DOMAIN q
  BY <1>1, AroundFacts
<1>3. Parent(q, d) \in 1..d - 1
  BY <1>2, ParentIsBefore
<1>4. Parent(q, d) # Parent(q, f)
  BY <1>2, <1>3
<1> QED BY <1>4 DEF Needed

\* A fold is left.
LEMMA FoldLeft ==
  ASSUME NEW q, IsQuery(q), NEW at_, NEW cs, Nested(q, cs), Computed(q, at_, "outputs", cs),
         cs[Len(cs)].root # 1
  PROVE  LET fold == cs[Len(cs)].root
             outer == cs[Len(cs) - 1]
             new == Append(SubSeq(cs, 1, Len(cs) - 2),
                           [outer EXCEPT !.counts = @ \cup {fold},
                                         !.imported = @ \ Needed(q, fold)])
         IN  Nested(q, new) /\ Computed(q, at_, "next", new)
<1> DEFINE n == Len(cs)
           fold == cs[n].root
           outer == cs[n - 1]
           c == [outer EXCEPT !.counts = @ \cup {fold}, !.imported = @ \ Needed(q, fold)]
           front == SubSeq(cs, 1, n - 2)
           new == Append(front, c)
           m == n - 1
           A(r) == AroundIn(q, r)
<1>0. Grows(q) /\ DOMAIN q = 1..Len(q) /\ Len(q) \in Nat
  BY QueriesGrow DEF Grows
<1>1. n \in Nat /\ n >= 1 /\ n \in DOMAIN cs /\ DOMAIN cs = 1..n /\ cs \in Seq(Contexts)
      /\ \A i \in DOMAIN cs : cs[i] \in Contexts
  BY TopOf DEF Nested
<1>2. n # 1
  BY DEF Nested
<1>3. m \in Nat /\ m >= 1 /\ m \in DOMAIN cs /\ n = m + 1 /\ m # n /\ n - 2 = m - 1 /\ m \in 1..n
  <2>1. n \in Nat /\ n >= 1 /\ n # 1 /\ DOMAIN cs = 1..n
    BY <1>1, <1>2
  <2> HIDE DEF n
  <2> QED BY <2>1
<1>4. fold \in DOMAIN q /\ fold # 1 /\ q[fold].kind = "fold" /\ Parent(q, fold) = outer.root /\ fold \in Nat
  BY <1>0, <1>1, <1>2 DEF Nested, Computed, IsContext
<1>5. /\ c.root = outer.root /\ c.vertices = outer.vertices /\ c.counts = outer.counts \cup {fold}
      /\ c.imported = outer.imported \ Needed(q, fold) /\ c \in Contexts
  <2>1. outer \in Contexts
    BY <1>1, <1>3
  <2> HIDE DEF outer, fold
  <2> QED BY <2>1, <1>4 DEF Contexts
<1>6. /\ new \in Seq(Contexts) /\ Len(new) = m /\ DOMAIN new = 1..m
      /\ new[m] = c /\ \A i \in 1..m : i # m => new[i] = cs[i]
  <2>1. front \in Seq(Contexts) /\ Len(front) = n - 2 /\ \A i \in 1..n - 2 : front[i] = cs[i]
    <3>1. cs \in Seq(Contexts) /\ Len(cs) = n
      BY <1>1
    <3>2. n - 2 \in Nat /\ n - 2 <= n
      <4>1. n \in Nat /\ n >= 1 /\ n # 1
        BY <1>1, <1>2
      <4> HIDE DEF n
      <4> QED BY <4>1
    <3> HIDE DEF n
    <3> QED BY <3>1, <3>2
  <2> HIDE DEF front, c
  <2> QED BY <2>1, <1>3, <1>5
<1>7. \A i \in 1..m : i \in DOMAIN cs
  <2>1. DOMAIN cs = 1..n /\ m \in 1..n /\ n \in Nat
    BY <1>1, <1>3
  <2> HIDE DEF n, m
  <2> QED BY <2>1
<1> HIDE DEF new, c, fold, m, front
<1>8. \A i \in 1..m : new[i].root = cs[i].root
  BY <1>5, <1>6 DEF m
<1>9. Nested(q, new)
  <2>1. new # << >> /\ new[1].root = 1
    <3>1. 1 \in 1..m /\ Len(new) # 0
      BY <1>3, <1>6
    <3> QED BY <3>1, <1>8 DEF Nested
  <2>2. ASSUME NEW i \in DOMAIN new, i # 1
        PROVE  /\ new[i].root # 1 /\ q[new[i].root].kind = "fold"
               /\ Parent(q, new[i].root) = new[i - 1].root
    <3>1. i \in 1..m /\ i - 1 \in 1..m
      BY <1>3, <1>6, <2>2
    <3> QED BY <3>1, <1>7, <1>8, <2>2 DEF Nested
  <2>3. \A i, j \in DOMAIN new : i <= j => new[i].root \in AroundIn(q, new[j].root)
    BY <1>6, <1>7, <1>8 DEF Nested
  <2> QED BY <1>6, <2>1, <2>2, <2>3 DEF Nested
<1>10. IsContext(q, at_, outer)
  BY <1>3 DEF Computed, m
<1>11. outer.root \in A(fold)
  <2>1. A(fold) = {fold} \cup A(Parent(q, fold))
    BY <1>0, <1>4, AroundIs
  <2>2. outer.root \in A(outer.root)
    BY <1>0, <1>10, AroundFacts DEF IsContext
  <2> QED BY <2>1, <2>2, <1>4
<1>12. Computed(q, at_, "next", new)
  <2>1. IsContext(q, at_, c)
    <3>1. ASSUME NEW f \in A(outer.root), f # 1 PROVE Needed(q, f) \subseteq c.imported
      <4>1. Needed(q, f) \subseteq outer.imported
        BY <3>1, <1>10 DEF IsContext
      <4>2. Needed(q, fold) \cap Needed(q, f) = {}
        BY <3>1, <1>0, <1>4, NeededByOne
      <4> QED BY <4>1, <4>2, <1>5
    <3> QED BY <3>1, <1>5, <1>10 DEF IsContext
  <2>2. \A i \in DOMAIN new : IsContext(q, at_, new[i])
    BY <2>1, <1>6, <1>7 DEF Computed
  <2>3. ASSUME NEW i \in DOMAIN new, i # m PROVE UpTo(q, new[i], at_, {new[i + 1].root})
    <3>1. i \in 1..m /\ i + 1 \in 1..m /\ i # n
      BY <1>3, <1>6, <2>3
    <3>2. UpTo(q, cs[i], at_, {cs[i + 1].root})
      BY <3>1, <1>7 DEF Computed, n
    <3> QED BY <3>1, <3>2, <1>6, <1>8, <2>3
  <2>4. UpTo(q, c, at_, {})
    <3>1. UpTo(q, outer, at_, {fold})
      <4>1. UpTo(q, cs[m], at_, {cs[m + 1].root})
        BY <1>3 DEF Computed, n
      <4> QED BY <4>1, <1>3 DEF fold, m
    <3>2. Roots(q)[fold] = fold
      BY <1>0, <1>4, RootsAre DEF Roots
    <3>3. Parent(q, fold) # fold
      <4>1. Parent(q, fold) \in 1..fold - 1
        BY <1>0, <1>4, ParentIsBefore
      <4> QED BY <4>1, <1>4
    <3>4. fold # outer.root
      BY <3>3, <1>4
    <3> QED BY <3>1, <3>2, <3>4, <1>5 DEF UpTo
  <2>5. Pending(at_, "next") = {}
    BY DEF Pending
  <2>6. AtStage(q, at_, "next", c)
    BY DEF AtStage
  <2>7. at_ \in DOMAIN q /\ c.root <= at_
    <3>1. outer.root < fold /\ outer.root \in Nat
      <4>1. Parent(q, fold) \in 1..fold - 1
        BY <1>0, <1>4, ParentIsBefore
      <4> QED BY <4>1, <1>4
    <3>2. at_ \in DOMAIN q /\ fold <= at_ /\ at_ \in Nat
      BY <1>0 DEF Computed, fold
    <3> QED BY <3>1, <3>2, <1>4, <1>5
  <2> QED BY <1>6, <2>2, <2>3, <2>4, <2>5, <2>6, <2>7 DEF Computed
<1> QED BY <1>9, <1>12 DEF new, c, front, fold, m

\* The next edge of the component.
LEMMA EdgeReached ==
  ASSUME NEW q, IsQuery(q), NEW at_, NEW cs, Nested(q, cs), Computed(q, at_, "next", cs),
         at_ + 1 \in DOMAIN q, Parent(q, at_ + 1) = cs[Len(cs)].root
  PROVE  Computed(q, at_ + 1, IF q[at_ + 1].kind = "fold" THEN "import" ELSE "expand", cs)
<1> DEFINE n == Len(cs)
           top == cs[n]
           v == at_ + 1
           A(r) == AroundIn(q, r)
           st == IF q[v].kind = "fold" THEN "import" ELSE "expand"
<1>0. Grows(q) /\ DOMAIN q = 1..Len(q) /\ Len(q) \in Nat
  BY QueriesGrow DEF Grows
<1>1. n \in Nat /\ n \in DOMAIN cs
  BY TopOf
<1>2. at_ \in DOMAIN q /\ at_ \in Nat /\ at_ >= 1 /\ top.root <= at_ /\ IsContext(q, at_, top)
  BY <1>0, <1>1 DEF Computed
<1>3. v \in DOMAIN q /\ v \in Nat /\ v # 1 /\ at_ < v
  BY <1>0, <1>2
<1>4. Parent(q, v) = top.root
  OBVIOUS
<1> HIDE DEF v
<1>5. Roots(q)[v] = IF q[v].kind = "fold" THEN v ELSE top.root
  BY <1>0, <1>3, <1>4, RootsAre DEF Roots, Parent
<1>6. A(v) = {v} \cup A(top.root)
  BY <1>0, <1>3, <1>4, AroundIs
<1>7. A(top.root) \subseteq A(Roots(q)[v])
  BY <1>5, <1>6
<1>8. top.root \in A(top.root) /\ top.root \in Nat /\ top.root < v /\ top.root <= v
  <2>1. top.root \in DOMAIN q
    BY <1>2 DEF IsContext
  <2> QED BY <2>1, <1>0, <1>2, <1>3, AroundFacts
<1>9. ASSUME NEW i \in DOMAIN cs PROVE IsContext(q, v, cs[i]) /\ cs[i].root \in Nat
  <2>1. IsContext(q, at_, cs[i])
    BY DEF Computed
  <2>2. \A u \in cs[i].vertices : u \in DOMAIN q /\ Roots(q)[u] = cs[i].root /\ u <= v
    <3>1. \A u \in cs[i].vertices : u \in DOMAIN q /\ Roots(q)[u] = cs[i].root /\ u <= at_
      BY <2>1 DEF IsContext
    <3>2. \A u \in DOMAIN q : u <= at_ => u <= v
      BY <1>0, <1>2, <1>3
    <3> QED BY <3>1, <3>2
  <2> QED BY <2>1, <2>2, <1>0 DEF IsContext
<1>10. ASSUME NEW i \in DOMAIN cs, NEW S, UpTo(q, cs[i], at_, S), cs[i].root \in A(top.root),
              NEW T, S \subseteq T, v \in T \/ (i # n /\ cs[i].root < top.root)
       PROVE  UpTo(q, cs[i], v, T)
  <2>1. ASSUME NEW u \in cs[i].root..v
        PROVE  /\ cs[i].root \in A(Roots(q)[u])
               /\ u \notin T => /\ Roots(q)[u] = cs[i].root => u \in cs[i].vertices
                                /\ q[u].kind = "fold" /\ Parent(q, u) = cs[i].root => u \in cs[i].counts
    <3>1. CASE u = v
      <4>1. cs[i].root \in A(Roots(q)[v])
        BY <1>7, <1>10
      <4>2. v \notin T => Roots(q)[v] # cs[i].root /\ Parent(q, v) # cs[i].root
        <5>1. ASSUME v \notin T PROVE Roots(q)[v] # cs[i].root /\ Parent(q, v) # cs[i].root
          <6>1. cs[i].root < top.root /\ cs[i].root \in Nat
            BY <5>1, <1>9, <1>10
          <6>2. cs[i].root # top.root /\ cs[i].root # v
            BY <6>1, <1>3, <1>8
          <6> QED BY <6>2, <1>4, <1>5
        <5> QED BY <5>1
      <4> QED BY <3>1, <4>1, <4>2
    <3>2. CASE u # v
      <4>1. u \in cs[i].root..at_
        BY <3>2, <1>2, <1>3, <1>9 DEF v
      <4> QED BY <4>1, <1>10 DEF UpTo
    <3> QED BY <3>1, <3>2
  <2> QED BY <2>1 DEF UpTo
<1>11. ASSUME NEW i \in DOMAIN cs, i # n PROVE UpTo(q, cs[i], v, {cs[i + 1].root})
  <2>1. UpTo(q, cs[i], at_, {cs[i + 1].root})
    BY <1>11 DEF Computed
  <2>2. cs[i].root < top.root /\ cs[i].root \in A(top.root)
    BY <1>11, OuterRoots
  <2> HIDE DEF n, top
  <2> QED BY <2>1, <2>2, <1>10, <1>11
<1>12. UpTo(q, top, v, {v})
  <2>1. UpTo(q, top, at_, {})
    BY DEF Computed, Pending
  <2> QED BY <2>1, <1>1, <1>8, <1>10
<1>13. Pending(v, st) = {v}
  BY DEF Pending
<1>14. AtStage(q, v, st, top)
  BY <1>3, <1>4, <1>5 DEF AtStage
<1> HIDE DEF st
<1>15. Computed(q, v, st, cs)
  BY <1>3, <1>8, <1>9, <1>11, <1>12, <1>13, <1>14 DEF Computed
<1> QED BY <1>15 DEF st, v

-----------------------------------------------------------------------------
(* The steps of the execution.                                             *)

TopContext == contexts[Len(contexts)]

\* What holds of the innermost component.
LEMMA InnermostFacts ==
  ASSUME HintsInv
  PROVE  /\ IsQuery(ir) /\ Grows(ir) /\ here \in DOMAIN ir
         /\ DOMAIN ir = 1..Len(ir) /\ Len(ir) \in Nat
         /\ IsContext(ir, here, TopContext) /\ TopContext.root <= here
         /\ UpTo(ir, TopContext, here, Pending(here, stage))
         /\ AtStage(ir, here, stage, TopContext)
         /\ Innermost = TopContext
         /\ TopContext \in Contexts
<1>1. IsQuery(ir) /\ Nested(ir, contexts) /\ Computed(ir, here, stage, contexts)
  BY DEF HintsInv
<1>2. Grows(ir)
  BY <1>1, QueriesGrow
<1>3. DOMAIN ir = 1..Len(ir) /\ Len(ir) \in Nat
  BY <1>2 DEF Grows
<1>4. Len(contexts) \in DOMAIN contexts /\ TopContext \in Contexts
  BY <1>1, TopOf DEF TopContext
<1>5. Innermost = TopContext
  BY DEF Innermost, TopContext
<1> QED BY <1>1, <1>2, <1>3, <1>4, <1>5 DEF Computed, TopContext

\* A resolver is called.
LEMMA OneInfo ==
  ASSUME NEW q, NEW cs, NEW op, NEW info, HintsFrom(q, cs[Len(cs)], op, info)
  PROVE  Hinting(q, cs, op, <<info>>)
<1> DEFINE is == <<info>>
<1>1. is \in Seq({info}) /\ is # << >> /\ is[Len(is)] = info
  OBVIOUS
<1> HIDE DEF is
<1>2. Hinting(q, cs, op, is)
  BY <1>1 DEF Hinting
<1> QED BY <1>2 DEF is

\* The adapter follows an edge.
LEMMA OneMoreInfo ==
  ASSUME NEW q, NEW cs, NEW op, NEW is, Hinting(q, cs, op, is), NEW info,
         HintsFrom(q, cs[Len(cs)], op, info)
  PROVE  Hinting(q, cs, op, Append(is, info))
<1>1. PICK S : is \in Seq(S)
  BY DEF Hinting
<1> DEFINE new == Append(is, info)
<1>2. is \in Seq(S \cup {info})
  BY <1>1
<1>3. new \in Seq(S \cup {info}) /\ new # << >> /\ new[Len(new)] = info
  BY <1>2
<1> HIDE DEF new
<1>4. Hinting(q, cs, op, new)
  BY <1>3 DEF Hinting
<1> QED BY <1>4 DEF new

\* A call that leaves the contexts alone.
LEMMA CallKeeps ==
  ASSUME HintsInv, ir' = ir, here' = here, contexts' = contexts,
         AtStage(ir, here, stage', TopContext),
         Pending(here, stage') = Pending(here, stage),
         NEW op, NEW v, NEW info, HintsFrom(ir, TopContext, op, info), Calls(op, v, info)
  PROVE  HintsInv'
<1>1. call'.op = op /\ infos' = <<info>>
  BY DEF Calls
<1>2. Hinting(ir, contexts, op, <<info>>)
  BY OneInfo DEF TopContext
<1>3. Computed(ir, here, stage', contexts)
  BY DEF HintsInv, Computed, TopContext
<1>4. Hinting(ir', contexts', call'.op, infos')
  BY <1>1, <1>2
<1> QED BY <1>3, <1>4 DEF HintsInv

\* A step without a call that leaves the contexts alone.
LEMMA NoCallKeeps ==
  ASSUME HintsInv, ir' = ir, call' = None, Nested(ir, contexts'),
         Computed(ir, here', stage', contexts')
  PROVE  HintsInv'
BY DEF HintsInv

LEMMA SameContexts ==
  ASSUME HintsInv, NEW st, AtStage(ir, here, st, TopContext),
         Pending(here, st) = Pending(here, stage)
  PROVE  Nested(ir, contexts) /\ Computed(ir, here, st, contexts)
BY DEF HintsInv, Computed, TopContext

\* Before the vertex, or a fold that is not there yet, all is recorded.
LEMMA RecordedBefore ==
  ASSUME HintsInv, NEW n \in Nat, n < here
  PROVE  UpTo(ir, TopContext, n, {})
<1> DEFINE q == ir
<1>1. /\ here \in Nat /\ TopContext \in Contexts
      /\ UpTo(q, TopContext, here, Pending(here, stage))
  BY InnermostFacts
<1>2. n <= here /\ \A u \in Pending(here, stage) : n < u
  BY <1>1 DEF Pending
<1> HIDE DEF q
<1>3. UpTo(q, TopContext, n, {})
  BY <1>1, <1>2, UpToBefore
<1> QED BY <1>3 DEF q

\* A call with a vertex that is before this one, or of its own.
LEMMA VertexCall ==
  ASSUME HintsInv, NEW op, NEW v \in DOMAIN ir, NEW completed \in BOOLEAN,
         Roots(ir)[v] = TopContext.root,
         \/ op \notin SettledOps
         \/ (IF completed THEN v ELSE v - 1) < here
         \/ v <= here /\ Pending(here, stage) = {}
  PROVE  HintsFrom(ir, TopContext, op, AtVertex(v, completed))
<1> DEFINE n == IF completed THEN v ELSE v - 1
<1>1. /\ v \in Nat /\ v >= 1 /\ here \in Nat /\ IsContext(ir, here, TopContext)
      /\ IsQuery(ir) /\ TopContext \in Contexts
      /\ UpTo(ir, TopContext, here, Pending(here, stage))
  BY InnermostFacts
<1>2. n \in Nat /\ n <= v
  BY <1>1
<1>3. op \in SettledOps => n < here \/ (v <= here /\ Pending(here, stage) = {})
  OBVIOUS
<1> HIDE DEF n
<1>4. op \in SettledOps => UpTo(ir, TopContext, n, {})
  <2>1. CASE n < here
    BY <2>1, <1>2, RecordedBefore
  <2>2. CASE v <= here /\ Pending(here, stage) = {}
    <3>1. n <= here /\ UpTo(ir, TopContext, here, {})
      BY <2>2, <1>1, <1>2
    <3> QED BY <3>1, <1>1, <1>2, UpToBefore
  <2> QED BY <2>1, <2>2, <1>3
<1> QED BY <1>1, <1>4, AtVertexHints DEF n

\* Where a component is, before its first edge or at an edge of it.
LEMMA AtEdge ==
  ASSUME HintsInv, stage \in {"expand", "deepen", "import", "fold"}
  PROVE  /\ here # 1 /\ Parent(ir, here) = TopContext.root
         /\ stage \in {"expand", "deepen"} =>
              /\ ir[here].from \in DOMAIN ir /\ ir[here].from < here
              /\ ir[here].from >= 1
              /\ Roots(ir)[ir[here].from] = TopContext.root
<1>0. Grows(ir) /\ here \in DOMAIN ir /\ AtStage(ir, here, stage, TopContext)
      /\ DOMAIN ir = 1..Len(ir) /\ Len(ir) \in Nat
  BY InnermostFacts
<1>1. here # 1
  BY <1>0 DEF AtStage
<1>2. CASE stage \in {"import", "fold"}
  BY <1>0, <1>1, <1>2 DEF AtStage
<1>3. CASE stage \in {"expand", "deepen"}
  <2>1. Roots(ir)[here] = TopContext.root /\ ir[here].kind # "fold"
    BY <1>0, <1>3 DEF AtStage
  <2>2. Roots(ir)[here] = Roots(ir)[ir[here].from]
    BY <1>0, <1>1, <2>1, RootsAre DEF Roots
  <2>3. ir[here].from \in 1..here - 1
    BY <1>0, <1>1 DEF Grows
  <2>4. ir[here].from \in DOMAIN ir /\ ir[here].from < here
        /\ ir[here].from >= 1
    BY <1>0, <2>3
  <2> QED BY <1>1, <1>3, <2>1, <2>2, <2>4 DEF Parent, Roots
<1> QED BY <1>2, <1>3

\* A call with the edge.
LEMMA EdgeCall ==
  ASSUME HintsInv, stage \in {"expand", "deepen", "import", "fold"}
  PROVE  HintsFrom(ir, TopContext, "expand", Destination(here))
<1>1. here # 1 /\ Parent(ir, here) = TopContext.root
  BY AtEdge
<1>2. /\ here \in DOMAIN ir /\ here \in Nat /\ IsQuery(ir)
      /\ IsContext(ir, here, TopContext) /\ here >= 1
  BY InnermostFacts
<1>3. here - 1 \in Nat /\ here - 1 < here
  BY <1>2
<1>4. UpTo(ir, TopContext, here - 1, {})
  BY <1>3, RecordedBefore
<1> QED BY <1>1, <1>2, <1>4, DestinationHints

\* What a fold imports is before it.
LEMMA ImportedBefore ==
  ASSUME HintsInv, NEW tag \in Needed(ir, here), tag.by = "tag", here # 1,
         Parent(ir, here) = TopContext.root
  PROVE  tag.of \in DOMAIN ir /\ tag.of < here /\ Roots(ir)[tag.of] = TopContext.root
<1> DEFINE q == ir
           n == tag.of
<1>0. /\ IsQuery(q) /\ Grows(q) /\ here \in DOMAIN q /\ DOMAIN q = 1..Len(q) /\ Len(q) \in Nat
      /\ TopContext.root \in Nat /\ TopContext.root \in DOMAIN q
  BY InnermostFacts DEF IsContext, Contexts
<1>1. PICK v \in DOMAIN q : tag = q[v].need /\ here \in AroundIn(q, Roots(q)[v])
  BY DEF Needed
<1>2. Roots(q)[n] = Parent(q, here)
  BY DEF Needed, DefinedInQuery, Roots
<1>3. n \in 1..v
  <2>1. IsInScope(q, v)
    BY <1>0, <1>1 DEF IsQuery
  <2> QED BY <2>1, <1>1 DEF IsInScope
<1>4. n \in DOMAIN q /\ n \in Nat /\ here \in Nat /\ v \in Nat
  BY <1>0, <1>3
<1> HIDE DEF n, q
<1>5. ASSUME ~ (n < here) PROVE FALSE
  <2>1. n \in here..v
    BY <1>3, <1>4, <1>5
  <2>2. here \in AroundIn(q, Roots(q)[n])
    BY <2>1, <1>0, <1>1, InsideFollow
  <2>3. here \in AroundIn(q, Parent(q, here))
    BY <2>2, <1>2
  <2>4. Parent(q, here) \in DOMAIN q /\ Parent(q, here) \in 1..here - 1
    BY <1>0, here # 1, ParentIsBefore
  <2>5. here \in 1..Parent(q, here)
    BY <2>3, <2>4, <1>0, AroundFacts
  <2> QED BY <2>4, <2>5, <1>4
<1> QED BY <1>2, <1>4, <1>5 DEF q, n

\* A step of the interpreter.
LEMMA ExecuteKeeps ==
  ASSUME HintsInv, Execute
  PROVE  HintsInv'
<1> DEFINE q == ir
           top == TopContext
<1>0. /\ IsQuery(q) /\ Grows(q) /\ here \in DOMAIN q /\ DOMAIN q \subseteq Nat
      /\ IsContext(q, here, top) /\ top.root <= here /\ top \in Contexts
      /\ UpTo(q, top, here, Pending(here, stage))
      /\ AtStage(q, here, stage, top)
      /\ Innermost = top
      /\ Nested(q, contexts) /\ Computed(q, here, stage, contexts)
  BY InnermostFacts DEF HintsInv
<1>1. call = None /\ here \in Nat
  BY <1>0 DEF Execute
<1>2. NoCall => call' = None
  BY <1>1 DEF NoCall
<1> HIDE DEF top
<1>3. CASE ResolveStartingVertices
  <2>1. /\ stage = "start" /\ stage' = "entry" /\ ir' = ir /\ here' = here
        /\ contexts' = contexts /\ Calls("start", here, AtVertex(here, FALSE))
    BY <1>3 DEF ResolveStartingVertices
  <2>2. AtStage(q, here, "entry", top) /\ Pending(here, "entry") = Pending(here, stage)
        /\ Roots(q)[here] = top.root
    BY <1>0, <2>1 DEF AtStage, Pending
  <2>3. HintsFrom(q, top, "start", AtVertex(here, FALSE))
    <3>1. here - 1 < here
      BY <1>1
    <3> QED BY <3>1, <1>0, <2>2, VertexCall DEF top
  <2> QED BY <2>1, <2>2, <2>3, CallKeeps DEF top
<1>4. CASE Coerce
  <2>1. /\ stage = "entry" /\ stage' = "record" /\ ir' = ir /\ here' = here
        /\ contexts' = contexts /\ Calls("coerce", here, AtVertex(here, FALSE))
    BY <1>4 DEF Coerce
  <2>2. AtStage(q, here, "record", top) /\ Pending(here, "record") = Pending(here, stage)
        /\ Roots(q)[here] = top.root
    BY <1>0, <2>1 DEF AtStage, Pending
  <2>3. HintsFrom(q, top, "coerce", AtVertex(here, FALSE))
    <3>1. here - 1 < here
      BY <1>1
    <3> QED BY <3>1, <1>0, <2>2, VertexCall DEF top
  <2> QED BY <2>1, <2>2, <2>3, CallKeeps DEF top
<1>5. CASE FilterProperty
  <2>1. /\ stage = "entry" /\ stage' \in {"argument", "record"} /\ ir' = ir /\ here' = here
        /\ stage' = "argument" => q[here].need.by = "tag"
        /\ contexts' = contexts /\ Calls("filter", here, AtVertex(here, TRUE))
    BY <1>5 DEF FilterProperty
  <2>2. AtStage(q, here, stage', top) /\ Pending(here, stage') = Pending(here, stage)
        /\ Roots(q)[here] = top.root
    BY <1>0, <2>1 DEF AtStage, Pending
  <2>3. "filter" \notin SettledOps
    BY DEF SettledOps
  <2>4. HintsFrom(q, top, "filter", AtVertex(here, TRUE))
    BY <1>0, <2>2, <2>3, VertexCall DEF top
  <2> QED BY <2>1, <2>2, <2>4, CallKeeps DEF top
<1>6. CASE TagArgument
  <2> DEFINE of == q[here].need.of
             op == IF of = here THEN "filter" ELSE "tag"
  <2>1. /\ stage = "argument" /\ stage' = "record" /\ ir' = ir /\ here' = here
        /\ contexts' = contexts
        /\ IF Roots(q)[of] = top.root THEN Calls(op, of, AtVertex(of, TRUE)) ELSE NoCall
    BY <1>0, <1>6 DEF TagArgument, ComponentRoots, Roots
  <2>2. AtStage(q, here, "record", top) /\ Pending(here, "record") = Pending(here, stage)
        /\ q[here].need.by = "tag"
    BY <1>0, <2>1 DEF AtStage, Pending
  <2>3. CASE Roots(q)[of] = top.root
    <3>1. of \in 1..here
      <4>1. IsInScope(q, here)
        BY <1>0, <2>2 DEF IsQuery
      <4> QED BY <4>1 DEF IsInScope
    <3>2. of \in DOMAIN q /\ (of # here => of < here)
      <4>1. DOMAIN q = 1..Len(q) /\ Len(q) \in Nat
        BY <1>0 DEF Grows
      <4> HIDE DEF of
      <4> QED BY <3>1, <4>1, <1>0, <1>1
    <3>3. "filter" \notin SettledOps
      BY DEF SettledOps
    <3>4. op \notin SettledOps \/ of < here
      BY <3>2, <3>3
    <3> HIDE DEF of, op
    <3>5. HintsFrom(q, top, op, AtVertex(of, TRUE))
      BY <3>2, <3>4, <2>3, VertexCall DEF top
    <3> QED BY <3>5, <2>1, <2>2, <2>3, CallKeeps DEF top
  <2>4. CASE Roots(q)[of] # top.root
    <3>1. Nested(q, contexts) /\ Computed(q, here, "record", contexts)
      BY <2>2, SameContexts DEF top
    <3> QED BY <3>1, <2>1, <2>4, <1>2, NoCallKeeps
  <2> QED BY <2>3, <2>4
<1>7. CASE RecordVertex
  <2> DEFINE c == [top EXCEPT !.vertices = @ \cup {here}]
             new == [contexts EXCEPT ![Len(contexts)] = c]
  <2>1. /\ stage \in {"record", "entry"} /\ stage' = "next" /\ ir' = ir /\ here' = here
        /\ contexts' = new /\ NoCall
    BY <1>0, <1>7 DEF RecordVertex, WithInnermost
  <2>2. /\ c.root = top.root /\ c.vertices = top.vertices \cup {here} /\ c.counts = top.counts
        /\ c.imported = top.imported /\ c \in Contexts
    BY <1>0, <1>1 DEF Contexts
  <2> HIDE DEF c
  <2>3. Roots(q)[here] = top.root /\ UpTo(q, top, here, {here})
    BY <1>0, <2>1 DEF AtStage, Pending
  <2>4. IsContext(q, here, c)
    BY <1>0, <1>1, <2>2, <2>3 DEF IsContext
  <2>5. UpTo(q, c, here, {})
    <3>1. Parent(q, here) # top.root \/ q[here].kind # "fold"
      <4>1. ASSUME Parent(q, here) = top.root, q[here].kind = "fold" PROVE FALSE
        <5>1. here # 1
          BY <1>0, <4>1 DEF IsQuery, RootVid
        <5>2. Roots(q)[here] = here
          BY <1>0, <4>1, RootsAre DEF Roots
        <5>3. Parent(q, here) \in 1..here - 1
          BY <1>0, <5>1, ParentIsBefore
        <5> QED BY <5>2, <5>3, <4>1, <2>3, <1>1
      <4> QED BY <4>1
    <3> QED BY <3>1, <2>2, <2>3 DEF UpTo
  <2>6. Pending(here, "next") = {} /\ AtStage(q, here, "next", c)
    BY DEF Pending, AtStage
  <2>7. Nested(q, new) /\ Computed(q, here, "next", new)
    BY <1>0, <2>2, <2>4, <2>5, <2>6, TopReplaced DEF top, TopContext
  <2> QED BY <2>1, <2>7, <1>2, NoCallKeeps
<1>8. CASE NextEdge
  <2>1. /\ stage = "next" /\ here + 1 \in DOMAIN q /\ Parent(q, here + 1) = top.root
        /\ here' = here + 1 /\ ir' = ir /\ contexts' = contexts /\ NoCall
        /\ stage' = IF q[here + 1].kind = "fold" THEN "import" ELSE "expand"
    BY <1>0, <1>8 DEF NextEdge, IsNext, Vid, FoldAt, ComponentRoots, Parent
  <2>2. Computed(q, here + 1, IF q[here + 1].kind = "fold" THEN "import" ELSE "expand", contexts)
    BY <1>0, <2>1, EdgeReached DEF top, TopContext
  <2> QED BY <2>1, <2>2, <1>0, <1>2, NoCallKeeps
<1>9. CASE NoMoreEdges
  <2>1. /\ stage = "next" /\ stage' = "outputs" /\ ir' = ir /\ here' = here
        /\ contexts' = contexts /\ NoCall
    BY <1>9 DEF NoMoreEdges
  <2>2. AtStage(q, here, "outputs", top) /\ Pending(here, "outputs") = Pending(here, stage)
    BY <2>1 DEF AtStage, Pending
  <2>3. Computed(q, here, "outputs", contexts)
    BY <2>2, SameContexts DEF top
  <2> QED BY <2>1, <2>3, <1>0, <1>2, NoCallKeeps
<1>10. CASE ExpandEdge
  <2>1. /\ stage = "expand" /\ stage' \in {"entry", "deepen", "expand"} /\ ir' = ir
        /\ here' = here /\ contexts' = contexts
        /\ Calls("expand", here, Destination(here))
    BY <1>10 DEF ExpandEdge
  <2>2. AtStage(q, here, stage', top) /\ Pending(here, stage') = Pending(here, stage)
    BY <1>0, <2>1 DEF AtStage, Pending
  <2>3. HintsFrom(q, top, "expand", Destination(here))
    BY <2>1, EdgeCall DEF top
  <2> QED BY <2>1, <2>2, <2>3, CallKeeps DEF top
<1>11. CASE CoerceBeforeDeeper
  <2> DEFINE from == q[here].from
  <2>1. /\ stage = "deepen" /\ stage' = "expand" /\ ir' = ir
        /\ here' = here /\ contexts' = contexts
        /\ Calls("deepen", here, AtVertex(from, FALSE))
    BY <1>11 DEF CoerceBeforeDeeper
  <2>2. AtStage(q, here, "expand", top) /\ Pending(here, "expand") = Pending(here, stage)
    BY <1>0, <2>1 DEF AtStage, Pending
  <2>3. from \in DOMAIN q /\ Roots(q)[from] = top.root /\ from < here
    BY <2>1, AtEdge DEF top
  <2>4. from - 1 < here
    BY <1>0, <1>1, <2>3
  <2> HIDE DEF from
  <2>5. HintsFrom(q, top, "deepen", AtVertex(from, FALSE))
    BY <2>3, <2>4, VertexCall DEF top
  <2> QED BY <2>1, <2>2, <2>5, CallKeeps DEF top
<1>12. ASSUME NEW v \in Vid, ImportTag(q[v].need) PROVE HintsInv'
  <2> DEFINE tag == q[v].need
             c == [top EXCEPT !.imported = @ \cup {tag}]
             new == [contexts EXCEPT ![Len(contexts)] = c]
  <2>1. /\ stage = "import" /\ tag \in Needed(q, here) /\ stage' = stage /\ ir' = ir
        /\ here' = here /\ contexts' = new
        /\ IF tag.by = "tag" THEN Calls("tag", tag.of, AtVertex(tag.of, TRUE)) ELSE NoCall
    BY <1>0, <1>12, NeededAre DEF ImportTag, WithInnermost
  <2>2. here # 1 /\ Parent(q, here) = top.root
    BY <2>1, AtEdge DEF top
  <2>3. tag \in Need
    BY <1>0, <2>1, NeededAreNeeds
  <2> HIDE DEF tag
  <2>4. /\ c.root = top.root /\ c.vertices = top.vertices /\ c.counts = top.counts
        /\ c.imported = top.imported \cup {tag} /\ c \in Contexts
    BY <1>0, <2>3 DEF Contexts
  <2> HIDE DEF c
  <2>5. IsContext(q, here, c)
    BY <1>0, <2>4 DEF IsContext
  <2>6. UpTo(q, c, here, Pending(here, stage))
    BY <1>0, <2>4 DEF UpTo
  <2>7. AtStage(q, here, stage, c)
    BY <1>0, <2>1, <2>4 DEF AtStage
  <2>8. Nested(q, new) /\ Computed(q, here, stage, new) /\ new[Len(new)] = c
    BY <1>0, <2>4, <2>5, <2>6, <2>7, TopReplaced DEF top, TopContext
  <2> HIDE DEF new
  <2>9. CASE tag.by = "tag"
    <3>1. tag.of \in DOMAIN q /\ tag.of < here /\ Roots(q)[tag.of] = top.root
      BY <2>1, <2>2, <2>9, ImportedBefore DEF top
    <3> DEFINE n == tag.of
    <3>2. UpTo(q, top, n, {})
      <4>1. n \in Nat
        BY <1>0, <3>1
      <4> QED BY <4>1, <3>1, RecordedBefore DEF top
    <3>3. UpTo(q, c, n, {})
      BY <3>2, <2>4 DEF UpTo
    <3> DEFINE info == AtVertex(n, TRUE)
    <3>4. HintsFrom(q, c, "tag", info)
      <4>1. n \in DOMAIN q /\ Roots(q)[n] = c.root
        BY <3>1, <2>4
      <4> HIDE DEF n
      <4> QED BY <4>1, <3>3, <2>5, <1>0, AtVertexHints
    <3> HIDE DEF info
    <3>5. call'.op = "tag" /\ infos' = <<info>>
      <4>1. Calls("tag", tag.of, AtVertex(tag.of, TRUE))
        BY <2>1, <2>9
      <4>2. Calls("tag", n, info)
        BY <4>1 DEF info
      <4> HIDE DEF n
      <4> QED BY <4>2 DEF Calls
    <3>6. Hinting(q, new, "tag", <<info>>)
      BY <3>4, <2>8, OneInfo
    <3> QED BY <3>5, <3>6, <2>1, <2>8, <1>0 DEF HintsInv
  <2>10. CASE tag.by # "tag"
    BY <2>1, <2>8, <2>10, <1>2, NoCallKeeps
  <2> QED BY <2>9, <2>10
<1>13. CASE ExpandFold
  <2>1. /\ stage = "import" /\ stage' = "fold" /\ ir' = ir
        /\ here' = here /\ contexts' = contexts /\ Needed(q, here) \subseteq top.imported
        /\ Calls("expand", here, Destination(here))
    BY <1>0, <1>13, NeededAre DEF ExpandFold
  <2>2. AtStage(q, here, "fold", top) /\ Pending(here, "fold") = Pending(here, stage)
    BY <1>0, <2>1 DEF AtStage, Pending
  <2>3. HintsFrom(q, top, "expand", Destination(here))
    BY <2>1, EdgeCall DEF top
  <2> QED BY <2>1, <2>2, <2>3, CallKeeps DEF top
<1>14. CASE EnterFold
  <2>1. /\ stage = "fold" /\ stage' = "entry" /\ ir' = ir /\ here' = here
        /\ contexts' = Append(contexts, NewContext(here, top.imported)) /\ NoCall
    BY <1>0, <1>14 DEF EnterFold
  <2>2. Nested(q, contexts') /\ Computed(q, here, "entry", contexts')
    BY <1>0, <2>1, FoldEntered DEF top, TopContext
  <2> QED BY <2>1, <2>2, <1>2, NoCallKeeps
<1>15. ASSUME NEW v \in Vid, Output(v) PROVE HintsInv'
  <2>1. /\ stage = "outputs" /\ stage' = stage /\ ir' = ir /\ here' = here
        /\ contexts' = contexts /\ v \in top.vertices
        /\ Calls("output", v, AtVertex(v, TRUE))
    BY <1>0, <1>15 DEF Output
  <2>2. v \in DOMAIN q /\ Roots(q)[v] = top.root /\ v <= here
    BY <1>0, <2>1 DEF IsContext
  <2>3. Pending(here, stage) = {}
    BY <2>1 DEF Pending
  <2>4. HintsFrom(q, top, "output", AtVertex(v, TRUE))
    BY <2>2, <2>3, VertexCall DEF top
  <2>5. AtStage(q, here, stage', top) /\ Pending(here, stage') = Pending(here, stage)
    BY <1>0, <2>1
  <2> QED BY <2>1, <2>4, <2>5, CallKeeps DEF top
<1>16. CASE LeaveFold
  <2> DEFINE fold == contexts[Len(contexts)].root
             outer == contexts[Len(contexts) - 1]
             new == Append(SubSeq(contexts, 1, Len(contexts) - 2),
                           [outer EXCEPT !.counts = @ \cup {fold},
                                         !.imported = @ \ Needed(q, fold)])
  <2>1. /\ stage = "outputs" /\ stage' = "next" /\ ir' = ir /\ here' = here
        /\ fold # 1 /\ contexts' = new /\ NoCall
    <3>1. Innermost = contexts[Len(contexts)]
      BY DEF Innermost
    <3>2. ImportedTags(fold) = Needed(q, fold)
      BY NeededAre
    <3> QED BY <3>1, <3>2, <1>16 DEF LeaveFold, RootVid
  <2>2. Nested(q, new) /\ Computed(q, here, "next", new)
    BY <1>0, <2>1, FoldLeft
  <2> QED BY <2>1, <2>2, <1>2, NoCallKeeps
<1>17. CASE Finish
  <2>1. /\ stage = "outputs" /\ stage' = "finished" /\ ir' = ir /\ here' = here
        /\ contexts' = contexts /\ NoCall
    BY <1>17 DEF Finish
  <2>2. AtStage(q, here, "finished", top) /\ Pending(here, "finished") = Pending(here, stage)
    BY <2>1 DEF AtStage, Pending
  <2>3. Computed(q, here, "finished", contexts)
    BY <2>2, SameContexts DEF top
  <2> QED BY <2>1, <2>3, <1>0, <1>2, NoCallKeeps
<1> QED BY <1>3, <1>4, <1>5, <1>6, <1>7, <1>8, <1>9, <1>10, <1>11, <1>12, <1>13, <1>14, <1>15, <1>16, <1>17
        DEF Execute

\* At the start the root is in the root component.
LEMMA HintsInit ==
  ASSUME \A q \in IRQueries : IsQuery(q), EdgeInit
  PROVE  HintsInv
<1> DEFINE q == ir
           c == NewContext(1, {})
           cs == <<c>>
<1>1. /\ IsQuery(q) /\ here = 1 /\ stage = "start" /\ contexts = cs /\ call = None
  BY DEF EdgeInit, RootVid
<1>2. Grows(q) /\ 1 \in DOMAIN q
  <2>1. Grows(q)
    BY <1>1, QueriesGrow
  <2> QED BY <2>1 DEF Grows
<1>3. Roots(q)[1] = 1 /\ AroundIn(q, 1) = {1}
  BY <1>2, RootsAre, AroundIs DEF Roots
<1>4. c.root = 1 /\ c.vertices = {} /\ c.counts = {} /\ c.imported = {} /\ c \in Contexts
  BY DEF NewContext, Contexts
<1> HIDE DEF c
<1>5. cs \in Seq(Contexts) /\ cs # << >> /\ Len(cs) = 1 /\ DOMAIN cs = {1} /\ cs[1] = c
  BY <1>4
<1> HIDE DEF cs, q
<1>6. Nested(q, cs)
  BY <1>3, <1>4, <1>5 DEF Nested
<1>7. Computed(q, 1, "start", cs)
  <2>1. IsContext(q, 1, c)
    BY <1>2, <1>3, <1>4 DEF IsContext
  <2>2. UpTo(q, c, 1, {1})
    <3>1. 1..1 = {1}
      OBVIOUS
    <3> QED BY <3>1, <1>3, <1>4 DEF UpTo
  <2>3. Pending(1, "start") = {1}
    BY DEF Pending
  <2>4. AtStage(q, 1, "start", c)
    BY <1>3, <1>4 DEF AtStage
  <2>5. cs[Len(cs)] = c /\ \A i \in DOMAIN cs : cs[i] = c /\ i = Len(cs)
    BY <1>5
  <2>6. c.root <= 1
    BY <1>4
  <2> QED BY <1>2, <2>1, <2>2, <2>3, <2>4, <2>5, <2>6 DEF Computed
<1> QED BY <1>1, <1>6, <1>7 DEF HintsInv, q

\* The invariant is inductive.
LEMMA HintsInvariant == EdgeSpec => []HintsInv
<1>1. EdgeInit => HintsInv
  BY HintsInit, QueriesAreQueries
<1>2. HintsInv /\ [EdgeNext]_edgeVars => HintsInv'
  <2> SUFFICES ASSUME HintsInv, [EdgeNext]_edgeVars PROVE HintsInv'
    OBVIOUS
  <2>1. CASE Execute
    BY <2>1, ExecuteKeeps
  <2>2. ASSUME NEW v \in Vid, FollowEdge(v) PROVE HintsInv'
    <3>1. /\ call # None /\ v \in EdgesFrom(infos[Len(infos)])
          /\ infos' = Append(infos, NeighborOf(infos[Len(infos)], v))
          /\ ir' = ir /\ here' = here /\ stage' = stage /\ contexts' = contexts
          /\ call' = call
      BY <2>2 DEF FollowEdge
    <3> DEFINE op == call.op
    <3>2. Hinting(ir, contexts, op, infos)
      BY <3>1 DEF HintsInv
    <3>3. HintsFrom(ir, TopContext, op, infos[Len(infos)])
      BY <3>2 DEF Hinting, TopContext
    <3>4. HintsFrom(ir, TopContext, op, NeighborOf(infos[Len(infos)], v))
      BY <3>1, <3>3, InnermostFacts, NeighborHints
    <3>5. Hinting(ir, contexts, op, infos')
      BY <3>1, <3>2, <3>4, OneMoreInfo DEF TopContext
    <3> QED BY <3>1, <3>5 DEF HintsInv
  <2>3. CASE Return
    BY <2>3 DEF Return, HintsInv
  <2>4. CASE UNCHANGED edgeVars
    BY <2>4 DEF edgeVars, HintsInv
  <2> QED BY <2>1, <2>2, <2>3, <2>4 DEF EdgeNext
<1> QED BY <1>1, <1>2, PTL DEF EdgeSpec

\* Whatever edges an adapter follows from a resolver call, a tag or a count that a hint
\* there says is known is in the contexts of the call, for any query as the frontend makes
\* them, however deep its folds are nested.
THEOREM TagsResolvableHolds == EdgeSpec => []TagsResolvable
<1>1. HintsInv => TagsResolvable
  <2> SUFFICES ASSUME HintsInv, call # None, call.op \in SettledOps,
                      Hinted(infos[Len(infos)]).by \in {"tag", "count"}
               PROVE  Resolvable(Hinted(infos[Len(infos)]),
                                       ComponentRoots[infos[Len(infos)].start])
    BY DEF TagsResolvable, TagsResolvableAt
  <2> DEFINE info == infos[Len(infos)]
             tag == ir[info.vid].need
             op == call.op
  <2>1. HintsFrom(ir, TopContext, op, info)
    BY DEF HintsInv, Hinting, TopContext
  <2>2. /\ Hinted(info) = tag /\ ~ (tag.by \in {"tag", "count"} /\ tag.of > info.frontier)
    BY DEF Hinted, Nothing
  <2>3. tag.of <= info.frontier
    <3>1. info.vid \in DOMAIN ir /\ info.frontier \in Nat
      BY <2>1 DEF HintsFrom
    <3>2. ir[info.vid].need \in Need
      <4>1. ir[info.vid] \in Vertex
        BY <3>1, InnermostFacts DEF Grows
      <4> QED BY <4>1 DEF Vertex
    <3>3. tag.of \in Nat
      BY <3>2 DEF Need
    <3> QED BY <3>1, <3>3, <2>2
  <2> HIDE DEF info, op
  <2>4. IF tag.of < TopContext.root THEN tag \in TopContext.imported
        ELSE IF tag.by = "count" THEN tag.of \in TopContext.counts
        ELSE Roots(ir)[tag.of] = TopContext.root /\ tag.of \in TopContext.vertices
    BY <2>1, <2>2, <2>3, InnermostFacts, HeldByContexts DEF op, info
  <2>5. ComponentRoots[info.start] = TopContext.root /\ Innermost = TopContext
    BY <2>1, InnermostFacts DEF HintsFrom, ComponentRoots, Roots
  <2> HIDE DEF tag
  <2>6. Resolvable(tag, TopContext.root)
    BY <2>4, <2>5 DEF Resolvable, ComponentRoots, Roots
  <2> QED BY <2>2, <2>5, <2>6 DEF info
<1> QED BY <1>1, HintsInvariant, PTL

-----------------------------------------------------------------------------
(***************************************************************************)
(* The carrier of the query.  For every nesting of folds and every pull an *)
(* adapter may make inside its calls, the query is in the carrier whenever *)
(* code may ask for it.                                                    *)
(*                                                                         *)
(* QueryReturned speaks of the innermost frame only.  The invariant that   *)
(* carries it says of the whole stack which carriers are lent out (those   *)
(* of the frames inside a call), that frames belong to different nodes     *)
(* (RunsAbove, a relation that pulling extends) and that whatever may be   *)
(* pulled has its carriers.                                                *)
(***************************************************************************)

\* Code of node m may run above a frame of node n: m is inside n, or it comes
\* before n and is not around it.
RunsAbove(n, m) == n \in Outer[m] \/ (m < n /\ m \notin Outer[n])

Frames == DOMAIN stack

LentOut ==
  /\ \A i \in Frames :
       holds[CarrierOf(stack[i])] =
         IF stack[i].state = "calling" THEN "taken" ELSE "full"
  /\ \A c \in Carrier :
       holds[c] = "taken" => \E i \in Frames : CarrierOf(stack[i]) = c

Stacked == \A i, j \in Frames : i < j => RunsAbove(stack[i].node, stack[j].node)

Has(f) == \A kind \in Kind : holds[<<f, kind>>] # "absent"

Built ==
  \A i \in Frames :
    /\ stack[i].elements \subseteq InnerFolds(stack[i].node)
    /\ stack[i].outputs \subseteq stack[i].elements
    /\ \A f \in stack[i].elements :
         /\ holds[<<f, "component">>] # "absent"
         /\ \A g \in InnerFolds(stack[i].node) : g < f => g \in stack[i].outputs
    /\ \A f \in stack[i].outputs : Has(f)
    /\ \A f \in Upstream(stack[i].node) : Has(f)

\* The root component's frame is at the bottom and never returns.
Grounded == stack # <<>> /\ stack[1].node = Root

CarrierIInv == CarrierTypeOK /\ Grounded /\ LentOut /\ Stacked /\ Built

-----------------------------------------------------------------------------
(***************************************************************************)
(* Lemmas about nodes: what the numbering of the folds gives.              *)
(***************************************************************************)
\* Nodes are numbers and are not around themselves.
LEMMA NodeFacts ==
  /\ Node \subseteq Nat
  /\ \A n \in Node : Outer[n] \subseteq Node /\ n \notin Outer[n]
BY NodeAssumption DEF Node, Root

\* No code runs above a frame of its own node.
LEMMA RunsAboveIrreflexive ==
  \A n \in Node : ~RunsAbove(n, n)
BY NodeFacts DEF RunsAbove

\* What a node may pull runs above it.
LEMMA PulledRunsAbove ==
  ASSUME NEW n \in Node, NEW f \in InnerFolds(n) \cup Upstream(n)
  PROVE  RunsAbove(n, f)
BY NodeFacts DEF InnerFolds, Upstream, RunsAbove

\* ... and above everything that node runs above.
LEMMA PulledRunsAboveAll ==
  ASSUME NEW n \in Node, NEW m \in Node, RunsAbove(m, n),
         NEW f \in InnerFolds(n) \cup Upstream(n)
  PROVE  RunsAbove(m, f)
<1> f \in Node /\ f \in Folds
  BY DEF InnerFolds, Upstream, Node
<1>1. CASE f \in InnerFolds(n)
  <2>1. n \in Outer[f] /\ Outer[f] = Outer[n] \cup {n}
    BY <1>1 DEF InnerFolds
  <2>2. CASE m \in Outer[n]
    BY <2>1, <2>2 DEF RunsAbove
  <2>3. CASE n < m /\ n \notin Outer[m]
    <3>1. f \notin Outer[m]
      BY <2>1, <2>3, NodeAssumption
    <3>2. ~(m < f) /\ m # f
      BY <2>1, <2>3, NodeAssumption
    <3>. QED
      BY <3>1, <3>2, NodeFacts DEF RunsAbove
  <2>. QED
    BY <2>2, <2>3 DEF RunsAbove
<1>2. CASE f \in Upstream(n)
  <2>1. f < n /\ f \notin Outer[n] /\ Outer[f] \subseteq Outer[n]
    BY <1>2 DEF Upstream
  <2>2. CASE m \in Outer[n] /\ m \notin Outer[f]
    <3>1. ~(m < f)
      BY <2>1, <2>2, NodeAssumption
    <3>2. m # f /\ f \notin Outer[m]
      BY <2>1, <2>2, NodeAssumption
    <3>. QED
      BY <3>1, <3>2, NodeFacts DEF RunsAbove
  <2>3. CASE n < m /\ n \notin Outer[m]
    <3>1. f \notin Outer[m]
      BY <2>1, <2>3, NodeAssumption
    <3>2. f \in Nat /\ n \in Nat /\ m \in Nat
      BY NodeFacts
    <3>3. f < m
      BY <2>1, <2>3, <3>2
    <3>. QED
      BY <3>1, <3>3 DEF RunsAbove
  <2>. QED
    BY <2>2, <2>3 DEF RunsAbove
<1>. QED
  BY <1>1, <1>2

\* What is upstream of a fold inside n is a fold beside it or upstream of n.
LEMMA UpstreamOfInner ==
  ASSUME NEW n \in Node, NEW f \in InnerFolds(n), NEW g \in Upstream(f)
  PROVE  g \in InnerFolds(n) \/ g \in Upstream(n)
<1>1. /\ f \in Folds /\ Outer[f] = Outer[n] \cup {n}
      /\ g \in Folds /\ g < f /\ g \notin Outer[f] /\ Outer[g] \subseteq Outer[f]
  BY DEF InnerFolds, Upstream
<1> f \in Node /\ g \in Node
  BY <1>1 DEF Node
<1>2. CASE n \in Outer[g]
  <2>1. Outer[n] \subseteq Outer[g]
    BY <1>2, NodeAssumption
  <2>. QED
    BY <1>1, <1>2, <2>1 DEF InnerFolds
<1>3. CASE n \notin Outer[g]
  <2>1. ~(n < g)
    BY <1>1, <1>3, NodeAssumption
  <2>2. g < n
    BY <1>1, <2>1, NodeFacts
  <2>. QED
    BY <1>1, <1>3, <2>2 DEF Upstream
<1>. QED
  BY <1>2, <1>3

\* What is upstream of a fold upstream of n is upstream of n.
LEMMA UpstreamOfUpstream ==
  ASSUME NEW n \in Node, NEW f \in Upstream(n), NEW g \in Upstream(f)
  PROVE  g \in Upstream(n)
<1>1. /\ f \in Folds /\ f < n /\ f \notin Outer[n] /\ Outer[f] \subseteq Outer[n]
      /\ g \in Folds /\ g < f /\ g \notin Outer[f] /\ Outer[g] \subseteq Outer[f]
  BY DEF Upstream
<1> f \in Node /\ g \in Node
  BY <1>1 DEF Node
<1>2. g < n
  BY <1>1, NodeFacts
<1>3. g \notin Outer[n]
  BY <1>1, NodeAssumption
<1>. QED
  BY <1>1, <1>2, <1>3 DEF Upstream

-----------------------------------------------------------------------------
(***************************************************************************)
(* The three ways an action changes the stack.                             *)
(***************************************************************************)
LEMMA TopFacts ==
  ASSUME CarrierTypeOK, stack # <<>>
  PROVE  /\ Len(stack) \in Nat \ {0} /\ Frames = 1..Len(stack)
         /\ Top \in Frame /\ CarrierOf(Top) \in Carrier
         /\ \A i \in Frames : stack[i] \in Frame /\ CarrierOf(stack[i]) \in Carrier
<1>1. Len(stack) \in Nat \ {0} /\ Frames = 1..Len(stack)
  BY EmptySeq, LenProperties DEF CarrierTypeOK, Frames
<1>2. \A i \in Frames : stack[i] \in Frame
  BY <1>1, ElementOfSeq DEF CarrierTypeOK
<1>. QED
  BY <1>1, <1>2 DEF Top, CarrierOf, Carrier, Frame

\* Frames of a stack belong to different nodes, and so to different carriers.
LEMMA DifferentCarriers ==
  ASSUME CarrierTypeOK, stack # <<>>, Stacked
  PROVE  \A i, j \in Frames : stack[i].node = stack[j].node => i = j
<1> SUFFICES ASSUME NEW i \in Frames, NEW j \in Frames, i < j,
                    stack[i].node = stack[j].node
             PROVE  FALSE
  BY TopFacts
<1>1. RunsAbove(stack[i].node, stack[j].node) /\ stack[i].node \in Node
  BY TopFacts DEF Stacked, Frame
<1>. QED
  BY <1>1, RunsAboveIrreflexive

\* Whatever may be pulled runs above every frame of the stack.
LEMMA PulledRunsAboveStack ==
  ASSUME CarrierTypeOK, stack # <<>>, Stacked, NEW f \in InnerFolds(Top.node) \cup Upstream(Top.node)
  PROVE  /\ f \in Folds
         /\ \A i \in Frames : RunsAbove(stack[i].node, f) /\ stack[i].node # f
<1>1. f \in Folds /\ f \in Node
  BY DEF InnerFolds, Upstream, Node
<1>2. ASSUME NEW i \in Frames
      PROVE  RunsAbove(stack[i].node, f)
  <2>1. stack[i].node \in Node /\ Top.node \in Node
    BY TopFacts DEF Frame
  <2>2. i = Len(stack) \/ RunsAbove(stack[i].node, Top.node)
    BY TopFacts DEF Stacked, Top
  <2>. QED
    BY <2>1, <2>2, PulledRunsAbove, PulledRunsAboveAll DEF Top
<1>. QED
  BY <1>1, <1>2, RunsAboveIrreflexive

\* A frame that changes neither its node nor its kind replaces the innermost.
LEMMA ReplaceFacts ==
  ASSUME CarrierTypeOK, Grounded, NEW frame \in Frame, stack' = ReplaceTop(frame),
         frame.node = Top.node, frame.kind = Top.kind
  PROVE  /\ stack' \in Seq(Frame) /\ Frames' = Frames /\ Len(stack') = Len(stack)
         /\ \A i \in Frames : stack'[i] = IF i = Len(stack) THEN frame ELSE stack[i]
         /\ Grounded'
         /\ \A i \in Frames : CarrierOf(stack[i])' = CarrierOf(stack[i])
         /\ Stacked => Stacked'
<1>1. Len(stack) \in Nat \ {0} /\ Frames = 1..Len(stack)
  BY TopFacts DEF Grounded
<1>2. /\ stack' \in Seq(Frame) /\ Len(stack') = Len(stack)
      /\ \A i \in 1..Len(stack) : stack'[i] = IF i = Len(stack) THEN frame ELSE stack[i]
  BY <1>1, ExceptSeq DEF CarrierTypeOK, ReplaceTop
<1>3. Frames' = Frames
  BY <1>1, <1>2, LenProperties DEF Frames
<1>4. \A i \in Frames : stack'[i].node = stack[i].node /\ stack'[i].kind = stack[i].kind
  BY <1>1, <1>2 DEF Top
<1>5. Grounded'
  BY <1>1, <1>2, <1>4, EmptySeq DEF Grounded
<1>6. \A i \in Frames : CarrierOf(stack[i])' = CarrierOf(stack[i])
  BY <1>4 DEF CarrierOf
<1>7. Stacked => Stacked'
  BY <1>3, <1>4 DEF Stacked
<1>. QED
  BY <1>1, <1>2, <1>3, <1>5, <1>6, <1>7

\* A new frame, of a fold that may be pulled, starts above the others.
LEMMA PushFacts ==
  ASSUME CarrierTypeOK, Grounded, Stacked, NEW kind \in Kind,
         NEW f \in InnerFolds(Top.node) \cup Upstream(Top.node),
         stack' = Append(stack, NewFrame(f, kind))
  PROVE  /\ Frames' = 1..Len(stack) + 1 /\ Frames = 1..Len(stack)
         /\ \A i \in Frames : stack'[i] = stack[i]
         /\ stack'[Len(stack) + 1] = NewFrame(f, kind)
         /\ Grounded' /\ Stacked'
<1>1. Len(stack) \in Nat \ {0} /\ Frames = 1..Len(stack)
  BY TopFacts DEF Grounded
<1>2. NewFrame(f, kind) \in Frame
  BY PulledRunsAboveStack DEF NewFrame, Frame, Node, Grounded
<1>3. /\ Len(stack') = Len(stack) + 1 /\ Frames' = 1..Len(stack) + 1
      /\ \A i \in Frames : stack'[i] = stack[i]
      /\ stack'[Len(stack) + 1] = NewFrame(f, kind)
  BY <1>1, <1>2, AppendProperties DEF CarrierTypeOK, Frames
<1>4. Grounded'
  BY <1>1, <1>3, EmptySeq DEF Grounded
<1>5. ASSUME NEW i \in Frames', NEW j \in Frames', i < j
      PROVE  RunsAbove(stack'[i].node, stack'[j].node)
  <2>1. i \in Frames
    BY <1>1, <1>3, <1>5
  <2>2. CASE j \in Frames
    BY <1>3, <1>5, <2>1, <2>2 DEF Stacked
  <2>3. CASE j = Len(stack) + 1
    <3>1. stack'[j].node = f
      BY <1>3, <2>3 DEF NewFrame
    <3>. QED
      BY <1>3, <2>1, <3>1, PulledRunsAboveStack DEF Grounded
  <2>. QED
    BY <1>1, <1>3, <2>2, <2>3
<1>6. Stacked'
  BY <1>5 DEF Stacked
<1>. QED
  BY <1>1, <1>3, <1>4, <1>6

\* The innermost frame, which is not the root's, returns.
LEMMA PopFacts ==
  ASSUME CarrierTypeOK, Grounded, Stacked, Top.node # Root,
         stack' = SubSeq(stack, 1, Len(stack) - 1)
  PROVE  /\ Frames = 1..Len(stack) /\ Frames' = 1..Len(stack) - 1
         /\ \A i \in Frames' : stack'[i] = stack[i]
         /\ Grounded' /\ Stacked'
<1>1. Len(stack) \in Nat \ {0} /\ Frames = 1..Len(stack)
  BY TopFacts DEF Grounded
<1>2. Len(stack) > 1
  BY <1>1 DEF Grounded, Top
<1>3. /\ stack' \in Seq(Frame) /\ Len(stack') = Len(stack) - 1
      /\ \A i \in 1..Len(stack) - 1 : stack'[i] = stack[i]
  BY <1>1, <1>2, SubSeqProperties, ElementOfSeq DEF CarrierTypeOK
<1>4. Frames' = 1..Len(stack) - 1
  BY <1>1, <1>3, LenProperties DEF Frames
<1>5. Grounded'
  <2>1. Len(stack') # 0
    <3>1. \A n \in Nat : n > 1 => n - 1 # 0
      OBVIOUS
    <3>. QED
      BY <1>1, <1>2, <1>3, <3>1, Zenon
  <2>2. stack' # <<>>
    BY <1>3, <2>1, EmptySeq
  <2>3. stack'[1] = stack[1]
    BY <1>1, <1>2, <1>3
  <2>. QED
    BY <2>2, <2>3 DEF Grounded
<1>6. Stacked'
  BY <1>1, <1>3, <1>4 DEF Stacked
<1>. QED
  BY <1>1, <1>3, <1>4, <1>5, <1>6

-----------------------------------------------------------------------------
(***************************************************************************)
(* Type correctness.                                                       *)
(***************************************************************************)
LEMMA InitCarrierTypeOK == CarrierInit => CarrierTypeOK
<1> SUFFICES ASSUME CarrierInit PROVE CarrierTypeOK
  OBVIOUS
<1>1. NewFrame(Root, "component") \in Frame
  BY DEF NewFrame, Frame, Node, Kind
<1>2. stack \in Seq(Frame)
  BY <1>1 DEF CarrierInit
<1>. QED
  BY <1>2 DEF CarrierInit, CarrierTypeOK

\* Every step leaves everything with its type.
LEMMA NextCarrierTypeOK == CarrierTypeOK /\ [CarrierNext]_carrierVars => CarrierTypeOK'
<1> SUFFICES ASSUME CarrierTypeOK, [CarrierNext]_carrierVars PROVE CarrierTypeOK'
  OBVIOUS
<1> DEFINE Replaced == \E frame \in Frame : stack # <<>> /\ stack' = ReplaceTop(frame)
<1>1. ASSUME Replaced PROVE stack' \in Seq(Frame)
  BY <1>1, TopFacts, ExceptSeq DEF CarrierTypeOK, ReplaceTop
<1>2. ASSUME stack # <<>>, NEW kind \in Kind, NEW c \in Carrier,
             NEW h \in {"absent", "full", "taken"}
      PROVE  /\ [holds EXCEPT ![c] = h] \in [Carrier -> {"absent", "full", "taken"}]
             /\ holds[CarrierOf(Top)] \in {"absent", "full", "taken"}
             /\ \A state \in {"building", "calling", "draining"} :
                  [Top EXCEPT !.state = state] \in Frame
             /\ \A f \in Folds : /\ [Top EXCEPT !.elements = @ \cup {f}] \in Frame
                               /\ [Top EXCEPT !.outputs = @ \cup {f}] \in Frame
  BY <1>2, TopFacts DEF CarrierTypeOK, Frame
<1>3. \A f \in Folds, kind \in Kind :
        <<f, kind>> \in Carrier /\ NewFrame(f, kind) \in Frame
  BY DEF Carrier, NewFrame, Frame, Node
<1>4. CASE Call
  <2>1. stack # <<>> /\ Replaced
    BY <1>2, <1>4, TopFacts DEF Call, Running, Kind
  <2>. QED
    BY <1>1, <1>2, <1>4, <2>1, TopFacts DEF Call, CarrierTypeOK
<1>5. CASE ResolverReturns
  <2>1. stack # <<>> /\ Replaced
    BY <1>2, <1>5, TopFacts DEF ResolverReturns, Running, Kind
  <2>. QED
    BY <1>1, <1>2, <1>5, <2>1, TopFacts DEF ResolverReturns, CarrierTypeOK
<1>6. CASE Drain
  <2>1. stack # <<>> /\ Replaced
    BY <1>2, <1>6, TopFacts DEF Drain, Running, Kind
  <2>. QED
    BY <1>1, <1>6, <2>1 DEF Drain, CarrierTypeOK
<1>7. CASE LeaveClosure
  <2>1. stack # <<>>
    BY <1>7 DEF LeaveClosure, Running
  <2>2. stack' \in Seq(Frame)
    BY <1>7, <2>1, TopFacts, SubSeqProperties DEF LeaveClosure, CarrierTypeOK
  <2>. QED
    BY <1>7, <2>2 DEF LeaveClosure, CarrierTypeOK
<1>8. ASSUME NEW f \in Folds, BuildElements(f) \/ BuildOutputs(f) PROVE CarrierTypeOK'
  <2>1. stack # <<>> /\ Replaced
    BY <1>2, <1>8, TopFacts DEF BuildElements, BuildOutputs, Running, Kind
  <2>. QED
    BY <1>1, <1>2, <1>3, <1>8, <2>1, TopFacts DEF BuildElements, BuildOutputs, CarrierTypeOK, Kind
<1>9. ASSUME NEW f \in Folds, FoldElements(f) \/ FoldOutputs(f) PROVE CarrierTypeOK'
  <2>1. PICK kind \in Kind : stack' = Append(stack, NewFrame(f, kind))
    BY <1>9 DEF FoldElements, FoldOutputs, Kind
  <2>2. stack' \in Seq(Frame)
    BY <1>3, <2>1, AppendProperties DEF CarrierTypeOK
  <2>. QED
    BY <1>9, <2>2 DEF FoldElements, FoldOutputs, CarrierTypeOK
<1>10. CASE UNCHANGED carrierVars
  BY <1>10 DEF carrierVars, CarrierTypeOK
<1>. QED
  BY <1>4, <1>5, <1>6, <1>7, <1>8, <1>9, <1>10 DEF CarrierNext

\* The carriers and the stack of frames keep their types.
THEOREM CarrierTypeCorrect == CarrierSpec => []CarrierTypeOK
BY InitCarrierTypeOK, NextCarrierTypeOK, PTL DEF CarrierSpec
-----------------------------------------------------------------------------
(***************************************************************************)
(* The invariant is inductive: one lemma per action.                       *)
(***************************************************************************)
\* A carrier never loses its entry, so what could be pulled still can be.
LEMMA KeepsBuilt ==
  ASSUME Built, Frames' = Frames,
         \A i \in Frames : /\ stack'[i].node = stack[i].node
                          /\ stack'[i].elements = stack[i].elements
                          /\ stack'[i].outputs = stack[i].outputs,
         \A c \in Carrier : holds[c] # "absent" => holds'[c] # "absent"
  PROVE  Built'
<1> SUFFICES ASSUME NEW i \in Frames
             PROVE  /\ stack'[i].elements \subseteq InnerFolds(stack'[i].node)
                    /\ stack'[i].outputs \subseteq stack'[i].elements
                    /\ \A f \in stack'[i].elements :
                         /\ holds'[<<f, "component">>] # "absent"
                         /\ \A g \in InnerFolds(stack'[i].node) : g < f => g \in stack'[i].outputs
                    /\ \A f \in stack'[i].outputs : Has(f)'
                    /\ \A f \in Upstream(stack'[i].node) : Has(f)'
  BY DEF Built
<1>1. \A f \in InnerFolds(stack[i].node) \cup Upstream(stack[i].node), kind \in Kind :
        <<f, kind>> \in Carrier
  BY DEF InnerFolds, Upstream, Carrier, Node
<1>2. \A f \in InnerFolds(stack[i].node) \cup Upstream(stack[i].node) : Has(f) => Has(f)'
  BY <1>1 DEF Has
<1>3. "component" \in Kind
  BY DEF Kind
<1>. QED
  BY <1>1, <1>2, <1>3 DEF Built

\* Code that calls an adapter, or gets its answer, moves the query between its
\* carrier and the adapter and touches no other frame's.
LEMMA CallReturnKeep == CarrierIInv /\ (Call \/ ResolverReturns) => Grounded' /\ LentOut' /\ Stacked' /\ Built'
<1> SUFFICES ASSUME CarrierIInv, Call \/ ResolverReturns
             PROVE  Grounded' /\ LentOut' /\ Stacked' /\ Built'
  OBVIOUS
<1> USE DEF CarrierIInv
<1>1. PICK state \in {"building", "calling"} :
        /\ stack' = ReplaceTop([Top EXCEPT !.state = state])
        /\ holds' = [holds EXCEPT ![CarrierOf(Top)] =
                        IF state = "calling" THEN "taken" ELSE "full"]
  BY DEF Call, ResolverReturns
<1> DEFINE frame == [Top EXCEPT !.state = state]
<1>2. /\ stack # <<>> /\ Top \in Frame /\ CarrierOf(Top) \in Carrier
      /\ Len(stack) \in Nat \ {0} /\ Frames = 1..Len(stack)
      /\ \A i \in Frames : stack[i] \in Frame /\ CarrierOf(stack[i]) \in Carrier
  BY TopFacts DEF Grounded
<1>3. /\ frame \in Frame /\ frame.node = Top.node /\ frame.kind = Top.kind
      /\ frame.elements = Top.elements /\ frame.outputs = Top.outputs
      /\ frame.state = state
  BY <1>2 DEF Frame
<1>4. /\ Frames' = Frames
      /\ \A i \in Frames : stack'[i] = IF i = Len(stack) THEN frame ELSE stack[i]
      /\ Grounded' /\ Stacked'
      /\ \A i \in Frames : CarrierOf(stack[i])' = CarrierOf(stack[i])
  BY <1>1, <1>3, ReplaceFacts
<1>5. LentOut'
  <2>1. ASSUME NEW i \in Frames
        PROVE  holds'[CarrierOf(stack[i])] =
                 IF stack'[i].state = "calling" THEN "taken" ELSE "full"
    <3>1. CASE i = Len(stack)
      BY <1>1, <1>2, <1>3, <1>4, <3>1 DEF CarrierTypeOK, Top
    <3>2. CASE i # Len(stack)
      <4>1. CarrierOf(stack[i]) # CarrierOf(Top)
        BY <1>2, <3>2, DifferentCarriers DEF CarrierOf, Top
      <4>. QED
        BY <1>1, <1>2, <1>4, <3>2, <4>1 DEF CarrierTypeOK, LentOut
    <3>. QED
      BY <3>1, <3>2
  <2>2. ASSUME NEW c \in Carrier, holds'[c] = "taken"
        PROVE  \E i \in Frames : CarrierOf(stack[i]) = c
    <3>1. CASE c = CarrierOf(Top)
      BY <1>2, <3>1 DEF Top
    <3>2. CASE c # CarrierOf(Top)
      BY <1>1, <1>2, <2>2, <3>2 DEF CarrierTypeOK, LentOut
    <3>. QED
      BY <3>1, <3>2
  <2>3. \A i \in Frames' : holds'[CarrierOf(stack[i])'] =
                 IF stack'[i].state = "calling" THEN "taken" ELSE "full"
    BY <1>4, <2>1
  <2>4. \A c \in Carrier : holds'[c] = "taken" => \E i \in Frames' : CarrierOf(stack[i])' = c
    BY <1>4, <2>2
  <2>. QED
    BY <2>3, <2>4 DEF LentOut
<1>6. Built'
  <2>1. \A i \in Frames : /\ stack'[i].node = stack[i].node
                          /\ stack'[i].elements = stack[i].elements
                          /\ stack'[i].outputs = stack[i].outputs
    BY <1>2, <1>3, <1>4 DEF Top
  <2>2. \A c \in Carrier : holds[c] # "absent" => holds'[c] # "absent"
    BY <1>1, <1>2 DEF CarrierTypeOK
  <2>. QED
    BY <1>4, <2>1, <2>2, KeepsBuilt
<1>. QED
  BY <1>4, <1>5, <1>6

\* Nothing is lent or taken back when a component's chain is complete.
LEMMA DrainKeeps == CarrierIInv /\ Drain => Grounded' /\ LentOut' /\ Stacked' /\ Built'
<1> SUFFICES ASSUME CarrierIInv, Drain
             PROVE  Grounded' /\ LentOut' /\ Stacked' /\ Built'
  OBVIOUS
<1> USE DEF CarrierIInv
<1> DEFINE frame == [Top EXCEPT !.state = "draining"]
<1>1. stack' = ReplaceTop(frame) /\ holds' = holds /\ Top.state = "building"
  BY DEF Drain, Running
<1>2. /\ stack # <<>> /\ Top \in Frame
      /\ Len(stack) \in Nat \ {0} /\ Frames = 1..Len(stack)
  BY TopFacts DEF Grounded
<1>3. /\ frame \in Frame /\ frame.node = Top.node /\ frame.kind = Top.kind
      /\ frame.elements = Top.elements /\ frame.outputs = Top.outputs
      /\ frame.state = "draining"
  BY <1>2 DEF Frame
<1>4. /\ Frames' = Frames
      /\ \A i \in Frames : stack'[i] = IF i = Len(stack) THEN frame ELSE stack[i]
      /\ Grounded' /\ Stacked'
      /\ \A i \in Frames : CarrierOf(stack[i])' = CarrierOf(stack[i])
  BY <1>1, <1>3, ReplaceFacts
<1>5. \A i \in Frames : /\ stack'[i].node = stack[i].node
                        /\ stack'[i].elements = stack[i].elements
                        /\ stack'[i].outputs = stack[i].outputs
                        /\ (stack'[i].state = "calling") <=> (stack[i].state = "calling")
  BY <1>1, <1>2, <1>3, <1>4 DEF Top
<1>6. LentOut'
  BY <1>1, <1>4, <1>5 DEF LentOut
<1>7. Built'
  BY <1>1, <1>4, <1>5, KeepsBuilt
<1>. QED
  BY <1>4, <1>6, <1>7
\* A closure that is built gets a clone of the carrier while the query is in it.
LEMMA BuildKeeps ==
  ASSUME CarrierIInv, NEW f \in Folds, BuildElements(f) \/ BuildOutputs(f)
  PROVE  Grounded' /\ LentOut' /\ Stacked' /\ Built'
<1> USE DEF CarrierIInv
<1>1. PICK frame \in {[Top EXCEPT !.elements = @ \cup {f}],
                     [Top EXCEPT !.outputs = @ \cup {f}]}, kind \in Kind :
        /\ stack' = ReplaceTop(frame)
        /\ holds' = [holds EXCEPT ![<<f, kind>>] = holds[CarrierOf(Top)]]
        /\ \/ /\ frame = [Top EXCEPT !.elements = @ \cup {f}]
              /\ kind = "component" /\ BuildElements(f)
           \/ /\ frame = [Top EXCEPT !.outputs = @ \cup {f}]
              /\ kind = "outputs" /\ BuildOutputs(f)
  BY DEF BuildElements, BuildOutputs, Kind
<1>2. /\ stack # <<>> /\ Top \in Frame /\ CarrierOf(Top) \in Carrier
      /\ Len(stack) \in Nat \ {0} /\ Frames = 1..Len(stack)
      /\ \A i \in Frames : stack[i] \in Frame /\ CarrierOf(stack[i]) \in Carrier
      /\ Top = stack[Len(stack)] /\ Top.state = "building"
  BY TopFacts DEF Grounded, BuildElements, BuildOutputs, Running, Top
<1>3. /\ frame \in Frame /\ frame.node = Top.node /\ frame.kind = Top.kind
      /\ frame.state = Top.state
      /\ Top.elements \subseteq frame.elements /\ Top.outputs \subseteq frame.outputs
  BY <1>1, <1>2 DEF Frame
<1>4. /\ Frames' = Frames
      /\ \A i \in Frames : stack'[i] = IF i = Len(stack) THEN frame ELSE stack[i]
      /\ Grounded' /\ Stacked'
      /\ \A i \in Frames : CarrierOf(stack[i])' = CarrierOf(stack[i])
  BY <1>1, <1>3, ReplaceFacts
<1>5. f \in InnerFolds(Top.node)
  BY <1>1, <1>2 DEF BuildElements, BuildOutputs, Built
<1>6. \A i \in Frames : stack[i].node # f
  BY <1>2, <1>5, PulledRunsAboveStack
<1>7. /\ <<f, kind>> \in Carrier
      /\ \A c \in Carrier : holds'[c] = IF c = <<f, kind>> THEN "full" ELSE holds[c]
  <2>1. <<f, kind>> \in Carrier
    BY DEF Carrier, Node
  <2>2. holds[CarrierOf(Top)] = "full"
    BY <1>2 DEF LentOut
  <2>. QED
    BY <1>1, <2>1, <2>2 DEF CarrierTypeOK
<1>8. LentOut'
  <2>1. \A i \in Frames : holds'[CarrierOf(stack[i])] = holds[CarrierOf(stack[i])]
    BY <1>2, <1>6, <1>7 DEF CarrierOf
  <2>2. \A i \in Frames : stack'[i].state = stack[i].state
    BY <1>2, <1>3, <1>4
  <2>. QED
    BY <1>4, <1>7, <2>1, <2>2 DEF LentOut
<1>9. Built'
  <2> SUFFICES ASSUME NEW i \in Frames
               PROVE  /\ stack'[i].elements \subseteq InnerFolds(stack'[i].node)
                      /\ stack'[i].outputs \subseteq stack'[i].elements
                      /\ \A g \in stack'[i].elements :
                           /\ holds'[<<g, "component">>] # "absent"
                           /\ \A h \in InnerFolds(stack'[i].node) :
                                h < g => h \in stack'[i].outputs
                      /\ \A g \in stack'[i].outputs : Has(g)'
                      /\ \A g \in Upstream(stack'[i].node) : Has(g)'
    BY <1>4 DEF Built
  <2>1. /\ \A g \in Folds, k \in Kind : <<g, k>> \in Carrier
        /\ \A c \in Carrier : holds[c] # "absent" => holds'[c] # "absent"
    BY <1>7 DEF Carrier, Node
  <2>2. ASSUME NEW g \in Folds, Has(g) PROVE Has(g)'
    BY <2>1, <2>2 DEF Has
  <2>3. InnerFolds(stack[i].node) \subseteq Folds /\ Upstream(stack[i].node) \subseteq Folds
    BY DEF InnerFolds, Upstream
  <2>4. "component" \in Kind
    BY DEF Kind
  <2>5. CASE i # Len(stack)
    <3>1. stack'[i] = stack[i]
      BY <1>4, <2>5
    <3>2. /\ \A g \in stack[i].elements : g \in Folds /\ holds[<<g, "component">>] # "absent"
          /\ \A g \in stack[i].outputs \cup Upstream(stack[i].node) : g \in Folds /\ Has(g)
      BY <2>3 DEF Built
    <3>3. \A g \in stack[i].elements : holds'[<<g, "component">>] # "absent"
      BY <2>1, <2>4, <3>2
    <3>4. \A g \in stack[i].outputs \cup Upstream(stack[i].node) : Has(g)'
      BY <2>2, <3>2
    <3>. QED
      BY <3>1, <3>3, <3>4 DEF Built
  <2>6. CASE i = Len(stack)
    <3>1. stack'[i] = frame /\ stack[i] = Top
      BY <1>2, <1>4, <2>6
    <3>4. /\ Top.elements \subseteq InnerFolds(Top.node)
          /\ Top.outputs \subseteq Top.elements
          /\ \A g \in Top.elements :
               /\ holds[<<g, "component">>] # "absent"
               /\ \A h \in InnerFolds(Top.node) : h < g => h \in Top.outputs
          /\ \A g \in Top.outputs : Has(g)
          /\ \A g \in Upstream(Top.node) : Has(g)
      BY <3>1 DEF Built
    <3>5. /\ \A g \in Top.elements : holds'[<<g, "component">>] # "absent"
          /\ \A g \in Top.outputs : Has(g)'
          /\ \A g \in Upstream(frame.node) : Has(g)'
      <4>1. Top.elements \subseteq Folds /\ Top.outputs \subseteq Folds
            /\ Upstream(frame.node) \subseteq Folds
        BY <1>3, <2>3, <3>1, <3>4
      <4>2. \A g \in Top.elements : holds'[<<g, "component">>] # "absent"
        BY <2>1, <2>4, <3>4, <4>1
      <4>3. \A g \in Top.outputs \cup Upstream(frame.node) : Has(g)'
        BY <1>3, <2>2, <3>4, <4>1
      <4>. QED
        BY <4>2, <4>3
    <3>2. CASE BuildElements(f) /\ kind = "component" /\ frame = [Top EXCEPT !.elements = @ \cup {f}]
      <4>1. /\ frame.elements = Top.elements \cup {f} /\ frame.outputs = Top.outputs
            /\ holds'[<<f, "component">>] = "full"
            /\ \A g \in InnerFolds(Top.node) : g < f => g \in Top.outputs
        BY <1>2, <1>7, <3>2 DEF Frame, BuildElements
      <4>2. \A g \in frame.elements :
              /\ holds'[<<g, "component">>] # "absent"
              /\ \A h \in InnerFolds(frame.node) : h < g => h \in frame.outputs
        BY <1>3, <3>4, <3>5, <4>1
      <4>. QED
        BY <1>3, <1>5, <3>1, <3>4, <3>5, <4>1, <4>2
    <3>3. CASE BuildOutputs(f) /\ kind = "outputs" /\ frame = [Top EXCEPT !.outputs = @ \cup {f}]
      <4>1. /\ frame.outputs = Top.outputs \cup {f} /\ frame.elements = Top.elements
            /\ f \in Top.elements /\ holds'[<<f, "outputs">>] = "full"
        BY <1>2, <1>7, <3>3 DEF Frame, BuildOutputs
      <4>2. Has(f)'
        <5>1. holds'[<<f, "component">>] # "absent"
          BY <3>5, <4>1
        <5>. QED
          BY <4>1, <5>1 DEF Has, Kind
      <4>3. \A g \in frame.elements :
              /\ holds'[<<g, "component">>] # "absent"
              /\ \A h \in InnerFolds(frame.node) : h < g => h \in frame.outputs
        BY <1>3, <3>4, <3>5, <4>1
      <4>4. \A g \in frame.outputs : Has(g)'
        BY <3>5, <4>1, <4>2
      <4>. QED
        BY <1>3, <3>1, <3>4, <3>5, <4>1, <4>3, <4>4
    <3>. QED
      BY <1>1, <3>2, <3>3
  <2>. QED
    BY <2>5, <2>6
<1>. QED
  BY <1>4, <1>8, <1>9

\* A closure that is pulled finds the query in its carrier: no frame below it is
\* of its node, so none has lent it out.
LEMMA FoldKeeps ==
  ASSUME CarrierIInv, NEW f \in Folds, FoldElements(f) \/ FoldOutputs(f)
  PROVE  Grounded' /\ LentOut' /\ Stacked' /\ Built'
<1> USE DEF CarrierIInv
<1>1. PICK kind \in Kind :
        /\ stack' = Append(stack, NewFrame(f, kind)) /\ holds' = holds
        /\ \/ kind = "component" /\ f \in Top.elements \cup Upstream(Top.node)
           \/ kind = "outputs" /\ f \in Top.outputs \cup Upstream(Top.node)
  BY DEF FoldElements, FoldOutputs, Pulls, Kind
<1>2. /\ stack # <<>> /\ Top \in Frame /\ Top = stack[Len(stack)]
      /\ Len(stack) \in Nat \ {0} /\ Frames = 1..Len(stack) /\ Len(stack) \in Frames
  BY TopFacts DEF Grounded, Top
<1>3. f \in InnerFolds(Top.node) \cup Upstream(Top.node)
  BY <1>1, <1>2 DEF Built
<1>4. /\ Frames' = 1..Len(stack) + 1
      /\ \A i \in Frames : stack'[i] = stack[i]
      /\ stack'[Len(stack) + 1] = NewFrame(f, kind)
      /\ Grounded' /\ Stacked'
  BY <1>1, <1>3, PushFacts
<1>5. \A i \in Frames : stack[i].node # f
  BY <1>2, <1>3, PulledRunsAboveStack
<1>6. holds[<<f, kind>>] = "full"
  <2>1. <<f, kind>> \in Carrier
    BY DEF Carrier, Node
  <2>2. holds[<<f, kind>>] # "absent"
    BY <1>1, <1>2 DEF Built, Has
  <2>3. holds[<<f, kind>>] # "taken"
    BY <1>5, <2>1 DEF LentOut, CarrierOf
  <2>. QED
    BY <2>1, <2>2, <2>3 DEF CarrierTypeOK
<1>7. LentOut'
  <2>1. ASSUME NEW i \in Frames'
        PROVE  holds'[CarrierOf(stack[i])'] =
                 IF stack'[i].state = "calling" THEN "taken" ELSE "full"
    <3>1. CASE i \in Frames
      BY <1>1, <1>4, <3>1 DEF LentOut, CarrierOf
    <3>2. CASE i = Len(stack) + 1
      <4>1. stack'[i].node = f /\ stack'[i].kind = kind /\ stack'[i].state = "building"
        BY <1>4, <3>2 DEF NewFrame
      <4>. QED
        BY <1>1, <1>6, <4>1 DEF CarrierOf
    <3>. QED
      BY <1>2, <1>4, <3>1, <3>2
  <2>2. ASSUME NEW c \in Carrier, holds'[c] = "taken"
        PROVE  \E i \in Frames' : CarrierOf(stack[i])' = c
    <3>1. PICK i \in Frames : CarrierOf(stack[i]) = c
      BY <1>1, <2>2 DEF LentOut
    <3>2. i \in Frames' /\ CarrierOf(stack[i])' = c
      BY <1>2, <1>4, <3>1 DEF CarrierOf
    <3>. QED
      BY <3>2
  <2>. QED
    BY <2>1, <2>2 DEF LentOut
<1>8. Built'
  <2>1. \A g : Has(g)' <=> Has(g)
    BY <1>1 DEF Has
  <2>2. \A g \in Upstream(f) : Has(g)
    <3>1. Top.node \in Node
      BY <1>2 DEF Frame
    <3>2. CASE f \in InnerFolds(Top.node)
      <4>1. f \in Top.elements
        <5>1. f \notin Upstream(Top.node)
          BY <3>1, <3>2, NodeFacts DEF InnerFolds, Upstream
        <5>2. Top.outputs \subseteq Top.elements
          BY <1>2 DEF Built
        <5>. QED
          BY <1>1, <5>1, <5>2
      <4>2. ASSUME NEW g \in Upstream(f) PROVE Has(g)
        <5>1. g < f
          BY DEF Upstream
        <5>. QED
          BY <1>2, <3>1, <3>2, <4>1, <5>1, UpstreamOfInner DEF Built
      <4>. QED
        BY <4>2
    <3>3. CASE f \in Upstream(Top.node)
      BY <1>2, <3>1, <3>3, UpstreamOfUpstream DEF Built
    <3>. QED
      BY <1>3, <3>2, <3>3
  <2>3. ASSUME NEW i \in Frames'
        PROVE  /\ stack'[i].elements \subseteq InnerFolds(stack'[i].node)
               /\ stack'[i].outputs \subseteq stack'[i].elements
               /\ \A g \in stack'[i].elements :
                    /\ holds'[<<g, "component">>] # "absent"
                    /\ \A h \in InnerFolds(stack'[i].node) : h < g => h \in stack'[i].outputs
               /\ \A g \in stack'[i].outputs : Has(g)'
               /\ \A g \in Upstream(stack'[i].node) : Has(g)'
    <3>1. CASE i \in Frames
      BY <1>1, <1>4, <2>1, <3>1 DEF Built
    <3>2. CASE i = Len(stack) + 1
      <4>1. stack'[i].node = f /\ stack'[i].elements = {} /\ stack'[i].outputs = {}
        BY <1>4, <3>2 DEF NewFrame
      <4>. QED
        BY <2>1, <2>2, <4>1
    <3>. QED
      BY <1>2, <1>4, <3>1, <3>2
  <2>. QED
    BY <2>3 DEF Built
<1>. QED
  BY <1>4, <1>7, <1>8

\* A closure that returns holds its query again.
LEMMA LeaveKeeps == CarrierIInv /\ LeaveClosure => Grounded' /\ LentOut' /\ Stacked' /\ Built'
<1> SUFFICES ASSUME CarrierIInv, LeaveClosure
             PROVE  Grounded' /\ LentOut' /\ Stacked' /\ Built'
  OBVIOUS
<1> USE DEF CarrierIInv
<1>1. /\ Frames = 1..Len(stack) /\ Frames' = 1..Len(stack) - 1
      /\ \A i \in Frames' : stack'[i] = stack[i]
      /\ Grounded' /\ Stacked' /\ holds' = holds
  BY PopFacts DEF LeaveClosure
<1>2. Len(stack) \in Nat \ {0} /\ Top = stack[Len(stack)] /\ Top.state # "calling"
  BY TopFacts DEF LeaveClosure, Running, Top
<1>3. LentOut'
  <2>1. \A i \in Frames' : CarrierOf(stack[i])' = CarrierOf(stack[i]) /\ i \in Frames
    BY <1>1, <1>2 DEF CarrierOf
  <2>2. ASSUME NEW c \in Carrier, holds'[c] = "taken"
        PROVE  \E i \in Frames' : CarrierOf(stack[i])' = c
    <3>1. PICK i \in Frames : CarrierOf(stack[i]) = c
      BY <1>1, <2>2 DEF LentOut
    <3>2. i # Len(stack)
      BY <1>1, <1>2, <2>2, <3>1 DEF LentOut
    <3>3. i \in Frames'
      BY <1>1, <1>2, <3>1, <3>2
    <3>. QED
      BY <2>1, <3>1, <3>3
  <2>3. \A i \in Frames' : holds'[CarrierOf(stack[i])'] =
                 IF stack'[i].state = "calling" THEN "taken" ELSE "full"
    BY <1>1, <2>1 DEF LentOut
  <2>. QED
    BY <2>2, <2>3 DEF LentOut
<1>4. Built'
  <2>1. \A i \in Frames' : i \in Frames /\ stack'[i] = stack[i]
    BY <1>1, <1>2
  <2>2. \A g : Has(g)' <=> Has(g)
    BY <1>1 DEF Has
  <2>. QED
    BY <1>1, <2>1, <2>2 DEF Built
<1>. QED
  BY <1>1, <1>3, <1>4

\* The invariant holds when the root component begins.
LEMMA InitCarrierIInv == CarrierInit => CarrierIInv
<1> SUFFICES ASSUME CarrierInit PROVE CarrierIInv
  OBVIOUS
<1>1. /\ stack = <<NewFrame(Root, "component")>> /\ Frames = {1}
      /\ stack[1].node = Root /\ stack[1].kind = "component" /\ stack[1].state = "building"
      /\ stack[1].elements = {} /\ stack[1].outputs = {}
  BY DEF CarrierInit, NewFrame, Frames
<1>2. stack # <<>>
  BY <1>1
<1>3. /\ CarrierOf(stack[1]) = <<Root, "component">> /\ <<Root, "component">> \in Carrier
      /\ \A c \in Carrier : holds[c] = IF c = <<Root, "component">> THEN "full" ELSE "absent"
  BY <1>1 DEF CarrierInit, CarrierOf, Carrier, Node, Kind
<1>4. LentOut
  BY <1>1, <1>3 DEF LentOut
<1>5. Stacked
  BY <1>1 DEF Stacked
<1>6. Upstream(Root) = {}
  BY NodeAssumption DEF Upstream, Root, Node
<1>7. Built
  BY <1>1, <1>6 DEF Built
<1>. QED
  BY <1>1, <1>2, <1>4, <1>5, <1>7, InitCarrierTypeOK DEF CarrierIInv, Grounded

\* Every step keeps the invariant.
LEMMA NextCarrierIInv == CarrierIInv /\ [CarrierNext]_carrierVars => CarrierIInv'
<1> SUFFICES ASSUME CarrierIInv, [CarrierNext]_carrierVars PROVE CarrierIInv'
  OBVIOUS
<1>1. CarrierTypeOK'
  BY NextCarrierTypeOK DEF CarrierIInv
<1>2. CASE Call \/ ResolverReturns
  BY <1>1, <1>2, CallReturnKeep DEF CarrierIInv
<1>3. CASE Drain
  BY <1>1, <1>3, DrainKeeps DEF CarrierIInv
<1>4. CASE LeaveClosure
  BY <1>1, <1>4, LeaveKeeps DEF CarrierIInv
<1>5. ASSUME NEW f \in Folds, BuildElements(f) \/ BuildOutputs(f) PROVE CarrierIInv'
  BY <1>1, <1>5, BuildKeeps DEF CarrierIInv
<1>6. ASSUME NEW f \in Folds, FoldElements(f) \/ FoldOutputs(f) PROVE CarrierIInv'
  BY <1>1, <1>6, FoldKeeps DEF CarrierIInv
<1>7. CASE UNCHANGED carrierVars
  BY <1>1, <1>7 DEF CarrierIInv, carrierVars, Grounded, LentOut, Stacked, Built, Has, Frames, CarrierOf
<1>. QED
  BY <1>2, <1>3, <1>4, <1>5, <1>6, <1>7 DEF CarrierNext

-----------------------------------------------------------------------------
\* "query was not returned" cannot be reached: for every nesting of folds and
\* everything an adapter pulls inside its calls, code that builds a chain finds
\* the query in its carrier.
THEOREM QueryAlwaysReturned == CarrierSpec => []QueryReturned
<1>1. CarrierIInv => QueryReturned
  <2> SUFFICES ASSUME CarrierIInv, Top.state = "building" PROVE holds[CarrierOf(Top)] = "full"
    BY DEF QueryReturned
  <2>1. Len(stack) \in Frames /\ Top = stack[Len(stack)]
    BY TopFacts DEF CarrierIInv, Grounded, Top
  <2>. QED
    BY <2>1 DEF CarrierIInv, LentOut
<1>. QED
  BY <1>1, InitCarrierIInv, NextCarrierIInv, PTL DEF CarrierSpec
=============================================================================
