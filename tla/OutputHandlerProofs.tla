------------------------- MODULE OutputHandlerProofs --------------------------
(***************************************************************************)
(* Whatever the query, and whatever errors make_query_component returns    *)
(* early with, OutputHandler::finish finds both of its stacks empty; a     *)
(* query is accepted if, and only if, it has no other error and all names  *)
(* of its outputs differ; and its components and folds get the outputs of  *)
(* their own, all of them.                                                 *)
(*                                                                         *)
(* The second half goes by what the query alone says: which edges are open *)
(* after each field (Opened), the vertex that each opens (Vids), and the   *)
(* outputs up to each field.  As long as no component has an error, every  *)
(* variable is what these say it is (Exact); once one has, the query has.  *)
(***************************************************************************)
EXTENDS OutputHandler, FiniteSetTheorems, SequenceTheorems, TLAPS

\* The indices and elements of a sequence.
LEMMA SeqFacts ==
  ASSUME NEW S, NEW s \in Seq(S)
  PROVE  /\ Len(s) \in Nat
         /\ DOMAIN s = 1..Len(s)
         /\ \A i \in DOMAIN s : s[i] \in S
         /\ s # << >> => 1 \in DOMAIN s /\ Len(s) \in DOMAIN s /\ Len(s) > 0
<1>1. Len(s) \in Nat /\ DOMAIN s = 1..Len(s)
  OBVIOUS
<1>2. \A i \in 1..Len(s) : s[i] \in S
  BY ElementOfSeq
<1>3. s # << >> => Len(s) # 0
  BY EmptySeq
<1> QED BY <1>1, <1>2, <1>3

\* AllButLast takes the last element away, if there is one, and leaves the others.
LEMMA AllButLastFacts ==
  ASSUME NEW S, NEW s \in Seq(S)
  PROVE  /\ AllButLast(s) \in Seq(S)
         /\ s # << >> => Len(AllButLast(s)) = Len(s) - 1
         /\ \A i \in DOMAIN AllButLast(s) : i \in DOMAIN s /\ AllButLast(s)[i] = s[i]
<1>1. CASE s = << >>
  <2>1. AllButLast(s) = SubSeq(<< >>, 1, -1)
    BY <1>1 DEF AllButLast
  <2>2. SubSeq(<< >>, 1, -1) = << >>
    OBVIOUS
  <2> QED BY <1>1, <2>1, <2>2
<1>2. CASE s # << >>
  <2>1. Len(s) \in Nat /\ Len(s) > 0 /\ DOMAIN s = 1..Len(s)
    BY <1>2, SeqFacts
  <2> QED BY <2>1, SubSeqProperties DEF AllButLast
<1> QED BY <1>1, <1>2

-----------------------------------------------------------------------------
(* The inductive invariant.                                                *)

ComponentRecord == [root : Vid, vertices : SUBSET Vid, failed : BOOLEAN]

SomeFailed(cs) == \E i \in DOMAIN cs : cs[i].failed

\* The part of the state the assertions depend on.  What is in the outputs does
\* not matter, only that they are stacked.
Shape ==
  /\ components \in Seq(ComponentRecord) /\ components # << >>
  /\ components[1].root = RootVid
  /\ vidStack \in Seq(Vid) /\ \A i \in DOMAIN vidStack : vidStack[i] > RootVid
  /\ nextVid \in Vid /\ nextVid > RootVid
  /\ \E S : componentOutputs \in Seq(S)

Finished == phase = "finish" => vidStack = << >> /\ componentOutputs = << >>

\* LeftOnlyByErrors says that an error is marked for what was left; that finish()
\* finds nothing left follows at the step that makes the root component.
IInv == Shape /\ LeftOnlyByErrors /\ Finished

\* The components have been marked at most, with everything else as it is.
Marked(cs) ==
  /\ cs \in Seq(ComponentRecord) /\ cs # << >> /\ Len(cs) = Len(components)
  /\ cs[1].root = RootVid
  /\ SomeFailed(components) => SomeFailed(cs)

\* Putting a record of the same root in the last place, that keeps its error.
LEMMA ReplaceLast ==
  ASSUME Shape, NEW c \in ComponentRecord, c.root = Component.root,
         Component.failed => c.failed,
         NEW cs, cs = [components EXCEPT ![Len(components)] = c]
  PROVE  Marked(cs) /\ (c.failed => SomeFailed(cs))
<1> DEFINE n == Len(components)
<1>1. /\ components \in Seq(ComponentRecord) /\ n \in Nat /\ n > 0
      /\ DOMAIN components = 1..n /\ Component = components[n]
  BY SeqFacts DEF Shape, Component, Last
<1>2. /\ cs \in Seq(ComponentRecord) /\ Len(cs) = n
      /\ \A j \in 1..n : cs[j] = IF j = n THEN c ELSE components[j]
  BY <1>1, ExceptSeq
<1>3. DOMAIN cs = 1..n /\ cs # << >>
  BY <1>1, <1>2, SeqFacts, EmptySeq
<1>4. cs[1].root = RootVid
  BY <1>1, <1>2 DEF Shape
<1>5. SomeFailed(components) => SomeFailed(cs)
  BY <1>1, <1>2, <1>3 DEF SomeFailed
<1>6. c.failed => SomeFailed(cs)
  BY <1>1, <1>2, <1>3 DEF SomeFailed
<1> QED BY <1>2, <1>3, <1>4, <1>5, <1>6 DEF Marked

\* Failing marks the component being made.
LEMMA FailingMarks ==
  ASSUME Shape
  PROVE  Marked(Failing) /\ SomeFailed(Failing)
<1> DEFINE n == Len(components)
<1> DEFINE c == [components[n] EXCEPT !.failed = TRUE]
<1>1. components[n] \in ComponentRecord /\ Component = components[n]
  BY SeqFacts DEF Shape, Component, Last
<1>2. c \in ComponentRecord /\ c.root = Component.root /\ c.failed = TRUE
  BY <1>1 DEF ComponentRecord
<1>3. Failing = [components EXCEPT ![n] = c]
  BY SeqFacts DEF Shape, Failing
<1> HIDE DEF c
<1> QED BY <1>2, <1>3, ReplaceLast

\* Registering an output leaves the stack as high as it is.
LEMMA RegisterKeeps ==
  ASSUME Shape, NEW o, RegisterOutput(o)
  PROVE  (\E S : componentOutputs' \in Seq(S)) /\ Len(componentOutputs') = Len(componentOutputs)
<1> DEFINE n == Len(componentOutputs)
<1> DEFINE x == Append(componentOutputs[n], o)
<1>1. PICK S : componentOutputs \in Seq(S)
  BY DEF Shape
<1>2. componentOutputs \in Seq(S \cup {x})
  BY <1>1, SeqMonotonic
<1>3. n \in Nat /\ DOMAIN componentOutputs = 1..n
  BY <1>1, SeqFacts
<1>4. componentOutputs' = [componentOutputs EXCEPT ![n] = x]
  BY DEF RegisterOutput
<1> HIDE DEF x
<1>5. CASE n = 0
  <2>1. componentOutputs' = componentOutputs
    BY <1>2, <1>3, <1>4, <1>5
  <2> QED BY <1>1, <2>1
<1>6. CASE n # 0
  <2>1. componentOutputs' \in Seq(S \cup {x}) /\ Len(componentOutputs') = n
    BY <1>2, <1>3, <1>4, <1>6, ExceptSeq
  <2> QED BY <2>1
<1> QED BY <1>5, <1>6

\* The invariant holds when the handler begins.
LEMMA InitInv == Init => IInv
<1> SUFFICES ASSUME Init PROVE IInv
  OBVIOUS
<1>1. Begun(RootVid) \in ComponentRecord /\ Begun(RootVid).root = RootVid
  BY DEF Begun, ComponentRecord, RootVid, Vid
<1>2. /\ components \in Seq(ComponentRecord) /\ components # << >> /\ Len(components) = 1
      /\ components[1].root = RootVid
  BY <1>1 DEF Init
<1>3. vidStack \in Seq(Vid) /\ DOMAIN vidStack = {}
  BY DEF Init
<1>4. componentOutputs \in Seq({<< >>}) /\ Len(componentOutputs) = 1
  BY DEF Init
<1>5. nextVid \in Vid /\ nextVid > RootVid
  BY DEF Init, RootVid, Vid
<1>6. \E S : componentOutputs \in Seq(S)
  BY <1>4
<1>7. Shape
  BY <1>2, <1>3, <1>5, <1>6 DEF Shape
<1>8. phase = "fill"
  BY DEF Init
<1>9. LeftOnlyByErrors /\ Finished
  BY <1>2, <1>4, <1>8 DEF LeftOnlyByErrors, Finished
<1> QED BY <1>7, <1>9 DEF IInv

\* The vertex ids handed out go up.
LEMMA NextVidAfter ==
  ASSUME NEW v \in Vid, v > RootVid
  PROVE  v + 1 \in Vid /\ v + 1 > RootVid
<1>1. v \in Nat /\ v > 1
  BY DEF Vid, RootVid
<1>2. v + 1 \in Nat /\ v + 1 # 0 /\ v + 1 > 1
  BY <1>1
<1> QED BY <1>2 DEF Vid, RootVid

\* Marking at most, with both stacks as high as they are.
LEMMA MarkingKeeps ==
  ASSUME IInv, Marked(components'), phase \in {"fill", "counts"},
         vidStack' \in Seq(Vid), (\A i \in DOMAIN vidStack : vidStack[i] > RootVid)',
         nextVid' \in {nextVid, nextVid + 1},
         \E S : componentOutputs' \in Seq(S), Len(componentOutputs') = Len(componentOutputs),
         phase' \notin {"finish", "assertion failed"}
  PROVE  IInv'
<1>1. components' # << >> /\ Len(components') = Len(components) /\ Len(components) \in Nat
  BY SeqFacts DEF Marked, IInv, Shape
<1>2. Shape'
  <2>1. nextVid' \in Vid /\ nextVid' > RootVid
    <3>1. nextVid \in Vid /\ nextVid > RootVid
      BY DEF IInv, Shape
    <3>2. nextVid + 1 \in Vid /\ nextVid + 1 > RootVid
      BY <3>1, NextVidAfter
    <3> QED BY <3>1, <3>2
  <2>2. components' \in Seq(ComponentRecord) /\ components' # << >> /\ components'[1].root = RootVid
    BY DEF Marked
  <2> QED BY <2>1, <2>2 DEF Shape
<1>3. Len(componentOutputs) >= Len(components)
      /\ (Len(componentOutputs) > Len(components) => SomeFailed(components))
  BY DEF IInv, LeftOnlyByErrors, SomeFailed
<1>4. SomeFailed(components) => \E i \in DOMAIN components' : components'[i].failed
  BY DEF Marked, SomeFailed
<1> QED BY <1>1, <1>2, <1>3, <1>4 DEF IInv, LeftOnlyByErrors, Finished

\* The vertex ids on the stack are those handed out.
LEMMA PushVid ==
  ASSUME Shape, BeginNestedScope
  PROVE  /\ vidStack' \in Seq(Vid) /\ (\A i \in DOMAIN vidStack : vidStack[i] > RootVid)'
         /\ nextVid' = nextVid + 1
<1>1. /\ vidStack' \in Seq(Vid) /\ Len(vidStack') = Len(vidStack) + 1 /\ Len(vidStack) \in Nat
      /\ \A i \in 1..Len(vidStack) : vidStack'[i] = vidStack[i]
      /\ vidStack'[Len(vidStack) + 1] = nextVid
  BY AppendProperties, SeqFacts DEF Shape, BeginNestedScope
<1>2. DOMAIN vidStack' = 1..(Len(vidStack) + 1) /\ DOMAIN vidStack = 1..Len(vidStack)
  BY <1>1, SeqFacts DEF Shape
<1>3. ASSUME NEW i \in DOMAIN vidStack' PROVE vidStack'[i] > RootVid
  BY <1>1, <1>2 DEF Shape
<1> QED BY <1>1, <1>3 DEF BeginNestedScope

\* Leaving a vertex or a fold leaves a stack of vertices below the root.
LEMMA PopVid ==
  ASSUME Shape, EndNestedScope
  PROVE  vidStack' \in Seq(Vid) /\ (\A i \in DOMAIN vidStack : vidStack[i] > RootVid)'
BY AllButLastFacts DEF Shape, EndNestedScope

\* Components that are not marked are marked as they are.
LEMMA MarkedAsIs == ASSUME Shape PROVE Marked(components)
BY DEF Shape, Marked

\* Taking the last component away: those around it stay as they are.
LEMMA DropLast ==
  ASSUME Shape, Len(components) # 1
  PROVE  /\ AllButLast(components) \in Seq(ComponentRecord)
         /\ Len(AllButLast(components)) = Len(components) - 1
         /\ Len(components) \in Nat /\ Len(components) > 1
         /\ AllButLast(components)[1].root = RootVid
         /\ SomeFailed(components) => Component.failed \/ SomeFailed(AllButLast(components))
<1> DEFINE n == Len(components)
<1> DEFINE cs == AllButLast(components)
<1>1. n \in Nat /\ n > 1 /\ DOMAIN components = 1..n /\ Component = components[n]
  <2>1. components \in Seq(ComponentRecord) /\ components # << >>
    BY DEF Shape
  <2>2. n \in Nat /\ DOMAIN components = 1..n /\ n > 0
    BY <2>1, SeqFacts
  <2>3. Component = components[n]
    BY DEF Component, Last
  <2> QED BY <2>2, <2>3
<1>2. /\ cs \in Seq(ComponentRecord) /\ Len(cs) = n - 1
      /\ \A i \in DOMAIN cs : cs[i] = components[i]
  BY AllButLastFacts DEF Shape
<1>3. DOMAIN cs = 1..(n - 1)
  BY <1>2, SeqFacts
<1>4. cs[1].root = RootVid
  BY <1>1, <1>2, <1>3 DEF Shape
<1>5. SomeFailed(components) => Component.failed \/ SomeFailed(cs)
  <2> SUFFICES ASSUME NEW i \in DOMAIN components, components[i].failed
               PROVE  Component.failed \/ SomeFailed(cs)
    BY DEF SomeFailed
  <2>1. CASE i = n
    BY <2>1, <1>1
  <2>2. CASE i # n
    <3>1. i \in DOMAIN cs
      BY <2>2, <1>1, <1>3
    <3> QED BY <3>1, <1>2 DEF SomeFailed
  <2> QED BY <2>1, <2>2
<1> QED BY <1>1, <1>2, <1>4, <1>5

\* Returning with errors: the component around has one now, or the query is rejected.
LEMMA ReturnErrorsMarks ==
  ASSUME Shape, ReturnErrors
  PROVE  \/ phase' = "rejected" /\ UNCHANGED <<components, vidStack>>
         \/ /\ phase' = phase /\ EndNestedScope /\ Len(components) > 1
            /\ components' \in Seq(ComponentRecord) /\ components' # << >>
            /\ Len(components') = Len(components) - 1
            /\ components'[1].root = RootVid
            /\ SomeFailed(components')
<1> SUFFICES ASSUME Len(components) # 1
             PROVE  /\ phase' = phase /\ EndNestedScope /\ Len(components) > 1
                    /\ components' \in Seq(ComponentRecord) /\ components' # << >>
                    /\ Len(components') = Len(components) - 1
                    /\ components'[1].root = RootVid
                    /\ SomeFailed(components')
  BY DEF ReturnErrors
<1> DEFINE n == Len(components) - 1
<1> DEFINE cs == AllButLast(components)
<1>1. /\ phase' = phase /\ EndNestedScope
      /\ components' = [cs EXCEPT ![n] = [cs[n] EXCEPT !.failed = TRUE]]
  BY DEF ReturnErrors
<1>2. /\ cs \in Seq(ComponentRecord) /\ Len(cs) = n /\ n \in Nat /\ n > 0
      /\ Len(components) > 1 /\ cs[1].root = RootVid
  BY DropLast
<1> HIDE DEF n, cs
<1>3. DOMAIN cs = 1..n /\ cs[n] \in ComponentRecord
  BY <1>2, SeqFacts
<1> DEFINE c == [cs[n] EXCEPT !.failed = TRUE]
<1>4. c \in ComponentRecord /\ c.root = cs[n].root /\ c.failed = TRUE
  BY <1>3 DEF ComponentRecord
<1> HIDE DEF c
<1>5. components' = [cs EXCEPT ![n] = c]
  BY <1>1 DEF c
<1>6. /\ components' \in Seq(ComponentRecord) /\ Len(components') = n
      /\ \A j \in 1..n : components'[j] = IF j = n THEN c ELSE cs[j]
  BY <1>2, <1>3, <1>4, <1>5, ExceptSeq
<1>7. DOMAIN components' = 1..n /\ components' # << >>
  BY <1>2, <1>6, SeqFacts, EmptySeq
<1>8. components'[1].root = RootVid
  BY <1>2, <1>4, <1>6
<1>9. SomeFailed(components')
  BY <1>2, <1>4, <1>6, <1>7 DEF SomeFailed
<1> QED BY <1>1, <1>2, <1>6, <1>7, <1>8, <1>9 DEF n

\* Every action keeps the invariant.
LEMMA NextInv == IInv /\ [Next]_vars => IInv'
<1> SUFFICES ASSUME IInv, [Next]_vars PROVE IInv'
  OBVIOUS
<1>1. Shape
  BY DEF IInv
<1>2. ASSUME phase' \notin {"fill", "counts", "finish", "assertion failed"}, Shape' PROVE IInv'
  BY <1>2 DEF IInv, LeftOnlyByErrors, Finished
<1>3. CASE VisitEdge
  <2> DEFINE c == [Component EXCEPT !.vertices = @ \cup {nextVid},
                                    !.failed = @ \/ query[at].error # "none"]
  <2>1. Component \in ComponentRecord /\ Component = components[Len(components)]
    BY <1>1, SeqFacts DEF Shape, Component, Last
  <2>2. nextVid \in Vid
    BY <1>1 DEF Shape
  <2>3. c \in ComponentRecord /\ c.root = Component.root /\ (Component.failed => c.failed)
    BY <2>1, <2>2 DEF ComponentRecord
  <2>4. components' = [components EXCEPT ![Len(components)] = c]
    BY <1>3 DEF VisitEdge
  <2> HIDE DEF c
  <2>5. Marked(components')
    BY <1>1, <2>3, <2>4, ReplaceLast
  <2>6. BeginNestedScope /\ phase = "fill" /\ UNCHANGED <<componentOutputs, phase>>
    BY <1>3 DEF VisitEdge, Field
  <2>7. \E S : componentOutputs' \in Seq(S)
    BY <1>1, <2>6 DEF Shape
  <2> QED BY <1>1, <2>5, <2>6, <2>7, PushVid, MarkingKeeps
<1>4. CASE SkipFold
  <2>1. /\ components' = Failing /\ nextVid' = nextVid + 1 /\ phase = "fill"
        /\ UNCHANGED <<vidStack, componentOutputs, phase>>
    BY <1>4 DEF SkipFold, Field
  <2>2. Marked(components')
    BY <1>1, <2>1, FailingMarks
  <2>3. /\ \E S : componentOutputs' \in Seq(S)
        /\ vidStack' \in Seq(Vid) /\ (\A i \in DOMAIN vidStack : vidStack[i] > RootVid)'
    BY <1>1, <2>1 DEF Shape
  <2> QED BY <2>1, <2>2, <2>3, MarkingKeeps
<1>5. ASSUME NEW o, RegisterOutput(o), phase \in {"fill", "counts"},
             UNCHANGED <<nextVid, components, vidStack, phase>>
      PROVE  IInv'
  <2>1. (\E S : componentOutputs' \in Seq(S)) /\ Len(componentOutputs') = Len(componentOutputs)
    BY <1>1, <1>5, RegisterKeeps
  <2>2. Marked(components')
    BY <1>1, <1>5, MarkedAsIs
  <2>3. vidStack' \in Seq(Vid) /\ (\A i \in DOMAIN vidStack : vidStack[i] > RootVid)'
    BY <1>1, <1>5 DEF Shape
  <2> QED BY <1>5, <2>1, <2>2, <2>3, MarkingKeeps
<1>6. CASE OutputProperty
  BY <1>5, <1>6 DEF OutputProperty, Field
<1>7. CASE OutputCount
  BY <1>5, <1>7 DEF OutputCount
<1>8. CASE CloseVertex
  <2>1. /\ EndNestedScope /\ phase = "fill"
        /\ UNCHANGED <<nextVid, components, componentOutputs, phase>>
    BY <1>8 DEF CloseVertex, Field
  <2>2. Marked(components')
    BY <1>1, <2>1, MarkedAsIs
  <2>3. \E S : componentOutputs' \in Seq(S)
    BY <1>1, <2>1 DEF Shape
  <2> QED BY <1>1, <2>1, <2>2, <2>3, PopVid, MarkingKeeps
<1>9. CASE EndFold
  <2>1. /\ components' = Failing \/ components' = components
        /\ EndNestedScope /\ phase = "counts" /\ phase' = "fill"
        /\ UNCHANGED <<nextVid, componentOutputs>>
    BY <1>9 DEF EndFold
  <2>2. Marked(components')
    BY <1>1, <2>1, MarkedAsIs, FailingMarks
  <2>3. \E S : componentOutputs' \in Seq(S)
    BY <1>1, <2>1 DEF Shape
  <2> QED BY <1>1, <2>1, <2>2, <2>3, PopVid, MarkingKeeps
<1>10. CASE BeginFold
  <2> DEFINE base == IF query[at].error = "outside" THEN Failing ELSE components
  <2> DEFINE c == [Begun(nextVid) EXCEPT !.failed = query[at].error = "inside"]
  <2>1. /\ components' = Append(base, c) /\ componentOutputs' = Append(componentOutputs, << >>)
        /\ BeginNestedScope /\ phase = "fill" /\ phase' = "fill"
    BY <1>10 DEF BeginFold, Field
  <2>2. Marked(base)
    BY <1>1, MarkedAsIs, FailingMarks
  <2>3. nextVid \in Vid
    BY <1>1 DEF Shape
  <2>4. c \in ComponentRecord
    BY <2>3 DEF Begun, ComponentRecord
  <2> HIDE DEF base, c
  <2>5. /\ base \in Seq(ComponentRecord) /\ base # << >> /\ Len(base) = Len(components)
        /\ base[1].root = RootVid
        /\ SomeFailed(components) => SomeFailed(base)
    BY <2>2 DEF Marked
  <2>6. Len(base) \in Nat /\ Len(base) > 0 /\ DOMAIN base = 1..Len(base)
    BY <2>5, SeqFacts
  <2>7. /\ components' \in Seq(ComponentRecord) /\ components' # << >>
        /\ Len(components') = Len(base) + 1
        /\ \A i \in 1..Len(base) : components'[i] = base[i]
    BY <2>1, <2>4, <2>5, AppendProperties, SMTT(30)
  <2>8. DOMAIN components' = 1..(Len(base) + 1)
    BY <2>7, SeqFacts
  <2>9. components'[1].root = RootVid
    BY <2>5, <2>6, <2>7
  <2>10. SomeFailed(components) => \E i \in DOMAIN components' : components'[i].failed
    BY <2>5, <2>6, <2>7, <2>8 DEF SomeFailed
  <2>11. PICK S : componentOutputs \in Seq(S)
    BY <1>1 DEF Shape
  <2>12. componentOutputs \in Seq(S \cup {<< >>}) /\ Len(componentOutputs) \in Nat
    BY <2>11, SeqMonotonic, SeqFacts
  <2>13. /\ componentOutputs' \in Seq(S \cup {<< >>})
         /\ Len(componentOutputs') = Len(componentOutputs) + 1
    BY <2>1, <2>12, AppendProperties
  <2>14. vidStack' \in Seq(Vid) /\ (\A i \in DOMAIN vidStack : vidStack[i] > RootVid)'
    BY <1>1, <2>1, PushVid
  <2>15. nextVid' \in Vid /\ nextVid' > RootVid
    BY <1>1, <2>1, PushVid, NextVidAfter DEF Shape
  <2>16. \E T : componentOutputs' \in Seq(T)
    BY <2>13
  <2>17. Shape'
    BY <2>7, <2>9, <2>14, <2>15, <2>16 DEF Shape
  <2>18. /\ Len(componentOutputs) >= Len(components)
         /\ Len(componentOutputs) > Len(components) => SomeFailed(components)
    BY <2>1 DEF IInv, LeftOnlyByErrors, SomeFailed
  <2>19. LeftOnlyByErrors' /\ Finished'
    BY <2>1, <2>5, <2>6, <2>7, <2>10, <2>12, <2>13, <2>18 DEF LeftOnlyByErrors, Finished
  <2> QED BY <2>17, <2>19 DEF IInv
\* What follows takes components away.
<1>11. \E S : componentOutputs \in Seq(S)
  BY <1>1 DEF Shape
<1>12. /\ Len(componentOutputs) \in Nat /\ Len(components) \in Nat /\ Len(components) > 0
       /\ phase \in {"fill", "counts"} =>
            /\ Len(componentOutputs) >= Len(components)
            /\ Len(componentOutputs) > Len(components) => SomeFailed(components)
  <2>1. Len(componentOutputs) \in Nat
    BY <1>11, SeqFacts
  <2>2. Len(components) \in Nat /\ Len(components) > 0
    BY <1>1, SeqFacts DEF Shape
  <2> QED BY <2>1, <2>2 DEF IInv, LeftOnlyByErrors, SomeFailed
<1>13. phase = "fill" => /\ Len(componentOutputs) > 0
                         /\ ~ SomeFailed(components) => Len(componentOutputs) = Len(components)
  BY <1>12
<1>14. ASSUME Len(componentOutputs) > 0, componentOutputs' = AllButLast(componentOutputs)
       PROVE  /\ \E S : componentOutputs' \in Seq(S)
              /\ Len(componentOutputs') = Len(componentOutputs) - 1
  <2>1. PICK S : componentOutputs \in Seq(S)
    BY <1>11
  <2>2. componentOutputs # << >>
    BY <1>14, EmptySeq
  <2>3. componentOutputs' \in Seq(S) /\ Len(componentOutputs') = Len(componentOutputs) - 1
    BY <1>14, <2>1, <2>2, AllButLastFacts
  <2> QED BY <2>3
<1>15. ASSUME phase = "fill", ReturnErrors, nextVid' = nextVid,
              \E S : componentOutputs' \in Seq(S),
              Len(componentOutputs') \in {Len(componentOutputs), Len(componentOutputs) - 1}
       PROVE  IInv'
  <2>1. CASE phase' = "rejected" /\ UNCHANGED <<components, vidStack>>
    <3>1. Shape'
      BY <1>1, <1>15, <2>1 DEF Shape
    <3> QED BY <1>2, <2>1, <3>1
  <2>2. CASE /\ phase' = phase /\ EndNestedScope /\ Len(components) > 1
             /\ components' \in Seq(ComponentRecord) /\ components' # << >>
             /\ Len(components') = Len(components) - 1
             /\ components'[1].root = RootVid
             /\ SomeFailed(components')
    <3>1. vidStack' \in Seq(Vid) /\ (\A i \in DOMAIN vidStack : vidStack[i] > RootVid)'
      BY <1>1, <2>2, PopVid
    <3>2. nextVid' \in Vid /\ nextVid' > RootVid
      BY <1>1, <1>15 DEF Shape
    <3>3. Shape'
      BY <1>15, <2>2, <3>1, <3>2 DEF Shape
    <3>4. Len(componentOutputs') >= Len(components')
      BY <1>12, <1>15, <2>2
    <3>5. \E i \in DOMAIN components' : components'[i].failed
      BY <2>2 DEF SomeFailed
    <3>6. LeftOnlyByErrors' /\ Finished'
      BY <1>15, <2>2, <3>4, <3>5 DEF LeftOnlyByErrors, Finished
    <3> QED BY <3>3, <3>6 DEF IInv
  <2> QED BY <1>1, <1>15, <2>1, <2>2, ReturnErrorsMarks
<1>16. CASE AbandonComponent
  <2>1. phase = "fill" /\ ReturnErrors /\ UNCHANGED <<nextVid, componentOutputs>>
    BY <1>16 DEF AbandonComponent, Filled, Field
  <2> QED BY <1>11, <1>15, <1>12, <2>1
<1>17. CASE RejectDuplicates
  <2>1. /\ phase = "fill" /\ componentOutputs' = AllButLast(componentOutputs) /\ nextVid' = nextVid
        /\ ReturnErrors \/ (phase' = "lookup failed" /\ UNCHANGED <<components, vidStack>>)
    BY <1>17 DEF RejectDuplicates, Filled, Field
  <2>2. /\ \E S : componentOutputs' \in Seq(S)
        /\ Len(componentOutputs') = Len(componentOutputs) - 1
    <3>1. Len(componentOutputs) > 0
      BY <1>13, <2>1
    <3> QED BY <1>14, <2>1, <3>1
  <2>3. CASE ReturnErrors
    BY <1>15, <2>1, <2>2, <2>3
  <2>4. CASE phase' = "lookup failed" /\ UNCHANGED <<components, vidStack>>
    <3>1. Shape'
      BY <1>1, <2>1, <2>2, <2>4 DEF Shape
    <3> QED BY <1>2, <2>4, <3>1
  <2> QED BY <2>1, <2>3, <2>4
<1>18. CASE EndComponent
  <2>1. /\ phase = "fill" /\ OpenVid = Component.root /\ ~ Component.failed
        /\ componentOutputs' = AllButLast(componentOutputs) /\ UNCHANGED <<nextVid, vidStack>>
        /\ IF Len(components) = 1 THEN phase' = "finish" /\ components' = components
           ELSE phase' = "counts" /\ components' = AllButLast(components)
    BY <1>18 DEF EndComponent, Filled, Field
  <2>2. /\ \E S : componentOutputs' \in Seq(S)
        /\ Len(componentOutputs') = Len(componentOutputs) - 1
    <3>1. Len(componentOutputs) > 0
      BY <1>13, <2>1
    <3> QED BY <1>14, <2>1, <3>1
  <2>3. CASE Len(components) = 1
    <3>1. components[1] = Component /\ DOMAIN components = 1..1
      BY <1>1, <2>3, SeqFacts DEF Component, Last, Shape
    <3>2. Len(componentOutputs) = 1
      <4>1. ~ SomeFailed(components)
        BY <2>1, <3>1 DEF SomeFailed
      <4>2. Len(componentOutputs) = Len(components)
        BY <1>13, <2>1, <4>1
      <4> QED BY <2>3, <4>2
    <3>3. componentOutputs' = << >>
      BY <2>2, <3>2, EmptySeq
    <3>4. OpenVid = RootVid
      BY <1>1, <2>1, <3>1 DEF Shape
    <3>5. vidStack = << >>
      <4> SUFFICES ASSUME vidStack # << >> PROVE FALSE
        OBVIOUS
      <4>1. Len(vidStack) \in DOMAIN vidStack /\ OpenVid = vidStack[Len(vidStack)]
        BY <1>1, SeqFacts DEF Shape, OpenVid, Last
      <4>2. RootVid > RootVid
        BY <1>1, <3>4, <4>1 DEF Shape
      <4> QED BY <4>2 DEF RootVid
    <3>6. Shape'
      BY <1>1, <2>1, <2>2, <2>3 DEF Shape
    <3>7. LeftOnlyByErrors' /\ Finished'
      BY <2>1, <2>3, <3>3, <3>5 DEF LeftOnlyByErrors, Finished
    <3> QED BY <3>6, <3>7 DEF IInv
  <2>4. CASE Len(components) # 1
    <3>1. /\ components' \in Seq(ComponentRecord) /\ Len(components') = Len(components) - 1
          /\ Len(components) > 1 /\ components'[1].root = RootVid
          /\ SomeFailed(components) => SomeFailed(components')
      BY <1>1, <2>1, <2>4, DropLast
    <3>2. components' # << >>
      BY <1>12, <3>1, EmptySeq
    <3>3. Shape'
      BY <1>1, <2>1, <2>2, <3>1, <3>2 DEF Shape
    <3>4. /\ Len(componentOutputs') >= Len(components')
          /\ Len(componentOutputs') > Len(components') =>
               \E i \in DOMAIN components' : components'[i].failed
      BY <1>12, <2>1, <2>2, <3>1 DEF SomeFailed
    <3>5. LeftOnlyByErrors' /\ Finished'
      BY <2>1, <2>4, <3>4 DEF LeftOnlyByErrors, Finished
    <3> QED BY <3>3, <3>5 DEF IInv
  <2> QED BY <2>3, <2>4
<1>19. CASE Finish
  <2>1. phase = "finish" /\ UNCHANGED <<nextVid, components, vidStack, componentOutputs>>
    BY <1>19 DEF Finish
  <2>2. vidStack = << >> /\ componentOutputs = << >>
    BY <2>1 DEF IInv, Finished
  <2>3. phase' \in {"accepted", "rejected"}
    BY <1>19, <2>2 DEF Finish
  <2>4. Shape'
    BY <1>1, <2>1 DEF Shape
  <2> QED BY <1>2, <2>3, <2>4
<1>20. CASE UNCHANGED vars
  <2>1. UNCHANGED <<nextVid, components, vidStack, componentOutputs, phase>>
    BY <1>20 DEF vars
  <2> QED BY <2>1 DEF IInv, Shape, LeftOnlyByErrors, Finished
<1>21. CASE Done
  BY <1>20, <1>21 DEF Done
<1> QED
  BY <1>3, <1>4, <1>6, <1>7, <1>8, <1>9, <1>10, <1>16, <1>17, <1>18, <1>19, <1>20, <1>21 DEF Next

-----------------------------------------------------------------------------

\* Whatever errors return early, what components leave on the stack of outputs is
\* gone when finish() asserts that nothing is: the queries that leave something
\* are rejected before.
THEOREM LeftOnlyByErrorsHolds == Spec => []LeftOnlyByErrors
<1>1. IInv => LeftOnlyByErrors
  BY DEF IInv
<1> QED BY <1>1, InitInv, NextInv, PTL DEF Spec

-----------------------------------------------------------------------------
(* Induction over sets of numbers, and functions defined by recursion.     *)

\* A set of naturals with 0 and every successor has them all: otherwise a
\* smallest interval 0..n would end at an n outside of it.
LEMMA Induction ==
  ASSUME NEW N, N \subseteq Nat, 0 \in N, \A n \in N : n + 1 \in N
  PROVE  N = Nat
<1> DEFINE Up == {0..n : n \in Nat \ N}
<1> SUFFICES ASSUME Nat \ N # {} PROVE FALSE
  OBVIOUS
<1>1. Up \subseteq FiniteSubsetsOf(Nat) /\ Up # {}
  <2>1. \A n \in Nat : IsFiniteSet(0..n) /\ 0..n \subseteq Nat
    BY FS_Interval
  <2> QED BY <2>1 DEF FiniteSubsetsOf
<1>2. PICK s \in Up : \A t \in Up : ~ (<<t, s>> \in StrictSubsetOrdering(Nat))
  <2> HIDE DEF Up
  <2> QED BY <1>1, FS_StrictSubsetOrderingWellFounded, WFMin
<1>3. PICK n \in Nat \ N : s = 0..n
  BY <1>2
<1>4. n > 0 /\ n - 1 \in Nat /\ n - 1 \notin N
  BY <1>3
<1>5. 0..(n-1) \in Up
  BY <1>4
<1>6. <<0..(n-1), s>> \in StrictSubsetOrdering(Nat)
  BY <1>3, <1>4 DEF StrictSubsetOrdering
<1> QED BY <1>2, <1>5, <1>6

\* The same up to a bound.
LEMMA BoundedInduction ==
  ASSUME NEW n \in Nat, NEW N, 0 \in N, \A k \in N : k \in 0..n - 1 => k + 1 \in N
  PROVE  0..n \subseteq N
<1> DEFINE M == {k \in Nat : k \in 0..n => k \in N}
<1>1. 0 \in M
  OBVIOUS
<1>2. ASSUME NEW k \in M PROVE k + 1 \in M
  <2>1. k \in Nat /\ (k \in 0..n => k \in N)
    BY <1>2
  <2>2. k + 1 \in 0..n => k \in 0..n - 1 /\ k \in 0..n
    BY <2>1
  <2> QED BY <2>1, <2>2
<1>3. M = Nat
  <2> HIDE DEF M
  <2>1. M \subseteq Nat
    BY DEF M
  <2> QED BY <1>1, <1>2, <2>1, Induction
<1> QED BY <1>3

AreSteps(Steps, n, S) == Steps \in [1..n -> [S -> S]]

\* f is what the first n of the steps make of base, one after the other.
IsRecursion(f, n, S, base, Steps) ==
  /\ f \in [0..n -> S]
  /\ f[0] = base
  /\ \A k \in 1..n : f[k] = Steps[k][f[k - 1]]

\* A value for 0 and a step to each next number determine a sequence of values.
LEMMA RecursionExists ==
  ASSUME NEW S, NEW n \in Nat, NEW base \in S, NEW Steps, AreSteps(Steps, n, S)
  PROVE  \E f : IsRecursion(f, n, S, base, Steps)
<1> USE DEF AreSteps
<1> DEFINE Upto(m, f) == /\ f \in [0..m -> S] /\ f[0] = base
                         /\ \A k \in 1..m : f[k] = Steps[k][f[k - 1]]
           N == {m \in Nat : \E f : Upto(m, f)}
<1>1. 0 \in N
  <2>1. Upto(0, [k \in 0..0 |-> base])
    OBVIOUS
  <2> HIDE DEF Upto
  <2> QED BY <2>1
<1>2. ASSUME NEW m \in N, m \in 0..n - 1 PROVE m + 1 \in N
  <2>0. m \in Nat
    BY <1>2
  <2>1. PICK f : Upto(m, f)
    BY <1>2
  <2> DEFINE g == [k \in 0..m + 1 |-> IF k \in 0..m THEN f[k] ELSE Steps[m + 1][f[m]]]
  <2>2. \A k \in 0..m : g[k] = f[k] /\ g[k] \in S
    BY <2>0, <2>1
  <2>3. g[m + 1] = Steps[m + 1][g[m]] /\ g[m + 1] \in S
    <3>1. m \in 0..m /\ m + 1 \notin 0..m /\ m + 1 \in 0..m + 1 /\ m + 1 \in 1..n
      BY <2>0, <1>2
    <3>2. f[m] \in S /\ Steps[m + 1] \in [S -> S]
      BY <3>1, <2>1
    <3> QED BY <3>1, <3>2, <2>2
  <2>4. g \in [0..m + 1 -> S]
    <3>1. \A k \in 0..m + 1 : g[k] \in S
      <4> SUFFICES ASSUME NEW k \in 0..m + 1 PROVE g[k] \in S
        OBVIOUS
      <4>1. k \in 0..m \/ k = m + 1
        BY <2>0
      <4> HIDE DEF g
      <4> QED BY <4>1, <2>2, <2>3
    <3> QED BY <3>1
  <2>5. g[0] = base
    BY <2>0, <2>1, <2>2
  <2>6. \A k \in 1..m + 1 : g[k] = Steps[k][g[k - 1]]
    <3> SUFFICES ASSUME NEW k \in 1..m + 1 PROVE g[k] = Steps[k][g[k - 1]]
      OBVIOUS
    <3>1. CASE k = m + 1
      <4>1. k - 1 = m
        BY <2>0, <3>1
      <4> HIDE DEF g
      <4> QED BY <4>1, <3>1, <2>3
    <3>2. CASE k \in 1..m
      <4>1. k \in 0..m /\ k - 1 \in 0..m
        BY <2>0, <3>2
      <4>2. f[k] = Steps[k][f[k - 1]]
        BY <2>1, <3>2
      <4> HIDE DEF g
      <4> QED BY <4>1, <4>2, <2>2
    <3> QED BY <2>0, <3>1, <3>2
  <2>7. Upto(m + 1, g)
    <3> HIDE DEF g
    <3> QED BY <2>4, <2>5, <2>6
  <2> HIDE DEF Upto
  <2> QED BY <2>0, <2>7
<1>3. n \in N
  <2> HIDE DEF N
  <2>1. 0..n \subseteq N
    BY <1>1, <1>2, BoundedInduction
  <2> QED BY <2>1
<1> QED BY <1>3 DEF IsRecursion

\* FlattenSeq gives a sequence of the elements of its sequences.
LEMMA FlattenType ==
  ASSUME NEW E, NEW seqs \in Seq(Seq(E))
  PROVE  FlattenSeq(seqs) \in Seq(E)
<1> DEFINE n == Len(seqs)
           Eq(h) == h = [i \in 1..n |-> IF i = 1 THEN seqs[i] ELSE h[i - 1] \o seqs[i]]
           F == CHOOSE h : Eq(h)
           Steps == [k \in 1..n |-> [s \in Seq(E) |-> IF k = 1 THEN seqs[k] ELSE s \o seqs[k]]]
<1>1. n \in Nat /\ \A k \in 1..n : seqs[k] \in Seq(E)
  BY ElementOfSeq
<1>2. CASE n = 0
  <2>1. seqs = << >>
    BY <1>2, EmptySeq
  <2> QED BY <1>2, <2>1 DEF FlattenSeq
<1>3. CASE n # 0
  <2>1. AreSteps(Steps, n, Seq(E)) /\ << >> \in Seq(E)
    BY <1>1 DEF AreSteps
  <2>2. PICK f : IsRecursion(f, n, Seq(E), << >>, Steps)
    <3> HIDE DEF Steps
    <3> QED BY <1>1, <2>1, RecursionExists
  <2>3. ASSUME NEW k \in 1..n
        PROVE  f[k] = (IF k = 1 THEN seqs[k] ELSE f[k - 1] \o seqs[k]) /\ f[k] \in Seq(E)
    <3>1. k - 1 \in 0..n /\ k \in 0..n
      BY <1>1
    <3>2. f[k - 1] \in Seq(E) /\ f[k] \in Seq(E) /\ f[k] = Steps[k][f[k - 1]]
      BY <3>1, <2>2 DEF IsRecursion
    <3> QED BY <3>2
  <2> HIDE DEF Steps
  <2>4. Eq([i \in 1..n |-> f[i]])
    <3> DEFINE h == [i \in 1..n |-> f[i]]
    <3>1. ASSUME NEW i \in 1..n
          PROVE  f[i] = IF i = 1 THEN seqs[i] ELSE h[i - 1] \o seqs[i]
      <4>1. i # 1 => i - 1 \in 1..n
        BY <1>1
      <4>2. i # 1 => h[i - 1] = f[i - 1]
        BY <4>1
      <4> HIDE DEF h
      <4> QED BY <2>3, <4>2
    <3> QED BY <3>1
  <2>5. Eq(F)
    <3> HIDE DEF Eq
    <3> QED BY <2>4
  <2>6. FlattenSeq(seqs) = F[n]
    BY <1>3 DEF FlattenSeq
  <2> HIDE DEF F
  <2>7. \A k \in 1..n : F[k] = IF k = 1 THEN seqs[k] ELSE F[k - 1] \o seqs[k]
    BY <2>5
  <2> DEFINE N == {k \in 0..n : k # 0 => F[k] \in Seq(E)}
  <2>8. ASSUME NEW k \in N, k \in 0..n - 1 PROVE k + 1 \in N
    <3>1. k # 0 => F[k] \in Seq(E)
      OBVIOUS
    <3>2. k + 1 \in 1..n /\ k + 1 \in 0..n /\ (k + 1) - 1 = k /\ (k + 1 = 1 <=> k = 0)
      BY <1>1, <2>8
    <3>3. F[k + 1] = IF k = 0 THEN seqs[k + 1] ELSE F[k] \o seqs[k + 1]
      <4>1. F[k + 1] = IF k + 1 = 1 THEN seqs[k + 1] ELSE F[(k + 1) - 1] \o seqs[k + 1]
        BY <3>2, <2>7
      <4> QED BY <3>2, <4>1
    <3>4. F[k + 1] \in Seq(E)
      BY <1>1, <3>1, <3>2, <3>3
    <3> QED BY <3>2, <3>4
  <2>9. 0 \in N
    BY <1>1
  <2>10. n \in N
    <3> HIDE DEF N
    <3>1. 0..n \subseteq N
      BY <1>1, <2>8, <2>9, BoundedInduction
    <3> QED BY <1>1, <3>1
  <2> QED BY <1>3, <2>6, <2>10
<1> QED BY <1>2, <1>3

-----------------------------------------------------------------------------
(* The fields of a query.                                                  *)

Fields(i, j, kind) == Cardinality({k \in i..j : query[k].kind = kind})

\* How many fields of a kind there are up to the next field.
LEMMA FieldsStep ==
  ASSUME NEW i \in Nat, NEW j \in Nat, i <= j + 1, NEW kind
  PROVE  /\ Fields(i, j, kind) \in Nat
         /\ i = j + 1 => Fields(i, j, kind) = 0
         /\ Fields(i, j + 1, kind) =
              IF query[j + 1].kind = kind THEN Fields(i, j, kind) + 1 ELSE Fields(i, j, kind)
<1> DEFINE S == {k \in i..j : query[k].kind = kind}
           T == {k \in i..(j + 1) : query[k].kind = kind}
<1>1. IsFiniteSet(S)
  <2>1. IsFiniteSet(i..j) /\ S \subseteq i..j
    BY FS_Interval
  <2> QED BY <2>1, FS_Subset
<1>2. T = IF query[j + 1].kind = kind THEN S \cup {j + 1} ELSE S
  OBVIOUS
<1>3. j + 1 \notin S
  OBVIOUS
<1>4. i = j + 1 => S = {}
  OBVIOUS
<1> HIDE DEF S, T
<1>5. Cardinality(S) \in Nat /\ Cardinality(S \cup {j + 1}) = Cardinality(S) + 1
  BY <1>1, <1>3, FS_CardinalityType, FS_AddElement
<1>6. i = j + 1 => Cardinality(S) = 0
  BY <1>4, FS_EmptySet
<1>7. Fields(i, j, kind) = Cardinality(S) /\ Fields(i, j + 1, kind) = Cardinality(T)
  BY DEF Fields, S, T
<1> QED BY <1>2, <1>5, <1>6, <1>7

\* What the fields of a query are.
LEMMA QueryFacts ==
  ASSUME query \in Queries
  PROVE  /\ query \in Seq(Item) /\ Len(query) \in Nat /\ Len(query) > 0
         /\ DOMAIN query = 1..Len(query)
         /\ \A i \in 1..Len(query) :
              /\ query[i].kind \in {"edge", "output", "close"}
              /\ query[i].kind = "edge" =>
                   /\ query[i].fold \in BOOLEAN /\ query[i].alias \in Text /\ query[i].name \in Text
                   /\ query[i].counts \in Seq(Text \cup {None})
              /\ query[i].kind = "output" => query[i].output \in Directive
         /\ \A j \in 0..Len(query) : j < Len(query) <=> Fields(1, j, "close") <= Fields(1, j, "edge")
<1>1. query \in Seq(Item)
  BY QueriesAreQueries
<1>2. Len(query) \in Nat /\ DOMAIN query = 1..Len(query)
  BY <1>1
<1>3. \A i \in 1..Len(query) : query[i] \in Item
  BY <1>1, ElementOfSeq
<1>4. \A j \in 0..Len(query) : j < Len(query) <=> Fields(1, j, "close") <= Fields(1, j, "edge")
  BY QueriesAreTrees DEF Fields
<1>5. Len(query) > 0
  <2>1. Fields(1, 0, "close") = 0 /\ Fields(1, 0, "edge") = 0
    BY FieldsStep
  <2>2. 0 \in 0..Len(query)
    BY <1>2
  <2> QED BY <1>4, <2>1, <2>2
<1>6. ASSUME NEW i \in 1..Len(query)
      PROVE  /\ query[i].kind \in {"edge", "output", "close"}
             /\ query[i].kind = "edge" =>
                  /\ query[i].fold \in BOOLEAN /\ query[i].alias \in Text /\ query[i].name \in Text
                  /\ query[i].counts \in Seq(Text \cup {None})
             /\ query[i].kind = "output" => query[i].output \in Directive
  <2>1. query[i] \in Item
    BY <1>3
  <2> QED BY <2>1 DEF Item
<1> QED BY <1>1, <1>2, <1>4, <1>5, <1>6

\* The edges that are open after each field, by what the field is.
LEMMA OpenedStep ==
  ASSUME query \in Queries
  PROVE  /\ Opened[0] = << >>
         /\ \A j \in 0..Len(query) : Opened[j] \in Seq(Nat)
         /\ \A j \in 1..Len(query) :
              /\ query[j].kind = "edge" => Opened[j] = Append(Opened[j - 1], j)
              /\ query[j].kind = "close" => Opened[j] = AllButLast(Opened[j - 1])
              /\ query[j].kind = "output" => Opened[j] = Opened[j - 1]
<1> DEFINE n == Len(query)
           Step(j, s) == CASE query[j].kind = "edge" -> Append(s, j)
                           [] query[j].kind = "close" -> AllButLast(s)
                           [] query[j].kind = "output" -> s
           Eq(h) == h = [i \in 0..n |-> IF i = 0 THEN << >> ELSE Step(i, h[i - 1])]
           F == CHOOSE h : Eq(h)
           Steps == [j \in 1..n |-> [s \in Seq(Nat) |-> Step(j, s)]]
<1>1. n \in Nat /\ \A j \in 1..n : query[j].kind \in {"edge", "output", "close"}
  BY QueryFacts
<1>2. ASSUME NEW j \in 1..n, NEW s \in Seq(Nat) PROVE Step(j, s) \in Seq(Nat)
  <2>1. AllButLast(s) \in Seq(Nat) /\ Append(s, j) \in Seq(Nat)
    BY AllButLastFacts
  <2> QED BY <1>1, <2>1
<1> HIDE DEF Step
<1>3. AreSteps(Steps, n, Seq(Nat)) /\ << >> \in Seq(Nat)
  BY <1>2 DEF AreSteps
<1>4. PICK f : IsRecursion(f, n, Seq(Nat), << >>, Steps)
  <2> HIDE DEF Steps
  <2> QED BY <1>1, <1>3, RecursionExists
<1>5. ASSUME NEW j \in 1..n PROVE f[j] = Step(j, f[j - 1])
  <2>1. j - 1 \in 0..n
    BY <1>1
  <2>2. f[j - 1] \in Seq(Nat) /\ f[j] = Steps[j][f[j - 1]]
    BY <2>1, <1>4 DEF IsRecursion
  <2> QED BY <2>2
<1> HIDE DEF Steps
<1>6. f \in [0..n -> Seq(Nat)] /\ f[0] = << >>
  BY <1>4 DEF IsRecursion
<1>7. Eq(f)
  <2>1. ASSUME NEW i \in 0..n PROVE f[i] = IF i = 0 THEN << >> ELSE Step(i, f[i - 1])
    BY <1>1, <1>5, <1>6
  <2> QED BY <1>6, <2>1
<1>8. Eq(F)
  <2> HIDE DEF Eq
  <2> QED BY <1>7
<1>9. Opened = F
  BY DEF Opened, Step
<1> HIDE DEF F
<1>10. \A i \in 0..n : Opened[i] = IF i = 0 THEN << >> ELSE Step(i, Opened[i - 1])
  BY <1>8, <1>9
<1>11. \A j \in 1..n : Opened[j] = Step(j, Opened[j - 1]) /\ j - 1 \in 0..n /\ j \in 0..n
  BY <1>1, <1>10
<1> DEFINE N == {j \in 0..n : Opened[j] \in Seq(Nat)}
<1>12. 0 \in 0..n /\ Opened[0] = << >>
  BY <1>1, <1>10
<1>13. ASSUME NEW k \in N, k \in 0..n - 1 PROVE k + 1 \in N
  <2>1. k + 1 \in 1..n /\ (k + 1) - 1 = k
    BY <1>1, <1>13
  <2>2. Opened[k + 1] = Step(k + 1, Opened[k])
    BY <2>1, <1>11
  <2> QED BY <2>1, <2>2, <1>2, <1>11
<1>14. \A j \in 0..n : Opened[j] \in Seq(Nat)
  <2>1. 0 \in N
    BY <1>3, <1>12
  <2> HIDE DEF N
  <2>2. 0..n \subseteq N
    BY <1>1, <1>13, <2>1, BoundedInduction
  <2> QED BY <2>2 DEF N
<1>15. ASSUME NEW j \in 1..n
       PROVE  /\ query[j].kind = "edge" => Opened[j] = Append(Opened[j - 1], j)
              /\ query[j].kind = "close" => Opened[j] = AllButLast(Opened[j - 1])
              /\ query[j].kind = "output" => Opened[j] = Opened[j - 1]
  BY <1>11 DEF Step
<1> QED BY <1>12, <1>14, <1>15

\* Every open edge was opened when exactly those outside of it were open.
NestsIn(s) ==
  \A d \in DOMAIN s :
    /\ s[d] \in Edges /\ s[d] \in 1..Len(query)
    /\ Len(Opened[s[d] - 1]) = d - 1
    /\ \A e \in 1..(d - 1) : Opened[s[d] - 1][e] = s[e]

LEMMA OpenedNests ==
  ASSUME query \in Queries
  PROVE  \A j \in 0..Len(query) :
           /\ NestsIn(Opened[j])
           /\ \A d \in DOMAIN Opened[j] : Opened[j][d] <= j
<1> DEFINE n == Len(query)
           Holds(j) == NestsIn(Opened[j]) /\ \A d \in DOMAIN Opened[j] : Opened[j][d] <= j
           N == {j \in 0..n : Holds(j)}
<1>1. n \in Nat /\ \A j \in 1..n : query[j].kind \in {"edge", "output", "close"}
  BY QueryFacts
<1>2. 0 \in N
  <2>1. DOMAIN Opened[0] = {} /\ 0 \in 0..n
    BY <1>1, OpenedStep
  <2> QED BY <2>1 DEF NestsIn
<1>3. ASSUME NEW k \in N, k \in 0..n - 1 PROVE k + 1 \in N
  <2> DEFINE j == k + 1
             s == Opened[k]
             t == Opened[j]
  <2>1. k \in Nat /\ j \in 1..n /\ j \in 0..n /\ j - 1 = k /\ k \in 0..n
    BY <1>1, <1>3
  <2>2. NestsIn(s) /\ \A d \in DOMAIN s : s[d] <= k
    BY <1>3
  <2>3. s \in Seq(Nat) /\ t \in Seq(Nat)
    BY <2>1, OpenedStep
  <2>4. /\ query[j].kind = "edge" => t = Append(s, j)
        /\ query[j].kind = "close" => t = AllButLast(s)
        /\ query[j].kind = "output" => t = s
        /\ query[j].kind \in {"edge", "output", "close"}
    BY <1>1, <2>1, OpenedStep
  <2> HIDE DEF N
  <2>5. CASE t = s
    BY <2>1, <2>2, <2>3, <2>5 DEF N
  <2>6. CASE query[j].kind = "edge"
    <3>1. /\ t = Append(s, j) /\ Len(s) \in Nat /\ DOMAIN s = 1..Len(s)
          /\ DOMAIN t = 1..Len(s) + 1 /\ t[Len(s) + 1] = j
          /\ \A d \in 1..Len(s) : t[d] = s[d]
      <4>1. t = Append(s, j) /\ j \in Nat
        BY <1>1, <2>1, <2>4, <2>6
      <4> HIDE DEF j, s, t
      <4> QED BY <4>1, <2>3
    <3>2. j \in Edges
      BY <2>1, <2>6, QueryFacts DEF Edges
    <3> HIDE DEF j, s, t
    <3>3. ASSUME NEW d \in DOMAIN t
          PROVE  /\ t[d] \in Edges /\ t[d] \in 1..n /\ t[d] <= j
                 /\ Len(Opened[t[d] - 1]) = d - 1
                 /\ \A e \in 1..(d - 1) : Opened[t[d] - 1][e] = t[e]
      <4>1. CASE d = Len(s) + 1
        <5>1. t[d] = j /\ Opened[t[d] - 1] = s /\ d - 1 = Len(s)
          BY <2>1, <3>1, <4>1 DEF s
        <5> QED BY <2>1, <3>1, <3>2, <5>1
      <4>2. CASE d \in 1..Len(s)
        <5>1. d \in DOMAIN s /\ t[d] = s[d] /\ \A e \in 1..(d - 1) : t[e] = s[e]
          BY <3>1, <4>2
        <5>2. /\ s[d] \in Edges /\ s[d] \in 1..n /\ s[d] <= k
              /\ Len(Opened[s[d] - 1]) = d - 1
              /\ \A e \in 1..(d - 1) : Opened[s[d] - 1][e] = s[e]
          BY <2>2, <5>1 DEF NestsIn
        <5>3. s[d] <= j
          BY <1>1, <2>1, <5>2
        <5> QED BY <5>1, <5>2, <5>3
      <4> QED BY <3>1, <4>1, <4>2
    <3>4. NestsIn(t) /\ \A d \in DOMAIN t : t[d] <= j
      BY <3>3 DEF NestsIn
    <3> QED BY <2>1, <3>4 DEF N, j, t
  <2>7. CASE query[j].kind = "close"
    <3>1. t = AllButLast(s) /\ DOMAIN s = 1..Len(s) /\ Len(s) \in Nat
      BY <2>3, <2>4, <2>7
    <3>2. \A d \in DOMAIN t : d \in DOMAIN s /\ t[d] = s[d]
      BY <2>3, <3>1, AllButLastFacts
    <3>3. DOMAIN t = 1..Len(t) /\ Len(t) \in Nat
      BY <2>3
    <3> HIDE DEF j, s, t
    <3>4. ASSUME NEW d \in DOMAIN t
          PROVE  /\ t[d] \in Edges /\ t[d] \in 1..n /\ t[d] <= j
                 /\ Len(Opened[t[d] - 1]) = d - 1
                 /\ \A e \in 1..(d - 1) : Opened[t[d] - 1][e] = t[e]
      <4>1. d \in DOMAIN s /\ t[d] = s[d]
        BY <3>2
      <4>2. /\ s[d] \in Edges /\ s[d] \in 1..n /\ s[d] <= k
            /\ Len(Opened[s[d] - 1]) = d - 1
            /\ \A e \in 1..(d - 1) : Opened[s[d] - 1][e] = s[e]
        BY <2>2, <4>1 DEF NestsIn
      <4>3. s[d] <= j
        BY <1>1, <2>1, <4>2
      <4>4. \A e \in 1..(d - 1) : t[e] = s[e]
        BY <3>2, <3>3
      <4> QED BY <4>1, <4>2, <4>3, <4>4
    <3>5. NestsIn(t) /\ \A d \in DOMAIN t : t[d] <= j
      BY <3>4 DEF NestsIn
    <3> QED BY <2>1, <3>5 DEF N, j, t
  <2> QED BY <2>4, <2>5, <2>6, <2>7
<1>4. 0..n \subseteq N
  <2> HIDE DEF N
  <2> QED BY <1>1, <1>2, <1>3, BoundedInduction
<1> QED BY <1>4

\* The open edges go up from the outermost to the innermost.
LEMMA OpenFacts ==
  ASSUME query \in Queries, NEW j \in 0..Len(query)
  PROVE  /\ Opened[j] \in Seq(Nat) /\ Len(Opened[j]) \in Nat
         /\ DOMAIN Opened[j] = 1..Len(Opened[j])
         /\ \A d \in DOMAIN Opened[j] :
              /\ Opened[j][d] \in Edges /\ Opened[j][d] \in 1..j
              /\ \A e \in DOMAIN Opened[j] : e < d => Opened[j][e] < Opened[j][d]
<1> DEFINE s == Opened[j]
<1>1. s \in Seq(Nat) /\ Len(s) \in Nat /\ DOMAIN s = 1..Len(s)
  BY OpenedStep
<1>2. Len(query) \in Nat
  BY QueryFacts
<1>3. NestsIn(s) /\ \A d \in DOMAIN s : s[d] <= j
  BY OpenedNests
<1>4. ASSUME NEW d \in DOMAIN s
      PROVE  /\ s[d] \in Edges /\ s[d] \in 1..j
             /\ \A e \in DOMAIN s : e < d => s[e] < s[d]
  <2> DEFINE i == s[d]
             t == Opened[i - 1]
  <2>1. /\ i \in Edges /\ i \in 1..Len(query) /\ i <= j
        /\ \A e \in 1..(d - 1) : t[e] = s[e]
        /\ Len(t) = d - 1
    BY <1>3 DEF NestsIn
  <2>2. i - 1 \in 0..Len(query)
    BY <1>2, <2>1
  <2>3. DOMAIN t = 1..(d - 1) /\ \A e \in DOMAIN t : t[e] <= i - 1 /\ t[e] \in 1..Len(query)
    <3>1. t \in Seq(Nat) /\ NestsIn(t) /\ \A e \in DOMAIN t : t[e] <= i - 1
      BY <2>2, OpenedStep, OpenedNests
    <3>2. \A e \in DOMAIN t : t[e] \in 1..Len(query)
      BY <3>1 DEF NestsIn
    <3> QED BY <2>1, <3>1, <3>2
  <2> HIDE DEF s, i, t
  <2>4. ASSUME NEW e \in DOMAIN s, e < d PROVE s[e] < i
    <3>1. e \in DOMAIN t /\ t[e] = s[e]
      BY <1>1, <2>1, <2>3, <2>4
    <3> QED BY <1>2, <2>1, <2>3, <3>1
  <2>5. i \in 1..j
    BY <1>2, <2>1
  <2> QED BY <2>1, <2>4, <2>5 DEF i
<1> HIDE DEF s
<1> QED BY <1>1, <1>4 DEF s

\* How the set of the open edges changes with each field.
LEMMA OpenedSets ==
  ASSUME query \in Queries, NEW j \in 1..Len(query)
  PROVE  /\ query[j].kind = "edge" => ToSet(Opened[j]) = ToSet(Opened[j - 1]) \cup {j}
         /\ query[j].kind = "output" => ToSet(Opened[j]) = ToSet(Opened[j - 1])
         /\ query[j].kind = "close" /\ Opened[j - 1] = << >> => Opened[j] = << >>
         /\ query[j].kind = "close" /\ Opened[j - 1] # << >> =>
              /\ ToSet(Opened[j]) = ToSet(Opened[j - 1]) \ {Last(Opened[j - 1])}
              /\ Last(Opened[j - 1]) \in ToSet(Opened[j - 1])
<1> DEFINE s == Opened[j - 1]
           t == Opened[j]
           n == Len(s)
<1>1. j \in Nat /\ j - 1 \in 0..Len(query)
  BY QueryFacts
<1>2. /\ s \in Seq(Nat) /\ n \in Nat /\ DOMAIN s = 1..n
      /\ \A d \in DOMAIN s : \A e \in DOMAIN s : e < d => s[e] < s[d]
      /\ \A d \in DOMAIN s : s[d] \in 1..(j - 1)
  BY <1>1, OpenFacts
<1>3. /\ query[j].kind = "edge" => t = Append(s, j)
      /\ query[j].kind = "close" => t = AllButLast(s)
      /\ query[j].kind = "output" => t = s
  BY OpenedStep
<1> HIDE DEF s, t
<1>4. CASE query[j].kind = "edge"
  <2>1. DOMAIN t = 1..n + 1 /\ t[n + 1] = j /\ \A d \in 1..n : t[d] = s[d]
    <3>1. t = Append(s, j) /\ s \in Seq(Nat) /\ j \in Nat
      BY <1>1, <1>2, <1>3, <1>4
    <3> QED BY <3>1
  <2>2. 1..n + 1 = 1..n \cup {n + 1}
    BY <1>2
  <2>3. ToSet(t) = ToSet(s) \cup {j}
    BY <1>2, <2>1, <2>2 DEF ToSet
  <2> QED BY <1>4, <2>3 DEF s, t
<1>5. CASE query[j].kind = "output"
  BY <1>3, <1>5 DEF s, t
<1>6. CASE query[j].kind = "close" /\ s = << >>
  <2>1. t = << >>
    <3>1. AllButLast(<< >>) = << >>
      BY DEF AllButLast
    <3> QED BY <1>3, <1>6, <3>1
  <2> QED BY <1>6, <2>1 DEF s, t
<1>7. CASE query[j].kind = "close" /\ s # << >>
  <2>1. n > 0 /\ n \in DOMAIN s /\ Last(s) = s[n]
    BY <1>2, <1>7, SeqFacts DEF Last
  <2>2. /\ t \in Seq(Nat) /\ Len(t) = n - 1
        /\ \A d \in DOMAIN t : d \in DOMAIN s /\ t[d] = s[d]
    BY <1>2, <1>3, <1>7, AllButLastFacts
  <2>3. DOMAIN t = 1..n - 1
    BY <2>2, SeqFacts
  <2>4. \A d \in 1..n - 1 : s[d] # s[n]
    <3>1. \A d \in 1..n - 1 : d \in DOMAIN s /\ d < n /\ s[d] \in Nat /\ s[n] \in Nat
      BY <1>2, <2>1, ElementOfSeq
    <3>2. \A d \in 1..n - 1 : s[d] < s[n]
      BY <1>2, <2>1, <3>1
    <3> QED BY <3>1, <3>2
  <2>5. 1..n = 1..n - 1 \cup {n}
    BY <1>2, <2>1
  <2>6. ToSet(t) = ToSet(s) \ {Last(s)} /\ Last(s) \in ToSet(s)
    BY <1>2, <2>1, <2>2, <2>3, <2>4, <2>5 DEF ToSet
  <2> QED BY <1>7, <2>6 DEF s, t
<1>8. query[j].kind \in {"edge", "output", "close"}
  BY QueryFacts
<1> QED BY <1>4, <1>5, <1>6, <1>7, <1>8

\* As many edges are open as there were edges more than closes; at the end of the
\* query none is.
LEMMA OpenDepth ==
  ASSUME query \in Queries
  PROVE  /\ \A j \in 0..Len(query) - 1 :
              Len(Opened[j]) + Fields(1, j, "close") = Fields(1, j, "edge")
         /\ query[Len(query)].kind = "close"
         /\ Opened[Len(query) - 1] = << >> /\ Opened[Len(query)] = << >>
         /\ \A j \in 1..Len(query) :
              query[j].kind = "close" /\ Opened[j - 1] = << >> => j = Len(query)
<1> DEFINE n == Len(query)
           Holds(j) == Len(Opened[j]) + Fields(1, j, "close") = Fields(1, j, "edge")
           N == {j \in 0..(n - 1) : Holds(j)}
<1>1. n \in Nat /\ n > 0 /\ n - 1 \in Nat
      /\ \A j \in 1..n : query[j].kind \in {"edge", "output", "close"}
  BY QueryFacts
<1>2. \A j \in 0..n : j < n <=> Fields(1, j, "close") <= Fields(1, j, "edge")
  BY QueryFacts
<1>3. \A j \in 0..n : Fields(1, j, "close") \in Nat /\ Fields(1, j, "edge") \in Nat
  BY <1>1, FieldsStep
<1>4. ASSUME NEW j \in 0..n - 1
      PROVE  /\ query[j + 1].kind = "edge" => /\ Fields(1, j + 1, "edge") = Fields(1, j, "edge") + 1
                                              /\ Fields(1, j + 1, "close") = Fields(1, j, "close")
             /\ query[j + 1].kind = "close" => /\ Fields(1, j + 1, "edge") = Fields(1, j, "edge")
                                               /\ Fields(1, j + 1, "close") = Fields(1, j, "close") + 1
             /\ query[j + 1].kind = "output" => /\ Fields(1, j + 1, "edge") = Fields(1, j, "edge")
                                                /\ Fields(1, j + 1, "close") = Fields(1, j, "close")
  <2>1. j \in Nat /\ 1 <= j + 1
    BY <1>1
  <2> QED BY <2>1, FieldsStep, SMTT(30)
<1>5. ASSUME NEW j \in 0..n - 1
      PROVE  /\ Len(Opened[j]) \in Nat /\ j + 1 \in 1..n /\ j \in 0..n /\ j + 1 \in 0..n
             /\ query[j + 1].kind = "edge" => Len(Opened[j + 1]) = Len(Opened[j]) + 1
             /\ query[j + 1].kind = "close" =>
                  /\ Len(Opened[j]) # 0 => Len(Opened[j + 1]) = Len(Opened[j]) - 1
                  /\ Len(Opened[j]) = 0 => Opened[j + 1] = << >>
             /\ query[j + 1].kind = "output" => Len(Opened[j + 1]) = Len(Opened[j])
  <2>1. j + 1 \in 1..n /\ j \in 0..n /\ j + 1 \in 0..n /\ (j + 1) - 1 = j
    BY <1>1
  <2>2. Opened[j] \in Seq(Nat)
    BY <2>1, OpenedStep
  <2>3. /\ query[j + 1].kind = "edge" => Opened[j + 1] = Append(Opened[j], j + 1)
        /\ query[j + 1].kind = "close" => Opened[j + 1] = AllButLast(Opened[j])
        /\ query[j + 1].kind = "output" => Opened[j + 1] = Opened[j]
    <3>1. /\ query[j + 1].kind = "edge" => Opened[j + 1] = Append(Opened[(j + 1) - 1], j + 1)
          /\ query[j + 1].kind = "close" => Opened[j + 1] = AllButLast(Opened[(j + 1) - 1])
          /\ query[j + 1].kind = "output" => Opened[j + 1] = Opened[(j + 1) - 1]
      BY <2>1, OpenedStep
    <3> QED BY <2>1, <3>1
  <2>4. Len(Append(Opened[j], j + 1)) = Len(Opened[j]) + 1
    BY <2>2
  <2>5. /\ Len(Opened[j]) # 0 => Len(AllButLast(Opened[j])) = Len(Opened[j]) - 1
        /\ Len(Opened[j]) = 0 => AllButLast(Opened[j]) = << >>
    <3>1. Len(Opened[j]) = 0 <=> Opened[j] = << >>
      BY <2>2, EmptySeq
    <3>2. AllButLast(<< >>) = << >>
      BY DEF AllButLast
    <3> QED BY <2>2, <3>1, <3>2, AllButLastFacts
  <2>6. Len(Opened[j]) \in Nat
    BY <2>2
  <2> QED BY <2>1, <2>3, <2>4, <2>5, <2>6
<1>6. 0 \in N
  <2>1. Fields(1, 0, "close") = 0 /\ Fields(1, 0, "edge") = 0
    BY FieldsStep
  <2>2. Len(Opened[0]) = 0 /\ 0 \in 0..n - 1
    BY <1>1, OpenedStep
  <2> QED BY <2>1, <2>2
<1>7. ASSUME NEW k \in N, k \in 0..(n - 1) - 1 PROVE k + 1 \in N
  <2>1. k \in 0..n - 1 /\ k + 1 \in 0..n - 1 /\ k + 1 \in 1..n /\ k + 1 < n /\ k + 1 \in 0..n
    BY <1>1, <1>7
  <2>2. Holds(k)
    OBVIOUS
  <2>3. Fields(1, k + 1, "close") <= Fields(1, k + 1, "edge")
    BY <1>2, <2>1
  <2>4. /\ Fields(1, k, "close") \in Nat /\ Fields(1, k, "edge") \in Nat
        /\ query[k + 1].kind \in {"edge", "output", "close"}
        /\ Len(Opened[k]) \in Nat
    BY <1>1, <1>3, <1>5, <2>1
  <2>5. Holds(k + 1)
    <3>1. CASE query[k + 1].kind = "edge"
      BY <1>4, <1>5, <2>1, <2>2, <2>4, <3>1
    <3>2. CASE query[k + 1].kind = "output"
      BY <1>4, <1>5, <2>1, <2>2, <2>4, <3>2
    <3>3. CASE query[k + 1].kind = "close"
      <4>1. Len(Opened[k]) # 0
        BY <1>4, <2>1, <2>2, <2>3, <2>4, <3>3
      <4>2. Len(Opened[k + 1]) = Len(Opened[k]) - 1
        BY <1>5, <2>1, <3>3, <4>1
      <4>3. /\ Fields(1, k + 1, "edge") = Fields(1, k, "edge")
            /\ Fields(1, k + 1, "close") = Fields(1, k, "close") + 1
        BY <1>4, <2>1, <3>3
      <4> QED BY <2>2, <2>4, <4>1, <4>2, <4>3, SMTT(30)
    <3> QED BY <2>4, <3>1, <3>2, <3>3
  <2> QED BY <2>1, <2>5
<1>8. \A j \in 0..n - 1 : Holds(j)
  <2>1. 0..(n - 1) \subseteq N
    <3> HIDE DEF N
    <3> QED BY <1>1, <1>6, <1>7, BoundedInduction
  <2> QED BY <2>1
<1>9. query[n].kind = "close" /\ Opened[n - 1] = << >> /\ Opened[n] = << >>
  <2> DEFINE j == n - 1
  <2>1. j \in 0..n - 1 /\ j + 1 = n /\ j \in 0..n /\ n \in 0..n /\ n \in 1..n
    BY <1>1
  <2>2. ~ (Fields(1, n, "close") <= Fields(1, n, "edge"))
    BY <1>1, <1>2, <2>1
  <2>3. Len(Opened[j]) + Fields(1, j, "close") = Fields(1, j, "edge")
    BY <1>8, <2>1
  <2>4. /\ Fields(1, j, "close") \in Nat /\ Fields(1, j, "edge") \in Nat
        /\ Len(Opened[j]) \in Nat /\ query[n].kind \in {"edge", "output", "close"}
    BY <1>1, <1>3, <1>5, <2>1
  <2> HIDE DEF j
  <2>5. query[n].kind = "close" /\ Len(Opened[j]) = 0
    BY <1>4, <2>1, <2>2, <2>3, <2>4
  <2>6. Opened[j] = << >>
    BY <2>1, <2>5, OpenedStep, EmptySeq
  <2>7. Opened[n] = << >>
    BY <1>5, <2>1, <2>5
  <2> QED BY <2>5, <2>6, <2>7 DEF j
<1>10. ASSUME NEW j \in 1..n, query[j].kind = "close", Opened[j - 1] = << >> PROVE j = n
  <2> DEFINE i == j - 1
  <2>1. i \in 0..n - 1 /\ i + 1 = j /\ j \in 0..n
    BY <1>1
  <2>2. Len(Opened[i]) = 0
    BY <1>10
  <2>3. Fields(1, i, "close") = Fields(1, i, "edge") /\ Fields(1, i, "close") \in Nat
    <3>1. Holds(i)
      BY <1>8, <2>1
    <3>2. Fields(1, i, "close") \in Nat /\ Fields(1, i, "edge") \in Nat
      BY <1>1, <1>3, <2>1
    <3> QED BY <2>2, <3>1, <3>2
  <2>4. Fields(1, j, "close") = Fields(1, i, "close") + 1 /\ Fields(1, j, "edge") = Fields(1, i, "edge")
    BY <1>4, <1>10, <2>1
  <2> HIDE DEF i
  <2>5. ~ (j < n)
    BY <1>2, <2>1, <2>3, <2>4
  <2> QED BY <1>1, <2>5
<1> QED BY <1>8, <1>9, <1>10

\* What has been closed stays closed.
LEMMA StaysClosed ==
  ASSUME query \in Queries, NEW j \in 0..Len(query), NEW k \in 0..Len(query), NEW i \in 1..j,
         i \notin ToSet(Opened[j]), j <= k
  PROVE  i \notin ToSet(Opened[k])
<1> DEFINE n == Len(query)
           N == {m \in 0..n : j <= m => i \notin ToSet(Opened[m])}
<1>1. n \in Nat /\ \A m \in 1..n : query[m].kind \in {"edge", "output", "close"}
  BY QueryFacts
<1>2. ASSUME NEW m \in 1..n
      PROVE  /\ ToSet(Opened[m]) \subseteq ToSet(Opened[m - 1]) \cup {m}
  <2>1. query[m].kind = "close" /\ Opened[m - 1] = << >> => ToSet(Opened[m]) = {}
    BY OpenedSets DEF ToSet
  <2> QED BY <1>1, <2>1, OpenedSets
<1>3. 0 \in N
  BY <1>1
<1>4. ASSUME NEW m \in N, m \in 0..n - 1 PROVE m + 1 \in N
  <2>1. m + 1 \in 1..n /\ (m + 1) - 1 = m /\ m + 1 \in 0..n
    BY <1>1, <1>4
  <2>2. ASSUME j <= m + 1 PROVE i \notin ToSet(Opened[m + 1])
    <3>1. CASE j = m + 1
      BY <3>1
    <3>2. CASE j <= m
      <4>1. i \notin ToSet(Opened[m]) /\ i # m + 1
        BY <1>1, <2>1, <3>2
      <4>2. ToSet(Opened[m + 1]) \subseteq ToSet(Opened[m]) \cup {m + 1}
        BY <1>2, <2>1
      <4> QED BY <4>1, <4>2
    <3> QED BY <1>1, <2>1, <2>2, <3>1, <3>2
  <2> QED BY <2>1, <2>2
<1>5. 0..n \subseteq N
  <2> HIDE DEF N
  <2> QED BY <1>1, <1>3, <1>4, BoundedInduction
<1> QED BY <1>5

\* The fields up to one, and from it.
LEMMA FieldsSplit ==
  ASSUME NEW i \in Nat \ {0}, NEW j \in Nat, i <= j + 1, NEW kind
  PROVE  /\ Fields(1, j, kind) = Fields(1, i - 1, kind) + Fields(i, j, kind)
         /\ Fields(1, i - 1, kind) \in Nat /\ Fields(i, j, kind) \in Nat
<1> DEFINE S == {k \in 1..(i - 1) : query[k].kind = kind}
           T == {k \in i..j : query[k].kind = kind}
           U == {k \in 1..j : query[k].kind = kind}
<1>1. IsFiniteSet(S) /\ IsFiniteSet(T)
  <2>1. IsFiniteSet(1..(i - 1)) /\ IsFiniteSet(i..j) /\ S \subseteq 1..(i - 1) /\ T \subseteq i..j
    BY FS_Interval
  <2> QED BY <2>1, FS_Subset
<1>2. U = S \cup T /\ S \cap T = {}
  OBVIOUS
<1> HIDE DEF S, T, U
<1>3. Cardinality(U) = Cardinality(S) + Cardinality(T) /\ Cardinality(S) \in Nat /\ Cardinality(T) \in Nat
  <2>1. Cardinality(S \cup T) = Cardinality(S) + Cardinality(T) - Cardinality(S \cap T)
    BY <1>1, FS_Union
  <2>2. Cardinality(S \cap T) = 0
    BY <1>2, FS_EmptySet
  <2>3. Cardinality(S) \in Nat /\ Cardinality(T) \in Nat
    BY <1>1, FS_CardinalityType
  <2> QED BY <1>2, <2>1, <2>2, <2>3
<1> QED BY <1>3 DEF Fields, S, T, U

\* The innermost edge is the one that a close closes.
LEMMA Closes ==
  ASSUME query \in Queries, NEW j \in 1..Len(query), query[j].kind = "close",
         Opened[j - 1] # << >>
  PROVE  LET k == Last(Opened[j - 1])
         IN  /\ k \in Edges /\ k \in 1..j - 1
             /\ ClosedBy(k) = j
             /\ Opened[j] = Opened[k - 1]
             /\ Opened[j - 1] = Append(Opened[k - 1], k) /\ Opened[k] = Opened[j - 1]
<1> DEFINE n == Len(query)
           s == Opened[j - 1]
           d == Len(s)
           k == s[d]
           Even == {i \in k..n : Fields(k, i, "edge") = Fields(k, i, "close")}
<1>1. n \in Nat /\ j \in 1..n /\ j - 1 \in 0..n
  BY QueryFacts
<1>2. s \in Seq(Nat) /\ DOMAIN s = 1..d /\ d \in Nat /\ d > 0 /\ d \in DOMAIN s /\ Last(s) = k
  BY <1>1, OpenFacts, SeqFacts DEF Last
<1>3. k \in Edges /\ k \in 1..j - 1 /\ k \in Nat /\ k > 0
  <2>1. k \in Edges /\ k \in 1..j - 1
    BY <1>1, <1>2, OpenFacts
  <2> QED BY <1>1, <2>1
<1>4. /\ Len(Opened[k - 1]) = d - 1 /\ \A e \in 1..(d - 1) : Opened[k - 1][e] = s[e]
      /\ Opened[k - 1] \in Seq(Nat) /\ k - 1 \in 0..n /\ k \in 1..n
  <2>1. NestsIn(s)
    BY <1>1, OpenedNests
  <2>2. k - 1 \in 0..n /\ k \in 1..n
    BY <1>1, <1>3
  <2> QED BY <1>2, <2>1, <2>2, OpenedStep DEF NestsIn
<1>5. Opened[k] = Append(Opened[k - 1], k)
  BY <1>3, <1>4, OpenedStep DEF Edges
<1> HIDE DEF s, d, k
<1>6. s = Append(Opened[k - 1], k)
  <2> DEFINE t == Append(Opened[k - 1], k)
  <2>1. t \in Seq(Nat) /\ Len(t) = d /\ t[d] = k /\ \A e \in 1..(d - 1) : t[e] = Opened[k - 1][e]
    BY <1>2, <1>3, <1>4, AppendProperties
  <2>2. \A e \in 1..d : t[e] = s[e]
    <3>1. \A e \in 1..d : e \in 1..(d - 1) \/ e = d
      BY <1>2
    <3> QED BY <1>4, <2>1, <3>1 DEF k
  <2> HIDE DEF t
  <2>3. s = t
    BY <1>2, <2>1, <2>2, SeqEqual DEF d
  <2> QED BY <2>3 DEF t
<1>7. Opened[j] = Opened[k - 1]
  <2>1. Opened[j] = AllButLast(s)
    BY OpenedStep DEF s
  <2>2. AllButLast(s) \in Seq(Nat) /\ Len(AllButLast(s)) = d - 1
        /\ \A e \in DOMAIN AllButLast(s) : AllButLast(s)[e] = s[e]
    BY <1>2, AllButLastFacts DEF d, s
  <2>3. \A e \in 1..(d - 1) : AllButLast(s)[e] = Opened[k - 1][e]
    <3>1. DOMAIN AllButLast(s) = 1..(d - 1)
      BY <2>2, SeqFacts
    <3> QED BY <1>4, <2>2, <3>1
  <2> QED BY <1>4, <2>1, <2>2, <2>3, SeqEqual
<1>8. j < n
  <2>1. j # n
    BY <1>1, OpenDepth DEF s
  <2> QED BY <1>1, <2>1
<1>9. ASSUME NEW i \in k..n, i < n
      PROVE  /\ Len(Opened[i]) + Fields(k, i, "close") = Len(Opened[k - 1]) + Fields(k, i, "edge")
             /\ Fields(k, i, "close") \in Nat /\ Fields(k, i, "edge") \in Nat
  <2>1. i \in Nat /\ i \in 0..n - 1 /\ k - 1 \in 0..n - 1 /\ k <= i + 1 /\ k \in Nat \ {0} /\ i \in 0..n
    BY <1>1, <1>3, <1>4, <1>9
  <2>2. /\ Len(Opened[i]) + Fields(1, i, "close") = Fields(1, i, "edge")
        /\ Len(Opened[k - 1]) + Fields(1, k - 1, "close") = Fields(1, k - 1, "edge")
    BY <2>1, OpenDepth
  <2>3. \A kind \in {"close", "edge"} :
          /\ Fields(1, i, kind) = Fields(1, k - 1, kind) + Fields(k, i, kind)
          /\ Fields(1, k - 1, kind) \in Nat /\ Fields(k, i, kind) \in Nat
    BY <2>1, FieldsSplit
  <2>4. Len(Opened[i]) \in Nat /\ Len(Opened[k - 1]) \in Nat
    BY <1>4, <2>1, OpenFacts
  <2>5. /\ Fields(1, i, "close") = Fields(1, k - 1, "close") + Fields(k, i, "close")
        /\ Fields(1, i, "edge") = Fields(1, k - 1, "edge") + Fields(k, i, "edge")
        /\ Fields(1, k - 1, "close") \in Nat /\ Fields(k, i, "close") \in Nat
        /\ Fields(1, k - 1, "edge") \in Nat /\ Fields(k, i, "edge") \in Nat
    BY <2>3
  <2> DEFINE a == Len(Opened[i])
             b == Len(Opened[k - 1])
             close == Fields(1, i, "close")
             edge == Fields(1, i, "edge")
             close0 == Fields(1, k - 1, "close")
             edge0 == Fields(1, k - 1, "edge")
             close1 == Fields(k, i, "close")
             edge1 == Fields(k, i, "edge")
  <2>6. /\ a + close = edge /\ b + close0 = edge0 /\ close = close0 + close1 /\ edge = edge0 + edge1
        /\ a \in Nat /\ b \in Nat /\ close0 \in Nat /\ close1 \in Nat /\ edge0 \in Nat /\ edge1 \in Nat
    BY <2>2, <2>4, <2>5
  <2>7. a + close1 = b + edge1
    <3> HIDE DEF a, b, close, edge, close0, edge0, close1, edge1
    <3> QED BY <2>6
  <2> QED BY <2>6, <2>7
<1>10. j \in Even
  <2>1. j \in k..n
    BY <1>1, <1>3
  <2>2. Fields(k, j, "edge") = Fields(k, j, "close")
    <3>1. /\ Len(Opened[j]) + Fields(k, j, "close") = Len(Opened[k - 1]) + Fields(k, j, "edge")
          /\ Fields(k, j, "close") \in Nat /\ Fields(k, j, "edge") \in Nat
      BY <1>8, <1>9, <2>1
    <3>2. Len(Opened[j]) = Len(Opened[k - 1]) /\ Len(Opened[k - 1]) \in Nat
      BY <1>4, <1>7
    <3> QED BY <3>1, <3>2
  <2> QED BY <2>1, <2>2
<1>11. ASSUME NEW i \in Even, i < j PROVE FALSE
  <2>1. i \in k..n /\ i < n /\ Fields(k, i, "edge") = Fields(k, i, "close") /\ i \in 0..n /\ k \in 1..i
        /\ i <= j - 1
    BY <1>1, <1>3, <1>11
  <2>2. Len(Opened[i]) = Len(Opened[k - 1])
    <3>1. /\ Len(Opened[i]) + Fields(k, i, "close") = Len(Opened[k - 1]) + Fields(k, i, "edge")
          /\ Fields(k, i, "close") \in Nat /\ Fields(k, i, "edge") \in Nat
      BY <1>9, <2>1
    <3>2. Len(Opened[i]) \in Nat /\ Len(Opened[k - 1]) \in Nat
      BY <1>4, <2>1, OpenFacts
    <3> QED BY <2>1, <3>1, <3>2
  <2>3. k \in ToSet(Opened[i])
    <3>1. k \in ToSet(s)
      BY <1>2 DEF ToSet, k
    <3>2. i \in 0..Len(query) /\ j - 1 \in 0..Len(query) /\ k \in 1..i /\ i <= j - 1
      BY <1>1, <2>1
    <3> QED BY <3>1, <3>2, StaysClosed DEF s
  <2>4. PICK e \in DOMAIN Opened[i] : Opened[i][e] = k
    BY <2>3 DEF ToSet
  <2>5. Len(Opened[k - 1]) = e - 1
    <3>1. NestsIn(Opened[i])
      BY <2>1, OpenedNests
    <3> QED BY <2>4, <3>1 DEF NestsIn
  <2>6. e \in 1..Len(Opened[i]) /\ Len(Opened[i]) \in Nat
    BY <2>1, <2>4, OpenFacts
  <2> QED BY <2>2, <2>5, <2>6
<1>12. ClosedBy(k) = j
  <2>1. ClosedBy(k) = Min(Even)
    BY DEF ClosedBy, Fields, Even
  <2>2. \A i \in Even : j <= i /\ i \in Nat
    BY <1>1, <1>3, <1>11
  <2>3. \A x \in Even : (\A y \in Even : x <= y) => x = j
    BY <1>1, <1>10, <2>2
  <2>4. Min(Even) = j
    <3> HIDE DEF Even
    <3> QED BY <1>10, <2>2, <2>3 DEF Min
  <2> QED BY <2>1, <2>4
<1>13. Last(Opened[j - 1]) = k /\ s = Opened[j - 1]
  BY <1>2 DEF s
<1> QED BY <1>3, <1>5, <1>6, <1>7, <1>12, <1>13

\* Every edge is closed by a close.
LEMMA EveryEdgeCloses ==
  ASSUME query \in Queries, NEW k \in Edges
  PROVE  \E j \in 1..Len(query) :
           query[j].kind = "close" /\ Opened[j - 1] # << >> /\ Last(Opened[j - 1]) = k
<1> SUFFICES ASSUME \A j \in 1..Len(query) : ~ (/\ query[j].kind = "close" /\ Opened[j - 1] # << >>
                                               /\ Last(Opened[j - 1]) = k)
             PROVE  FALSE
  OBVIOUS
<1> DEFINE n == Len(query)
           N == {m \in 0..n : k <= m => k \in ToSet(Opened[m])}
<1>1. n \in Nat /\ n > 0 /\ k \in 1..n /\ query[k].kind = "edge"
      /\ \A m \in 1..n : query[m].kind \in {"edge", "output", "close"}
  BY QueryFacts DEF Edges
<1>2. 0 \in N
  BY <1>1
<1>3. ASSUME NEW m \in N, m \in 0..n - 1 PROVE m + 1 \in N
  <2>1. m + 1 \in 1..n /\ (m + 1) - 1 = m /\ m + 1 \in 0..n /\ m \in Nat
    BY <1>1, <1>3
  <2>2. CASE k = m + 1
    BY <1>1, <2>1, <2>2, OpenedSets
  <2>3. CASE k <= m
    <3>1. k \in ToSet(Opened[m])
      BY <2>3
    <3>2. Opened[m] # << >>
      BY <3>1 DEF ToSet
    <3>3. ~ (query[m + 1].kind = "close" /\ Last(Opened[m]) = k)
      BY <2>1, <3>2
    <3>4. k \in ToSet(Opened[m + 1])
      <4>1. /\ query[m + 1].kind = "edge" => ToSet(Opened[m + 1]) = ToSet(Opened[m]) \cup {m + 1}
            /\ query[m + 1].kind = "output" => ToSet(Opened[m + 1]) = ToSet(Opened[m])
            /\ query[m + 1].kind = "close" /\ Opened[m] # << >> =>
                  ToSet(Opened[m + 1]) = ToSet(Opened[m]) \ {Last(Opened[m])}
        BY <2>1, OpenedSets
      <4> QED BY <1>1, <2>1, <3>1, <3>2, <3>3, <4>1
    <3> QED BY <2>1, <3>4
  <2>4. CASE ~ (k <= m + 1)
    BY <2>1, <2>4
  <2> QED BY <1>1, <2>1, <2>2, <2>3, <2>4
<1>4. 0..n \subseteq N
  <2> HIDE DEF N
  <2> QED BY <1>1, <1>2, <1>3, BoundedInduction
<1>5. k \in ToSet(Opened[n])
  BY <1>1, <1>4
<1>6. ToSet(Opened[n]) = {}
  BY OpenDepth DEF ToSet
<1> QED BY <1>5, <1>6

\* The edge that a close closes, looked up from the close, is the innermost.
LEMMA OpenerIs ==
  ASSUME query \in Queries, NEW j \in 1..Len(query), query[j].kind = "close",
         Opened[j - 1] # << >>
  PROVE  Opener(j) = Last(Opened[j - 1])
<1> DEFINE k == Last(Opened[j - 1])
           IsOpener(i) == query[i].kind = "edge" /\ ClosedBy(i) = j
<1>1. k \in DOMAIN query /\ IsOpener(k)
  BY Closes DEF Edges
<1>2. ASSUME NEW i \in DOMAIN query, IsOpener(i) PROVE i = k
  <2>1. i \in Edges
    BY <1>2 DEF Edges
  <2>2. PICK m \in 1..Len(query) :
          query[m].kind = "close" /\ Opened[m - 1] # << >> /\ Last(Opened[m - 1]) = i
    BY <2>1, EveryEdgeCloses
  <2>3. ClosedBy(i) = m
    BY <2>2, Closes
  <2> QED BY <1>2, <2>2, <2>3
<1>3. Opener(j) = CHOOSE i \in DOMAIN query : IsOpener(i)
  BY DEF Opener
<1> HIDE DEF k, IsOpener
<1>4. Opener(j) = k
  BY <1>1, <1>2, <1>3
<1> QED BY <1>4 DEF k

-----------------------------------------------------------------------------
(* What there is to be known of a query before its first n + 1 fields, as  *)
(* functions of n.                                                         *)

Vids == [i \in 0..Len(query) |-> VidAt(i)]

\* The folds that are closed, and the outputs of properties.
ClosedUpto == [n \in 0..Len(query) |-> {i \in Folds : i <= n /\ i \notin ToSet(Opened[n])}]
PropertiesUpto == [n \in 0..Len(query) |-> {o \in PropertyOutputs : o.at <= n}]

\* Every edge has a vertex of its own, and they go up.
LEMMA VidFacts ==
  ASSUME query \in Queries
  PROVE  /\ Vids[0] = RootVid
         /\ \A i \in 0..Len(query) : Vids[i] \in Nat /\ Vids[i] > 0 /\ VidAt(i) = Vids[i]
         /\ \A i \in 1..Len(query) :
              Vids[i] = IF query[i].kind = "edge" THEN Vids[i - 1] + 1 ELSE Vids[i - 1]
         /\ \A j \in Edges : /\ j \in 1..Len(query) /\ query[j].kind = "edge"
                             /\ \A i \in 0..Len(query) : i < j => Vids[i] < Vids[j]
<1> DEFINE n == Len(query)
           V(i) == RootVid + Fields(1, i, "edge")
<1>1. n \in Nat /\ DOMAIN query = 1..n
  BY QueryFacts
<1>2. \A i : VidAt(i) = V(i)
  BY DEF VidAt, Fields
<1>3. \A i \in 0..n : Vids[i] = V(i)
  BY <1>2 DEF Vids
<1>4. \A i \in 0..n : Fields(1, i, "edge") \in Nat
  BY <1>1, FieldsStep
<1>5. V(0) = RootVid
  <2>1. Fields(1, 0, "edge") = 0
    BY FieldsStep
  <2> QED BY <2>1 DEF RootVid
<1>6. ASSUME NEW i \in 1..n
      PROVE  Vids[i] = IF query[i].kind = "edge" THEN Vids[i - 1] + 1 ELSE Vids[i - 1]
  <2> DEFINE k == i - 1
  <2>1. k \in Nat /\ k \in 0..n /\ k + 1 = i /\ 1 <= k + 1 /\ i \in 0..n
    BY <1>1
  <2> HIDE DEF k
  <2>2. Fields(1, k + 1, "edge") = IF query[k + 1].kind = "edge" THEN Fields(1, k, "edge") + 1
                                   ELSE Fields(1, k, "edge")
    BY <2>1, FieldsStep
  <2>3. Vids[i] = IF query[i].kind = "edge" THEN Vids[k] + 1 ELSE Vids[k]
    BY <1>3, <1>4, <2>1, <2>2 DEF RootVid
  <2> QED BY <2>3 DEF k
<1>7. ASSUME NEW j \in Edges
      PROVE  /\ j \in 1..n /\ query[j].kind = "edge"
             /\ \A i \in 0..n : i < j => Vids[i] < Vids[j]
  <2>1. j \in 1..n /\ query[j].kind = "edge"
    BY <1>1 DEF Edges
  <2>2. ASSUME NEW i \in 0..n, i < j PROVE Vids[i] < Vids[j]
    <3> DEFINE k == j - 1
               m == i + 1
    <3>1. k \in Nat /\ k \in 0..n /\ m \in Nat \ {0} /\ m <= k + 1 /\ m - 1 = i /\ 0 \in 0..n
      BY <1>1, <2>1, <2>2
    <3>2. Vids[j] = Vids[k] + 1
      BY <1>6, <2>1
    <3> HIDE DEF k, m
    <3>3. /\ Fields(1, k, "edge") = Fields(1, i, "edge") + Fields(m, k, "edge")
          /\ Fields(m, k, "edge") \in Nat
      <4>1. /\ Fields(1, k, "edge") = Fields(1, m - 1, "edge") + Fields(m, k, "edge")
            /\ Fields(m, k, "edge") \in Nat
        BY <3>1, FieldsSplit
      <4> QED BY <3>1, <4>1
    <3>4. Vids[i] = V(i) /\ Vids[k] = V(k)
      BY <1>3, <3>1
    <3> QED BY <1>4, <3>1, <3>2, <3>3, <3>4 DEF RootVid
  <2> QED BY <2>1, <2>2
<1>8. \A i \in 0..n : Vids[i] \in Nat /\ Vids[i] > 0 /\ VidAt(i) = Vids[i]
  BY <1>2, <1>3, <1>4 DEF RootVid
<1>9. Vids[0] = RootVid
  <2>1. 0 \in 0..n
    BY <1>1
  <2> QED BY <1>3, <1>5, <2>1
<1> QED BY <1>6, <1>7, <1>8, <1>9

\* Different edges have different vertices, and none has the root's.
LEMMA VidsDiffer ==
  ASSUME query \in Queries
  PROVE  /\ \A i, j \in Edges : Vids[i] = Vids[j] => i = j
         /\ \A i \in Edges : Vids[i] # RootVid /\ Vids[i] > RootVid
         /\ \A i, j \in Edges : Vids[i] <= Vids[j] => i <= j
<1>1. Len(query) \in Nat /\ 0 \in 0..Len(query)
  BY QueryFacts
<1>2. ASSUME NEW i \in Edges, NEW j \in Edges
      PROVE  /\ i \in 1..Len(query) /\ j \in 1..Len(query)
             /\ Vids[i] \in Nat /\ Vids[j] \in Nat
             /\ i < j => Vids[i] < Vids[j]
             /\ j < i => Vids[j] < Vids[i]
             /\ Vids[0] < Vids[i] /\ Vids[0] = RootVid
  <2>1. i \in 1..Len(query) /\ j \in 1..Len(query)
    BY VidFacts
  <2>2. i \in 0..Len(query) /\ j \in 0..Len(query) /\ 0 < i
    BY <1>1, <2>1
  <2>3. Vids[i] \in Nat /\ Vids[j] \in Nat /\ Vids[0] = RootVid
    BY <2>2, VidFacts
  <2>4. (i < j => Vids[i] < Vids[j]) /\ (j < i => Vids[j] < Vids[i]) /\ Vids[0] < Vids[i]
    BY <1>1, <2>2, VidFacts
  <2> QED BY <2>1, <2>3, <2>4
<1>3. ASSUME NEW i \in Edges, NEW j \in Edges PROVE Vids[i] <= Vids[j] => i <= j
  <2>1. i \in Int /\ j \in Int
    BY <1>1, <1>2
  <2> QED BY <1>2, <2>1
<1>4. ASSUME NEW i \in Edges, NEW j \in Edges PROVE Vids[i] = Vids[j] => i = j
  <2>1. i \in Int /\ j \in Int
    BY <1>1, <1>2
  <2> QED BY <1>2, <2>1
<1>5. ASSUME NEW i \in Edges PROVE Vids[i] # RootVid /\ Vids[i] > RootVid
  BY <1>2 DEF RootVid
<1> QED BY <1>3, <1>4, <1>5

\* A set of numbers that has a bound has a largest one.
LEMMA LargestExists ==
  ASSUME NEW n \in Nat, NEW N, N \subseteq 0..n, N # {}
  PROVE  Max(N) \in N /\ \A x \in N : x <= Max(N)
<1> DEFINE HasLargest(M) == \E m \in M : \A x \in M : m >= x
           K == {k \in 0..n : \A M \in SUBSET (0..k) : M # {} => HasLargest(M)}
<1>1. 0 \in K
  <2>1. ASSUME NEW M \in SUBSET (0..0), M # {} PROVE HasLargest(M)
    <3>1. 0..0 = {0}
      OBVIOUS
    <3>2. M = {0}
      BY <2>1, <3>1
    <3> QED BY <3>2
  <2> HIDE DEF HasLargest
  <2> QED BY <2>1
<1>2. ASSUME NEW k \in K, k \in 0..n - 1 PROVE k + 1 \in K
  <2>1. k + 1 \in 0..n /\ k \in Nat
    BY <1>2
  <2>2. ASSUME NEW M \in SUBSET (0..k + 1), M # {} PROVE HasLargest(M)
    <3>1. CASE k + 1 \in M
      BY <2>1, <3>1
    <3>2. CASE k + 1 \notin M
      <4>1. M \subseteq 0..k
        BY <2>1, <3>2
      <4> QED BY <2>2, <4>1
    <3> QED BY <3>1, <3>2
  <2> QED BY <2>1, <2>2
<1>3. HasLargest(N)
  <2>1. 0..n \subseteq K
    <3> HIDE DEF K
    <3> QED BY <1>1, <1>2, BoundedInduction
  <2> QED BY <2>1
<1>4. Max(N) \in N /\ \A x \in N : Max(N) >= x
  <2>1. Max(N) = CHOOSE x \in N : \A y \in N : x >= y
    BY DEF Max
  <2> QED BY <1>3, <2>1
<1>5. \A x \in N : x \in Int
  OBVIOUS
<1> QED BY <1>4, <1>5

\* m is the innermost open fold, or the field before the query.
IsInnermostFold(q, open, m) ==
  \/ m = 0 /\ \A j \in ToSet(open) : ~ q[j].fold
  \/ m \in ToSet(open) /\ q[m].fold /\ \A j \in ToSet(open) : q[j].fold => j <= m

\* A field is in the component of the innermost open fold.
LEMMA RootIs ==
  ASSUME query \in Queries, NEW n \in 0..Len(query)
  PROVE  /\ \E m \in 0..n : IsInnermostFold(query, Opened[n], m)
         /\ \A m : IsInnermostFold(query, Opened[n], m) => m \in 0..n /\ RootAt(n) = Vids[m]
<1> DEFINE folds == {j \in ToSet(Opened[n]) : query[j].fold}
<1>1. n \in Nat /\ Len(query) \in Nat
  BY QueryFacts
<1>2. ToSet(Opened[n]) \subseteq 1..n
  BY OpenFacts DEF ToSet
<1>3. RootAt(n) = VidAt(IF folds = {} THEN 0 ELSE Max(folds))
  BY DEF RootAt
<1>4. \A m \in 0..n : VidAt(m) = Vids[m]
  <2>1. 0..n \subseteq 0..Len(query)
    BY <1>1
  <2> QED BY <2>1, VidFacts
<1>5. folds # {} => Max(folds) \in folds /\ \A x \in folds : x <= Max(folds)
  <2>1. folds \subseteq 0..n
    BY <1>1, <1>2
  <2> HIDE DEF folds
  <2> QED BY <1>1, <2>1, LargestExists
<1>6. \E m \in 0..n : IsInnermostFold(query, Opened[n], m)
  <2>1. CASE folds = {}
    BY <1>1, <2>1 DEF IsInnermostFold
  <2>2. CASE folds # {}
    <3>1. Max(folds) \in folds /\ \A x \in folds : x <= Max(folds)
      BY <1>5, <2>2
    <3>2. IsInnermostFold(query, Opened[n], Max(folds))
      BY <3>1 DEF IsInnermostFold
    <3>3. Max(folds) \in 0..n
      BY <1>1, <1>2, <3>1
    <3> QED BY <3>2, <3>3
  <2> QED BY <2>1, <2>2
<1>7. ASSUME NEW m, IsInnermostFold(query, Opened[n], m)
      PROVE  m \in 0..n /\ RootAt(n) = Vids[m]
  <2>1. CASE m = 0 /\ folds = {}
    BY <1>1, <1>3, <1>4, <2>1
  <2>2. CASE m \in folds /\ \A j \in folds : j <= m
    <3>1. Max(folds) = m
      <4>1. Max(folds) \in folds /\ m <= Max(folds) /\ Max(folds) <= m
        BY <1>5, <2>2
      <4>2. m \in Int /\ Max(folds) \in Int
        BY <1>1, <1>2, <2>2, <4>1
      <4> QED BY <4>1, <4>2
    <3>2. m \in 0..n /\ folds # {}
      BY <1>1, <1>2, <2>2
    <3> QED BY <1>3, <1>4, <3>1, <3>2
  <2>3. (m = 0 /\ folds = {}) \/ (m \in folds /\ \A j \in folds : j <= m)
    BY <1>7 DEF IsInnermostFold
  <2> QED BY <2>1, <2>2, <2>3
<1> QED BY <1>6, <1>7

PropertyOutput(i) ==
  [at |-> i, root |-> RootAt(i), ref |-> [kind |-> "context", vid |-> VertexAt(i)],
   name |-> IF query[i].output.explicit # None THEN query[i].output.explicit
            ELSE PrefixAt(i) \o query[i].output.local]

CountOutput(i, c) ==
  [at |-> <<i, c>>, root |-> VidAt(i), ref |-> [kind |-> "count", vid |-> VidAt(i)],
   name |-> IF query[i].counts[c] # None THEN query[i].counts[c]
            ELSE PrefixAt(i) \o LocalCountName(query[i]) \o Count]

\* The outputs by the fields they are of.
LEMMA OutputRecords ==
  /\ PropertyOutputs = {PropertyOutput(i) : i \in {j \in DOMAIN query : query[j].kind = "output"}}
  /\ \A o : o \in CountOutputs <=>
              \E i \in Folds : \E c \in DOMAIN query[i].counts : o = CountOutput(i, c)
<1>1. PropertyOutputs = {PropertyOutput(i) : i \in {j \in DOMAIN query : query[j].kind = "output"}}
  BY DEF PropertyOutputs, PropertyOutput
<1>2. CountOutputs = UNION {{CountOutput(i, c) : c \in DOMAIN query[i].counts} : i \in Folds}
  BY DEF CountOutputs, CountOutput
<1> QED BY <1>1, <1>2

\* What the records say.
LEMMA OutputFacts ==
  /\ \A i : /\ PropertyOutput(i).at = i /\ PropertyOutput(i).root = RootAt(i)
            /\ PropertyOutput(i).ref = [kind |-> "context", vid |-> VertexAt(i)]
            /\ PropertyOutput(i).name = IF query[i].output.explicit # None THEN query[i].output.explicit
                                        ELSE PrefixAt(i) \o query[i].output.local
  /\ \A i, c : /\ CountOutput(i, c).at = <<i, c>> /\ CountOutput(i, c).root = VidAt(i)
               /\ CountOutput(i, c).ref = [kind |-> "count", vid |-> VidAt(i)]
               /\ CountOutput(i, c).name = IF query[i].counts[c] # None THEN query[i].counts[c]
                                           ELSE PrefixAt(i) \o LocalCountName(query[i]) \o Count
  /\ \A o \in PropertyOutputs : o.ref.kind = "context"
  /\ \A o \in CountOutputs : o.ref.kind = "count"
<1>1. \A i : /\ PropertyOutput(i).at = i /\ PropertyOutput(i).root = RootAt(i)
             /\ PropertyOutput(i).ref = [kind |-> "context", vid |-> VertexAt(i)]
             /\ PropertyOutput(i).name = IF query[i].output.explicit # None THEN query[i].output.explicit
                                         ELSE PrefixAt(i) \o query[i].output.local
  BY DEF PropertyOutput
<1>2. \A i, c : /\ CountOutput(i, c).at = <<i, c>> /\ CountOutput(i, c).root = VidAt(i)
                /\ CountOutput(i, c).ref = [kind |-> "count", vid |-> VidAt(i)]
                /\ CountOutput(i, c).name = IF query[i].counts[c] # None THEN query[i].counts[c]
                                            ELSE PrefixAt(i) \o LocalCountName(query[i]) \o Count
  BY DEF CountOutput
<1>3. ASSUME NEW o \in PropertyOutputs PROVE o.ref.kind = "context"
  <2>1. PICK i : o = PropertyOutput(i)
    BY OutputRecords
  <2>2. o.ref = [kind |-> "context", vid |-> VertexAt(i)]
    BY <1>1, <2>1
  <2> QED BY <2>2
<1>4. ASSUME NEW o \in CountOutputs PROVE o.ref.kind = "count"
  <2>1. PICK i, c : o = CountOutput(i, c)
    BY OutputRecords
  <2>2. o.ref = [kind |-> "count", vid |-> VidAt(i)]
    BY <1>2, <2>1
  <2> QED BY <2>2
<1> QED BY <1>1, <1>2, <1>3, <1>4

\* A query is valid if it has no other error and its outputs have names of their own.
LEMMA ValidIs ==
  Valid <=> /\ \A i \in Edges : query[i].error = "none"
            /\ \A o, p \in PropertyOutputs \cup CountOutputs : o.name = p.name => o = p
<1>1. \A o \in PropertyOutputs, p \in CountOutputs : o # p
  BY OutputFacts
<1> QED BY <1>1 DEF Valid

\* How what is closed grows with each field.
LEMMA ClosedStep ==
  ASSUME query \in Queries, NEW n \in 1..Len(query)
  PROVE  /\ query[n].kind \in {"edge", "output"} => ClosedUpto[n] = ClosedUpto[n - 1]
         /\ query[n].kind = "close" /\ Opened[n - 1] = << >> => ClosedUpto[n] = ClosedUpto[n - 1]
         /\ query[n].kind = "close" /\ Opened[n - 1] # << >> =>
              LET k == Last(Opened[n - 1])
              IN  /\ k \notin ClosedUpto[n - 1]
                  /\ ClosedUpto[n] = ClosedUpto[n - 1] \cup (IF query[k].fold THEN {k} ELSE {})
<1>1. Len(query) \in Nat /\ n \in 0..Len(query) /\ n - 1 \in 0..Len(query) /\ n \in Nat /\ n > 0
  BY QueryFacts
<1>2. /\ ClosedUpto[n] = {i \in Folds : i <= n /\ i \notin ToSet(Opened[n])}
      /\ ClosedUpto[n - 1] = {i \in Folds : i <= n - 1 /\ i \notin ToSet(Opened[n - 1])}
  BY <1>1 DEF ClosedUpto
<1>3. \A i \in Folds : i \in Nat /\ query[i].kind = "edge" /\ i \in Edges /\ query[i].fold
  <2>1. \A i \in Folds : i \in Edges /\ query[i].fold
    BY DEF Folds
  <2>2. \A i \in Edges : i \in 1..Len(query) /\ query[i].kind = "edge"
    BY VidFacts
  <2> QED BY <1>1, <2>1, <2>2
<1>4. ToSet(Opened[n - 1]) \subseteq 1..(n - 1)
  BY <1>1, OpenFacts DEF ToSet
<1>5. CASE query[n].kind = "edge"
  <2>1. ToSet(Opened[n]) = ToSet(Opened[n - 1]) \cup {n}
    BY <1>5, OpenedSets
  <2>2. \A i \in Folds : (i <= n /\ i # n) <=> i <= n - 1
    BY <1>1, <1>3
  <2>3. ClosedUpto[n] = ClosedUpto[n - 1]
    BY <1>1, <1>2, <2>1, <2>2
  <2> QED BY <1>5, <2>3
<1>6. query[n].kind # "edge" => \A i \in Folds : i <= n <=> i <= n - 1
  BY <1>1, <1>3
<1>7. CASE query[n].kind = "output"
  <2>1. ToSet(Opened[n]) = ToSet(Opened[n - 1])
    BY <1>7, OpenedSets
  <2>2. ClosedUpto[n] = ClosedUpto[n - 1]
    BY <1>2, <1>6, <1>7, <2>1
  <2> QED BY <1>7, <2>2
<1>8. CASE query[n].kind = "close" /\ Opened[n - 1] = << >>
  <2>1. ToSet(Opened[n]) = ToSet(Opened[n - 1])
    BY <1>8, OpenedSets
  <2>2. ClosedUpto[n] = ClosedUpto[n - 1]
    BY <1>2, <1>6, <1>8, <2>1
  <2> QED BY <1>8, <2>2
<1>9. CASE query[n].kind = "close" /\ Opened[n - 1] # << >>
  <2> DEFINE k == Last(Opened[n - 1])
  <2>1. ToSet(Opened[n]) = ToSet(Opened[n - 1]) \ {k} /\ k \in ToSet(Opened[n - 1])
    BY <1>9, OpenedSets
  <2>2. k \in Edges /\ k <= n - 1
    BY <1>1, <1>4, <1>9, <2>1, Closes
  <2> HIDE DEF k
  <2>3. k \in Folds <=> query[k].fold
    BY <2>2 DEF Folds
  <2>4. k \notin ClosedUpto[n - 1]
    BY <1>2, <2>1
  <2>5. ClosedUpto[n] = ClosedUpto[n - 1] \cup (IF query[k].fold THEN {k} ELSE {})
    BY <1>2, <1>6, <1>9, <2>1, <2>2, <2>3
  <2> QED BY <1>9, <2>4, <2>5 DEF k
<1> QED BY <1>5, <1>7, <1>8, <1>9

\* How the outputs grow with each field.
LEMMA PropertiesStep ==
  ASSUME query \in Queries, NEW n \in 1..Len(query)
  PROVE  /\ query[n].kind \in {"edge", "close"} => PropertiesUpto[n] = PropertiesUpto[n - 1]
         /\ query[n].kind = "output" =>
              /\ PropertyOutput(n) \in PropertyOutputs /\ PropertyOutput(n) \notin PropertiesUpto[n - 1]
              /\ PropertiesUpto[n] = PropertiesUpto[n - 1] \cup {PropertyOutput(n)}
<1>1. /\ Len(query) \in Nat /\ n \in 0..Len(query) /\ n - 1 \in 0..Len(query) /\ n \in Nat
      /\ DOMAIN query = 1..Len(query)
  BY QueryFacts
<1>2. /\ PropertiesUpto[n] = {o \in PropertyOutputs : o.at <= n}
      /\ PropertiesUpto[n - 1] = {o \in PropertyOutputs : o.at <= n - 1}
  BY <1>1 DEF PropertiesUpto
<1>3. \A o \in PropertyOutputs : /\ o.at \in 1..Len(query) /\ query[o.at].kind = "output"
                                 /\ o = PropertyOutput(o.at)
  BY <1>1, OutputRecords, OutputFacts
<1>4. \A o \in PropertyOutputs : o.at <= n <=> o.at <= n - 1 \/ o.at = n
  BY <1>1, <1>3
<1>5. query[n].kind # "output" => PropertiesUpto[n] = PropertiesUpto[n - 1]
  BY <1>2, <1>3, <1>4
<1>6. ASSUME query[n].kind = "output"
      PROVE  /\ PropertyOutput(n) \in PropertyOutputs /\ PropertyOutput(n) \notin PropertiesUpto[n - 1]
             /\ PropertiesUpto[n] = PropertiesUpto[n - 1] \cup {PropertyOutput(n)}
  <2>1. PropertyOutput(n) \in PropertyOutputs /\ PropertyOutput(n).at = n
    BY <1>1, <1>6, OutputRecords, OutputFacts
  <2>2. ~ (n <= n - 1)
    BY <1>1
  <2>3. PropertyOutput(n) \notin PropertiesUpto[n - 1]
    BY <1>2, <2>1, <2>2
  <2>4. \A o \in PropertyOutputs : o.at = n <=> o = PropertyOutput(n)
    BY <1>3, <2>1
  <2>5. PropertiesUpto[n] = PropertiesUpto[n - 1] \cup {PropertyOutput(n)}
    BY <1>2, <1>4, <2>1, <2>4
  <2> QED BY <2>1, <2>3, <2>5
<1> QED BY <1>5, <1>6

\* In the end everything has been seen and is closed.
LEMMA InTheEnd ==
  ASSUME query \in Queries
  PROVE  /\ ClosedUpto[Len(query)] = Folds /\ PropertiesUpto[Len(query)] = PropertyOutputs
         /\ ClosedUpto[0] = {} /\ PropertiesUpto[0] = {}
<1>1. Len(query) \in Nat /\ Len(query) \in 0..Len(query) /\ 0 \in 0..Len(query) /\ DOMAIN query = 1..Len(query)
  BY QueryFacts
<1>2. \A i \in Folds : i \in 1..Len(query)
  BY <1>1 DEF Folds, Edges
<1>3. ToSet(Opened[Len(query)]) = {}
  BY OpenDepth DEF ToSet
<1>4. \A o \in PropertyOutputs : o.at \in 1..Len(query)
  BY <1>1, OutputRecords, OutputFacts
<1>5. ClosedUpto[Len(query)] = Folds /\ ClosedUpto[0] = {}
  BY <1>1, <1>2, <1>3 DEF ClosedUpto
<1>6. PropertiesUpto[Len(query)] = PropertyOutputs /\ PropertiesUpto[0] = {}
  BY <1>1, <1>4 DEF PropertiesUpto
<1> QED BY <1>5, <1>6

-----------------------------------------------------------------------------
(* Lists of outputs.                                                       *)

NameAndRef(o) == [name |-> o.name, ref |-> o.ref]

\* The list has each of the outputs once.
IsListing(seq, S, of) ==
  /\ of \in [1..Len(seq) -> S]
  /\ \A i \in 1..Len(seq) : seq[i] = NameAndRef(of[i])
  /\ \A i, j \in 1..Len(seq) : of[i] = of[j] => i = j
  /\ \A o \in S : \E i \in 1..Len(seq) : of[i] = o

Lists(seq, S) == seq \in Seq({NameAndRef(o) : o \in S}) /\ \E of : IsListing(seq, S, of)

\* The empty list has none.
LEMMA ListsNone == Lists(<< >>, {})
<1>1. << >> \in Seq({NameAndRef(o) : o \in {}}) /\ Len(<< >>) = 0 /\ 1..0 = {}
  OBVIOUS
<1>2. IsListing(<< >>, {}, [i \in 1..0 |-> i])
  BY <1>1 DEF IsListing
<1> QED BY <1>1, <1>2 DEF Lists

\* Another output at the end.
LEMMA ListsAppend ==
  ASSUME NEW S, NEW seq, Lists(seq, S), NEW x, x \notin S
  PROVE  Lists(Append(seq, NameAndRef(x)), S \cup {x})
<1> DEFINE n == Len(seq)
           R(T) == {NameAndRef(o) : o \in T}
           v == NameAndRef(x)
           more == Append(seq, v)
           T == S \cup {x}
<1>1. PICK of : IsListing(seq, S, of)
  BY DEF Lists
<1>2. seq \in Seq(R(S)) /\ n \in Nat /\ R(S) \subseteq R(T) /\ v \in R(T)
  BY DEF Lists
<1>3. seq \in Seq(R(T))
  <2> HIDE DEF R, T
  <2> QED BY <1>2, SeqMonotonic
<1>4. /\ more \in Seq(R(T)) /\ Len(more) = n + 1 /\ more[n + 1] = v
      /\ \A i \in 1..n : more[i] = seq[i]
  <2> HIDE DEF R, T, v
  <2> QED BY <1>2, <1>3, AppendProperties
<1> DEFINE of1 == [i \in 1..n + 1 |-> IF i = n + 1 THEN x ELSE of[i]]
<1>5. \A i \in 1..n + 1 : i = n + 1 \/ i \in 1..n
  BY <1>2
<1>6. of1[n + 1] = x /\ \A i \in 1..n : of1[i] = of[i] /\ of[i] \in S /\ i # n + 1
  BY <1>1, <1>2 DEF IsListing
<1>7. of1 \in [1..n + 1 -> T]
  BY <1>5, <1>6
<1> HIDE DEF of1, more, T
<1>8. \A i \in 1..n + 1 : more[i] = NameAndRef(of1[i])
  BY <1>1, <1>4, <1>5, <1>6 DEF IsListing
<1>9. \A i, j \in 1..n + 1 : of1[i] = of1[j] => i = j
  <2>1. \A i, j \in 1..n : of[i] = of[j] => i = j
    BY <1>1 DEF IsListing
  <2> QED BY <1>5, <1>6, <2>1
<1>10. \A o \in T : \E i \in 1..n + 1 : of1[i] = o
  <2>1. n + 1 \in 1..n + 1 /\ \A i \in 1..n : i \in 1..n + 1
    BY <1>2
  <2>2. \A o \in S : \E i \in 1..n : of[i] = o
    BY <1>1 DEF IsListing
  <2> QED BY <1>6, <2>1, <2>2 DEF T
<1>11. IsListing(more, T, of1)
  BY <1>4, <1>7, <1>8, <1>9, <1>10 DEF IsListing
<1> QED BY <1>4, <1>11 DEF Lists, more, T

\* What is in a list, and when it has a name twice.
LEMMA ListsFacts ==
  ASSUME NEW S, NEW seq, Lists(seq, S)
  PROVE  /\ ToSet(seq) = {NameAndRef(o) : o \in S}
         /\ Duplicates(seq) = {} <=> \A o, p \in S : o.name = p.name => o = p
<1> DEFINE n == Len(seq)
<1>1. PICK of : IsListing(seq, S, of)
  BY DEF Lists
<1>2. DOMAIN seq = 1..n
  BY DEF Lists
<1>3. /\ \A i \in 1..n : of[i] \in S /\ seq[i] = NameAndRef(of[i])
      /\ \A i, j \in 1..n : of[i] = of[j] => i = j
      /\ \A o \in S : \E i \in 1..n : of[i] = o
  BY <1>1 DEF IsListing
<1>4. \A o : NameAndRef(o).name = o.name
  BY DEF NameAndRef
<1> HIDE DEF n
<1>5. ToSet(seq) = {NameAndRef(o) : o \in S}
  BY <1>2, <1>3 DEF ToSet
<1>6. \A i \in 1..n : seq[i].name = of[i].name
  BY <1>3, <1>4
<1>7. Duplicates(seq) = {} <=> \A i, j \in 1..n : seq[i].name = seq[j].name => i = j
  BY <1>2 DEF Duplicates
<1>8. (\A i, j \in 1..n : seq[i].name = seq[j].name => i = j)
        <=> \A o, p \in S : o.name = p.name => o = p
  BY <1>3, <1>6
<1> QED BY <1>5, <1>7, <1>8

-----------------------------------------------------------------------------
(* The handler is exactly where the query is, as long as there is no error. *)

\* The fold whose count is being output, and the field whose scope is open.
PendingFold == IF phase = "counts" THEN folding.field ELSE 0
OpenAt == IF phase = "counts" THEN folding.field ELSE at - 1

Position ==
  /\ at - 1 \in 0..Len(query)
  /\ phase \in {"fill", "counts"} => at \in 1..Len(query)
  /\ phase \notin {"fill", "counts"} => at - 1 = Len(query)
  /\ phase = "counts" => /\ folding.field \in ClosedUpto[at - 1]
                         /\ Opened[folding.field - 1] = Opened[at - 1]
                         /\ folding = [root |-> Vids[folding.field], field |-> folding.field,
                                       next |-> folding.next]
                         /\ folding.next \in 1..Len(query[folding.field].counts) + 1

\* The vertices and the aliases of the open edges are on the stack.
ScopesAre(q, vids, open, n, stack, prefs, next) ==
  /\ next = vids[n] + 1
  /\ stack = [d \in DOMAIN open |-> vids[open[d]]]
  /\ \A v \in DOMAIN prefs : v \in Nat /\ v < next
  /\ \A i \in 1..n : q[i].kind = "edge" => vids[i] \in DOMAIN prefs /\ prefs[vids[i]] = q[i].alias

Scopes == ScopesAre(query, Vids, Opened[OpenAt], at - 1, vidStack, prefixes, nextVid)

\* No edge has had an error, but for one at its count that is still to come.
CleanIs(q, open, n) ==
  \A i \in 1..n : q[i].kind = "edge" =>
    q[i].error = "none" \/ (q[i].error = "count" /\ q[i].fold /\ i \in ToSet(open))

Clean == CleanIs(query, Opened[OpenAt], at - 1)

\* The components being made are the root's and those of the open folds.
NestedIs(q, vids, open, cs) ==
  /\ \A k, l \in 1..Len(cs) : k < l => cs[k].root < cs[l].root
  /\ {cs[k].root : k \in 2..Len(cs)} = {vids[i] : i \in {j \in ToSet(open) : q[j].fold}}

Nested == NestedIs(query, Vids, Opened[at - 1], components)

CountsAmong(all, closed, f, c) == {o \in all : o.at[1] \in closed /\ (o.at[1] = f => o.at[2] < c)}

CountsSoFar == CountsAmong(CountOutputs, ClosedUpto[at - 1], PendingFold, folding.next)

\* Every output is in the list of all, and in the one of its component.
ListsComponent(seq, root, P, C) == \E T \in SUBSET C : Lists(seq, {o \in P : o.root = root} \cup T)

ListedIs(P, C, global, lists, cs) ==
  /\ Lists(global, P \cup C)
  /\ Len(lists) = Len(cs)
  /\ \A k \in 1..Len(cs) : ListsComponent(lists[k], cs[k].root, P, C)

Listed ==
  IF phase \in {"fill", "counts"}
    THEN ListedIs(PropertiesUpto[at - 1], CountsSoFar, globalOutputs, componentOutputs, components)
    ELSE Lists(globalOutputs, PropertyOutputs \cup CountOutputs)

\* What the component and the count of a fold should be; 0 stands for the root.
ComponentMade ==
  [i \in 0..Len(query) |->
     [kind |-> "component", root |-> VidAt(i), outputs |-> OutputsOf(PropertyOutputs, VidAt(i))]]
FoldMade ==
  [i \in 0..Len(query) |->
     [kind |-> "fold", root |-> VidAt(i), outputs |-> OutputsOf(CountOutputs, VidAt(i))]]

MadeOf(parts, folds, closed, f) == {parts[i] : i \in closed} \cup {folds[i] : i \in closed \ {f}}

Made ==
  made = MadeOf(ComponentMade, FoldMade, ClosedUpto[at - 1], PendingFold)
           \cup (IF phase \in {"fill", "counts"} THEN {} ELSE {ComponentMade[0]})

Exact == Position /\ Scopes /\ Clean /\ Nested /\ Listed /\ Made

\* An error that is marked is one of the query; without one everything is in its place.
Outcome ==
  /\ phase \in {"fill", "counts"} => IF SomeFailed(components) THEN ~ Valid ELSE Exact
  /\ phase = "finish" => Exact
  /\ phase \in {"rejected", "lookup failed"} => ~ Valid
  /\ phase = "accepted" => Valid /\ Made /\ at - 1 = Len(query)

OutcomeInv == IInv /\ query \in Queries /\ Outcome

\* What depends on the query alone stays what it is.
LEMMA SameQuery ==
  ASSUME query' = query
  PROVE  /\ Opened' = Opened /\ Edges' = Edges /\ Folds' = Folds /\ Vids' = Vids
         /\ PropertyOutputs' = PropertyOutputs /\ CountOutputs' = CountOutputs
         /\ ClosedUpto' = ClosedUpto /\ PropertiesUpto' = PropertiesUpto
         /\ ComponentMade' = ComponentMade /\ FoldMade' = FoldMade
         /\ Valid' <=> Valid
<1>1. Opened' = Opened
  BY DEF Opened
<1>2. Edges' = Edges
  BY DEF Edges
<1>3. Folds' = Folds
  BY <1>2 DEF Folds
<1>4. \A i : VidAt(i)' = VidAt(i)
  BY DEF VidAt
<1>5. Vids' = Vids
  BY <1>4 DEF Vids
<1>6. \A i : RootAt(i)' = RootAt(i)
  BY DEF RootAt, VidAt, Opened
<1>7. \A i : VertexAt(i)' = VertexAt(i)
  BY DEF VertexAt, VidAt, Opened
<1>8. \A i : PrefixAt(i)' = PrefixAt(i)
  BY DEF PrefixAt, Opened
<1>9. PropertyOutputs' = PropertyOutputs
  BY <1>6, <1>7, <1>8 DEF PropertyOutputs
<1>10. CountOutputs' = CountOutputs
  <2>1. \A i, c : CountOutput(i, c)' = CountOutput(i, c)
    BY <1>4, <1>8 DEF CountOutput, LocalCountName
  <2>2. \A o : o \in CountOutputs <=>
                \E i \in Folds : \E c \in DOMAIN query[i].counts : o = CountOutput(i, c)
    BY OutputRecords
  <2>3. (\A o : o \in CountOutputs <=>
                \E i \in Folds : \E c \in DOMAIN query[i].counts : o = CountOutput(i, c))'
    BY OutputRecords, PTL
  <2>4. \A o : o \in CountOutputs' <=> o \in CountOutputs
    BY <1>3, <2>1, <2>2, <2>3
  <2> QED BY <2>4
<1>11. ClosedUpto' = ClosedUpto
  BY <1>1, <1>3 DEF ClosedUpto
<1>12. PropertiesUpto' = PropertiesUpto
  BY <1>9 DEF PropertiesUpto
<1>13. ComponentMade' = ComponentMade
  BY <1>4, <1>9 DEF ComponentMade
<1>14. FoldMade' = FoldMade
  BY <1>4, <1>10 DEF FoldMade
<1>15. Valid' <=> Valid
  BY <1>2, <1>9, <1>10 DEF Valid
<1> QED BY <1>1, <1>2, <1>3, <1>5, <1>9, <1>10, <1>11, <1>12, <1>13, <1>14, <1>15

\* The prefixes with another one.
Wider(prefs, v, alias) == [w \in DOMAIN prefs \cup {v} |-> IF w = v THEN alias ELSE prefs[w]]

\* Opening an edge.
LEMMA ScopesPush ==
  ASSUME NEW q, NEW vids, NEW open \in Seq(Nat), NEW n \in Nat, NEW stack, NEW prefs, NEW next,
         ScopesAre(q, vids, open, n, stack, prefs, next),
         next \in Nat, vids[n + 1] = next, \A d \in DOMAIN open : vids[open[d]] \in Nat,
         \A i \in 1..n : vids[i] \in Nat
  PROVE  ScopesAre(q, vids, Append(open, n + 1), n + 1, Append(stack, next),
                   Wider(prefs, next, q[n + 1].alias), next + 1)
<1> DEFINE m == Len(open)
           more == Append(stack, next)
           wide == Append(open, n + 1)
           all == Wider(prefs, next, q[n + 1].alias)
<1>1. /\ next = vids[n] + 1
      /\ stack = [d \in DOMAIN open |-> vids[open[d]]]
      /\ \A v \in DOMAIN prefs : v \in Nat /\ v < next
      /\ \A i \in 1..n : q[i].kind = "edge" => vids[i] \in DOMAIN prefs /\ prefs[vids[i]] = q[i].alias
  BY DEF ScopesAre
<1>2. m \in Nat /\ DOMAIN open = 1..m
  OBVIOUS
<1>3. stack \in Seq(Nat) /\ Len(stack) = m /\ \A d \in 1..m : stack[d] = vids[open[d]]
  <2>1. stack = [d \in 1..m |-> vids[open[d]]]
    BY <1>1, <1>2
  <2> QED BY <1>2, <2>1, SMTT(30)
<1>4. more \in Seq(Nat) /\ Len(more) = m + 1 /\ more[m + 1] = next /\ \A d \in 1..m : more[d] = stack[d]
  BY <1>3, AppendProperties
<1>5. /\ wide \in Seq(Nat) /\ Len(wide) = m + 1 /\ wide[m + 1] = n + 1
      /\ \A d \in 1..m : wide[d] = open[d]
  BY <1>2, AppendProperties
<1>6. DOMAIN more = 1..m + 1 /\ DOMAIN wide = 1..m + 1
  BY <1>4, <1>5, SeqFacts
<1> HIDE DEF more, wide
<1>7. more = [d \in DOMAIN wide |-> vids[wide[d]]]
  <2>1. \A d \in 1..m + 1 : more[d] = vids[wide[d]]
    <3>1. \A d \in 1..m + 1 : d = m + 1 \/ d \in 1..m
      BY <1>2
    <3> QED BY <1>3, <1>4, <1>5, <3>1
  <2>2. more = [d \in 1..m + 1 |-> more[d]]
    BY <1>4
  <2> QED BY <1>6, <2>1, <2>2
<1>8. DOMAIN all = DOMAIN prefs \cup {next}
      /\ \A v \in DOMAIN all : all[v] = IF v = next THEN q[n + 1].alias ELSE prefs[v]
  BY DEF Wider
<1> HIDE DEF all
<1>9. \A v \in DOMAIN all : v \in Nat /\ v < next + 1
  BY <1>1, <1>8
<1>10. \A i \in 1..n + 1 : q[i].kind = "edge" => vids[i] \in DOMAIN all /\ all[vids[i]] = q[i].alias
  <2>1. \A i \in 1..n + 1 : i = n + 1 \/ i \in 1..n
    OBVIOUS
  <2>2. next \notin DOMAIN prefs
    BY <1>1
  <2> QED BY <1>1, <1>8, <2>1, <2>2
<1>11. next + 1 = vids[n + 1] + 1
  OBVIOUS
<1> QED BY <1>7, <1>9, <1>10, <1>11 DEF ScopesAre, more, wide, all

\* Going past a field that opens none.
LEMMA ScopesMove ==
  ASSUME NEW q, NEW vids, NEW open, NEW n \in Nat, NEW stack, NEW prefs, NEW next,
         ScopesAre(q, vids, open, n, stack, prefs, next),
         vids[n + 1] = vids[n], q[n + 1].kind # "edge"
  PROVE  ScopesAre(q, vids, open, n + 1, stack, prefs, next)
<1>1. \A i \in 1..n + 1 : i = n + 1 \/ i \in 1..n
  OBVIOUS
<1> QED BY <1>1 DEF ScopesAre

\* Closing an edge.
LEMMA ScopesPop ==
  ASSUME NEW q, NEW vids, NEW open \in Seq(Nat), NEW n, NEW stack, NEW prefs, NEW next,
         ScopesAre(q, vids, open, n, stack, prefs, next), open # << >>,
         \A d \in DOMAIN open : vids[open[d]] \in Nat
  PROVE  ScopesAre(q, vids, AllButLast(open), n, AllButLast(stack), prefs, next)
<1> DEFINE m == Len(open)
           less == AllButLast(stack)
           narrow == AllButLast(open)
<1>1. stack = [d \in DOMAIN open |-> vids[open[d]]]
  BY DEF ScopesAre
<1>2. m \in Nat /\ DOMAIN open = 1..m /\ m > 0
  BY SeqFacts
<1>3. stack \in Seq(Nat) /\ Len(stack) = m /\ \A d \in 1..m : stack[d] = vids[open[d]]
  <2>1. stack = [d \in 1..m |-> vids[open[d]]]
    BY <1>1, <1>2
  <2> QED BY <1>2, <2>1
<1>4. stack # << >> /\ DOMAIN stack = 1..m
  BY <1>2, <1>3, EmptySeq, SeqFacts
<1>5. less \in Seq(Nat) /\ Len(less) = m - 1 /\ \A d \in DOMAIN less : less[d] = stack[d]
  BY <1>3, <1>4, AllButLastFacts
<1>6. narrow \in Seq(Nat) /\ Len(narrow) = m - 1 /\ \A d \in DOMAIN narrow : narrow[d] = open[d]
  BY AllButLastFacts
<1>7. DOMAIN less = 1..m - 1 /\ DOMAIN narrow = 1..m - 1
  BY <1>5, <1>6, SeqFacts
<1> HIDE DEF less, narrow
<1>8. less = [d \in DOMAIN narrow |-> vids[narrow[d]]]
  <2>1. \A d \in 1..m - 1 : less[d] = vids[narrow[d]]
    <3>1. \A d \in 1..m - 1 : d \in 1..m
      BY <1>2
    <3> QED BY <1>3, <1>5, <1>6, <1>7, <3>1
  <2>2. less = [d \in 1..m - 1 |-> less[d]]
    BY <1>5, <1>7
  <2> QED BY <1>7, <2>1, <2>2
<1> QED BY <1>8 DEF ScopesAre, less, narrow

-----------------------------------------------------------------------------
(* The components and their lists, as they grow and shrink.                *)

\* The indices of components.
LEMMA ComponentFacts ==
  ASSUME NEW cs \in Seq(ComponentRecord), cs # << >>
  PROVE  /\ Len(cs) \in Nat /\ Len(cs) > 0 /\ DOMAIN cs = 1..Len(cs)
         /\ \A k \in 1..Len(cs) : cs[k] \in ComponentRecord /\ cs[k].root \in Nat
<1>1. Len(cs) \in Nat /\ Len(cs) > 0 /\ DOMAIN cs = 1..Len(cs)
  BY SeqFacts
<1>2. \A k \in 1..Len(cs) : cs[k] \in ComponentRecord
  BY ElementOfSeq
<1>3. \A k \in 1..Len(cs) : cs[k].root \in Nat
  BY <1>2 DEF ComponentRecord, Vid
<1> QED BY <1>1, <1>2, <1>3

\* The same components but for what they have in them, and the same open folds.
LEMMA NestedKeep ==
  ASSUME NEW q, NEW vids, NEW open, NEW wide, NEW cs, NEW ds, NestedIs(q, vids, open, cs),
         Len(ds) = Len(cs), \A k \in 1..Len(cs) : ds[k].root = cs[k].root,
         {j \in ToSet(wide) : q[j].fold} = {j \in ToSet(open) : q[j].fold},
         Len(cs) \in Nat
  PROVE  NestedIs(q, vids, wide, ds)
<1>1. {ds[k].root : k \in 2..Len(ds)} = {cs[k].root : k \in 2..Len(cs)}
  <2>1. \A k \in 2..Len(cs) : ds[k].root = cs[k].root
    OBVIOUS
  <2> QED BY <2>1
<1>2. \A k, l \in 1..Len(ds) : k < l => ds[k].root < ds[l].root
  BY DEF NestedIs
<1> QED BY <1>1, <1>2 DEF NestedIs

\* A component for another fold.
LEMMA NestedPush ==
  ASSUME NEW q, NEW vids, NEW open, NEW wide, NEW cs \in Seq(ComponentRecord), NEW c \in ComponentRecord,
         NEW n, NestedIs(q, vids, open, cs), cs # << >>,
         ToSet(wide) = ToSet(open) \cup {n}, q[n].fold, c.root = vids[n],
         \A k \in 1..Len(cs) : cs[k].root < c.root
  PROVE  NestedIs(q, vids, wide, Append(cs, c))
<1> DEFINE m == Len(cs)
           ds == Append(cs, c)
           folds == {j \in ToSet(open) : q[j].fold}
           more == {j \in ToSet(wide) : q[j].fold}
<1>1. m \in Nat /\ m > 0
  BY SeqFacts
<1>2. ds \in Seq(ComponentRecord) /\ Len(ds) = m + 1 /\ ds[m + 1] = c /\ \A k \in 1..m : ds[k] = cs[k]
  BY AppendProperties
<1>3. /\ \A k, l \in 1..m : k < l => cs[k].root < cs[l].root
      /\ {cs[k].root : k \in 2..m} = {vids[i] : i \in folds}
  BY DEF NestedIs
<1>4. \A k \in 1..m + 1 : k = m + 1 \/ k \in 1..m
  BY <1>1
<1> HIDE DEF ds
<1>5. ASSUME NEW k \in 1..m + 1, NEW l \in 1..m + 1, k < l PROVE ds[k].root < ds[l].root
  <2>1. k \in 1..m
    BY <1>1, <1>5
  <2>2. CASE l = m + 1
    BY <1>2, <2>1, <2>2
  <2>3. CASE l \in 1..m
    BY <1>2, <1>3, <1>5, <2>1, <2>3
  <2> QED BY <1>4, <2>2, <2>3
<1>6. {ds[k].root : k \in 2..m + 1} = {vids[i] : i \in more}
  <2>1. more = folds \cup {n}
    OBVIOUS
  <2>2. {vids[i] : i \in more} = {vids[i] : i \in folds} \cup {c.root}
    BY <2>1
  <2>3. 2..m + 1 = (2..m) \cup {m + 1} /\ \A k \in 2..m : k \in 1..m
    BY <1>1
  <2>4. {ds[k].root : k \in 2..m + 1} = {ds[k].root : k \in 2..m} \cup {c.root}
    BY <1>2, <2>3
  <2>5. {ds[k].root : k \in 2..m} = {cs[k].root : k \in 2..m}
    BY <1>2, <2>3
  <2> QED BY <1>3, <2>2, <2>4, <2>5
<1> QED BY <1>2, <1>5, <1>6 DEF NestedIs, ds

\* The component of the innermost fold, taken away with its fold.
LEMMA NestedPop ==
  ASSUME NEW q, NEW vids, NEW open, NEW narrow, NEW cs \in Seq(ComponentRecord), NEW f,
         NestedIs(q, vids, open, cs), cs # << >>, Len(cs) # 1,
         f \in ToSet(open), q[f].fold, ToSet(narrow) = ToSet(open) \ {f},
         cs[Len(cs)].root = vids[f],
         \A i, j \in ToSet(open) : vids[i] = vids[j] => i = j
  PROVE  NestedIs(q, vids, narrow, AllButLast(cs))
<1> DEFINE m == Len(cs)
           ds == AllButLast(cs)
           folds == {j \in ToSet(open) : q[j].fold}
           less == {j \in ToSet(narrow) : q[j].fold}
<1>1. m \in Nat /\ m > 1 /\ \A k \in 1..m : cs[k].root \in Nat
  <2>1. m \in Nat /\ m > 0 /\ \A k \in 1..m : cs[k].root \in Nat
    BY ComponentFacts
  <2>2. m # 1
    OBVIOUS
  <2> HIDE DEF m
  <2> QED BY <2>1, <2>2
<1>2. ds \in Seq(ComponentRecord) /\ Len(ds) = m - 1 /\ \A k \in DOMAIN ds : ds[k] = cs[k]
  BY AllButLastFacts
<1>3. \A k \in 1..m - 1 : ds[k] = cs[k]
  BY <1>2, SeqFacts
<1>4. /\ \A k, l \in 1..m : k < l => cs[k].root < cs[l].root
      /\ {cs[k].root : k \in 2..m} = {vids[i] : i \in folds}
  BY DEF NestedIs
<1> HIDE DEF ds
<1>5. \A k, l \in 1..m - 1 : k < l => ds[k].root < ds[l].root
  <2>1. \A k \in 1..m - 1 : k \in 1..m
    BY <1>1
  <2> QED BY <1>3, <1>4, <2>1
<1>6. {ds[k].root : k \in 2..m - 1} = {vids[i] : i \in less}
  <2>1. less = folds \ {f} /\ f \in folds /\ \A i \in folds : vids[i] = vids[f] => i = f
    OBVIOUS
  <2>2. {vids[i] : i \in less} = {vids[i] : i \in folds} \ {vids[f]}
    BY <2>1
  <2>3. /\ 2..m = (2..m - 1) \cup {m} /\ m \in 1..m
        /\ \A k \in 2..m - 1 : k \in 1..m - 1 /\ k \in 1..m /\ k < m
    BY <1>1
  <2>4. \A k \in 2..m - 1 : cs[k].root # vids[f]
    <3>1. \A k \in 2..m - 1 : cs[k].root < cs[m].root
      BY <1>4, <2>3
    <3> QED BY <1>1, <2>3, <3>1
  <2>5. {cs[k].root : k \in 2..m} \ {vids[f]} = {cs[k].root : k \in 2..m - 1}
    BY <2>3, <2>4
  <2>6. {ds[k].root : k \in 2..m - 1} = {cs[k].root : k \in 2..m - 1}
    <3>1. \A k \in 2..m - 1 : ds[k].root = cs[k].root
      BY <1>3, <2>3
    <3> QED BY <3>1
  <2> QED BY <1>4, <2>2, <2>5, <2>6
<1> QED BY <1>2, <1>5, <1>6 DEF NestedIs, ds

\* The component being made is that of the innermost open fold; the root's if no
\* fold is open.
LEMMA InnermostComponent ==
  ASSUME query \in Queries, Shape, NEW n \in 0..Len(query),
         NestedIs(query, Vids, Opened[n], components)
  PROVE  /\ \A m : IsInnermostFold(query, Opened[n], m) => Component.root = Vids[m]
         /\ Len(components) = 1 <=> \A j \in ToSet(Opened[n]) : ~ query[j].fold
<1> DEFINE L == Len(components)
           folds == {j \in ToSet(Opened[n]) : query[j].fold}
           R(k) == components[k].root
<1>1. L \in Nat /\ L > 0 /\ \A k \in 1..L : R(k) \in Nat
  BY ComponentFacts DEF Shape
<1>2. R(1) = RootVid /\ Component.root = R(L)
  BY DEF Shape, Component, Last
<1>3. /\ \A k, l \in 1..L : k < l => R(k) < R(l)
      /\ {R(k) : k \in 2..L} = {Vids[i] : i \in folds}
  BY DEF NestedIs
<1>4. \A i \in folds : i \in Edges /\ i \in 0..Len(query) /\ Vids[i] \in Nat
  <2>1. \A i \in folds : i \in Edges
    BY OpenFacts DEF ToSet
  <2>2. \A i \in Edges : i \in 1..Len(query)
    BY VidFacts
  <2>3. \A i \in 1..Len(query) : i \in 0..Len(query)
    BY QueryFacts
  <2> QED BY <2>1, <2>2, <2>3, VidFacts
<1>5. folds = {} => L = 1
  <2>1. folds = {} => 2..L = {}
    BY <1>3
  <2>2. L # 1 => 2 \in 2..L
    <3> HIDE DEF L, R, folds
    <3> QED BY <1>1
  <2> QED BY <2>1, <2>2
<1>6. L = 1 => folds = {}
  <2>1. L = 1 => 2..L = {}
    OBVIOUS
  <2> QED BY <1>3, <2>1
<1>7. ASSUME NEW m, IsInnermostFold(query, Opened[n], m) PROVE Component.root = Vids[m]
  <2>1. CASE folds = {} /\ m = 0
    BY <1>2, <1>5, <2>1, VidFacts
  <2>2. CASE m \in folds /\ \A j \in folds : j <= m
    <3>1. L \in 2..L /\ \A k \in 2..L : k \in 1..L
      <4>1. L # 1
        BY <1>6, <2>2
      <4> HIDE DEF L, R, folds
      <4> QED BY <1>1, <4>1
    <3>2. PICK k \in 2..L : R(k) = Vids[m]
      BY <1>3, <2>2
    <3>3. PICK i \in folds : R(L) = Vids[i]
      BY <1>3, <3>1
    <3>4. i = m \/ Vids[i] < Vids[m]
      <4>1. i = m \/ i < m
        BY <1>4, <2>2
      <4> QED BY <1>4, <2>2, <4>1, VidFacts
    <3>5. k = L \/ R(k) < R(L)
      <4>1. k = L \/ k < L
        BY <1>1
      <4> QED BY <1>3, <3>1, <4>1
    <3>6. R(L) = Vids[m]
      <4> DEFINE a == Vids[i]
                 b == Vids[m]
      <4>1. a \in Nat /\ b \in Nat
        BY <1>4, <2>2
      <4>2. (i = m \/ a < b) /\ (k = L \/ b < a)
        BY <3>2, <3>3, <3>4, <3>5
      <4> HIDE DEF a, b
      <4>3. i = m \/ k = L
        BY <4>1, <4>2
      <4> QED BY <3>2, <3>3, <4>3
    <3> QED BY <1>2, <3>6
  <2> QED BY <1>7, <2>1, <2>2 DEF IsInnermostFold
<1> QED BY <1>5, <1>6, <1>7

\* The same outputs, and components of the same roots.
LEMMA ListedKeep ==
  ASSUME NEW P, NEW C, NEW global, NEW lists, NEW cs, NEW ds, ListedIs(P, C, global, lists, cs),
         Len(ds) = Len(cs), \A k \in 1..Len(cs) : ds[k].root = cs[k].root
  PROVE  ListedIs(P, C, global, lists, ds)
BY DEF ListedIs

\* An output of a property is registered with the component being made.
LEMMA ListedProperty ==
  ASSUME NEW P, NEW C, NEW global, NEW S, NEW lists \in Seq(S), NEW cs,
         ListedIs(P, C, global, lists, cs), lists # << >>, NEW x, x \notin P \cup C,
         x.root = cs[Len(cs)].root, \A k \in 1..Len(cs) : k < Len(cs) => cs[k].root # x.root
  PROVE  ListedIs(P \cup {x}, C, Append(global, NameAndRef(x)),
                  [lists EXCEPT ![Len(lists)] = Append(@, NameAndRef(x))], cs)
<1> DEFINE L == Len(lists)
           v == NameAndRef(x)
           more == [lists EXCEPT ![L] = Append(@, v)]
           of(Q, k) == {o \in Q : o.root = cs[k].root}
<1>1. L \in Nat /\ L > 0 /\ DOMAIN lists = 1..L /\ L \in 1..L /\ Len(cs) = L
  BY SeqFacts DEF ListedIs
<1>2. Len(more) = L /\ \A k \in 1..L : more[k] = IF k = L THEN Append(lists[k], v) ELSE lists[k]
  <2> DEFINE e == Append(lists[L], v)
  <2>1. lists \in Seq(S \cup {e}) /\ e \in S \cup {e}
    BY SeqMonotonic
  <2>2. more = [lists EXCEPT ![L] = e]
    OBVIOUS
  <2> HIDE DEF e, more, v
  <2>3. Len(more) = L /\ \A k \in 1..L : more[k] = IF k = L THEN e ELSE lists[k]
    BY <1>1, <2>1, <2>2, ExceptSeq
  <2> QED BY <2>3 DEF e
<1>3. Lists(Append(global, v), (P \cup {x}) \cup C)
  <2>1. Lists(global, P \cup C)
    BY DEF ListedIs
  <2>2. Lists(Append(global, v), (P \cup C) \cup {x})
    BY <2>1, ListsAppend
  <2>3. (P \cup C) \cup {x} = (P \cup {x}) \cup C
    OBVIOUS
  <2> QED BY <2>2, <2>3
<1>4. ASSUME NEW k \in 1..L PROVE ListsComponent(more[k], cs[k].root, P \cup {x}, C)
  <2>1. PICK T \in SUBSET C : Lists(lists[k], of(P, k) \cup T)
    BY <1>1 DEF ListedIs, ListsComponent
  <2>2. CASE k = L
    <3>1. x \notin of(P, k) \cup T
      BY <2>1
    <3>2. Lists(Append(lists[k], v), (of(P, k) \cup T) \cup {x})
      BY <2>1, <3>1, ListsAppend
    <3>3. (of(P, k) \cup T) \cup {x} = of(P \cup {x}, k) \cup T
      BY <1>1, <2>2
    <3>4. more[k] = Append(lists[k], v)
      BY <1>2, <2>2
    <3> QED BY <2>1, <3>2, <3>3, <3>4 DEF ListsComponent
  <2>3. CASE k # L
    <3>1. x.root # cs[k].root
      <4>1. k < L
        <5> HIDE DEF L
        <5> QED BY <1>1, <2>3
      <4> QED BY <1>1, <4>1
    <3>2. of(P \cup {x}, k) = of(P, k)
      BY <3>1
    <3>3. more[k] = lists[k]
      BY <1>2, <2>3
    <3> QED BY <2>1, <3>2, <3>3 DEF ListsComponent
  <2> QED BY <2>2, <2>3
<1> HIDE DEF more, v
<1> QED BY <1>1, <1>2, <1>3, <1>4 DEF ListedIs, more, v

\* An output of a count is registered with the component around the fold.
LEMMA ListedCount ==
  ASSUME NEW P, NEW C, NEW global, NEW S, NEW lists \in Seq(S), NEW cs,
         ListedIs(P, C, global, lists, cs), lists # << >>, NEW x, x \notin P \cup C
  PROVE  ListedIs(P, C \cup {x}, Append(global, NameAndRef(x)),
                  [lists EXCEPT ![Len(lists)] = Append(@, NameAndRef(x))], cs)
<1> DEFINE L == Len(lists)
           v == NameAndRef(x)
           more == [lists EXCEPT ![L] = Append(@, v)]
           of(k) == {o \in P : o.root = cs[k].root}
<1>1. L \in Nat /\ L > 0 /\ DOMAIN lists = 1..L /\ L \in 1..L /\ Len(cs) = L
  BY SeqFacts DEF ListedIs
<1>2. Len(more) = L /\ \A k \in 1..L : more[k] = IF k = L THEN Append(lists[k], v) ELSE lists[k]
  <2> DEFINE e == Append(lists[L], v)
  <2>1. lists \in Seq(S \cup {e}) /\ e \in S \cup {e}
    BY SeqMonotonic
  <2>2. more = [lists EXCEPT ![L] = e]
    OBVIOUS
  <2> HIDE DEF e, more, v
  <2>3. Len(more) = L /\ \A k \in 1..L : more[k] = IF k = L THEN e ELSE lists[k]
    BY <1>1, <2>1, <2>2, ExceptSeq
  <2> QED BY <2>3 DEF e
<1>3. Lists(Append(global, v), P \cup (C \cup {x}))
  <2>1. Lists(global, P \cup C)
    BY DEF ListedIs
  <2>2. Lists(Append(global, v), (P \cup C) \cup {x})
    BY <2>1, ListsAppend
  <2>3. (P \cup C) \cup {x} = P \cup (C \cup {x})
    OBVIOUS
  <2> QED BY <2>2, <2>3
<1>4. ASSUME NEW k \in 1..L PROVE ListsComponent(more[k], cs[k].root, P, C \cup {x})
  <2>1. PICK T \in SUBSET C : Lists(lists[k], of(k) \cup T)
    BY <1>1 DEF ListedIs, ListsComponent
  <2>2. CASE k = L
    <3>1. x \notin of(k) \cup T
      BY <2>1
    <3>2. Lists(Append(lists[k], v), (of(k) \cup T) \cup {x})
      BY <2>1, <3>1, ListsAppend
    <3>3. (of(k) \cup T) \cup {x} = of(k) \cup (T \cup {x})
      OBVIOUS
    <3>4. more[k] = Append(lists[k], v)
      BY <1>2, <2>2
    <3>5. T \cup {x} \in SUBSET (C \cup {x})
      BY <2>1
    <3> QED BY <3>2, <3>3, <3>4, <3>5 DEF ListsComponent
  <2>3. CASE k # L
    <3>1. more[k] = lists[k] /\ T \in SUBSET (C \cup {x})
      BY <1>2, <2>1, <2>3
    <3> QED BY <2>1, <3>1 DEF ListsComponent
  <2> QED BY <2>2, <2>3
<1> HIDE DEF more, v
<1> QED BY <1>1, <1>2, <1>3, <1>4 DEF ListedIs, more, v

\* A component without outputs is begun.
LEMMA ListedPush ==
  ASSUME NEW P, NEW C, NEW global, NEW S, NEW lists \in Seq(S), NEW cs \in Seq(ComponentRecord),
         ListedIs(P, C, global, lists, cs), NEW c \in ComponentRecord, {o \in P : o.root = c.root} = {}
  PROVE  ListedIs(P, C, global, Append(lists, << >>), Append(cs, c))
<1> DEFINE L == Len(cs)
           more == Append(lists, << >>)
           ds == Append(cs, c)
<1>1. L \in Nat /\ Len(lists) = L
  BY DEF ListedIs
<1>2. Len(ds) = L + 1 /\ ds[L + 1] = c /\ \A k \in 1..L : ds[k] = cs[k]
  BY AppendProperties
<1>3. Len(more) = L + 1 /\ more[L + 1] = << >> /\ \A k \in 1..L : more[k] = lists[k]
  <2>1. lists \in Seq(S \cup {<< >>})
    BY SeqMonotonic
  <2> QED BY <1>1, <2>1, AppendProperties
<1> HIDE DEF more, ds
<1>4. ASSUME NEW k \in 1..L + 1 PROVE ListsComponent(more[k], ds[k].root, P, C)
  <2>1. CASE k = L + 1
    <3>1. {o \in P : o.root = ds[k].root} \cup {} = {}
      BY <1>2, <2>1
    <3>2. more[k] = << >> /\ {} \in SUBSET C
      BY <1>3, <2>1
    <3> QED BY <3>1, <3>2, ListsNone DEF ListsComponent
  <2>2. CASE k # L + 1
    <3>1. k \in 1..L
      BY <1>1, <2>2
    <3>2. ListsComponent(lists[k], cs[k].root, P, C)
      BY <3>1 DEF ListedIs
    <3> QED BY <1>2, <1>3, <3>1, <3>2
  <2> QED BY <2>1, <2>2
<1>5. Lists(global, P \cup C)
  BY DEF ListedIs
<1> QED BY <1>2, <1>3, <1>4, <1>5 DEF ListedIs, more, ds

\* The component being made is taken away.
LEMMA ListedPop ==
  ASSUME NEW P, NEW C, NEW global, NEW S, NEW lists \in Seq(S), NEW cs \in Seq(ComponentRecord),
         ListedIs(P, C, global, lists, cs), cs # << >>
  PROVE  ListedIs(P, C, global, AllButLast(lists), AllButLast(cs))
<1> DEFINE L == Len(cs)
           less == AllButLast(lists)
           ds == AllButLast(cs)
<1>1. L \in Nat /\ L > 0 /\ Len(lists) = L
  BY SeqFacts DEF ListedIs
<1>2. ds \in Seq(ComponentRecord) /\ Len(ds) = L - 1 /\ \A k \in DOMAIN ds : ds[k] = cs[k]
  BY AllButLastFacts
<1>3. less \in Seq(S) /\ Len(less) = L - 1 /\ \A k \in DOMAIN less : less[k] = lists[k]
  <2>1. lists # << >>
    BY <1>1
  <2> QED BY <1>1, <2>1, AllButLastFacts
<1>4. DOMAIN ds = 1..L - 1 /\ DOMAIN less = 1..L - 1 /\ \A k \in 1..L - 1 : k \in 1..L
  BY <1>1, <1>2, <1>3, SeqFacts
<1> HIDE DEF less, ds
<1>5. \A k \in 1..L - 1 : ListsComponent(less[k], ds[k].root, P, C)
  BY <1>2, <1>3, <1>4 DEF ListedIs
<1>6. Lists(global, P \cup C)
  BY DEF ListedIs
<1> QED BY <1>2, <1>3, <1>5, <1>6 DEF ListedIs, less, ds

\* The properties in the list of a component that has had all of its outputs.
LEMMA PropertiesOfList ==
  ASSUME NEW seq, NEW r, NEW P \in SUBSET PropertyOutputs, NEW C \in SUBSET CountOutputs,
         ListsComponent(seq, r, P, C), \A o \in PropertyOutputs : o.root = r => o \in P
  PROVE  /\ {o \in ToSet(seq) : o.ref.kind = "context"} = OutputsOf(PropertyOutputs, r)
         /\ Valid => Duplicates(seq) = {}
<1> DEFINE S == {o \in P : o.root = r}
<1>1. PICK T \in SUBSET C : Lists(seq, S \cup T)
  BY DEF ListsComponent
<1>2. /\ ToSet(seq) = {NameAndRef(o) : o \in S \cup T}
      /\ Duplicates(seq) = {} <=> \A o, p \in S \cup T : o.name = p.name => o = p
  BY <1>1, ListsFacts
<1>3. \A o : NameAndRef(o).ref = o.ref
  BY DEF NameAndRef
<1>4. (\A o \in S : o.ref.kind = "context") /\ (\A o \in T : o.ref.kind = "count")
  BY <1>1, OutputFacts
<1>5. S = {o \in PropertyOutputs : o.root = r}
  OBVIOUS
<1>6. OutputsOf(PropertyOutputs, r) = {NameAndRef(o) : o \in S}
  BY <1>5 DEF OutputsOf, NameAndRef
<1> HIDE DEF S
<1>7. {o \in ToSet(seq) : o.ref.kind = "context"} = {NameAndRef(o) : o \in S}
  BY <1>2, <1>3, <1>4
<1>8. S \cup T \subseteq PropertyOutputs \cup CountOutputs
  BY <1>1, <1>5
<1>9. Valid => Duplicates(seq) = {}
  BY <1>2, <1>8, ValidIs
<1> QED BY <1>6, <1>7, <1>9

-----------------------------------------------------------------------------
(* What the handler does without an error.                                 *)

\* The field whose scope is open, and the edges open then.
LEMMA OpenAtFacts ==
  ASSUME query \in Queries, Position, phase \in {"fill", "counts"}
  PROVE  /\ OpenAt \in 0..Len(query) /\ OpenAt <= at - 1 /\ OpenAt \in Nat
         /\ at \in 1..Len(query) /\ at - 1 \in 0..Len(query) /\ at \in Nat /\ at - 1 \in Nat
         /\ Opened[OpenAt] \in Seq(Nat) /\ DOMAIN Opened[OpenAt] = 1..Len(Opened[OpenAt])
         /\ \A d \in DOMAIN Opened[OpenAt] : /\ Opened[OpenAt][d] \in Edges
                                             /\ Opened[OpenAt][d] \in 1..at - 1
         /\ phase = "fill" => OpenAt = at - 1 /\ PendingFold = 0
         /\ phase = "counts" => /\ OpenAt = folding.field /\ PendingFold = folding.field
                                /\ folding.field \in Folds /\ folding.field \in Edges
                                /\ folding.field \in 1..at - 1
<1>1. Len(query) \in Nat
  BY QueryFacts
<1>2. at \in 1..Len(query) /\ at - 1 \in 0..Len(query) /\ at \in Nat /\ at - 1 \in Nat
  BY <1>1 DEF Position
<1>3. phase = "counts" => /\ folding.field \in Folds /\ folding.field \in Edges
                          /\ folding.field \in 1..at - 1
  <2> SUFFICES ASSUME phase = "counts"
               PROVE  /\ folding.field \in Folds /\ folding.field \in Edges
                      /\ folding.field \in 1..at - 1
    OBVIOUS
  <2>1. folding.field \in ClosedUpto[at - 1]
    BY DEF Position
  <2>2. folding.field \in Folds /\ folding.field <= at - 1
    BY <1>2, <2>1 DEF ClosedUpto
  <2>3. folding.field \in Edges
    BY <2>2 DEF Folds
  <2>4. folding.field \in 1..Len(query)
    BY <2>3, VidFacts
  <2> QED BY <1>1, <1>2, <2>2, <2>3, <2>4
<1>4. /\ phase = "fill" => OpenAt = at - 1 /\ PendingFold = 0
      /\ phase = "counts" => OpenAt = folding.field /\ PendingFold = folding.field
  BY DEF OpenAt, PendingFold
<1>5. OpenAt \in 0..Len(query) /\ OpenAt <= at - 1 /\ OpenAt \in Nat
  BY <1>1, <1>2, <1>3, <1>4
<1>6. /\ Opened[OpenAt] \in Seq(Nat) /\ DOMAIN Opened[OpenAt] = 1..Len(Opened[OpenAt])
      /\ \A d \in DOMAIN Opened[OpenAt] : /\ Opened[OpenAt][d] \in Edges
                                          /\ Opened[OpenAt][d] \in 1..OpenAt
  BY <1>5, OpenFacts
<1>7. \A d \in 1..OpenAt : d \in 1..at - 1
  BY <1>2, <1>5
<1> QED BY <1>2, <1>3, <1>4, <1>5, <1>6, <1>7

\* The scope is that of the field: its vertex, and its prefix.
LEMMA OpenScope ==
  ASSUME query \in Queries, Position, Scopes, phase \in {"fill", "counts"}
  PROVE  /\ vidStack = << >> <=> Opened[OpenAt] = << >>
         /\ OpenVid = VertexAt(OpenAt)
         /\ \A local, suffix : MakeOutputName(local, suffix) = PrefixAt(OpenAt) \o local \o suffix
         /\ PrefixAt(OpenAt) \in Text
<1> DEFINE open == Opened[OpenAt]
           m == Len(open)
<1>1. /\ open \in Seq(Nat) /\ m \in Nat /\ DOMAIN open = 1..m
      /\ \A d \in 1..m : open[d] \in Edges /\ open[d] \in 1..at - 1
  BY OpenAtFacts
<1>2. /\ vidStack = [d \in DOMAIN open |-> Vids[open[d]]]
      /\ \A i \in 1..at - 1 : query[i].kind = "edge" =>
           Vids[i] \in DOMAIN prefixes /\ prefixes[Vids[i]] = query[i].alias
  BY DEF Scopes, ScopesAre
<1>3. \A d \in 1..m : /\ query[open[d]].kind = "edge" /\ open[d] \in 1..Len(query)
                      /\ open[d] \in 0..Len(query)
  <2>1. \A d \in 1..m : query[open[d]].kind = "edge" /\ open[d] \in 1..Len(query)
    BY <1>1, VidFacts
  <2> QED BY <2>1, QueryFacts
<1>4. \A d \in 1..m : Vids[open[d]] = VidAt(open[d]) /\ Vids[open[d]] \in Nat
  BY <1>3, VidFacts
<1>5. DOMAIN vidStack = 1..m /\ \A d \in 1..m : vidStack[d] = Vids[open[d]]
  BY <1>1, <1>2
<1>6. vidStack \in Seq(Nat) /\ Len(vidStack) = m
  <2>1. vidStack = [d \in 1..m |-> Vids[open[d]]]
    BY <1>1, <1>2
  <2> HIDE DEF m, open
  <2> QED BY <1>1, <1>4, <2>1
<1>7. (vidStack = << >> <=> open = << >>) /\ (open # << >> <=> m > 0)
  <2>1. vidStack = << >> <=> Len(vidStack) = 0
    BY <1>6, EmptySeq
  <2>2. open = << >> <=> m = 0
    BY <1>1, EmptySeq
  <2> QED BY <1>1, <1>6, <2>1, <2>2
<1>8. OpenVid = VertexAt(OpenAt)
  <2>1. CASE open = << >>
    <3>1. OpenVid = RootVid
      BY <1>7, <2>1 DEF OpenVid
    <3>2. VertexAt(OpenAt) = VidAt(0)
      BY <2>1 DEF VertexAt
    <3>3. 0 \in 0..Len(query)
      BY QueryFacts
    <3>4. VidAt(0) = RootVid
      BY <3>3, VidFacts
    <3> QED BY <3>1, <3>2, <3>4
  <2>2. CASE open # << >>
    <3>1. m \in 1..m /\ Last(open) = open[m]
      BY <1>1, <1>7, <2>2 DEF Last
    <3>2. OpenVid = Vids[open[m]]
      BY <1>5, <1>6, <1>7, <2>2, <3>1 DEF OpenVid, Last
    <3>3. VertexAt(OpenAt) = VidAt(open[m])
      BY <2>2, <3>1 DEF VertexAt
    <3> QED BY <1>4, <3>1, <3>2, <3>3
  <2> QED BY <2>1, <2>2
<1>9. FlattenSeq([i \in DOMAIN vidStack |-> prefixes[vidStack[i]]]) = PrefixAt(OpenAt)
  <2>1. \A d \in 1..m : prefixes[vidStack[d]] = query[open[d]].alias
    BY <1>1, <1>2, <1>3, <1>5
  <2>2. [i \in DOMAIN vidStack |-> prefixes[vidStack[i]]] = [d \in DOMAIN open |-> query[open[d]].alias]
    BY <1>1, <1>5, <2>1
  <2> QED BY <2>2 DEF PrefixAt
<1>10. PrefixAt(OpenAt) \in Text
  <2> DEFINE seqs == [d \in DOMAIN open |-> query[open[d]].alias]
  <2>1. \A d \in 1..m : query[open[d]].alias \in Seq(Letter)
    BY <1>3, QueryFacts DEF Text
  <2>2. seqs \in Seq(Seq(Letter))
    <3>1. seqs = [d \in 1..m |-> query[open[d]].alias]
      BY <1>1
    <3> HIDE DEF open, m
    <3> QED BY <1>1, <2>1, <3>1
  <2>3. PrefixAt(OpenAt) = FlattenSeq(seqs)
    BY DEF PrefixAt
  <2> HIDE DEF seqs
  <2> QED BY <2>2, <2>3, FlattenType DEF Text
<1> QED BY <1>7, <1>8, <1>9, <1>10 DEF MakeOutputName

\* A field of a kind, seen in a component without an error.
LEMMA FieldFacts ==
  ASSUME IInv, query \in Queries, Exact, NEW kind, Field(kind)
  PROVE  /\ phase = "fill" /\ query[at].kind = kind /\ at \in 1..Len(query)
         /\ at \in Nat /\ at - 1 \in Nat /\ at - 1 \in 0..Len(query) /\ at \in 0..Len(query)
         /\ (at - 1) + 1 = at /\ (at + 1) - 1 = at
         /\ OpenAt = at - 1 /\ PendingFold = 0
         /\ Shape /\ Position
         /\ ScopesAre(query, Vids, Opened[at - 1], at - 1, vidStack, prefixes, nextVid)
         /\ CleanIs(query, Opened[at - 1], at - 1)
         /\ NestedIs(query, Vids, Opened[at - 1], components)
         /\ ListedIs(PropertiesUpto[at - 1], CountsSoFar, globalOutputs, componentOutputs, components)
         /\ made = MadeOf(ComponentMade, FoldMade, ClosedUpto[at - 1], 0)
<1>1. phase = "fill" /\ query[at].kind = kind
  BY DEF Field
<1>2. /\ at \in 1..Len(query) /\ at \in Nat /\ at - 1 \in Nat /\ at - 1 \in 0..Len(query)
      /\ OpenAt = at - 1 /\ PendingFold = 0
  BY <1>1, OpenAtFacts DEF Exact
<1>3. at \in 0..Len(query) /\ (at - 1) + 1 = at /\ (at + 1) - 1 = at
  BY <1>2
<1>4. made = MadeOf(ComponentMade, FoldMade, ClosedUpto[at - 1], 0)
  BY <1>1, <1>2 DEF Exact, Made
<1>5. ListedIs(PropertiesUpto[at - 1], CountsSoFar, globalOutputs, componentOutputs, components)
  BY <1>1 DEF Exact, Listed
<1>6. NestedIs(query, Vids, Opened[at - 1], components)
  BY DEF Exact, Nested
<1>7. CleanIs(query, Opened[at - 1], at - 1)
  BY <1>2 DEF Exact, Clean
<1>8. ScopesAre(query, Vids, Opened[at - 1], at - 1, vidStack, prefixes, nextVid)
  BY <1>2 DEF Exact, Scopes
<1>9. Shape /\ Position
  BY DEF IInv, Exact
<1> QED BY <1>1, <1>2, <1>3, <1>4, <1>5, <1>6, <1>7, <1>8, <1>9

\* The outputs of the counts of some folds.
CountsOf(all, closed) == {o \in all : o.at[1] \in closed}

\* A count output's place.
LEMMA CountPlaces ==
  ASSUME query \in Queries
  PROVE  /\ \A o \in CountOutputs : /\ o.at[1] \in Folds /\ o.at[1] \in Edges /\ o.at[1] \in Nat /\ o.at[1] # 0
                                    /\ o.at[2] \in 1..Len(query[o.at[1]].counts)
                                    /\ o = CountOutput(o.at[1], o.at[2])
         /\ \A i \in Folds : /\ query[i].counts \in Seq(Text \cup {None})
                             /\ Len(query[i].counts) \in Nat
                             /\ DOMAIN query[i].counts = 1..Len(query[i].counts)
         /\ \A i \in Folds : \A c \in 1..Len(query[i].counts) :
              /\ CountOutput(i, c) \in CountOutputs
              /\ CountOutput(i, c).at[1] = i /\ CountOutput(i, c).at[2] = c
<1>1. \A i \in Folds : /\ i \in Edges /\ i \in Nat /\ i # 0
                       /\ query[i].counts \in Seq(Text \cup {None})
  <2>1. \A i \in Folds : i \in Edges
    BY DEF Folds
  <2>2. \A i \in Edges : i \in 1..Len(query) /\ query[i].kind = "edge"
    BY VidFacts
  <2>3. \A i \in 1..Len(query) : i \in Nat /\ i # 0
    BY QueryFacts
  <2> QED BY <2>1, <2>2, <2>3, QueryFacts
<1>2. \A i \in Folds : /\ Len(query[i].counts) \in Nat
                       /\ DOMAIN query[i].counts = 1..Len(query[i].counts)
  BY <1>1, SeqFacts
<1>3. \A i, c : CountOutput(i, c).at[1] = i /\ CountOutput(i, c).at[2] = c
  <2>1. \A i, c : CountOutput(i, c).at = <<i, c>>
    BY OutputFacts
  <2> QED BY <2>1
<1>4. \A i \in Folds : \A c \in 1..Len(query[i].counts) : CountOutput(i, c) \in CountOutputs
  BY <1>2, OutputRecords
<1>5. ASSUME NEW o \in CountOutputs
      PROVE  /\ o.at[1] \in Folds /\ o.at[2] \in 1..Len(query[o.at[1]].counts)
             /\ o = CountOutput(o.at[1], o.at[2])
  <2>1. PICK i \in Folds : \E c \in DOMAIN query[i].counts : o = CountOutput(i, c)
    BY OutputRecords
  <2>2. PICK c \in DOMAIN query[i].counts : o = CountOutput(i, c)
    BY <2>1
  <2> QED BY <1>2, <1>3, <2>2
<1> QED BY <1>1, <1>2, <1>3, <1>4, <1>5

\* How the outputs of the counts grow.
LEMMA CountsGrow ==
  ASSUME query \in Queries, NEW closed \in SUBSET Folds
  PROVE  /\ \A c : CountsAmong(CountOutputs, closed, 0, c) = CountsOf(CountOutputs, closed)
         /\ \A f \in Folds : f \notin closed =>
              CountsAmong(CountOutputs, closed \cup {f}, f, 1) = CountsOf(CountOutputs, closed)
         /\ \A f \in closed : \A c \in 1..Len(query[f].counts) :
              /\ CountOutput(f, c) \notin CountsAmong(CountOutputs, closed, f, c)
              /\ CountsAmong(CountOutputs, closed, f, c + 1)
                   = CountsAmong(CountOutputs, closed, f, c) \cup {CountOutput(f, c)}
         /\ \A f \in closed :
              CountsAmong(CountOutputs, closed, f, Len(query[f].counts) + 1)
                = CountsOf(CountOutputs, closed)
         /\ CountsOf(CountOutputs, Folds) = CountOutputs
<1>1. \A o \in CountOutputs : /\ o.at[1] \in Folds /\ o.at[1] # 0
                              /\ o.at[2] \in 1..Len(query[o.at[1]].counts)
                              /\ o = CountOutput(o.at[1], o.at[2])
  BY CountPlaces
<1>2. \A i \in Folds : /\ Len(query[i].counts) \in Nat
                       /\ \A c \in 1..Len(query[i].counts) :
                            /\ CountOutput(i, c) \in CountOutputs
                            /\ CountOutput(i, c).at[1] = i /\ CountOutput(i, c).at[2] = c
  BY CountPlaces
<1>3. \A c : CountsAmong(CountOutputs, closed, 0, c) = CountsOf(CountOutputs, closed)
  BY <1>1 DEF CountsAmong, CountsOf
<1>4. ASSUME NEW f \in Folds, f \notin closed
      PROVE  CountsAmong(CountOutputs, closed \cup {f}, f, 1) = CountsOf(CountOutputs, closed)
  <2>1. \A o \in CountOutputs : ~ (o.at[2] < 1)
    BY <1>1, <1>2
  <2> QED BY <1>4, <2>1 DEF CountsAmong, CountsOf
<1>5. ASSUME NEW f \in closed, NEW c \in 1..Len(query[f].counts)
      PROVE  /\ CountOutput(f, c) \notin CountsAmong(CountOutputs, closed, f, c)
             /\ CountsAmong(CountOutputs, closed, f, c + 1)
                  = CountsAmong(CountOutputs, closed, f, c) \cup {CountOutput(f, c)}
  <2> DEFINE x == CountOutput(f, c)
  <2>1. x \in CountOutputs /\ x.at[1] = f /\ x.at[2] = c
    BY <1>2
  <2>2. c \in Nat /\ ~ (c < c) /\ c < c + 1
    BY <1>2
  <2>3. \A o \in CountOutputs : o.at[1] = f =>
          (o.at[2] < c + 1 <=> o.at[2] < c \/ o.at[2] = c)
    BY <1>1, <1>2, <2>2
  <2>4. \A o \in CountOutputs : o.at[1] = f /\ o.at[2] = c <=> o = x
    BY <1>1, <2>1
  <2> HIDE DEF x
  <2> QED BY <2>1, <2>2, <2>3, <2>4 DEF CountsAmong, x
<1>6. ASSUME NEW f \in closed
      PROVE  CountsAmong(CountOutputs, closed, f, Len(query[f].counts) + 1)
               = CountsOf(CountOutputs, closed)
  <2>1. \A o \in CountOutputs : o.at[1] = f => o.at[2] < Len(query[f].counts) + 1
    BY <1>1, <1>2
  <2> QED BY <2>1 DEF CountsAmong, CountsOf
<1>7. CountsOf(CountOutputs, Folds) = CountOutputs
  BY <1>1 DEF CountsOf
<1> QED BY <1>3, <1>4, <1>5, <1>6, <1>7

\* Everything is in its place again before the next field.
LEMMA ExactBeforeField ==
  ASSUME query \in Queries, query' = query, phase' = "fill", at' \in 1..Len(query),
         NEW n \in 0..Len(query), at' - 1 = n,
         ScopesAre(query, Vids, Opened[n], n, vidStack', prefixes', nextVid'),
         CleanIs(query, Opened[n], n),
         NestedIs(query, Vids, Opened[n], components'),
         ListedIs(PropertiesUpto[n], CountsOf(CountOutputs, ClosedUpto[n]), globalOutputs',
                  componentOutputs', components'),
         made' = MadeOf(ComponentMade, FoldMade, ClosedUpto[n], 0)
  PROVE  Exact'
<1>1. /\ Opened' = Opened /\ Vids' = Vids /\ PropertiesUpto' = PropertiesUpto
      /\ CountOutputs' = CountOutputs /\ ClosedUpto' = ClosedUpto
      /\ ComponentMade' = ComponentMade /\ FoldMade' = FoldMade
  BY SameQuery
<1>2. OpenAt' = n /\ PendingFold' = 0 /\ (at - 1)' = n
  BY DEF OpenAt, PendingFold
<1>3. Position'
  BY <1>2 DEF Position
<1>4. Scopes'
  BY <1>1, <1>2 DEF Scopes
<1>5. Clean'
  BY <1>1, <1>2 DEF Clean
<1>6. Nested'
  BY <1>1, <1>2 DEF Nested
<1>7. Listed'
  <2>1. ClosedUpto[n] \in SUBSET Folds
    BY DEF ClosedUpto
  <2>2. CountsSoFar' = CountsOf(CountOutputs, ClosedUpto[n])
    BY <1>1, <1>2, <2>1, CountsGrow DEF CountsSoFar
  <2> QED BY <1>1, <1>2, <2>2 DEF Listed
<1>8. Made'
  BY <1>1, <1>2 DEF Made
<1> QED BY <1>3, <1>4, <1>5, <1>6, <1>7, <1>8 DEF Exact

\* The fields before the last one.
LEMMA NotTheLast ==
  ASSUME query \in Queries, NEW n \in 1..Len(query),
         query[n].kind = "close" => Opened[n - 1] # << >>
  PROVE  n + 1 \in 1..Len(query) /\ n \in 0..Len(query) /\ n \in Nat
<1>1. Len(query) \in Nat
  BY QueryFacts
<1>2. n # Len(query)
  BY OpenDepth
<1> QED BY <1>1, <1>2

\* No component's root comes after the field.
LEMMA RootsBelow ==
  ASSUME query \in Queries, Shape, NEW n \in Edges,
         NestedIs(query, Vids, Opened[n - 1], components)
  PROVE  \A k \in 1..Len(components) : components[k].root < Vids[n]
<1> DEFINE R(k) == components[k].root
           L == Len(components)
<1>1. n \in 1..Len(query) /\ n \in Nat /\ n - 1 \in 0..Len(query) /\ 0 \in 0..Len(query) /\ 0 < n
  <2>1. n \in 1..Len(query)
    BY VidFacts
  <2> QED BY <2>1, QueryFacts
<1>2. L \in Nat /\ R(1) = RootVid
  BY ComponentFacts DEF Shape
<1>3. R(1) < Vids[n]
  BY <1>1, <1>2, VidFacts
<1>4. ASSUME NEW k \in 2..L PROVE R(k) < Vids[n]
  <2>1. PICK i \in ToSet(Opened[n - 1]) : R(k) = Vids[i]
    BY DEF NestedIs
  <2>2. i \in 1..n - 1
    BY <1>1, <2>1, OpenFacts DEF ToSet
  <2>3. i \in 0..Len(query) /\ i < n
    BY <1>1, <2>2
  <2> QED BY <2>1, <2>3, VidFacts
<1>5. \A k \in 1..L : k = 1 \/ k \in 2..L
  BY <1>2
<1> QED BY <1>3, <1>4, <1>5

\* What an edge changes, whether it is a fold or not.
LEMMA EdgeStep ==
  ASSUME IInv, query \in Queries, Exact, Field("edge")
  PROVE  /\ at + 1 \in 1..Len(query) /\ at \in Edges
         /\ ToSet(Opened[at]) = ToSet(Opened[at - 1]) \cup {at}
         /\ PropertiesUpto[at] = PropertiesUpto[at - 1] /\ ClosedUpto[at] = ClosedUpto[at - 1]
         /\ Vids[at] = nextVid
         /\ BeginNestedScope => ScopesAre(query, Vids, Opened[at], at, vidStack', prefixes', nextVid')
         /\ query[at].error = "none" \/ (query[at].error = "count" /\ query[at].fold)
              => CleanIs(query, Opened[at], at)
         /\ {o \in PropertiesUpto[at] : o.root = Vids[at]} = {}
<1> DEFINE n == at - 1
           open == Opened[n]
<1>1. /\ phase = "fill" /\ query[at].kind = "edge" /\ at \in 1..Len(query)
      /\ at \in Nat /\ n \in Nat /\ n \in 0..Len(query) /\ at \in 0..Len(query) /\ n + 1 = at
      /\ ScopesAre(query, Vids, open, n, vidStack, prefixes, nextVid)
      /\ CleanIs(query, open, n) /\ Shape
  BY FieldFacts
<1>2. at + 1 \in 1..Len(query)
  BY <1>1, NotTheLast
<1>3. at \in Edges
  BY <1>1, QueryFacts DEF Edges
<1>4. Opened[at] = Append(open, at) /\ ToSet(Opened[at]) = ToSet(open) \cup {at}
  BY <1>1, OpenedStep, OpenedSets
<1>5. PropertiesUpto[at] = PropertiesUpto[n] /\ ClosedUpto[at] = ClosedUpto[n]
  BY <1>1, PropertiesStep, ClosedStep
<1>6. Vids[at] = nextVid /\ nextVid \in Nat
  <2>1. Vids[at] = Vids[n] + 1
    BY <1>1, VidFacts
  <2>2. nextVid = Vids[n] + 1 /\ nextVid \in Nat
    BY <1>1 DEF ScopesAre, Shape, Vid
  <2> QED BY <2>1, <2>2
<1>7. ASSUME BeginNestedScope
      PROVE  ScopesAre(query, Vids, Opened[at], at, vidStack', prefixes', nextVid')
  <2>1. open \in Seq(Nat) /\ \A d \in DOMAIN open : open[d] \in Edges
    BY <1>1, OpenFacts
  <2>2. \A i \in Edges : i \in 1..Len(query)
    BY VidFacts
  <2>3. \A i \in 1..Len(query) : i \in 0..Len(query)
    BY QueryFacts
  <2>4. \A d \in DOMAIN open : Vids[open[d]] \in Nat
    BY <2>1, <2>2, <2>3, VidFacts
  <2>5. \A i \in 1..n : Vids[i] \in Nat
    <3>1. \A i \in 1..n : i \in 0..Len(query)
      BY <1>1, QueryFacts
    <3> QED BY <3>1, VidFacts
  <2>6. ScopesAre(query, Vids, Append(open, n + 1), n + 1, Append(vidStack, nextVid),
                  Wider(prefixes, nextVid, query[n + 1].alias), nextVid + 1)
    <3> HIDE DEF n, open
    <3>1. Vids[n + 1] = nextVid /\ nextVid \in Nat /\ n \in Nat
      BY <1>1, <1>6
    <3>2. ScopesAre(query, Vids, open, n, vidStack, prefixes, nextVid)
      BY <1>1
    <3>3. open \in Seq(Nat) /\ \A d \in DOMAIN open : Vids[open[d]] \in Nat
      BY <2>1, <2>4
    <3> QED BY <2>5, <3>1, <3>2, <3>3, ScopesPush
  <2>7. /\ nextVid' = nextVid + 1 /\ vidStack' = Append(vidStack, nextVid)
        /\ prefixes' = Wider(prefixes, nextVid, query[at].alias)
    BY <1>7 DEF BeginNestedScope, AddPrefix, Wider
  <2> HIDE DEF n, open
  <2> QED BY <1>1, <1>4, <2>6, <2>7
<1>8. ASSUME query[at].error = "none" \/ (query[at].error = "count" /\ query[at].fold)
      PROVE  CleanIs(query, Opened[at], at)
  <2>1. \A i \in 1..at : i = at \/ i \in 1..n
    BY <1>1
  <2>2. at \in ToSet(Opened[at]) /\ \A i \in ToSet(open) : i \in ToSet(Opened[at])
    BY <1>4
  <2> QED BY <1>1, <1>8, <2>1, <2>2 DEF CleanIs
<1>9. ASSUME NEW o \in PropertiesUpto[at] PROVE o.root # Vids[at]
  <2>1. o \in PropertyOutputs /\ o.at <= n
    BY <1>1, <1>5, <1>9 DEF PropertiesUpto
  <2>2. PICK i \in DOMAIN query : o = PropertyOutput(i)
    BY <2>1, OutputRecords
  <2>3. i \in 1..Len(query) /\ o.at = i /\ o.root = RootAt(i)
    BY <2>2, OutputFacts, QueryFacts
  <2>4. i \in 0..Len(query) /\ i <= n
    BY <2>1, <2>3, QueryFacts
  <2>5. PICK m \in 0..i : IsInnermostFold(query, Opened[i], m)
    BY <2>4, RootIs
  <2>6. RootAt(i) = Vids[m]
    BY <2>4, <2>5, RootIs
  <2>7. m \in 0..Len(query) /\ m < at
    BY <1>1, <2>4, QueryFacts
  <2>8. Vids[m] < Vids[at] /\ Vids[m] \in Nat
    BY <1>3, <2>7, VidFacts
  <2> QED BY <2>3, <2>6, <2>8
<1> QED BY <1>2, <1>3, <1>4, <1>5, <1>6, <1>7, <1>8, <1>9

\* An edge into the component.
LEMMA VisitEdgeExact ==
  ASSUME IInv, query \in Queries, Exact, VisitEdge, query[at].error = "none"
  PROVE  Exact'
<1> DEFINE n == at - 1
<1>1. Field("edge") /\ ~ query[at].fold /\ BeginNestedScope
  BY DEF VisitEdge
<1>2. /\ at' = at + 1 /\ query' = query /\ phase' = phase
      /\ UNCHANGED <<componentOutputs, globalOutputs, folding, made>>
      /\ components' = [components EXCEPT ![Len(components)] =
                          [Component EXCEPT !.vertices = @ \cup {nextVid},
                                            !.failed = @ \/ query[at].error # "none"]]
  BY DEF VisitEdge
<1>3. /\ phase = "fill" /\ at \in 1..Len(query) /\ at \in 0..Len(query) /\ (at + 1) - 1 = at
      /\ n \in 0..Len(query) /\ Shape
      /\ PendingFold = 0
      /\ NestedIs(query, Vids, Opened[n], components)
      /\ ListedIs(PropertiesUpto[n], CountsSoFar, globalOutputs, componentOutputs, components)
      /\ made = MadeOf(ComponentMade, FoldMade, ClosedUpto[n], 0)
  BY <1>1, FieldFacts
<1>4. /\ at + 1 \in 1..Len(query)
      /\ ToSet(Opened[at]) = ToSet(Opened[n]) \cup {at}
      /\ PropertiesUpto[at] = PropertiesUpto[n] /\ ClosedUpto[at] = ClosedUpto[n]
      /\ ScopesAre(query, Vids, Opened[at], at, vidStack', prefixes', nextVid')
      /\ CleanIs(query, Opened[at], at)
  BY <1>1, EdgeStep
<1>5. /\ Len(components) \in Nat /\ Len(components') = Len(components)
      /\ \A k \in 1..Len(components) : components'[k].root = components[k].root
  <2> DEFINE L == Len(components)
             c == [components[L] EXCEPT !.vertices = @ \cup {nextVid},
                                        !.failed = @ \/ query[at].error # "none"]
  <2>1. /\ components \in Seq(ComponentRecord) /\ L \in 1..L /\ L \in Nat
        /\ components[L] \in ComponentRecord
    BY <1>3, ComponentFacts DEF Shape
  <2>2. c \in ComponentRecord /\ c.root = components[L].root
    BY <1>3, <2>1 DEF ComponentRecord, Shape
  <2>3. components' = [components EXCEPT ![L] = c]
    BY <1>2 DEF Component, Last
  <2> HIDE DEF c, L
  <2>4. /\ Len([components EXCEPT ![L] = c]) = Len(components)
        /\ \A k \in 1..Len(components) :
             [components EXCEPT ![L] = c][k] = IF k = L THEN c ELSE components[k]
    BY <2>1, <2>2, ExceptSeq DEF L
  <2> QED BY <2>1, <2>2, <2>3, <2>4 DEF L
<1>6. NestedIs(query, Vids, Opened[at], components')
  <2>1. {j \in ToSet(Opened[at]) : query[j].fold} = {j \in ToSet(Opened[n]) : query[j].fold}
    BY <1>1, <1>4
  <2> QED BY <1>3, <1>5, <2>1, NestedKeep
<1>7. CountsSoFar = CountsOf(CountOutputs, ClosedUpto[n])
  <2>1. ClosedUpto[n] \in SUBSET Folds
    BY <1>3 DEF ClosedUpto
  <2> QED BY <1>3, <2>1, CountsGrow DEF CountsSoFar
<1>8. ListedIs(PropertiesUpto[n], CountsSoFar, globalOutputs, componentOutputs, components')
  BY <1>3, <1>5, ListedKeep
<1> HIDE DEF n
<1>9. at' \in 1..Len(query) /\ at' - 1 = at
  BY <1>2, <1>3, <1>4
<1> QED BY <1>2, <1>3, <1>4, <1>6, <1>7, <1>8, <1>9, ExactBeforeField

\* A fold, the component of which begins.
LEMMA BeginFoldExact ==
  ASSUME IInv, query \in Queries, Exact, BeginFold, query[at].error \in {"none", "count"}
  PROVE  Exact'
<1> DEFINE n == at - 1
           c == [Begun(nextVid) EXCEPT !.failed = query[at].error = "inside"]
<1>1. Field("edge") /\ query[at].fold /\ BeginNestedScope
  BY DEF BeginFold
<1>2. /\ at' = at + 1 /\ query' = query /\ phase' = phase
      /\ UNCHANGED <<globalOutputs, folding, made>>
      /\ componentOutputs' = Append(componentOutputs, << >>)
      /\ components' = Append(components, c)
  BY DEF BeginFold
<1>3. /\ phase = "fill" /\ at \in 1..Len(query) /\ at \in 0..Len(query) /\ (at + 1) - 1 = at
      /\ n \in 0..Len(query) /\ Shape
      /\ PendingFold = 0
      /\ NestedIs(query, Vids, Opened[n], components)
      /\ ListedIs(PropertiesUpto[n], CountsSoFar, globalOutputs, componentOutputs, components)
      /\ made = MadeOf(ComponentMade, FoldMade, ClosedUpto[n], 0)
  BY <1>1, FieldFacts
<1>4. /\ at + 1 \in 1..Len(query) /\ at \in Edges
      /\ ToSet(Opened[at]) = ToSet(Opened[n]) \cup {at}
      /\ PropertiesUpto[at] = PropertiesUpto[n] /\ ClosedUpto[at] = ClosedUpto[n]
      /\ Vids[at] = nextVid
      /\ ScopesAre(query, Vids, Opened[at], at, vidStack', prefixes', nextVid')
      /\ CleanIs(query, Opened[at], at)
      /\ {o \in PropertiesUpto[at] : o.root = Vids[at]} = {}
  BY <1>1, EdgeStep
<1>5. c \in ComponentRecord /\ c.root = nextVid
  BY <1>3 DEF ComponentRecord, Begun, Shape, Vid
<1> HIDE DEF c
<1>6. components \in Seq(ComponentRecord) /\ components # << >>
  BY <1>3 DEF Shape
<1>7. NestedIs(query, Vids, Opened[at], components')
  <2>1. \A k \in 1..Len(components) : components[k].root < c.root
    BY <1>3, <1>4, <1>5, RootsBelow
  <2>2. c.root = Vids[at]
    BY <1>4, <1>5
  <2> QED BY <1>1, <1>2, <1>3, <1>4, <1>5, <1>6, <2>1, <2>2, NestedPush
<1>8. CountsSoFar = CountsOf(CountOutputs, ClosedUpto[n])
  <2>1. ClosedUpto[n] \in SUBSET Folds
    BY <1>3 DEF ClosedUpto
  <2> QED BY <1>3, <2>1, CountsGrow DEF CountsSoFar
<1>9. ListedIs(PropertiesUpto[n], CountsSoFar, globalOutputs, componentOutputs', components')
  <2>1. PICK S : componentOutputs \in Seq(S)
    BY <1>3 DEF Shape
  <2>2. {o \in PropertiesUpto[n] : o.root = c.root} = {}
    BY <1>4, <1>5
  <2>3. ListedIs(PropertiesUpto[n], CountsSoFar, globalOutputs, Append(componentOutputs, << >>),
                 Append(components, c))
    BY <1>3, <1>5, <1>6, <2>1, <2>2, ListedPush
  <2> QED BY <1>2, <2>3
<1> HIDE DEF n
<1>10. at' \in 1..Len(query) /\ at' - 1 = at
  BY <1>2, <1>3, <1>4
<1> QED BY <1>2, <1>3, <1>4, <1>7, <1>8, <1>9, <1>10, ExactBeforeField

\* An output of a property: it is named and placed as the query says.
LEMMA OutputPropertyExact ==
  ASSUME IInv, query \in Queries, Exact, OutputProperty
  PROVE  Exact'
<1> DEFINE n == at - 1
           x == PropertyOutput(at)
           L == Len(components)
<1>1. Field("output")
  BY DEF OutputProperty
<1>2. /\ phase = "fill" /\ query[at].kind = "output" /\ at \in 1..Len(query) /\ at \in 0..Len(query)
      /\ at \in Nat /\ n \in Nat /\ n + 1 = at /\ (at + 1) - 1 = at /\ n \in 0..Len(query)
      /\ OpenAt = n /\ PendingFold = 0 /\ Shape /\ Position
      /\ ScopesAre(query, Vids, Opened[n], n, vidStack, prefixes, nextVid)
      /\ CleanIs(query, Opened[n], n)
      /\ NestedIs(query, Vids, Opened[n], components)
      /\ ListedIs(PropertiesUpto[n], CountsSoFar, globalOutputs, componentOutputs, components)
      /\ made = MadeOf(ComponentMade, FoldMade, ClosedUpto[n], 0)
  BY <1>1, FieldFacts
<1>3. /\ at' = at + 1
      /\ UNCHANGED <<query, nextVid, components, vidStack, prefixes, phase, folding, made>>
  BY DEF OutputProperty
<1>4. at + 1 \in 1..Len(query)
  BY <1>2, NotTheLast
<1>5. Opened[at] = Opened[n]
  BY <1>2, OpenedStep
<1>6. /\ PropertiesUpto[at] = PropertiesUpto[n] \cup {x} /\ x \in PropertyOutputs
      /\ x \notin PropertiesUpto[n] /\ ClosedUpto[at] = ClosedUpto[n]
  BY <1>2, PropertiesStep, ClosedStep
<1>7. VertexAt(at) = VertexAt(n) /\ PrefixAt(at) = PrefixAt(n) /\ RootAt(at) = RootAt(n)
  BY <1>5 DEF VertexAt, PrefixAt, RootAt
<1>8. RegisterOutput(NameAndRef(x))
  <2> DEFINE directive == query[at].output
             name == IF directive.explicit # None THEN directive.explicit
                     ELSE MakeOutputName(directive.local, << >>)
             ref == [kind |-> "context", vid |-> OpenVid]
  <2>1. RegisterOutput([name |-> name, ref |-> ref])
    BY DEF OutputProperty
  <2>2. /\ OpenVid = VertexAt(n) /\ PrefixAt(n) \in Text
        /\ \A local, suffix : MakeOutputName(local, suffix) = PrefixAt(n) \o local \o suffix
    BY <1>2, OpenScope DEF Exact
  <2>3. /\ x.name = IF directive.explicit # None THEN directive.explicit
                    ELSE PrefixAt(at) \o directive.local
        /\ x.ref = [kind |-> "context", vid |-> VertexAt(at)]
    BY OutputFacts
  <2>4. MakeOutputName(directive.local, << >>) = PrefixAt(n) \o directive.local
    <3> DEFINE a == PrefixAt(n)
               b == directive.local
    <3>1. b \in Seq(Letter) /\ a \in Seq(Letter)
      BY <1>2, <2>2, QueryFacts DEF Directive, Text
    <3>2. MakeOutputName(b, << >>) = (a \o b) \o << >>
      BY <2>2
    <3> HIDE DEF a, b
    <3>3. a \o b \in Seq(Letter)
      BY <3>1, ConcatProperties
    <3>4. (a \o b) \o << >> = a \o b
      BY <3>3, ConcatEmptySeq
    <3> QED BY <3>2, <3>4 DEF a, b
  <2>5. name = x.name
    BY <1>7, <2>3, <2>4
  <2>6. ref = x.ref
    BY <1>7, <2>2, <2>3
  <2> HIDE DEF name, ref, x
  <2> QED BY <2>1, <2>5, <2>6 DEF NameAndRef
<1>9. /\ x.root = components[L].root /\ L \in Nat
      /\ \A k \in 1..L : k < L => components[k].root # x.root
  <2>1. PICK m \in 0..n : IsInnermostFold(query, Opened[n], m)
    BY <1>2, RootIs
  <2>2. RootAt(n) = Vids[m] /\ Component.root = Vids[m]
    BY <1>2, <2>1, RootIs, InnermostComponent
  <2>3. x.root = RootAt(at)
    BY OutputFacts
  <2>4. x.root = components[L].root
    BY <1>7, <2>2, <2>3 DEF Component, Last
  <2>5. L \in Nat /\ L > 0 /\ \A k \in 1..L : components[k].root \in Nat
    BY <1>2, ComponentFacts DEF Shape
  <2>6. \A k, l \in 1..L : k < l => components[k].root < components[l].root
    BY <1>2 DEF NestedIs
  <2>7. \A k \in 1..L : k < L => components[k].root # components[L].root
    <3>1. L \in 1..L
      BY <2>5
    <3> QED BY <2>5, <2>6, <3>1
  <2> QED BY <2>4, <2>5, <2>7
<1>10. CountsSoFar = CountsOf(CountOutputs, ClosedUpto[n])
  <2>1. ClosedUpto[n] \in SUBSET Folds
    BY <1>2 DEF ClosedUpto
  <2> QED BY <1>2, <2>1, CountsGrow DEF CountsSoFar
<1>11. x \notin PropertiesUpto[n] \cup CountsSoFar
  <2>1. x \notin CountsSoFar
    <3>1. x.ref.kind = "context"
      BY <1>6, OutputFacts
    <3>2. \A o \in CountsSoFar : o.ref.kind = "count"
      BY <1>10, OutputFacts DEF CountsOf
    <3> QED BY <3>1, <3>2
  <2> QED BY <1>6, <2>1
<1> HIDE DEF x
<1>12. ListedIs(PropertiesUpto[at], CountsOf(CountOutputs, ClosedUpto[at]), globalOutputs',
                componentOutputs', components')
  <2>1. PICK S : componentOutputs \in Seq(S)
    BY <1>2 DEF Shape
  <2>2. componentOutputs # << >>
    <3>1. Len(componentOutputs) = L /\ L > 0
      BY <1>2, ComponentFacts DEF ListedIs, Shape
    <3> QED BY <3>1
  <2>3. ListedIs(PropertiesUpto[n] \cup {x}, CountsSoFar, Append(globalOutputs, NameAndRef(x)),
                 [componentOutputs EXCEPT ![Len(componentOutputs)] = Append(@, NameAndRef(x))],
                 components)
    BY <1>2, <1>9, <1>11, <2>1, <2>2, ListedProperty
  <2>4. /\ globalOutputs' = Append(globalOutputs, NameAndRef(x))
        /\ componentOutputs' = [componentOutputs EXCEPT ![Len(componentOutputs)] =
                                  Append(@, NameAndRef(x))]
    BY <1>8 DEF RegisterOutput
  <2> QED BY <1>3, <1>6, <1>10, <2>3, <2>4
<1>13. ScopesAre(query, Vids, Opened[at], at, vidStack', prefixes', nextVid')
  <2>1. Vids[at] = Vids[n]
    BY <1>2, VidFacts
  <2>2. ScopesAre(query, Vids, Opened[n], n + 1, vidStack, prefixes, nextVid)
    <3> HIDE DEF n
    <3> QED BY <1>2, <2>1, ScopesMove
  <2> HIDE DEF n
  <2> QED BY <1>2, <1>3, <1>5, <2>2
<1>14. CleanIs(query, Opened[at], at)
  <2>1. \A i \in 1..at : i = at \/ i \in 1..n
    BY <1>2
  <2> HIDE DEF n
  <2> QED BY <1>2, <1>5, <2>1 DEF CleanIs
<1> HIDE DEF n, L
<1>15. at' \in 1..Len(query) /\ at' - 1 = at
  BY <1>2, <1>3, <1>4
<1> QED BY <1>2, <1>3, <1>5, <1>6, <1>12, <1>13, <1>14, <1>15, ExactBeforeField

\* What the end of an edge changes, whether it is a fold or not.
LEMMA CloseStep ==
  ASSUME IInv, query \in Queries, Exact, Field("close"), Opened[at - 1] # << >>
  PROVE  LET k == Last(Opened[at - 1])
         IN  /\ at + 1 \in 1..Len(query)
             /\ k \in Edges /\ k \in 1..at - 1 /\ k \in ToSet(Opened[at - 1])
             /\ Opened[at] = AllButLast(Opened[at - 1]) /\ Opened[at] = Opened[k - 1]
             /\ Opened[k] = Opened[at - 1]
             /\ ToSet(Opened[at]) = ToSet(Opened[at - 1]) \ {k}
             /\ \A j \in ToSet(Opened[at - 1]) : j <= k
             /\ PropertiesUpto[at] = PropertiesUpto[at - 1]
             /\ k \notin ClosedUpto[at - 1]
             /\ ClosedUpto[at] = ClosedUpto[at - 1] \cup (IF query[k].fold THEN {k} ELSE {})
             /\ ScopesAre(query, Vids, Opened[at - 1], at, vidStack, prefixes, nextVid)
             /\ ScopesAre(query, Vids, Opened[at], at, AllButLast(vidStack), prefixes, nextVid)
             /\ query[k].error = "none" => CleanIs(query, Opened[at], at)
             /\ CleanIs(query, Opened[at - 1], at)
<1> DEFINE n == at - 1
           open == Opened[n]
           k == Last(open)
<1>1. /\ phase = "fill" /\ query[at].kind = "close" /\ at \in 1..Len(query)
      /\ at \in Nat /\ n \in Nat /\ n \in 0..Len(query) /\ at \in 0..Len(query) /\ n + 1 = at
      /\ ScopesAre(query, Vids, open, n, vidStack, prefixes, nextVid)
      /\ CleanIs(query, open, n) /\ Shape
  BY FieldFacts
<1>2. at + 1 \in 1..Len(query)
  BY <1>1, NotTheLast
<1>3. /\ k \in Edges /\ k \in 1..n /\ k \in ToSet(open)
      /\ Opened[at] = Opened[k - 1] /\ Opened[k] = open /\ Opened[at] = AllButLast(open)
      /\ ToSet(Opened[at]) = ToSet(open) \ {k}
  BY <1>1, Closes, OpenedSets, OpenedStep
<1>4. \A j \in ToSet(open) : j <= k
  <2> DEFINE m == Len(open)
  <2>1. /\ open \in Seq(Nat) /\ m \in Nat /\ DOMAIN open = 1..m
        /\ \A d, e \in 1..m : e < d => open[e] < open[d]
    BY <1>1, OpenFacts
  <2>2. m > 0 /\ k = open[m] /\ m \in 1..m
    BY <2>1, SeqFacts DEF Last
  <2>3. \A d \in 1..m : open[d] \in Nat /\ (d = m \/ d < m)
    BY <2>1, SeqFacts
  <2> HIDE DEF m, k, open, n
  <2>4. \A d \in 1..m : open[d] <= k
    BY <2>1, <2>2, <2>3
  <2> QED BY <2>1, <2>4 DEF ToSet
<1>5. /\ PropertiesUpto[at] = PropertiesUpto[n] /\ k \notin ClosedUpto[n]
      /\ ClosedUpto[at] = ClosedUpto[n] \cup (IF query[k].fold THEN {k} ELSE {})
  BY <1>1, PropertiesStep, ClosedStep
<1>6. ScopesAre(query, Vids, open, at, vidStack, prefixes, nextVid)
  <2>1. Vids[at] = Vids[n]
    BY <1>1, VidFacts
  <2>2. ScopesAre(query, Vids, open, n + 1, vidStack, prefixes, nextVid)
    <3> HIDE DEF n, open
    <3> QED BY <1>1, <2>1, ScopesMove
  <2> HIDE DEF n, open
  <2> QED BY <1>1, <2>2
<1>7. ScopesAre(query, Vids, AllButLast(open), at, AllButLast(vidStack), prefixes, nextVid)
  <2>1. open \in Seq(Nat) /\ \A d \in DOMAIN open : open[d] \in Edges
    BY <1>1, OpenFacts
  <2>2. \A i \in Edges : i \in 1..Len(query)
    BY VidFacts
  <2>3. \A i \in 1..Len(query) : i \in 0..Len(query)
    BY QueryFacts
  <2>4. \A d \in DOMAIN open : Vids[open[d]] \in Nat
    BY <2>1, <2>2, <2>3, VidFacts
  <2> HIDE DEF open
  <2> QED BY <1>6, <2>1, <2>4, ScopesPop DEF open
<1>8. \A i \in 1..at : i = at \/ i \in 1..n
  BY <1>1
<1>9. CleanIs(query, open, at)
  BY <1>1, <1>8 DEF CleanIs
<1>10. query[k].error = "none" => CleanIs(query, Opened[at], at)
  BY <1>3, <1>9 DEF CleanIs
<1> QED BY <1>2, <1>3, <1>4, <1>5, <1>6, <1>7, <1>9, <1>10

\* Where a component ends.
LEMMA AtComponentEnd ==
  ASSUME IInv, query \in Queries, Exact, Field("close")
  PROVE  /\ Opened[at - 1] = << >> =>
              /\ OpenVid = Component.root /\ Component.root = RootVid /\ Len(components) = 1
              /\ at = Len(query)
         /\ Opened[at - 1] # << >> =>
              LET k == Last(Opened[at - 1])
              IN  /\ OpenVid = Component.root <=> query[k].fold
                  /\ query[k].fold => /\ Len(components) # 1 /\ Component.root = Vids[k]
                                      /\ k \in Folds
<1> DEFINE n == at - 1
           open == Opened[n]
           k == Last(open)
<1>1. /\ phase = "fill" /\ query[at].kind = "close" /\ at \in 1..Len(query)
      /\ n \in 0..Len(query) /\ OpenAt = n /\ Shape /\ Position
      /\ NestedIs(query, Vids, open, components)
  BY FieldFacts
<1>2. OpenVid = VertexAt(n)
  BY <1>1, OpenScope DEF Exact
<1>3. /\ \A m : IsInnermostFold(query, open, m) => Component.root = Vids[m]
      /\ Len(components) = 1 <=> \A j \in ToSet(open) : ~ query[j].fold
  BY <1>1, InnermostComponent
<1>4. Vids[0] = RootVid /\ VidAt(0) = Vids[0]
  <2>1. 0 \in 0..Len(query)
    BY QueryFacts
  <2> QED BY <2>1, VidFacts
<1>5. CASE open = << >>
  <2>1. ToSet(open) = {}
    BY <1>5 DEF ToSet
  <2>2. IsInnermostFold(query, open, 0)
    BY <2>1 DEF IsInnermostFold
  <2>3. Component.root = RootVid /\ Len(components) = 1
    BY <1>3, <1>4, <2>1, <2>2
  <2>4. OpenVid = RootVid
    BY <1>2, <1>4, <1>5 DEF VertexAt
  <2>5. at = Len(query)
    BY <1>1, <1>5, OpenDepth
  <2> QED BY <1>5, <2>3, <2>4, <2>5
<1>6. CASE open # << >>
  <2>1. k \in Edges /\ k \in ToSet(open) /\ \A j \in ToSet(open) : j <= k
    BY <1>6, CloseStep
  <2>2. k \in 0..Len(query)
    BY <2>1, VidFacts, QueryFacts
  <2>3. OpenVid = Vids[k]
    BY <1>2, <1>6, <2>2, VidFacts DEF VertexAt
  <2> HIDE DEF k
  <2>4. ASSUME query[k].fold
        PROVE  Len(components) # 1 /\ Component.root = Vids[k] /\ k \in Folds
    <3>1. IsInnermostFold(query, open, k)
      BY <2>1, <2>4 DEF IsInnermostFold
    <3> QED BY <1>3, <2>1, <2>4, <3>1 DEF Folds
  <2>5. ASSUME ~ query[k].fold PROVE OpenVid # Component.root
    <3>1. PICK m : IsInnermostFold(query, open, m)
      BY <1>1, RootIs
    <3>2. Component.root = Vids[m]
      BY <1>3, <3>1
    <3>3. CASE m = 0
      BY <1>4, <2>1, <2>3, <3>2, <3>3, VidsDiffer
    <3>4. CASE m \in ToSet(open) /\ query[m].fold
      <4>1. m \in Edges /\ m # k
        BY <1>1, <2>5, <3>4, OpenFacts DEF ToSet
      <4> QED BY <2>1, <2>3, <3>2, <4>1, VidsDiffer
    <3> QED BY <3>1, <3>3, <3>4 DEF IsInnermostFold
  <2> QED BY <1>6, <2>3, <2>4, <2>5 DEF k
<1> QED BY <1>5, <1>6

\* The end of an edge that is no fold.
LEMMA CloseVertexExact ==
  ASSUME IInv, query \in Queries, Exact, CloseVertex
  PROVE  Exact'
<1> DEFINE n == at - 1
           k == Last(Opened[n])
<1>1. Field("close") /\ OpenVid # Component.root
  BY DEF CloseVertex
<1>2. /\ at' = at + 1 /\ vidStack' = AllButLast(vidStack)
      /\ UNCHANGED <<query, nextVid, components, prefixes, componentOutputs, globalOutputs, phase,
                     folding, made>>
  BY DEF CloseVertex, EndNestedScope
<1>3. /\ phase = "fill" /\ at \in 1..Len(query) /\ at \in 0..Len(query) /\ (at + 1) - 1 = at
      /\ n \in 0..Len(query) /\ Shape /\ PendingFold = 0
      /\ CleanIs(query, Opened[n], n)
      /\ NestedIs(query, Vids, Opened[n], components)
      /\ ListedIs(PropertiesUpto[n], CountsSoFar, globalOutputs, componentOutputs, components)
      /\ made = MadeOf(ComponentMade, FoldMade, ClosedUpto[n], 0)
  BY <1>1, FieldFacts
<1>4. Opened[n] # << >> /\ ~ query[k].fold
  BY <1>1, AtComponentEnd
<1>5. /\ at + 1 \in 1..Len(query) /\ k \in Edges /\ k \in 1..n
      /\ ToSet(Opened[at]) = ToSet(Opened[n]) \ {k}
      /\ PropertiesUpto[at] = PropertiesUpto[n]
      /\ ClosedUpto[at] = ClosedUpto[n] \cup (IF query[k].fold THEN {k} ELSE {})
      /\ ScopesAre(query, Vids, Opened[at], at, AllButLast(vidStack), prefixes, nextVid)
      /\ query[k].error = "none" => CleanIs(query, Opened[at], at)
  BY <1>1, <1>4, CloseStep
<1> HIDE DEF k
<1>6. CleanIs(query, Opened[at], at)
  <2>1. query[k].kind = "edge"
    BY <1>5, VidFacts
  <2>2. query[k].error = "none"
    BY <1>3, <1>4, <1>5, <2>1 DEF CleanIs
  <2> QED BY <1>5, <2>2
<1>7. ClosedUpto[at] = ClosedUpto[n]
  BY <1>4, <1>5
<1>8. NestedIs(query, Vids, Opened[at], components')
  <2>1. {j \in ToSet(Opened[at]) : query[j].fold} = {j \in ToSet(Opened[n]) : query[j].fold}
    BY <1>4, <1>5
  <2>2. Len(components) \in Nat
    BY <1>3, ComponentFacts DEF Shape
  <2> QED BY <1>2, <1>3, <2>1, <2>2, NestedKeep
<1>9. CountsSoFar = CountsOf(CountOutputs, ClosedUpto[n])
  <2>1. ClosedUpto[n] \in SUBSET Folds
    BY <1>3 DEF ClosedUpto
  <2> QED BY <1>3, <2>1, CountsGrow DEF CountsSoFar
<1> HIDE DEF n
<1>10. at' \in 1..Len(query) /\ at' - 1 = at
  BY <1>2, <1>3, <1>5
<1> QED BY <1>2, <1>3, <1>5, <1>6, <1>7, <1>8, <1>9, <1>10, ExactBeforeField

\* Everything is in its place while the count of a fold is output.
LEMMA ExactInCounts ==
  ASSUME query \in Queries, query' = query, phase' = "counts", at' \in 1..Len(query),
         NEW n \in 0..Len(query), at' - 1 = n, NEW f, NEW c,
         f \in ClosedUpto[n], Opened[f - 1] = Opened[n],
         folding' = [root |-> Vids[f], field |-> f, next |-> c],
         c \in 1..Len(query[f].counts) + 1,
         ScopesAre(query, Vids, Opened[f], n, vidStack', prefixes', nextVid'),
         CleanIs(query, Opened[f], n),
         NestedIs(query, Vids, Opened[n], components'),
         ListedIs(PropertiesUpto[n], CountsAmong(CountOutputs, ClosedUpto[n], f, c),
                  globalOutputs', componentOutputs', components'),
         made' = MadeOf(ComponentMade, FoldMade, ClosedUpto[n], f)
  PROVE  Exact'
<1>1. /\ Opened' = Opened /\ Vids' = Vids /\ PropertiesUpto' = PropertiesUpto
      /\ CountOutputs' = CountOutputs /\ ClosedUpto' = ClosedUpto
      /\ ComponentMade' = ComponentMade /\ FoldMade' = FoldMade
  BY SameQuery
<1>2. OpenAt' = f /\ PendingFold' = f /\ (at - 1)' = n /\ folding'.field = f /\ folding'.next = c
  BY DEF OpenAt, PendingFold
<1>3. Position'
  BY <1>1, <1>2 DEF Position
<1>4. Scopes'
  BY <1>1, <1>2 DEF Scopes
<1>5. Clean'
  BY <1>1, <1>2 DEF Clean
<1>6. Nested'
  BY <1>1, <1>2 DEF Nested
<1>7. Listed'
  <2>1. CountsSoFar' = CountsAmong(CountOutputs, ClosedUpto[n], f, c)
    BY <1>1, <1>2 DEF CountsSoFar
  <2> QED BY <1>1, <1>2, <2>1 DEF Listed
<1>8. Made'
  BY <1>1, <1>2 DEF Made
<1> QED BY <1>3, <1>4, <1>5, <1>6, <1>7, <1>8 DEF Exact

\* A fold that closes has had all of its outputs.
LEMMA FoldIsComplete ==
  ASSUME query \in Queries, NEW n \in 1..Len(query), query[n].kind = "close", NEW k \in Edges,
         k \in 1..n, k \notin ToSet(Opened[n])
  PROVE  \A o \in PropertyOutputs : o.root = Vids[k] => o \in PropertiesUpto[n - 1]
<1> SUFFICES ASSUME NEW o \in PropertyOutputs, o.root = Vids[k] PROVE o \in PropertiesUpto[n - 1]
  OBVIOUS
<1>1. PICK i \in DOMAIN query : query[i].kind = "output" /\ o = PropertyOutput(i)
  BY OutputRecords
<1>2. /\ i \in 1..Len(query) /\ i \in 0..Len(query) /\ o.at = i /\ o.root = RootAt(i)
      /\ Len(query) \in Nat /\ n \in 0..Len(query) /\ n - 1 \in 0..Len(query)
  BY <1>1, OutputFacts, QueryFacts
<1>3. i <= n - 1
  <2>1. SUFFICES ASSUME n <= i PROVE FALSE
    BY <1>2
  <2>2. k \notin ToSet(Opened[i])
    BY <1>2, <2>1, StaysClosed
  <2>3. PICK m : IsInnermostFold(query, Opened[i], m)
    BY <1>2, RootIs
  <2>4. Vids[m] = Vids[k]
    BY <1>2, <2>3, RootIs
  <2>5. CASE m = 0
    BY <2>4, <2>5, VidFacts, VidsDiffer
  <2>6. CASE m \in ToSet(Opened[i])
    <3>1. m \in Edges
      BY <1>2, <2>6, OpenFacts DEF ToSet
    <3>2. m = k
      BY <2>4, <3>1, VidsDiffer
    <3> QED BY <2>2, <2>6, <3>2
  <2> QED BY <2>3, <2>5, <2>6 DEF IsInnermostFold
<1> QED BY <1>2, <1>3 DEF PropertiesUpto

\* A component that is made has the outputs of its own.
LEMMA ComponentHasItsOwn ==
  ASSUME IInv, query \in Queries, Exact, Field("close"), NEW m \in 0..Len(query),
         Component.root = Vids[m],
         \A o \in PropertyOutputs : o.root = Vids[m] => o \in PropertiesUpto[at - 1]
  PROVE  /\ [kind |-> "component", root |-> Component.root,
             outputs |-> {o \in ToSet(Last(componentOutputs)) : o.ref.kind = "context"}]
              = ComponentMade[m]
         /\ Valid => Duplicates(Last(componentOutputs)) = {}
<1> DEFINE n == at - 1
           L == Len(components)
<1>1. /\ n \in 0..Len(query) /\ Shape /\ PendingFold = 0
      /\ ListedIs(PropertiesUpto[n], CountsSoFar, globalOutputs, componentOutputs, components)
  BY FieldFacts
<1>2. L \in Nat /\ L > 0 /\ L \in 1..L
  BY <1>1, ComponentFacts DEF Shape
<1>3. ListsComponent(Last(componentOutputs), Vids[m], PropertiesUpto[n], CountsSoFar)
  <2>1. Len(componentOutputs) = L /\ Component = components[L]
    BY <1>1 DEF ListedIs, Component, Last
  <2>2. ListsComponent(componentOutputs[L], components[L].root, PropertiesUpto[n], CountsSoFar)
    BY <1>1, <1>2 DEF ListedIs
  <2> QED BY <2>1, <2>2 DEF Last
<1>4. PropertiesUpto[n] \in SUBSET PropertyOutputs /\ CountsSoFar \in SUBSET CountOutputs
  BY <1>1 DEF PropertiesUpto, CountsSoFar, CountsAmong
<1>5. /\ {o \in ToSet(Last(componentOutputs)) : o.ref.kind = "context"}
           = OutputsOf(PropertyOutputs, Vids[m])
      /\ Valid => Duplicates(Last(componentOutputs)) = {}
  BY <1>3, <1>4, PropertiesOfList
<1>6. VidAt(m) = Vids[m]
  BY VidFacts
<1>7. ComponentMade[m] = [kind |-> "component", root |-> Vids[m],
                          outputs |-> OutputsOf(PropertyOutputs, Vids[m])]
  BY <1>6 DEF ComponentMade
<1> QED BY <1>5, <1>7

\* The component of a fold is made.
LEMMA EndFoldComponentExact ==
  ASSUME IInv, query \in Queries, Exact, EndComponent, Opened[at - 1] # << >>
  PROVE  Exact'
<1> DEFINE n == at - 1
           k == Last(Opened[n])
<1>1. Field("close") /\ OpenVid = Component.root
  BY DEF EndComponent, Filled
<1>2. /\ phase = "fill" /\ at \in 1..Len(query) /\ at \in 0..Len(query) /\ (at + 1) - 1 = at
      /\ n \in 0..Len(query) /\ at \in Nat /\ Shape /\ PendingFold = 0
      /\ query[at].kind = "close"
      /\ NestedIs(query, Vids, Opened[n], components)
      /\ ListedIs(PropertiesUpto[n], CountsSoFar, globalOutputs, componentOutputs, components)
      /\ made = MadeOf(ComponentMade, FoldMade, ClosedUpto[n], 0)
  BY <1>1, FieldFacts
<1>3. query[k].fold /\ Len(components) # 1 /\ Component.root = Vids[k] /\ k \in Folds
  BY <1>1, AtComponentEnd
<1>4. /\ at + 1 \in 1..Len(query)
      /\ k \in Edges /\ k \in 1..n /\ k \in ToSet(Opened[n])
      /\ Opened[at] = Opened[k - 1] /\ Opened[k] = Opened[n]
      /\ ToSet(Opened[at]) = ToSet(Opened[n]) \ {k}
      /\ PropertiesUpto[at] = PropertiesUpto[n]
      /\ k \notin ClosedUpto[n]
      /\ ClosedUpto[at] = ClosedUpto[n] \cup (IF query[k].fold THEN {k} ELSE {})
      /\ ScopesAre(query, Vids, Opened[n], at, vidStack, prefixes, nextVid)
      /\ CleanIs(query, Opened[n], at)
  BY <1>1, CloseStep
<1>5. /\ at' = at + 1 /\ phase' = "counts"
      /\ UNCHANGED <<query, nextVid, vidStack, prefixes, globalOutputs>>
      /\ componentOutputs' = AllButLast(componentOutputs)
      /\ components' = AllButLast(components)
      /\ folding' = [root |-> Component.root, field |-> Opener(at), next |-> 1]
      /\ made' = made \cup {[kind |-> "component", root |-> Component.root,
                             outputs |-> {o \in ToSet(Last(componentOutputs)) : o.ref.kind = "context"}]}
  BY <1>3 DEF EndComponent
<1>6. Opener(at) = k
  BY <1>2, OpenerIs
<1>7. folding' = [root |-> Vids[k], field |-> k, next |-> 1]
  BY <1>3, <1>5, <1>6
<1>8. k \in 0..Len(query) /\ k \in 1..at
  BY <1>2, <1>4
<1>9. ClosedUpto[at] = ClosedUpto[n] \cup {k} /\ ClosedUpto[n] \in SUBSET Folds
  BY <1>2, <1>3, <1>4 DEF ClosedUpto
<1> HIDE DEF k
<1>10. made' = MadeOf(ComponentMade, FoldMade, ClosedUpto[at], k)
  <2>1. \A o \in PropertyOutputs : o.root = Vids[k] => o \in PropertiesUpto[n]
    <3>1. k \notin ToSet(Opened[at])
      BY <1>4
    <3> QED BY <1>2, <1>4, <1>8, <3>1, FoldIsComplete
  <2>2. made' = made \cup {ComponentMade[k]}
    BY <1>1, <1>3, <1>5, <1>8, <2>1, ComponentHasItsOwn
  <2>3. 0 \notin ClosedUpto[n]
    <3>1. \A i \in Folds : i # 0
      BY VidFacts DEF Folds
    <3> QED BY <1>9, <3>1
  <2>4. (ClosedUpto[n] \cup {k}) \ {k} = ClosedUpto[n] \ {0}
    BY <1>4, <2>3
  <2>5. {ComponentMade[i] : i \in ClosedUpto[n] \cup {k}}
          = {ComponentMade[i] : i \in ClosedUpto[n]} \cup {ComponentMade[k]}
    OBVIOUS
  <2> QED BY <1>2, <1>9, <2>2, <2>4, <2>5 DEF MadeOf
<1>11. NestedIs(query, Vids, Opened[at], components')
  <2>1. components[Len(components)].root = Vids[k]
    BY <1>3 DEF Component, Last
  <2>2. \A i, j \in ToSet(Opened[n]) : Vids[i] = Vids[j] => i = j
    <3>1. \A i \in ToSet(Opened[n]) : i \in Edges
      BY <1>2, OpenFacts DEF ToSet
    <3> QED BY <3>1, VidsDiffer
  <2>3. components \in Seq(ComponentRecord) /\ components # << >>
    BY <1>2 DEF Shape
  <2>4. NestedIs(query, Vids, Opened[at], AllButLast(components))
    BY <1>2, <1>3, <1>4, <2>1, <2>2, <2>3, NestedPop
  <2> QED BY <1>5, <2>4
<1>12. ListedIs(PropertiesUpto[at], CountsAmong(CountOutputs, ClosedUpto[at], k, 1),
                globalOutputs', componentOutputs', components')
  <2>1. PICK S : componentOutputs \in Seq(S)
    BY <1>2 DEF Shape
  <2>2. components \in Seq(ComponentRecord) /\ components # << >>
    BY <1>2 DEF Shape
  <2>3. ListedIs(PropertiesUpto[n], CountsSoFar, globalOutputs, AllButLast(componentOutputs),
                 AllButLast(components))
    BY <1>2, <2>1, <2>2, ListedPop
  <2>4. CountsSoFar = CountsOf(CountOutputs, ClosedUpto[n])
    BY <1>2, <1>9, CountsGrow DEF CountsSoFar
  <2>5. CountsAmong(CountOutputs, ClosedUpto[n] \cup {k}, k, 1) = CountsOf(CountOutputs, ClosedUpto[n])
    BY <1>3, <1>4, <1>9, CountsGrow
  <2> QED BY <1>4, <1>5, <1>9, <2>3, <2>4, <2>5
<1>13. 1 \in 1..Len(query[k].counts) + 1
  <2>1. Len(query[k].counts) \in Nat
    BY <1>3, CountPlaces
  <2> HIDE DEF n
  <2> QED BY <2>1
<1>14. k \in ClosedUpto[at]
  BY <1>9
<1> HIDE DEF n
<1>15. at' \in 1..Len(query) /\ at' - 1 = at
  BY <1>2, <1>4, <1>5
<1>16. ScopesAre(query, Vids, Opened[k], at, vidStack', prefixes', nextVid') /\ CleanIs(query, Opened[k], at)
  BY <1>4, <1>5
<1> QED BY <1>2, <1>4, <1>5, <1>7, <1>10, <1>11, <1>12, <1>13, <1>14, <1>15, <1>16, ExactInCounts

\* The root component is made.
LEMMA EndRootExact ==
  ASSUME IInv, query \in Queries, Exact, EndComponent, Opened[at - 1] = << >>
  PROVE  Exact' /\ phase' = "finish"
<1> DEFINE n == at - 1
<1>1. Field("close") /\ OpenVid = Component.root
  BY DEF EndComponent, Filled
<1>2. /\ phase = "fill" /\ at \in 1..Len(query) /\ at \in 0..Len(query) /\ (at + 1) - 1 = at
      /\ n \in 0..Len(query) /\ n \in Nat /\ n + 1 = at /\ at \in Nat /\ Shape /\ PendingFold = 0
      /\ query[at].kind = "close"
      /\ ScopesAre(query, Vids, Opened[n], n, vidStack, prefixes, nextVid)
      /\ CleanIs(query, Opened[n], n)
      /\ NestedIs(query, Vids, Opened[n], components)
      /\ ListedIs(PropertiesUpto[n], CountsSoFar, globalOutputs, componentOutputs, components)
      /\ made = MadeOf(ComponentMade, FoldMade, ClosedUpto[n], 0)
  BY <1>1, FieldFacts
<1>3. at = Len(query) /\ Len(components) = 1 /\ Component.root = RootVid
  BY <1>1, AtComponentEnd
<1>4. /\ at' = at + 1 /\ phase' = "finish"
      /\ UNCHANGED <<query, nextVid, vidStack, prefixes, globalOutputs, components, folding>>
      /\ made' = made \cup {[kind |-> "component", root |-> Component.root,
                             outputs |-> {o \in ToSet(Last(componentOutputs)) : o.ref.kind = "context"}]}
  BY <1>3 DEF EndComponent
<1>5. Opened[at] = Opened[n]
  BY <1>2, OpenedSets
<1>6. /\ PropertiesUpto[at] = PropertiesUpto[n] /\ ClosedUpto[at] = ClosedUpto[n]
      /\ PropertiesUpto[at] = PropertyOutputs /\ ClosedUpto[at] = Folds
  BY <1>2, <1>3, PropertiesStep, ClosedStep, InTheEnd
<1>7. made' = MadeOf(ComponentMade, FoldMade, ClosedUpto[at], 0) \cup {ComponentMade[0]}
  <2>1. 0 \in 0..Len(query) /\ Component.root = Vids[0]
    BY <1>3, VidFacts, QueryFacts
  <2>2. made' = made \cup {ComponentMade[0]}
    BY <1>1, <1>4, <1>6, <2>1, ComponentHasItsOwn
  <2> QED BY <1>2, <1>6, <2>2
<1>8. Lists(globalOutputs, PropertyOutputs \cup CountOutputs)
  <2>1. CountsSoFar = CountsOf(CountOutputs, Folds)
    BY <1>2, <1>6, CountsGrow DEF CountsSoFar
  <2>2. CountsSoFar = CountOutputs
    <3>1. Folds \in SUBSET Folds
      OBVIOUS
    <3> QED BY <2>1, <3>1, CountsGrow
  <2>3. Lists(globalOutputs, PropertiesUpto[n] \cup CountsSoFar)
    BY <1>2 DEF ListedIs
  <2> QED BY <1>6, <2>2, <2>3
<1>9. ScopesAre(query, Vids, Opened[at], at, vidStack, prefixes, nextVid)
  <2>1. Vids[at] = Vids[n]
    BY <1>2, VidFacts
  <2>2. ScopesAre(query, Vids, Opened[n], n + 1, vidStack, prefixes, nextVid)
    <3> HIDE DEF n
    <3> QED BY <1>2, <2>1, ScopesMove
  <2> HIDE DEF n
  <2> QED BY <1>2, <1>5, <2>2
<1>10. CleanIs(query, Opened[at], at)
  <2>1. \A i \in 1..at : i = at \/ i \in 1..n
    BY <1>2
  <2> HIDE DEF n
  <2> QED BY <1>2, <1>5, <2>1 DEF CleanIs
<1>11. /\ Opened' = Opened /\ Vids' = Vids /\ PropertyOutputs' = PropertyOutputs
       /\ CountOutputs' = CountOutputs /\ ClosedUpto' = ClosedUpto
       /\ ComponentMade' = ComponentMade /\ FoldMade' = FoldMade
  BY <1>4, SameQuery
<1> HIDE DEF n
<1>12. (at - 1)' = at /\ OpenAt' = at /\ PendingFold' = 0
  <2>1. (at - 1)' = at
    BY <1>2, <1>4
  <2> QED BY <1>4, <2>1 DEF OpenAt, PendingFold
<1>13. Position'
  BY <1>2, <1>3, <1>4, <1>12 DEF Position
<1>14. Scopes'
  BY <1>4, <1>9, <1>11, <1>12 DEF Scopes
<1>15. Clean'
  BY <1>4, <1>10, <1>11, <1>12 DEF Clean
<1>16. Nested'
  BY <1>2, <1>4, <1>5, <1>11, <1>12 DEF Nested
<1>17. Listed'
  BY <1>4, <1>8, <1>11 DEF Listed
<1>18. Made'
  BY <1>4, <1>7, <1>11, <1>12 DEF Made
<1> QED BY <1>4, <1>13, <1>14, <1>15, <1>16, <1>17, <1>18 DEF Exact

\* The fold whose count is being output, and the names of its outputs.
LEMMA CountingFacts ==
  ASSUME IInv, query \in Queries, Exact, phase = "counts"
  PROVE  LET f == folding.field
             n == at - 1
         IN  /\ f \in Folds /\ f \in Edges /\ f \in 1..n /\ f \in 1..Len(query) /\ f \in ClosedUpto[n]
             /\ n \in 0..Len(query) /\ at \in 1..Len(query) /\ Opened[f - 1] = Opened[n]
             /\ PendingFold = f /\ Shape
             /\ folding = [root |-> Vids[f], field |-> f, next |-> folding.next]
             /\ folding.root = Vids[f] /\ folding.root = VidAt(f) /\ f \in 0..Len(query)
             /\ folding.next \in 1..Len(query[f].counts) + 1
             /\ DOMAIN query[f].counts = 1..Len(query[f].counts) /\ Len(query[f].counts) \in Nat
             /\ ScopesAre(query, Vids, Opened[f], n, vidStack, prefixes, nextVid)
             /\ CleanIs(query, Opened[f], n)
             /\ NestedIs(query, Vids, Opened[n], components)
             /\ ListedIs(PropertiesUpto[n], CountsAmong(CountOutputs, ClosedUpto[n], f, folding.next),
                         globalOutputs, componentOutputs, components)
             /\ made = MadeOf(ComponentMade, FoldMade, ClosedUpto[n], f)
             /\ \A c \in 1..Len(query[f].counts) :
                  /\ CountOutput(f, c).name = CountName(query[f], c)
                  /\ NameAndRef(CountOutput(f, c))
                       = [name |-> CountName(query[f], c), ref |-> [kind |-> "count", vid |-> folding.root]]
<1> DEFINE f == folding.field
           n == at - 1
<1>1. /\ f \in Folds /\ f \in Edges /\ f \in 1..n /\ n \in 0..Len(query) /\ at \in 1..Len(query)
      /\ OpenAt = f /\ PendingFold = f
  BY OpenAtFacts DEF Exact
<1>2. /\ f \in ClosedUpto[n] /\ Opened[f - 1] = Opened[n]
      /\ folding = [root |-> Vids[f], field |-> f, next |-> folding.next]
      /\ folding.root = Vids[f]
      /\ folding.next \in 1..Len(query[f].counts) + 1
  BY DEF Exact, Position
<1>3. f \in 1..Len(query)
  BY <1>1, VidFacts
<1>4. f \in 0..Len(query)
  BY <1>3, QueryFacts
<1>5. folding.root = VidAt(f)
  BY <1>2, <1>4, VidFacts
<1>6. DOMAIN query[f].counts = 1..Len(query[f].counts) /\ Len(query[f].counts) \in Nat
  BY <1>1, CountPlaces
<1>7. /\ ScopesAre(query, Vids, Opened[f], n, vidStack, prefixes, nextVid)
      /\ CleanIs(query, Opened[f], n)
  BY <1>1 DEF Exact, Scopes, Clean
<1>8. Shape /\ NestedIs(query, Vids, Opened[n], components)
  BY DEF IInv, Exact, Nested
<1>9. /\ ListedIs(PropertiesUpto[n], CountsAmong(CountOutputs, ClosedUpto[n], f, folding.next),
                  globalOutputs, componentOutputs, components)
      /\ made = MadeOf(ComponentMade, FoldMade, ClosedUpto[n], f)
  BY <1>1 DEF Exact, Listed, Made, CountsSoFar
<1>10. ASSUME NEW c \in 1..Len(query[f].counts)
       PROVE  /\ CountOutput(f, c).name = CountName(query[f], c)
              /\ NameAndRef(CountOutput(f, c))
                   = [name |-> CountName(query[f], c), ref |-> [kind |-> "count", vid |-> folding.root]]
  <2>1. MakeOutputName(LocalCountName(query[f]), Count) = PrefixAt(f) \o LocalCountName(query[f]) \o Count
    BY <1>1, OpenScope DEF Exact
  <2>2. /\ CountOutput(f, c).name = IF query[f].counts[c] # None THEN query[f].counts[c]
                                    ELSE PrefixAt(f) \o LocalCountName(query[f]) \o Count
        /\ CountOutput(f, c).ref = [kind |-> "count", vid |-> VidAt(f)]
    BY OutputFacts
  <2>3. CountOutput(f, c).name = CountName(query[f], c)
    BY <2>1, <2>2 DEF CountName
  <2> QED BY <1>5, <2>2, <2>3 DEF NameAndRef
<1> QED BY <1>1, <1>2, <1>3, <1>4, <1>5, <1>6, <1>7, <1>8, <1>9, <1>10

\* An output of a fold's count.
LEMMA OutputCountExact ==
  ASSUME IInv, query \in Queries, Exact, OutputCount
  PROVE  Exact'
<1> DEFINE f == folding.field
           c == folding.next
           n == at - 1
           x == CountOutput(f, c)
<1>1. /\ phase = "counts" /\ c \in DOMAIN query[f].counts
      /\ folding' = [folding EXCEPT !.next = @ + 1]
      /\ UNCHANGED <<query, at, nextVid, components, vidStack, prefixes, phase, made>>
      /\ RegisterOutput([name |-> CountName(query[f], c), ref |-> [kind |-> "count", vid |-> folding.root]])
  BY DEF OutputCount
<1>2. /\ f \in Folds /\ f \in ClosedUpto[n] /\ n \in 0..Len(query) /\ at \in 1..Len(query)
      /\ Opened[f - 1] = Opened[n] /\ Shape
      /\ folding = [root |-> Vids[f], field |-> f, next |-> c]
      /\ c \in 1..Len(query[f].counts) /\ Len(query[f].counts) \in Nat
      /\ ScopesAre(query, Vids, Opened[f], n, vidStack, prefixes, nextVid)
      /\ CleanIs(query, Opened[f], n)
      /\ NestedIs(query, Vids, Opened[n], components)
      /\ ListedIs(PropertiesUpto[n], CountsAmong(CountOutputs, ClosedUpto[n], f, c),
                  globalOutputs, componentOutputs, components)
      /\ made = MadeOf(ComponentMade, FoldMade, ClosedUpto[n], f)
      /\ NameAndRef(x) = [name |-> CountName(query[f], c), ref |-> [kind |-> "count", vid |-> folding.root]]
  BY <1>1, CountingFacts
<1>3. folding' = [root |-> Vids[f], field |-> f, next |-> c + 1]
  <2>1. PICK r, i, j : folding = [root |-> r, field |-> i, next |-> j] /\ r = Vids[f] /\ i = f /\ j = c
    BY <1>2
  <2> HIDE DEF f, c
  <2>2. [folding EXCEPT !.next = @ + 1] = [root |-> r, field |-> i, next |-> j + 1]
    BY <2>1
  <2> QED BY <1>1, <2>1, <2>2 DEF c
<1>4. c + 1 \in 1..Len(query[f].counts) + 1
  BY <1>2
<1>5. /\ x \notin CountsAmong(CountOutputs, ClosedUpto[n], f, c)
      /\ CountsAmong(CountOutputs, ClosedUpto[n], f, c + 1)
           = CountsAmong(CountOutputs, ClosedUpto[n], f, c) \cup {x}
  <2> DEFINE closed == ClosedUpto[n]
  <2>1. closed \in SUBSET Folds
    BY <1>2 DEF ClosedUpto
  <2>2. f \in closed /\ c \in 1..Len(query[f].counts)
    BY <1>2
  <2> HIDE DEF f, c, closed
  <2>3. /\ CountOutput(f, c) \notin CountsAmong(CountOutputs, closed, f, c)
        /\ CountsAmong(CountOutputs, closed, f, c + 1)
             = CountsAmong(CountOutputs, closed, f, c) \cup {CountOutput(f, c)}
    <3>1. \A g \in closed : \A d \in 1..Len(query[g].counts) :
            /\ CountOutput(g, d) \notin CountsAmong(CountOutputs, closed, g, d)
            /\ CountsAmong(CountOutputs, closed, g, d + 1)
                 = CountsAmong(CountOutputs, closed, g, d) \cup {CountOutput(g, d)}
      BY <2>1, CountsGrow
    <3> QED BY <2>2, <3>1
  <2> QED BY <2>3 DEF closed
<1>6. x \notin PropertiesUpto[n]
  <2>1. x \in CountOutputs
    BY <1>2, CountPlaces
  <2>2. x.ref.kind = "count" /\ \A o \in PropertyOutputs : o.ref.kind = "context"
    BY <2>1, OutputFacts
  <2>3. PropertiesUpto[n] \subseteq PropertyOutputs
    BY <1>2 DEF PropertiesUpto
  <2> QED BY <2>2, <2>3
<1>7. ListedIs(PropertiesUpto[n], CountsAmong(CountOutputs, ClosedUpto[n], f, c + 1),
               globalOutputs', componentOutputs', components')
  <2>1. PICK S : componentOutputs \in Seq(S)
    BY <1>2 DEF Shape
  <2>2. componentOutputs # << >>
    <3>1. Len(componentOutputs) > 0
      BY <1>2, ComponentFacts DEF ListedIs, Shape
    <3> QED BY <3>1
  <2> DEFINE C == CountsAmong(CountOutputs, ClosedUpto[n], f, c)
             P == PropertiesUpto[n]
  <2>3. /\ globalOutputs' = Append(globalOutputs, NameAndRef(x))
        /\ componentOutputs' = [componentOutputs EXCEPT ![Len(componentOutputs)] =
                                  Append(@, NameAndRef(x))]
    BY <1>1, <1>2 DEF RegisterOutput
  <2>4. ListedIs(P, C, globalOutputs, componentOutputs, components) /\ x \notin P \cup C
    BY <1>2, <1>5, <1>6
  <2> HIDE DEF x, C, P
  <2>5. ListedIs(P, C \cup {x}, Append(globalOutputs, NameAndRef(x)),
                 [componentOutputs EXCEPT ![Len(componentOutputs)] = Append(@, NameAndRef(x))],
                 components)
    BY <2>1, <2>2, <2>4, ListedCount
  <2> QED BY <1>1, <1>5, <2>3, <2>5 DEF P, C
<1> HIDE DEF f, c, n, x
<1>8. at' \in 1..Len(query) /\ at' - 1 = n
  BY <1>1, <1>2 DEF n
<1> QED BY <1>1, <1>2, <1>3, <1>4, <1>7, <1>8, ExactInCounts

\* A fold is made: the outputs of its count are its own.
LEMMA EndFoldExact ==
  ASSUME IInv, query \in Queries, Exact, EndFold,
         query[folding.field].error # "count",
         IsInjective([i \in DOMAIN query[folding.field].counts |-> CountName(query[folding.field], i)])
  PROVE  Exact' /\ components' = components
<1> DEFINE f == folding.field
           n == at - 1
           m == Len(query[f].counts)
           names == [i \in DOMAIN query[f].counts |-> CountName(query[f], i)]
<1>1. /\ phase = "counts" /\ folding.next \notin DOMAIN query[f].counts
      /\ phase' = "fill" /\ vidStack' = AllButLast(vidStack)
      /\ UNCHANGED <<query, at, nextVid, prefixes, componentOutputs, globalOutputs, folding>>
  BY DEF EndFold, EndNestedScope
<1>2. /\ components' = components
      /\ made' = made \cup {[kind |-> "fold", root |-> folding.root,
                             outputs |-> {[name |-> name, ref |-> [kind |-> "count", vid |-> folding.root]] :
                                            name \in ToSet(names)}]}
  BY DEF EndFold
<1>3. /\ f \in Folds /\ f \in Edges /\ f \in 1..n /\ f \in 1..Len(query) /\ f \in ClosedUpto[n]
      /\ n \in 0..Len(query) /\ at \in 1..Len(query) /\ Opened[f - 1] = Opened[n]
      /\ folding.root = VidAt(f) /\ f \in 0..Len(query)
      /\ folding.next \in 1..m + 1 /\ DOMAIN query[f].counts = 1..m /\ m \in Nat
      /\ ScopesAre(query, Vids, Opened[f], n, vidStack, prefixes, nextVid)
      /\ CleanIs(query, Opened[f], n)
      /\ NestedIs(query, Vids, Opened[n], components)
      /\ ListedIs(PropertiesUpto[n], CountsAmong(CountOutputs, ClosedUpto[n], f, folding.next),
                  globalOutputs, componentOutputs, components)
      /\ made = MadeOf(ComponentMade, FoldMade, ClosedUpto[n], f)
      /\ \A c \in 1..m : NameAndRef(CountOutput(f, c))
                           = [name |-> CountName(query[f], c), ref |-> [kind |-> "count", vid |-> folding.root]]
  BY <1>1, CountingFacts
<1>4. folding.next = m + 1
  <2> HIDE DEF m
  <2> QED BY <1>1, <1>3
<1>5. ClosedUpto[n] \in SUBSET Folds
  BY <1>3 DEF ClosedUpto
<1>6. CountsAmong(CountOutputs, ClosedUpto[n], f, folding.next) = CountsOf(CountOutputs, ClosedUpto[n])
  <2> DEFINE closed == ClosedUpto[n]
  <2>1. closed \in SUBSET Folds /\ f \in closed
    BY <1>3, <1>5
  <2> HIDE DEF f, closed
  <2>2. CountsAmong(CountOutputs, closed, f, Len(query[f].counts) + 1) = CountsOf(CountOutputs, closed)
    BY <2>1, CountsGrow
  <2> QED BY <1>4, <2>2 DEF closed
<1>7. query[f].kind = "edge" /\ Opened[f] = Append(Opened[n], f) /\ ToSet(Opened[f]) = ToSet(Opened[n]) \cup {f}
  <2>1. query[f].kind = "edge"
    BY <1>3, VidFacts
  <2> QED BY <1>3, <2>1, OpenedStep, OpenedSets
<1>8. ScopesAre(query, Vids, Opened[n], n, vidStack', prefixes', nextVid')
  <2>1. Opened[n] \in Seq(Nat) /\ Opened[f] \in Seq(Nat)
    BY <1>3, OpenFacts
  <2>2. Opened[f] # << >> /\ AllButLast(Opened[f]) = Opened[n]
    <3> DEFINE s == Opened[n]
    <3>1. s \in Seq(Nat) /\ f \in Nat
      BY <1>3, <2>1
    <3> HIDE DEF s, f, n
    <3>2. Len(Append(s, f)) = Len(s) + 1 /\ SubSeq(Append(s, f), 1, Len(s)) = s /\ Append(s, f) # << >>
      BY <3>1, AppendProperties
    <3>3. Len(s) \in Nat
      BY <3>1
    <3>4. AllButLast(Append(s, f)) = s
      BY <3>2, <3>3 DEF AllButLast
    <3> QED BY <1>7, <3>2, <3>4 DEF s
  <2>3. \A d \in DOMAIN Opened[f] : Vids[Opened[f][d]] \in Nat
    <3>1. \A d \in DOMAIN Opened[f] : Opened[f][d] \in Edges
      BY <1>3, OpenFacts
    <3>2. \A i \in Edges : i \in 1..Len(query)
      BY VidFacts
    <3>3. \A i \in 1..Len(query) : i \in 0..Len(query)
      BY QueryFacts
    <3> QED BY <3>1, <3>2, <3>3, VidFacts
  <2> HIDE DEF f, n
  <2>4. ScopesAre(query, Vids, AllButLast(Opened[f]), n, AllButLast(vidStack), prefixes, nextVid)
    BY <1>3, <2>1, <2>2, <2>3, ScopesPop
  <2> QED BY <1>1, <2>2, <2>4
<1>9. CleanIs(query, Opened[n], n)
  <2>1. \A i \in 1..n : query[i].kind = "edge" =>
          query[i].error = "none" \/ (query[i].error = "count" /\ query[i].fold /\ i \in ToSet(Opened[f]))
    BY <1>3 DEF CleanIs
  <2>2. \A i \in ToSet(Opened[f]) : query[i].error = "count" => i \in ToSet(Opened[n])
    BY <1>7
  <2> QED BY <2>1, <2>2 DEF CleanIs
<1>10. made' = MadeOf(ComponentMade, FoldMade, ClosedUpto[n], 0)
  <2> DEFINE record == [kind |-> "fold", root |-> folding.root,
                        outputs |-> {[name |-> name, ref |-> [kind |-> "count", vid |-> folding.root]] :
                                       name \in ToSet(names)}]
             own == {o \in CountOutputs : o.root = VidAt(f)}
  <2>1. \A o : o \in own <=> \E c \in 1..m : o = CountOutput(f, c)
    <3>1. \A o \in CountOutputs : /\ o.at[1] \in Edges /\ o = CountOutput(o.at[1], o.at[2])
                                  /\ o.at[1] \in 0..Len(query)
                                  /\ o.at[2] \in 1..Len(query[o.at[1]].counts)
      <4>1. \A o \in CountOutputs : o.at[1] \in Edges /\ o = CountOutput(o.at[1], o.at[2])
                                    /\ o.at[2] \in 1..Len(query[o.at[1]].counts)
        BY CountPlaces
      <4>2. \A i \in Edges : i \in 1..Len(query)
        BY VidFacts
      <4>3. \A i \in 1..Len(query) : i \in 0..Len(query)
        BY QueryFacts
      <4> QED BY <4>1, <4>2, <4>3
    <3>2. \A o \in CountOutputs : o.root = VidAt(o.at[1])
      BY <3>1, OutputFacts
    <3>3. \A o \in own : o.at[1] = f
      <4>1. ASSUME NEW o \in own PROVE o.at[1] = f
        <5>1. Vids[o.at[1]] = Vids[f]
          BY <1>3, <3>1, <3>2, VidFacts
        <5> QED BY <1>3, <3>1, <5>1, VidsDiffer
      <4> QED BY <4>1
    <3>4. \A c \in 1..m : CountOutput(f, c) \in own
      BY <1>3, CountPlaces, OutputFacts
    <3> QED BY <3>1, <3>3, <3>4
  <2>2. record.outputs = {NameAndRef(o) : o \in own}
    <3>1. ToSet(names) = {CountName(query[f], c) : c \in 1..m}
      BY <1>3 DEF ToSet
    <3> DEFINE Rec(name) == [name |-> name, ref |-> [kind |-> "count", vid |-> folding.root]]
    <3>2. record.outputs = {Rec(name) : name \in ToSet(names)}
      OBVIOUS
    <3>3. \A c \in 1..m : NameAndRef(CountOutput(f, c)) = Rec(CountName(query[f], c))
      BY <1>3
    <3> HIDE DEF names, record, own, Rec, m
    <3>4. {Rec(name) : name \in ToSet(names)} = {Rec(CountName(query[f], c)) : c \in 1..m}
      BY <3>1
    <3>5. {NameAndRef(o) : o \in own} = {NameAndRef(CountOutput(f, c)) : c \in 1..m}
      BY <2>1
    <3>6. {NameAndRef(CountOutput(f, c)) : c \in 1..m} = {Rec(CountName(query[f], c)) : c \in 1..m}
      BY <3>3
    <3> QED BY <3>2, <3>4, <3>5, <3>6
  <2>3. OutputsOf(CountOutputs, VidAt(f)) = {NameAndRef(o) : o \in own}
    BY DEF OutputsOf, NameAndRef
  <2>4. FoldMade[f] = [kind |-> "fold", root |-> VidAt(f), outputs |-> OutputsOf(CountOutputs, VidAt(f))]
    BY <1>3 DEF FoldMade
  <2>5. record = FoldMade[f]
    BY <1>3, <2>2, <2>3, <2>4
  <2>6. made' = made \cup {FoldMade[f]}
    BY <1>2, <2>5
  <2>7. 0 \notin ClosedUpto[n]
    <3>1. \A i \in Folds : i # 0
      BY VidFacts DEF Folds
    <3> QED BY <1>5, <3>1
  <2>8. (ClosedUpto[n] \ {f}) \cup {f} = ClosedUpto[n] \ {0}
    BY <1>3, <2>7
  <2>9. {FoldMade[i] : i \in (ClosedUpto[n] \ {f}) \cup {f}}
          = {FoldMade[i] : i \in ClosedUpto[n] \ {f}} \cup {FoldMade[f]}
    OBVIOUS
  <2> HIDE DEF record, own
  <2> QED BY <1>3, <2>6, <2>8, <2>9 DEF MadeOf
<1>11. ListedIs(PropertiesUpto[n], CountsOf(CountOutputs, ClosedUpto[n]), globalOutputs',
                componentOutputs', components')
  BY <1>1, <1>2, <1>3, <1>6
<1> HIDE DEF names, m, f, n
<1>12. at' \in 1..Len(query) /\ at' - 1 = n
  BY <1>1, <1>3 DEF n
<1>13. NestedIs(query, Vids, Opened[n], components')
  BY <1>2, <1>3
<1>14. Exact'
  BY <1>1, <1>3, <1>8, <1>9, <1>10, <1>11, <1>12, <1>13, ExactBeforeField
<1> QED BY <1>2, <1>14

-----------------------------------------------------------------------------
(* An error is marked if the query has one, and only then.                 *)

\* Which components have an error, when a component is added, taken or replaced.
LEMMA FailedAfter ==
  ASSUME NEW cs \in Seq(ComponentRecord), cs # << >>, NEW c \in ComponentRecord
  PROVE  /\ SomeFailed(Append(cs, c)) <=> SomeFailed(cs) \/ c.failed
         /\ SomeFailed(AllButLast(cs)) => SomeFailed(cs)
         /\ SomeFailed([cs EXCEPT ![Len(cs)] = c]) => SomeFailed(cs) \/ c.failed
<1> DEFINE n == Len(cs)
<1>1. n \in Nat /\ n > 0 /\ DOMAIN cs = 1..n /\ n \in 1..n
  BY SeqFacts
<1>2. SomeFailed(Append(cs, c)) <=> SomeFailed(cs) \/ c.failed
  <2> DEFINE ds == Append(cs, c)
  <2>1. ds \in Seq(ComponentRecord) /\ Len(ds) = n + 1 /\ ds[n + 1] = c /\ \A k \in 1..n : ds[k] = cs[k]
    BY AppendProperties
  <2>2. DOMAIN ds = 1..n + 1
    BY <2>1, SeqFacts
  <2>3. n + 1 \in 1..n + 1 /\ (\A k \in 1..n : k \in 1..n + 1) /\ \A k \in 1..n + 1 : k = n + 1 \/ k \in 1..n
    BY <1>1
  <2> HIDE DEF ds
  <2>4. SomeFailed(ds) <=> \E k \in 1..n + 1 : ds[k].failed
    BY <2>2 DEF SomeFailed
  <2>5. SomeFailed(cs) <=> \E k \in 1..n : cs[k].failed
    BY <1>1 DEF SomeFailed
  <2> QED BY <2>1, <2>3, <2>4, <2>5 DEF ds
<1>3. SomeFailed(AllButLast(cs)) => SomeFailed(cs)
  BY AllButLastFacts DEF SomeFailed
<1>4. SomeFailed([cs EXCEPT ![n] = c]) => SomeFailed(cs) \/ c.failed
  <2> DEFINE ds == [cs EXCEPT ![n] = c]
  <2>1. ds \in Seq(ComponentRecord) /\ Len(ds) = n /\ \A k \in 1..n : ds[k] = IF k = n THEN c ELSE cs[k]
    BY <1>1, ExceptSeq
  <2>2. DOMAIN ds = 1..n
    BY <2>1, SeqFacts
  <2> HIDE DEF ds
  <2> QED BY <1>1, <2>1, <2>2 DEF SomeFailed, ds
<1> QED BY <1>2, <1>3, <1>4

\* An edge marks its own error.
LEMMA VisitEdgeFails ==
  ASSUME Shape, VisitEdge
  PROVE  SomeFailed(components') <=> SomeFailed(components) \/ query[at].error # "none"
<1> DEFINE c == [Component EXCEPT !.vertices = @ \cup {nextVid},
                                  !.failed = @ \/ query[at].error # "none"]
<1>1. /\ components \in Seq(ComponentRecord) /\ components # << >>
      /\ Component \in ComponentRecord /\ Component = components[Len(components)]
      /\ Len(components) \in DOMAIN components
  BY SeqFacts DEF Shape, Component, Last
<1>2. nextVid \in Vid
  BY DEF Shape
<1>3. c \in ComponentRecord /\ c.root = Component.root
      /\ c.failed = (Component.failed \/ query[at].error # "none")
  BY <1>1, <1>2 DEF ComponentRecord
<1>4. components' = [components EXCEPT ![Len(components)] = c]
  BY DEF VisitEdge
<1>5. Component.failed => SomeFailed(components)
  BY <1>1 DEF SomeFailed
<1> HIDE DEF c
<1>6. SomeFailed(components') => SomeFailed(components) \/ c.failed
  BY <1>1, <1>3, <1>4, FailedAfter
<1>7. Marked(components') /\ (c.failed => SomeFailed(components'))
  BY <1>3, <1>4, ReplaceLast
<1> QED BY <1>3, <1>5, <1>6, <1>7 DEF Marked

\* So does a fold, in its component or in the one around.
LEMMA BeginFoldFails ==
  ASSUME Shape, BeginFold
  PROVE  SomeFailed(components') <=>
           SomeFailed(components) \/ query[at].error \in {"inside", "outside"}
<1> DEFINE c == [Begun(nextVid) EXCEPT !.failed = query[at].error = "inside"]
           cs == IF query[at].error = "outside" THEN Failing ELSE components
<1>1. components' = Append(cs, c)
  BY DEF BeginFold
<1>2. c \in ComponentRecord /\ c.failed = (query[at].error = "inside")
  BY DEF Begun, ComponentRecord, Shape
<1>3. cs \in Seq(ComponentRecord) /\ cs # << >>
  BY FailingMarks, MarkedAsIs DEF Marked
<1>4. SomeFailed(cs) <=> SomeFailed(components) \/ query[at].error = "outside"
  BY FailingMarks
<1> HIDE DEF c, cs
<1>5. SomeFailed(components') <=> SomeFailed(cs) \/ c.failed
  BY <1>1, <1>2, <1>3, FailedAfter
<1> QED BY <1>2, <1>4, <1>5

\* A list of outputs of a valid query has every name once.
LEMMA ValidListsOnce ==
  ASSUME Valid, NEW S, S \subseteq PropertyOutputs \cup CountOutputs, NEW seq, Lists(seq, S)
  PROVE  Duplicates(seq) = {}
<1>1. \A o, p \in S : o.name = p.name => o = p
  BY ValidIs
<1> QED BY <1>1, ListsFacts

\* The outcome while fields and counts are gone through.
LEMMA OutcomeOnTheWay ==
  ASSUME query' = query, phase' \in {"fill", "counts"},
         SomeFailed(components') => ~ Valid, ~ SomeFailed(components') => Exact'
  PROVE  Outcome'
<1>1. Valid' <=> Valid
  BY SameQuery
<1> QED BY <1>1 DEF Outcome, SomeFailed

\* The outcome after an error.
LEMMA OutcomeOfError ==
  ASSUME query' = query, ~ Valid, phase' \in {"fill", "counts", "rejected", "lookup failed"},
         phase' \in {"fill", "counts"} => SomeFailed(components')
  PROVE  Outcome'
<1>1. Valid' <=> Valid
  BY SameQuery
<1> QED BY <1>1 DEF Outcome, SomeFailed

\* What an edge and a fold lead to.
LEMMA EdgeOutcome ==
  ASSUME IInv, query \in Queries, Outcome, VisitEdge \/ BeginFold \/ SkipFold
  PROVE  Outcome'
<1>1. /\ phase = "fill" /\ phase' = "fill" /\ query' = query /\ at \in DOMAIN query
      /\ query[at].kind = "edge" /\ Shape
  BY DEF VisitEdge, BeginFold, SkipFold, Field, IInv
<1>2. query[at].error \in {"none", "inside", "parameters", "outside", "count"}
  <2>1. query[at] \in Item
    BY <1>1, QueryFacts, ElementOfSeq
  <2> QED BY <1>1, <2>1 DEF Item
<1>3. query[at].error # "none" => ~ Valid
  BY <1>1 DEF Valid, Edges
<1>4. SomeFailed(components) => ~ Valid
  BY <1>1 DEF Outcome
<1>5. ~ SomeFailed(components) => Exact
  BY <1>1 DEF Outcome
<1>6. CASE VisitEdge
  <2>1. SomeFailed(components') <=> SomeFailed(components) \/ query[at].error # "none"
    BY <1>1, <1>6, VisitEdgeFails
  <2>2. SomeFailed(components') => ~ Valid
    BY <1>3, <1>4, <2>1
  <2>3. ~ SomeFailed(components') => Exact'
    BY <1>5, <1>6, <2>1, VisitEdgeExact
  <2> QED BY <1>1, <2>2, <2>3, OutcomeOnTheWay
<1>7. CASE BeginFold
  <2>1. SomeFailed(components') <=>
          SomeFailed(components) \/ query[at].error \in {"inside", "outside"}
    BY <1>1, <1>7, BeginFoldFails
  <2>2. SomeFailed(components') => ~ Valid
    BY <1>3, <1>4, <2>1
  <2>3. query[at].error # "parameters"
    BY <1>7 DEF BeginFold
  <2>4. ~ SomeFailed(components') => Exact'
    BY <1>2, <1>5, <1>7, <2>1, <2>3, BeginFoldExact
  <2> QED BY <1>1, <2>2, <2>4, OutcomeOnTheWay
<1>8. CASE SkipFold
  <2>1. components' = Failing /\ query[at].error = "parameters"
    BY <1>8 DEF SkipFold
  <2>2. SomeFailed(components') /\ ~ Valid
    BY <1>1, <1>3, <2>1, FailingMarks
  <2> QED BY <1>1, <2>2, OutcomeOfError
<1> QED BY <1>6, <1>7, <1>8

\* What an output and the end of an edge lead to.
LEMMA FieldOutcome ==
  ASSUME IInv, query \in Queries, Outcome, OutputProperty \/ CloseVertex \/ OutputCount
  PROVE  Outcome'
<1>1. /\ phase \in {"fill", "counts"} /\ phase' = phase /\ query' = query
      /\ components' = components
  BY DEF OutputProperty, CloseVertex, OutputCount, Field
<1>2. SomeFailed(components') => ~ Valid
  BY <1>1 DEF Outcome
<1>3. ~ SomeFailed(components') => Exact
  BY <1>1 DEF Outcome
<1>4. ~ SomeFailed(components') => Exact'
  BY <1>3, OutputPropertyExact, CloseVertexExact, OutputCountExact
<1> QED BY <1>1, <1>2, <1>4, OutcomeOnTheWay

\* What the end of a component leads to.
LEMMA ComponentOutcome ==
  ASSUME IInv, query \in Queries, Outcome, AbandonComponent \/ RejectDuplicates \/ EndComponent
  PROVE  Outcome'
<1>1. /\ phase = "fill" /\ query' = query /\ Shape /\ Field("close")
  BY DEF AbandonComponent, RejectDuplicates, EndComponent, Filled, Field, IInv
<1>2. SomeFailed(components) => ~ Valid
  BY <1>1 DEF Outcome
<1>3. ~ SomeFailed(components) => Exact
  BY <1>1 DEF Outcome
<1>4. /\ components \in Seq(ComponentRecord) /\ components # << >>
      /\ DOMAIN components = 1..Len(components) /\ Len(components) \in DOMAIN components
      /\ Component = components[Len(components)] /\ Component \in ComponentRecord
  BY <1>1, SeqFacts DEF Shape, Component, Last
<1>5. Component.failed => SomeFailed(components)
  BY <1>4 DEF SomeFailed
<1>6. CASE AbandonComponent
  <2>1. ReturnErrors /\ ~ Valid
    BY <1>2, <1>5, <1>6 DEF AbandonComponent
  <2>2. phase' = "rejected" \/ (phase' = "fill" /\ SomeFailed(components'))
    BY <1>1, <2>1, ReturnErrorsMarks
  <2> QED BY <1>1, <2>1, <2>2, OutcomeOfError
<1>7. CASE RejectDuplicates
  <2>1. ~ Valid
    <3>1. SUFFICES ASSUME Exact PROVE ~ Valid
      BY <1>2, <1>3
    <3> DEFINE n == at - 1
               L == Len(components)
    <3>2. /\ n \in 0..Len(query)
          /\ ListedIs(PropertiesUpto[n], CountsSoFar, globalOutputs, componentOutputs, components)
      BY <1>1, <3>1, FieldFacts
    <3>3. Last(componentOutputs) = componentOutputs[L] /\ L \in 1..L
      BY <1>4, <3>2 DEF ListedIs, Last
    <3>4. PICK T \in SUBSET CountsSoFar :
            Lists(Last(componentOutputs), {o \in PropertiesUpto[n] : o.root = components[L].root} \cup T)
      BY <3>2, <3>3 DEF ListedIs, ListsComponent
    <3>5. PropertiesUpto[n] \subseteq PropertyOutputs /\ CountsSoFar \subseteq CountOutputs
      BY <3>2 DEF PropertiesUpto, CountsSoFar, CountsAmong
    <3>6. {o \in PropertiesUpto[n] : o.root = components[L].root} \cup T
            \subseteq PropertyOutputs \cup CountOutputs
      BY <3>4, <3>5
    <3>7. Duplicates(Last(componentOutputs)) # {}
      BY <1>7 DEF RejectDuplicates
    <3> QED BY <3>4, <3>6, <3>7, ValidListsOnce
  <2>2. ReturnErrors \/ phase' = "lookup failed"
    BY <1>7 DEF RejectDuplicates
  <2>3. phase' \in {"rejected", "lookup failed"} \/ (phase' = "fill" /\ SomeFailed(components'))
    BY <1>1, <2>2, ReturnErrorsMarks
  <2> QED BY <1>1, <2>1, <2>3, OutcomeOfError
<1>8. CASE EndComponent
  <2>1. /\ ~ Component.failed
        /\ \/ Len(components) = 1 /\ phase' = "finish" /\ components' = components
           \/ Len(components) # 1 /\ phase' = "counts" /\ components' = AllButLast(components)
    BY <1>8 DEF EndComponent
  <2>2. CASE SomeFailed(components)
    <3>1. Len(components) # 1
      <4>1. PICK i \in DOMAIN components : components[i].failed
        BY <2>2 DEF SomeFailed
      <4>2. Len(components) = 1 => i = Len(components)
        BY <1>4, <4>1
      <4> QED BY <1>4, <2>1, <4>1, <4>2
    <3>2. SomeFailed(components')
      BY <1>1, <2>1, <2>2, <3>1, DropLast
    <3> QED BY <1>1, <1>2, <2>1, <2>2, <3>1, <3>2, OutcomeOfError
  <2>3. CASE ~ SomeFailed(components)
    <3>1. Exact'
      BY <1>3, <1>8, <2>3, EndRootExact, EndFoldComponentExact
    <3>2. ~ SomeFailed(components')
      BY <1>4, <2>1, <2>3, FailedAfter
    <3>3. CASE phase' = "finish"
      BY <3>1, <3>3 DEF Outcome
    <3>4. CASE phase' = "counts"
      BY <1>1, <3>1, <3>2, <3>4, OutcomeOnTheWay
    <3> QED BY <2>1, <3>3, <3>4
  <2> QED BY <2>2, <2>3
<1> QED BY <1>6, <1>7, <1>8

\* What the end of a fold leads to.
LEMMA FoldOutcome ==
  ASSUME IInv, query \in Queries, Outcome, EndFold
  PROVE  Outcome'
<1> DEFINE edge == query[folding.field]
           names == [i \in DOMAIN edge.counts |-> CountName(edge, i)]
           Bad == edge.error = "count" \/ ~ IsInjective(names)
<1>1. /\ phase = "counts" /\ phase' = "fill" /\ query' = query /\ Shape
      /\ Bad => components' = Failing
      /\ ~ Bad => components' = components
  BY DEF EndFold, IInv
<1>2. SomeFailed(components) => ~ Valid
  BY <1>1 DEF Outcome
<1>3. ~ SomeFailed(components) => Exact
  BY <1>1 DEF Outcome
<1>4. CASE Bad
  <2>1. SomeFailed(components')
    BY <1>1, <1>4, FailingMarks
  <2>2. ~ Valid
    <3>1. SUFFICES ASSUME Exact PROVE ~ Valid
      BY <1>2, <1>3
    <3> DEFINE f == folding.field
               m == Len(query[f].counts)
    <3>2. /\ f \in Folds /\ f \in Edges /\ DOMAIN query[f].counts = 1..m
          /\ \A c \in 1..m : CountOutput(f, c).name = CountName(query[f], c)
      BY <1>1, <3>1, CountingFacts
    <3>3. CASE edge.error = "count"
      BY <3>2, <3>3 DEF Valid
    <3>4. CASE ~ IsInjective(names)
      <4>1. PICK a \in 1..m, b \in 1..m : a # b /\ CountName(edge, a) = CountName(edge, b)
        BY <3>2, <3>4 DEF IsInjective
      <4>2. /\ CountOutput(f, a) \in CountOutputs /\ CountOutput(f, a).at[2] = a
            /\ CountOutput(f, b) \in CountOutputs /\ CountOutput(f, b).at[2] = b
        BY <3>2, CountPlaces
      <4>3. CountOutput(f, a).name = CountOutput(f, b).name
        BY <3>2, <4>1
      <4>4. CountOutput(f, a) # CountOutput(f, b)
        BY <4>1, <4>2
      <4> QED BY <4>2, <4>3, <4>4, ValidIs
    <3> QED BY <1>4, <3>3, <3>4
  <2> QED BY <1>1, <2>1, <2>2, OutcomeOfError
<1>5. CASE ~ Bad
  <2>1. components' = components
    BY <1>1, <1>5
  <2>2. ~ SomeFailed(components) => Exact'
    BY <1>3, <1>5, EndFoldExact
  <2> QED BY <1>1, <1>2, <2>1, <2>2, OutcomeOnTheWay
<1> QED BY <1>4, <1>5

\* What the end of the query leads to.
LEMMA FinishOutcome ==
  ASSUME IInv, query \in Queries, Outcome, Finish
  PROVE  Outcome'
<1>1. /\ phase = "finish"
      /\ UNCHANGED <<query, at, nextVid, components, vidStack, prefixes, componentOutputs,
                     globalOutputs, folding, made>>
      /\ \/ phase' = "assertion failed"
         \/ phase' = "rejected" /\ Duplicates(globalOutputs) # {}
         \/ phase' = "accepted" /\ Duplicates(globalOutputs) = {}
  BY DEF Finish
<1>2. Exact
  BY <1>1 DEF Outcome
<1>3. Lists(globalOutputs, PropertyOutputs \cup CountOutputs)
  BY <1>1, <1>2 DEF Exact, Listed
<1>4. Valid' <=> Valid
  BY <1>1, SameQuery
<1>5. CASE phase' = "rejected" /\ Duplicates(globalOutputs) # {}
  <2>1. ~ Valid
    BY <1>3, <1>5, ValidListsOnce
  <2> QED BY <1>4, <1>5, <2>1 DEF Outcome
<1>6. CASE phase' = "accepted" /\ Duplicates(globalOutputs) = {}
  <2>1. at - 1 = Len(query) /\ OpenAt = at - 1
    BY <1>1, <1>2 DEF Exact, Position, OpenAt
  <2>2. \A i \in Edges : query[i].error = "none"
    <3>1. CleanIs(query, Opened[Len(query)], Len(query))
      BY <1>2, <2>1 DEF Exact, Clean
    <3>2. ToSet(Opened[Len(query)]) = {}
      BY OpenDepth DEF ToSet
    <3>3. \A i \in Edges : i \in 1..Len(query) /\ query[i].kind = "edge"
      BY VidFacts
    <3> QED BY <3>1, <3>2, <3>3 DEF CleanIs
  <2>3. \A o, p \in PropertyOutputs \cup CountOutputs : o.name = p.name => o = p
    BY <1>3, <1>6, ListsFacts
  <2>4. Valid
    BY <2>2, <2>3, ValidIs
  <2>5. Made'
    <3>1. Made
      BY <1>2 DEF Exact
    <3>2. ComponentMade' = ComponentMade /\ FoldMade' = FoldMade /\ ClosedUpto' = ClosedUpto
      BY <1>1, SameQuery
    <3>3. PendingFold' = PendingFold
      BY <1>1, <1>6 DEF PendingFold
    <3> QED BY <1>1, <1>6, <3>1, <3>2, <3>3 DEF Made
  <2>6. (at - 1 = Len(query))'
    BY <1>1, <2>1
  <2> QED BY <1>4, <1>6, <2>4, <2>5, <2>6 DEF Outcome
<1>7. CASE phase' = "assertion failed"
  BY <1>7 DEF Outcome
<1> QED BY <1>1, <1>5, <1>6, <1>7

\* Nothing comes of nothing.
LEMMA StutterOutcome ==
  ASSUME Outcome, UNCHANGED vars
  PROVE  Outcome'
<1>1. /\ UNCHANGED <<query, at, nextVid, components, vidStack, prefixes, componentOutputs,
                     globalOutputs, phase, folding, made>>
  BY DEF vars
<1>2. /\ Opened' = Opened /\ Vids' = Vids /\ PropertyOutputs' = PropertyOutputs
      /\ CountOutputs' = CountOutputs /\ ClosedUpto' = ClosedUpto /\ PropertiesUpto' = PropertiesUpto
      /\ ComponentMade' = ComponentMade /\ FoldMade' = FoldMade /\ Valid' = Valid
  <2>1. Valid' = Valid
    BY <1>1 DEF Valid, PropertyOutputs, CountOutputs, Edges, Folds, RootAt, VertexAt, PrefixAt,
                VidAt, Opened
  <2> QED BY <1>1, <2>1, SameQuery
<1>3. OpenAt' = OpenAt /\ PendingFold' = PendingFold
  BY <1>1 DEF OpenAt, PendingFold
<1>4. Position' <=> Position
  BY <1>1, <1>2 DEF Position
<1>5. Scopes' <=> Scopes
  BY <1>1, <1>2, <1>3 DEF Scopes
<1>6. Clean' <=> Clean
  BY <1>1, <1>2, <1>3 DEF Clean
<1>7. Nested' <=> Nested
  BY <1>1, <1>2 DEF Nested
<1>8. CountsSoFar' = CountsSoFar
  BY <1>1, <1>2, <1>3 DEF CountsSoFar
<1>9. Listed' <=> Listed
  BY <1>1, <1>2, <1>8 DEF Listed
<1>10. Made' <=> Made
  BY <1>1, <1>2, <1>3 DEF Made
<1>11. Exact' <=> Exact
  BY <1>4, <1>5, <1>6, <1>7, <1>9, <1>10 DEF Exact
<1> QED BY <1>1, <1>2, <1>10, <1>11 DEF Outcome, SomeFailed

\* Before the first field everything is in its place.
LEMMA InitOutcome ==
  ASSUME Init
  PROVE  query \in Queries /\ Outcome
<1>1. /\ query \in Queries /\ at = 1 /\ nextVid = RootVid + 1 /\ components = <<Begun(RootVid)>>
      /\ vidStack = << >> /\ prefixes = << >> /\ componentOutputs = << << >> >>
      /\ globalOutputs = << >> /\ phase = "fill" /\ made = {}
  BY DEF Init
<1>2. /\ Len(query) \in Nat /\ Len(query) > 0 /\ at - 1 = 0 /\ 0 \in 0..Len(query) /\ 1 \in 1..Len(query)
  BY <1>1, QueryFacts
<1>3. OpenAt = 0 /\ PendingFold = 0
  BY <1>1, <1>2 DEF OpenAt, PendingFold
<1>4. Opened[0] = << >> /\ ToSet(<< >>) = {} /\ DOMAIN << >> = {} /\ 1..0 = {} /\ 2..1 = {}
  BY <1>1, OpenedStep DEF ToSet
<1>5. Vids[0] = RootVid /\ PropertiesUpto[0] = {} /\ ClosedUpto[0] = {}
  BY <1>1, VidFacts, InTheEnd
<1>6. Position
  BY <1>1, <1>2 DEF Position
<1>7. Scopes
  <2>1. vidStack = [d \in DOMAIN Opened[0] |-> Vids[Opened[0][d]]]
    BY <1>1, <1>4
  <2>2. DOMAIN prefixes = {}
    BY <1>1, <1>4
  <2>3. ScopesAre(query, Vids, Opened[0], 0, vidStack, prefixes, nextVid)
    BY <1>1, <1>4, <1>5, <2>1, <2>2 DEF ScopesAre
  <2> QED BY <1>2, <1>3, <2>3 DEF Scopes
<1>8. Clean
  BY <1>2, <1>3, <1>4 DEF Clean, CleanIs
<1>9. /\ Len(components) = 1 /\ Len(componentOutputs) = 1 /\ componentOutputs[1] = << >>
      /\ components[1].root = RootVid /\ components[1].failed = FALSE /\ DOMAIN components = {1}
  BY <1>1 DEF Begun
<1>10. Nested
  <2>1. {components[k].root : k \in 2..1} = {}
    BY <1>4
  <2>2. {Vids[i] : i \in {j \in ToSet(Opened[0]) : query[j].fold}} = {}
    BY <1>4
  <2>3. \A k, l \in 1..1 : ~ (k < l)
    OBVIOUS
  <2> QED BY <1>2, <1>9, <2>1, <2>2, <2>3 DEF Nested, NestedIs
<1>11. Listed
  <2>1. CountsSoFar = {}
    BY <1>2, <1>5 DEF CountsSoFar, CountsAmong
  <2>2. Lists(globalOutputs, {} \cup {})
    BY <1>1, ListsNone
  <2>3. ListsComponent(componentOutputs[1], components[1].root, {}, {})
    <3>1. {o \in {} : o.root = components[1].root} \cup {} = {} /\ {} \in SUBSET {}
      OBVIOUS
    <3> QED BY <1>9, <3>1, ListsNone DEF ListsComponent
  <2>4. \A k \in 1..1 : k = 1
    OBVIOUS
  <2>5. ListedIs({}, {}, globalOutputs, componentOutputs, components)
    BY <1>9, <2>2, <2>3, <2>4 DEF ListedIs
  <2> QED BY <1>1, <1>2, <1>5, <2>1, <2>5 DEF Listed
<1>12. Made
  BY <1>1, <1>2, <1>3, <1>5 DEF Made, MadeOf
<1>13. ~ SomeFailed(components)
  BY <1>9 DEF SomeFailed
<1>14. Exact
  BY <1>6, <1>7, <1>8, <1>10, <1>11, <1>12 DEF Exact
<1> QED BY <1>1, <1>13, <1>14 DEF Outcome

\* Every action keeps the outcome.
LEMMA NextOutcome == OutcomeInv /\ [Next]_vars => OutcomeInv'
<1> SUFFICES ASSUME OutcomeInv, [Next]_vars PROVE OutcomeInv'
  OBVIOUS
<1>1. IInv /\ query \in Queries /\ Outcome
  BY DEF OutcomeInv
<1>2. IInv'
  BY <1>1, NextInv
<1>3. query' = query
  BY DEF Next, VisitEdge, BeginFold, SkipFold, OutputProperty, CloseVertex, AbandonComponent,
         RejectDuplicates, EndComponent, OutputCount, EndFold, Finish, Done, vars
<1>4. Outcome'
  <2>1. CASE VisitEdge \/ BeginFold \/ SkipFold
    BY <1>1, <2>1, EdgeOutcome
  <2>2. CASE OutputProperty \/ CloseVertex \/ OutputCount
    BY <1>1, <2>2, FieldOutcome
  <2>3. CASE AbandonComponent \/ RejectDuplicates \/ EndComponent
    BY <1>1, <2>3, ComponentOutcome
  <2>4. CASE EndFold
    BY <1>1, <2>4, FoldOutcome
  <2>5. CASE Finish
    BY <1>1, <2>5, FinishOutcome
  <2>6. CASE UNCHANGED vars
    BY <1>1, <2>6, StutterOutcome
  <2>7. Done => UNCHANGED vars
    BY DEF Done
  <2> QED BY <2>1, <2>2, <2>3, <2>4, <2>5, <2>6, <2>7 DEF Next
<1> QED BY <1>1, <1>2, <1>3, <1>4 DEF OutcomeInv

LEMMA OutcomeHolds == Spec => []OutcomeInv
<1>1. Init => OutcomeInv
  BY InitInv, InitOutcome DEF OutcomeInv
<1> QED BY <1>1, NextOutcome, PTL DEF Spec

\* make_ir_for_query and make_query_component: a query is accepted only if it has no
\* error and all of its outputs have names of their own, and rejected only if not,
\* however deep its folds and whatever is left on the handler's stack by the
\* components with errors.
THEOREM AcceptsTheValidHolds == Spec => []AcceptsTheValid
<1>1. OutcomeInv => AcceptsTheValid
  BY DEF OutcomeInv, Outcome, AcceptsTheValid
<1> QED BY <1>1, OutcomeHolds, PTL

\* OutputHandler::end_subcomponent and make_fold: the components and the folds of an
\* accepted query have the outputs of their own vertices and counts, all of them and
\* no others, under the names of their scopes.
THEOREM OutputsWithTheirComponentHolds == Spec => []OutputsWithTheirComponent
<1>1. OutcomeInv => OutputsWithTheirComponent
  <2> SUFFICES ASSUME OutcomeInv, phase = "accepted"
               PROVE  made = {[kind |-> "component", root |-> r, outputs |-> OutputsOf(PropertyOutputs, r)] :
                                r \in {RootVid} \cup {VidAt(i) : i \in Folds}}
                             \cup {[kind |-> "fold", root |-> VidAt(i),
                                    outputs |-> OutputsOf(CountOutputs, VidAt(i))] : i \in Folds}
    BY DEF OutputsWithTheirComponent
  <2> DEFINE Part(r) == [kind |-> "component", root |-> r, outputs |-> OutputsOf(PropertyOutputs, r)]
             Fold(r) == [kind |-> "fold", root |-> r, outputs |-> OutputsOf(CountOutputs, r)]
  <2>1. query \in Queries /\ Made /\ at - 1 = Len(query)
    BY DEF OutcomeInv, Outcome
  <2>2. \A i \in Folds : i \in 0..Len(query) /\ i # 0
    <3>1. \A i \in Folds : i \in 1..Len(query)
      BY <2>1, VidFacts DEF Folds
    <3> QED BY <2>1, <3>1, QueryFacts
  <2>3. 0 \in 0..Len(query) /\ VidAt(0) = RootVid
    <3>1. 0 \in 0..Len(query)
      BY <2>1, QueryFacts
    <3> QED BY <2>1, <3>1, VidFacts
  <2>4. /\ \A i \in Folds : ComponentMade[i] = Part(VidAt(i)) /\ FoldMade[i] = Fold(VidAt(i))
        /\ ComponentMade[0] = Part(RootVid)
    BY <2>2, <2>3 DEF ComponentMade, FoldMade
  <2>5. made = ({ComponentMade[i] : i \in Folds} \cup {FoldMade[i] : i \in Folds \ {0}})
                 \cup {ComponentMade[0]}
    <3>1. ClosedUpto[at - 1] = Folds /\ PendingFold = 0
      BY <2>1, InTheEnd DEF PendingFold
    <3> QED BY <2>1, <3>1 DEF Made, MadeOf
  <2>6. Folds \ {0} = Folds
    BY <2>2
  <2> HIDE DEF Part, Fold
  <2>7. {ComponentMade[i] : i \in Folds} = {Part(VidAt(i)) : i \in Folds}
    BY <2>4
  <2>8. {FoldMade[i] : i \in Folds} = {Fold(VidAt(i)) : i \in Folds}
    BY <2>4
  <2>9. {Part(r) : r \in {RootVid} \cup {VidAt(i) : i \in Folds}}
          = {Part(RootVid)} \cup {Part(VidAt(i)) : i \in Folds}
    OBVIOUS
  <2>10. made = {Part(r) : r \in {RootVid} \cup {VidAt(i) : i \in Folds}}
                  \cup {Fold(VidAt(i)) : i \in Folds}
    BY <2>4, <2>5, <2>6, <2>7, <2>8, <2>9
  <2> QED BY <2>10 DEF Part, Fold
<1> QED BY <1>1, OutcomeHolds, PTL
=============================================================================
