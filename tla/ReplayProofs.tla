---------------------------- MODULE ReplayProofs ----------------------------
(***************************************************************************)
(* What TapAdapter recorded can be replayed: every complete trace, of      *)
(* every query, whatever the adapters batched (CompleteReplaysHolds), and  *)
(* to its last operation (ReadsAllHolds).                                  *)
(*                                                                         *)
(* The state of a replay alone does not say why the reader that has the    *)
(* turn finds its operation next in the trace: that is so because the      *)
(* execution had the same turn when it recorded it.  So the trace is       *)
(* explained by a history: what the chain of iterators was before and      *)
(* after each step (Snapshot), each step relating two snapshots and the    *)
(* operations recorded between them (Follows, IsHistory).  What is left in *)
(* an iterator over neighbors is no part of a snapshot: it is what the     *)
(* trace still has of it (Unread).  A replay is at one of the snapshots    *)
(* (At), the input that the reader of the trace has pulled being read or   *)
(* not, and the next operation of the trace is the one of the step that    *)
(* follows.                                                                *)
(*                                                                         *)
(* The proof has three parts.  A step that is recorded makes the history   *)
(* longer by a snapshot (RecordStepKeeps).  What the trace has of an       *)
(* iterator is what the iterator had when it was recorded (UnreadNext,     *)
(* UnreadEnds, UnreadFirst).  A replay that is at a snapshot can make no   *)
(* step but the one that leads to the next (NextReplays), so it panics     *)
(* only past the end of a recording that was not complete.                 *)
(***************************************************************************)
EXTENDS Replay, ExecutionProofs

-----------------------------------------------------------------------------
(* Snapshots and what relates them.                                        *)

OpAt(S, i, op) == i \in DOMAIN S /\ S[i].op = op
AdapterAt(S, i) == \E op \in {"check", "neighbors", "recurse", "coerce"} : OpAt(S, i, op)
CallersOf(S) == {0} \cup {i \in DOMAIN S : AdapterAt(S, i)}
CallAt(S, i) == Cardinality({j \in CallersOf(S) : j <= i})

\* The flags of an iterator.
Yes == TRUE
No == FALSE

\* An iterator whose neighbors are the sequence s.
Filled(x, s) ==
  IF x.op = "edge"
  THEN EdgeIt(x.ctx, s, x.hasNeighbors, x.ended)
  ELSE IF x.op = "recursive" THEN RecursiveIt(x.ctx, x.base, s)
  ELSE x

Expanding(x) == x.op \in {"edge", "recursive"}
Asking(x) == \/ x.op = "edge" /\ ~ x.ended
             \/ x.op = "recursive" /\ (x.ctx # None \/ x.base # None)

Snapshot ==
  [turn |-> turn, queue |-> queue, ended |-> ended,
   inner |-> [j \in 1..Consumer |-> Filled(inner[j], << >>)],
   outer |-> neighbors, read |-> Len(trace)]

\* What the stage that has the turn was given.
Silent(S, t) == IF t.turn = Len(S) + 1 THEN t.ended[t.turn] ELSE ~ AdapterAt(S, t.turn)
Given(S, t) ==
  IF t.turn = Len(S) + 1 THEN Op(None, "result", Last(t.queue[t.turn]).vertices)
  ELSE IF t.ended[t.turn] THEN Op(CallAt(S, t.turn), "inputExhausted", None)
  ELSE Op(CallAt(S, t.turn), "yieldInto", Last(t.queue[t.turn]))

\* After b operations, what was given has been recorded, and no more.
Told(S, tr, t, b) ==
  IF Silent(S, t) THEN t.read = b ELSE t.read = b + 1 /\ b < Len(tr) /\ tr[b + 1] = Given(S, t)

\* The operation after b operations.
Said(tr, b, parent, kind) == b < Len(tr) /\ tr[b + 1].parent = parent /\ tr[b + 1].kind = kind

InnerOps(tr, n, b) == {m \in 1..b : tr[m].kind = "inner" /\ tr[m].parent = n}
Count(tr, n, b) == Cardinality(InnerOps(tr, n, b))

-----------------------------------------------------------------------------
(* The steps from a snapshot to the next.                                  *)

Starts(S, tr, s, t) ==
  /\ s.turn = 0 /\ t.turn = 1 /\ t.inner = s.inner /\ t.outer = s.outer
  /\ \/ /\ Said(tr, s.read, CallAt(S, 0), "exhausted")
        /\ t.ended = [s.ended EXCEPT ![1] = TRUE] /\ t.queue = s.queue
     \/ /\ Said(tr, s.read, CallAt(S, 0), "starting")
        /\ t.ended = s.ended
        /\ t.queue = [s.queue EXCEPT ![1] = Append(@, NewContext(tr[s.read + 1].value))]
  /\ Told(S, tr, t, s.read + 1)

Free(s, i) == s.turn = i /\ s.inner[i] = NoIterator

Pulls(S, tr, s, t, i) ==
  /\ Free(s, i) /\ ~ s.ended[i]
  /\ t.turn = i - 1
  /\ t.queue = s.queue /\ t.ended = s.ended /\ t.inner = s.inner /\ t.outer = s.outer
  /\ IF AdapterAt(S, i) THEN Said(tr, s.read, CallAt(S, i), "advance") /\ t.read = s.read + 1
     ELSE t.read = s.read /\ (i = Len(S) + 1 \/ s.queue[i] = << >>)

Ends(S, tr, s, t, i) ==
  /\ Free(s, i) /\ i \in DOMAIN S /\ s.queue[i] = << >> /\ s.ended[i]
  /\ t.turn = i + 1
  /\ t.queue = s.queue /\ t.ended = [s.ended EXCEPT ![i + 1] = TRUE] /\ t.inner = s.inner /\ t.outer = s.outer
  /\ IF AdapterAt(S, i) THEN Said(tr, s.read, CallAt(S, i), "exhausted") /\ Told(S, tr, t, s.read + 1)
     ELSE Told(S, tr, t, s.read)

\* Stage i passes ctx on for its oldest context.
Hands(s, t, i, ctx) ==
  /\ t.turn = i + 1
  /\ t.queue = [s.queue EXCEPT ![i] = Tail(@), ![i + 1] = Append(@, ctx)]
  /\ t.ended = s.ended /\ t.inner = s.inner /\ t.outer = s.outer

MarkedAt(stage, ctx) == IF stage.recursing /\ ctx.active = None THEN PushSuspended(ctx, None) ELSE ctx

Moves(S, tr, s, t, i) ==
  /\ Free(s, i) /\ s.queue[i] # << >>
  /\ LET ctx == Head(s.queue[i]) IN
     \/ OpAt(S, i, "record") /\ Hands(s, t, i, RecordVertex(ctx, S[i].vid))
     \/ OpAt(S, i, "activate") /\ Hands(s, t, i, ActivateVertex(MarkedAt(S[i], ctx), S[i].vid))
  /\ Told(S, tr, t, s.read)

Checked(S, tr, s, t, i) ==
  /\ Free(s, i) /\ s.queue[i] # << >> /\ OpAt(S, i, "check")
  /\ Said(tr, s.read, CallAt(S, i), "yieldFrom")
  /\ tr[s.read + 1].value.context = Head(s.queue[i])
  /\ \/ /\ tr[s.read + 1].value.outcome
        /\ Hands(s, t, i, Head(s.queue[i]))
        /\ Told(S, tr, t, s.read + 1)
     \/ /\ ~ tr[s.read + 1].value.outcome
        /\ t.turn = i /\ t.queue = [s.queue EXCEPT ![i] = Tail(@)]
        /\ t.ended = s.ended /\ t.inner = s.inner /\ t.outer = s.outer /\ t.read = s.read + 1

Coerced(S, tr, s, t, i) ==
  /\ Free(s, i) /\ s.queue[i] # << >> /\ OpAt(S, i, "coerce")
  /\ Said(tr, s.read, CallAt(S, i), "yieldFrom")
  /\ tr[s.read + 1].value.context = Head(s.queue[i])
  /\ Hands(s, t, i, IF tr[s.read + 1].value.outcome THEN Head(s.queue[i]) ELSE EnsureSuspended(Head(s.queue[i])))
  /\ Told(S, tr, t, s.read + 1)

\* Stage i begins with its oldest context.
Begins(s, t, i, x) ==
  /\ t.turn = i
  /\ t.queue = [s.queue EXCEPT ![i] = Tail(@)]
  /\ t.inner = [s.inner EXCEPT ![i] = x]
  /\ t.ended = s.ended

Opens(S, tr, s, t, i) ==
  /\ Free(s, i) /\ s.queue[i] # << >>
  /\ Said(tr, s.read, CallAt(S, i), "outer")
  /\ tr[s.read + 1].value = Head(s.queue[i])
  /\ \/ OpAt(S, i, "neighbors") /\ Begins(s, t, i, EdgeIt(Head(s.queue[i]), << >>, No, No))
     \/ OpAt(S, i, "recurse") /\ Begins(s, t, i, RecursiveIt(Head(s.queue[i]), None, << >>))
  /\ t.outer = [s.outer EXCEPT ![i] = s.read + 1]
  /\ t.read = s.read + 1

Unpacks(S, s, t, i) ==
  /\ Free(s, i) /\ s.queue[i] # << >> /\ OpAt(S, i, "unpack")
  /\ Begins(s, t, i, UnpackIt(UnpackPiggyback(Head(s.queue[i]))))
  /\ t.outer = s.outer /\ t.read = s.read

\* The iterator of stage i answers ctx and becomes x, or it is dropped.
Answered(s, t, i, ctx, x) ==
  /\ t.turn = i + 1
  /\ t.inner = [s.inner EXCEPT ![i] = x]
  /\ t.queue = [s.queue EXCEPT ![i + 1] = Append(@, ctx)]
  /\ t.ended = s.ended /\ t.outer = s.outer

Dropped(s, t, i) ==
  /\ t.turn = i
  /\ t.inner = [s.inner EXCEPT ![i] = NoIterator]
  /\ t.queue = s.queue /\ t.ended = s.ended /\ t.outer = s.outer

Reaches(S, tr, s, t, i) ==
  LET x == s.inner[i]
      v == tr[s.read + 1].value.vertex
  IN
  /\ s.turn = i /\ i \in DOMAIN S /\ Asking(x)
  /\ Said(tr, s.read, s.outer[i], "inner")
  /\ tr[s.read + 1].value.position = Count(tr, s.outer[i], s.read)
  /\ \/ /\ x.op = "edge"
        /\ Answered(s, t, i, SplitAndMoveToVertex(x.ctx, v),
             EdgeIt(x.ctx, << >>, Yes, x.ended))
     \/ /\ x.op = "recursive" /\ x.ctx # None
        /\ Answered(s, t, i, AttachPiggyback(SplitAndMoveToVertex(x.ctx, v), EnsureSuspended(x.ctx)),
             RecursiveIt(None, SplitAndMoveToVertex(x.ctx, None), << >>))
     \/ /\ x.op = "recursive" /\ x.ctx = None
        /\ Answered(s, t, i, SplitAndMoveToVertex(x.base, v), x)
  /\ Told(S, tr, t, s.read + 1)

MissingAt(stage, x) == ~ x.ended /\ (x.ctx.active = None \/ (~ x.hasNeighbors /\ stage.optional))

RunsOut(S, tr, s, t, i) ==
  LET x == s.inner[i] IN
  /\ s.turn = i /\ i \in DOMAIN S /\ Asking(x)
  /\ Said(tr, s.read, s.outer[i], "exhausted")
  /\ \/ /\ x.op = "edge" /\ MissingAt(S[i], x)
        /\ Answered(s, t, i, SplitAndMoveToVertex(x.ctx, None),
             EdgeIt(x.ctx, << >>, x.hasNeighbors, Yes))
        /\ Told(S, tr, t, s.read + 1)
     \/ x.op = "edge" /\ ~ MissingAt(S[i], x) /\ Dropped(s, t, i) /\ t.read = s.read + 1
     \/ /\ x.op = "recursive" /\ x.ctx # None
        /\ Answered(s, t, i, x.ctx,
             RecursiveIt(None, x.base, << >>))
        /\ Told(S, tr, t, s.read + 1)
     \/ x.op = "recursive" /\ x.ctx = None /\ Dropped(s, t, i) /\ t.read = s.read + 1

\* An iterator that has answered for all of its neighbors does not ask again.
Closes(S, s, t, i) ==
  /\ s.turn = i /\ i \in DOMAIN S
  /\ Expanding(s.inner[i]) /\ ~ Asking(s.inner[i])
  /\ Dropped(s, t, i) /\ t.read = s.read

Rides(S, tr, s, t, i) ==
  LET x == s.inner[i] IN
  /\ s.turn = i /\ i \in DOMAIN S /\ x.op = "unpack"
  /\ \/ /\ x.contexts # << >>
        /\ Answered(s, t, i, EnsureUnsuspended(Head(x.contexts)),
             UnpackIt(Tail(x.contexts)))
        /\ Told(S, tr, t, s.read)
     \/ x.contexts = << >> /\ Dropped(s, t, i) /\ t.read = s.read

FollowsAt(S, tr, s, t, i) ==
  \/ Pulls(S, tr, s, t, i) \/ Ends(S, tr, s, t, i) \/ Moves(S, tr, s, t, i)
  \/ Checked(S, tr, s, t, i) \/ Coerced(S, tr, s, t, i)
  \/ Opens(S, tr, s, t, i) \/ Unpacks(S, s, t, i)
  \/ Reaches(S, tr, s, t, i) \/ RunsOut(S, tr, s, t, i) \/ Closes(S, s, t, i) \/ Rides(S, tr, s, t, i)

Follows(S, tr, s, t) ==
  IF s.turn = 0 THEN Starts(S, tr, s, t) ELSE FollowsAt(S, tr, s, t, s.turn)

-----------------------------------------------------------------------------
(* What holds of every snapshot, and of the trace.                         *)

Shape(S, j, x) ==
  \/ x = NoIterator
  \/ OpAt(S, j, "neighbors") /\ x.op = "edge" /\ x = Filled(x, << >>)
  \/ OpAt(S, j, "recurse") /\ x.op = "recursive" /\ x = Filled(x, << >>) /\ (x.ctx = None \/ x.base = None)
  \/ OpAt(S, j, "unpack") /\ x = UnpackIt(x.contexts)

Rows(tr, b) == {m \in 1..b : tr[m].kind = "result"}

StateTyped(S, s) ==
  /\ s.turn \in 0..Len(S) + 1
  /\ s.queue \in [1..Len(S) + 1 -> Seq(Context)]
  /\ s.ended \in [1..Len(S) + 1 -> BOOLEAN]
  /\ s.inner = [j \in 1..Len(S) + 1 |-> s.inner[j]]
  /\ s.outer \in [1..Len(S) -> Nat]
  /\ s.read \in Nat

StateOK(S, tr, s) ==
  /\ StateTyped(S, s)
  /\ Cardinality(CallersOf(S)) <= s.read /\ s.read <= Len(tr)
  /\ \A j \in 1..Len(S) + 1 : Shape(S, j, s.inner[j])
  /\ \A j \in 1..Len(S) + 1 : s.turn < j => s.inner[j] = NoIterator /\ ~ s.ended[j]
  /\ s.inner[Len(S) + 1] = NoIterator
  /\ \A j, k \in 1..Len(S) :
       j # k /\ Expanding(s.inner[j]) /\ Expanding(s.inner[k]) => s.outer[j] # s.outer[k]
  /\ \A j \in 1..Len(S) :
       Expanding(s.inner[j]) => Cardinality(CallersOf(S)) < s.outer[j] /\ s.outer[j] <= s.read
  /\ Len(s.queue[Len(S) + 1]) = Cardinality(Rows(tr, s.read))

IsTrace(tr) == \E T : tr \in Seq(T)

TraceOK(S, tr) ==
  /\ IsTrace(tr)
  /\ Cardinality(CallersOf(S)) <= Len(tr)
  /\ \A m \in 1..Len(tr) :
       /\ tr[m].kind \in {"inner", "exhausted"} => tr[m].parent \in Nat /\ tr[m].parent < m
       /\ tr[m].kind = "inner" => tr[m].value.position = Count(tr, tr[m].parent, m - 1)
  /\ \A l, m \in 1..Len(tr) :
       l < m /\ tr[l].kind = "exhausted" /\ tr[m].kind = "inner" => tr[l].parent # tr[m].parent

IsHistory(S, tr, h, n) ==
  /\ n \in Nat \ {0}
  /\ h[1].turn = Len(S) + 1
  /\ h[1].queue = [i \in 1..Len(S) + 1 |-> << >>]
  /\ h[1].ended = [i \in 1..Len(S) + 1 |-> FALSE]
  /\ h[1].inner = [i \in 1..Len(S) + 1 |-> NoIterator]
  /\ h[1].read = Cardinality(CallersOf(S))
  /\ \A k \in 1..n : StateOK(S, tr, h[k])
  /\ \A k \in 1..n - 1 : Follows(S, tr, h[k], h[k + 1])
  /\ h[n].read = Len(tr)

-----------------------------------------------------------------------------
(* Recording.                                                              *)

Tapped ==
  /\ mode = "recording" /\ awaiting = {}
  /\ IInv
  /\ TraceOK(stages, trace)
  /\ \A j \in 1..Len(stages) : inner[j].op = "edge" /\ inner[j].ended => inner[j].neighbors = << >>

\* No iterator that will be asked for more has told that it is exhausted.
StillOpen(S, tr, s) ==
  \A j \in 1..Len(S), m \in 1..Len(tr) :
    Asking(s.inner[j]) /\ tr[m].kind = "exhausted" => tr[m].parent # s.outer[j]

RecordInv ==
  /\ Tapped
  /\ StillOpen(stages, trace, Snapshot)
  /\ \E h, n : IsHistory(stages, trace, h, n) /\ h[n] = Snapshot

(* Replaying.                                                              *)

VertexIn(tr, n, position) ==
  tr[CHOOSE m \in InnerOps(tr, n, Len(tr)) : tr[m].value.position = position].value.vertex

\* What the iterator of operation n has after b operations have been read.
Unread(tr, n, b) ==
  [k \in 1..Count(tr, n, Len(tr)) - Count(tr, n, b) |-> VertexIn(tr, n, Count(tr, n, b) + k - 1)]

\* The readers that have pulled an input, and the consumer.
Waiting(S, s, pending) ==
  {j \in 1..Len(S) + 1 :
     /\ AdapterAt(S, j) \/ j = Len(S) + 1
     /\ s.turn < j \/ (s.turn = j /\ (pending \/ (j = Len(S) + 1 /\ s.ended[j])))}

At(s, pending) ==
  /\ turn = s.turn /\ queue = s.queue /\ ended = s.ended
  /\ inner = [j \in 1..Len(stages) + 1 |-> Filled(s.inner[j], Unread(trace, s.outer[j], s.read))]
  /\ neighbors \in [1..Len(stages) -> Nat]
  /\ \A j \in 1..Len(stages) : Expanding(s.inner[j]) => neighbors[j] = s.outer[j]
  /\ awaiting = Waiting(stages, s, pending)
  /\ IF pending THEN /\ ~ Silent(stages, s) /\ s.turn # 0 /\ s.inner[s.turn] = NoIterator
                     /\ s.read = read + 1 /\ read < Len(trace) /\ trace[s.read] = Given(stages, s)
     ELSE read = s.read

ReplayInv ==
  /\ mode = "replaying"
  /\ stages \in Seq(Stage)
  /\ TraceOK(stages, trace)
  /\ \E h, n :
       /\ IsHistory(stages, trace, h, n)
       /\ h[n].turn = Len(stages) + 1
       /\ complete = h[n].ended[Len(stages) + 1]
       /\ \/ \E k \in 1..n, pending \in BOOLEAN : At(h[k], pending)
          \/ ~ complete /\ read = Len(trace)

-----------------------------------------------------------------------------
(* The operations of a step.                                               *)

\* Tests of a stage, with the stages as an argument.
LEMMA StagesAt ==
  /\ \A i, op : IsOp(i, op) <=> OpAt(stages, i, op)
  /\ \A i : IsAdapter(i) <=> AdapterAt(stages, i)
  /\ \A i : CallOf(i) = CallAt(stages, i)
  /\ Callers = CallersOf(stages)
<1>1. \A i, op : IsOp(i, op) <=> OpAt(stages, i, op)
  BY DEF IsOp, OpAt
<1>2. \A i : IsAdapter(i) <=> AdapterAt(stages, i)
  BY <1>1 DEF IsAdapter, AdapterAt
<1>3. Callers = CallersOf(stages)
  BY <1>2 DEF Callers, CallersOf
<1>4. \A i : CallOf(i) = CallAt(stages, i)
  BY <1>3 DEF CallOf, CallAt
<1> QED BY <1>1, <1>2, <1>3, <1>4

Grew(tr, new) ==
  /\ IsTrace(new)
  /\ Len(tr) \in Nat /\ Len(new) \in Nat /\ Len(tr) <= Len(new)
  /\ \A m \in 1..Len(tr) : new[m] = tr[m]

\* A trace that grew twice grew.
LEMMA GrewAgain ==
  ASSUME NEW a, NEW b, NEW c, Grew(a, b), Grew(b, c)
  PROVE  Grew(a, c)
<1>1. \A m \in 1..Len(a) : m \in 1..Len(b)
  BY DEF Grew
<1> QED BY <1>1 DEF Grew

\* An operation more.
LEMMA OneMore ==
  ASSUME NEW tr, IsTrace(tr), NEW x
  PROVE  LET new == tr \o <<x>> IN
         Grew(tr, new) /\ Len(new) = Len(tr) + 1 /\ new[Len(tr) + 1] = x
<1>1. PICK T : tr \in Seq(T)
  BY DEF IsTrace
<1>2. tr \o <<x>> \in Seq(T \cup {x})
  <2>1. tr \in Seq(T \cup {x}) /\ <<x>> \in Seq(T \cup {x})
    BY <1>1
  <2> QED BY <2>1
<1>3. /\ Len(tr) \in Nat /\ Len(tr \o <<x>>) = Len(tr) + 1 /\ (tr \o <<x>>)[Len(tr) + 1] = x
      /\ \A m \in 1..Len(tr) : (tr \o <<x>>)[m] = tr[m]
  BY <1>1
<1> QED BY <1>2, <1>3 DEF Grew, IsTrace

\* Nothing more.
LEMMA NothingMore ==
  ASSUME NEW tr, IsTrace(tr)
  PROVE  tr \o << >> = tr /\ Grew(tr, tr)
<1>1. PICK T : tr \in Seq(T)
  BY DEF IsTrace
<1>2. tr \o << >> = tr /\ Len(tr) \in Nat
  BY <1>1
<1> QED BY <1>2 DEF Grew, IsTrace

\* Two operations more.
LEMMA TwoMore ==
  ASSUME NEW tr, IsTrace(tr), NEW x, NEW y
  PROVE  LET new == tr \o (<<x>> \o <<y>>) IN
         /\ Grew(tr, new) /\ Len(new) = Len(tr) + 2
         /\ new[Len(tr) + 1] = x /\ new[Len(tr) + 2] = y
<1>1. PICK T : tr \in Seq(T)
  BY DEF IsTrace
<1> DEFINE U == T \cup {x, y}
           a == tr \o <<x>>
<1>2. tr \in Seq(U) /\ <<x>> \in Seq(U) /\ <<y>> \in Seq(U)
  BY <1>1
<1>3. tr \o (<<x>> \o <<y>>) = a \o <<y>>
  BY <1>2
<1>4. Grew(tr, a) /\ Len(a) = Len(tr) + 1 /\ a[Len(tr) + 1] = x
  BY OneMore
<1>5. IsTrace(a)
  BY <1>4 DEF Grew
<1> HIDE DEF a
<1>6. Grew(a, a \o <<y>>) /\ Len(a \o <<y>>) = Len(a) + 1 /\ (a \o <<y>>)[Len(a) + 1] = y
  BY <1>5, OneMore
<1>7. Len(tr) \in Nat /\ Len(tr) + 1 \in 1..Len(a) /\ Len(a) + 1 = Len(tr) + 2
  BY <1>4 DEF Grew
<1> DEFINE b == a \o <<y>>
<1>8. Grew(a, b) /\ Len(b) = Len(tr) + 2 /\ b[Len(tr) + 2] = y /\ b[Len(tr) + 1] = x
  BY <1>4, <1>6, <1>7 DEF Grew
<1> HIDE DEF b
<1>9. Grew(tr, b)
  BY <1>4, <1>8, GrewAgain
<1> QED BY <1>3, <1>8, <1>9 DEF b

\* The operations of a step are recorded after those before: one of its own,
\* if it has one, and what the next stage is given.
LEMMA Tells ==
  ASSUME NEW S, NEW t, NEW tr, IsTrace(tr), NEW x, NEW own \in BOOLEAN, NEW new,
         new = tr \o ((IF own THEN <<x>> ELSE << >>) \o (IF Silent(S, t) THEN << >> ELSE <<Given(S, t)>>)),
         t.read = Len(new)
  PROVE  /\ Grew(tr, new)
         /\ own => Len(tr) < Len(new) /\ new[Len(tr) + 1] = x /\ Told(S, new, t, Len(tr) + 1)
         /\ ~ own => Told(S, new, t, Len(tr))
<1>0. Len(tr) \in Nat
  BY NothingMore DEF Grew
<1>1. CASE own /\ Silent(S, t)
  <2>1. <<x>> \o << >> = <<x>>
    OBVIOUS
  <2>2. new = tr \o <<x>>
    BY <1>1, <2>1
  <2> QED BY <1>0, <1>1, <2>2, OneMore DEF Told
<1>2. CASE own /\ ~ Silent(S, t)
  <2>2. new = tr \o (<<x>> \o <<Given(S, t)>>)
    BY <1>2
  <2>3. Len(tr) + 1 + 1 = Len(tr) + 2 /\ Len(tr) + 1 < Len(tr) + 2 /\ Len(tr) < Len(tr) + 2
    BY <1>0
  <2> QED BY <1>0, <1>2, <2>2, <2>3, TwoMore DEF Told
<1>3. CASE ~ own /\ Silent(S, t)
  <2>1. << >> \o << >> = << >>
    OBVIOUS
  <2>2. new = tr \o << >>
    BY <1>3, <2>1
  <2> QED BY <1>3, <2>2, NothingMore DEF Told
<1>4. CASE ~ own /\ ~ Silent(S, t)
  <2>1. << >> \o <<Given(S, t)>> = <<Given(S, t)>>
    OBVIOUS
  <2>2. new = tr \o <<Given(S, t)>>
    BY <1>4, <2>1
  <2> QED BY <1>0, <1>4, <2>2, OneMore DEF Told
<1> QED BY <1>1, <1>2, <1>3, <1>4

-----------------------------------------------------------------------------
(* Every step that is recorded relates two snapshots.                      *)

LEMMA SnapshotIs ==
  /\ Snapshot.turn = turn /\ Snapshot.queue = queue /\ Snapshot.ended = ended
  /\ Snapshot.inner = [j \in 1..Len(stages) + 1 |-> Filled(inner[j], << >>)]
  /\ Snapshot.outer = neighbors /\ Snapshot.read = Len(trace)
BY DEF Snapshot, Consumer

\* The parts of the snapshot after a step.
LEMMA SnapshotNext ==
  ASSUME stages' = stages
  PROVE  /\ Snapshot'.turn = turn' /\ Snapshot'.queue = queue' /\ Snapshot'.ended = ended'
         /\ Snapshot'.inner = [j \in 1..Len(stages) + 1 |-> Filled(inner'[j], << >>)]
         /\ Snapshot'.outer = neighbors' /\ Snapshot'.read = Len(trace')
BY DEF Snapshot, Consumer

\* What a stage was given, as the snapshot tells it.
LEMMA InputIs ==
  ASSUME stages' = stages, NEW i, turn' = i
  PROVE  Input(i) = IF Silent(stages, Snapshot') THEN << >> ELSE <<Given(stages, Snapshot')>>
<1>1. Snapshot'.turn = i /\ Snapshot'.queue = queue' /\ Snapshot'.ended = ended'
  BY SnapshotNext
<1> QED BY <1>1, StagesAt DEF Input, Silent, Given, Consumer

\* What the operations of a step are, when the step has one of its own and the
\* next stage is given something.
LEMMA RecordsBoth ==
  ASSUME IsTrace(trace), stages' = stages, NEW i, turn' = i, NEW x, Records(<<x>> \o Input(i))
  PROVE  /\ Grew(trace, trace') /\ Snapshot.read < Len(trace') /\ trace'[Snapshot.read + 1] = x
         /\ Told(stages, trace', Snapshot', Snapshot.read + 1)
<1> DEFINE t == Snapshot'
<1>1. trace' = trace \o (<<x>> \o Input(i))
  BY DEF Records
<1>2. Input(i) = IF Silent(stages, t) THEN << >> ELSE <<Given(stages, t)>>
  BY InputIs
<1>3. t.read = Len(trace') /\ Snapshot.read = Len(trace)
  BY SnapshotIs, SnapshotNext
<1> HIDE DEF t
<1>0. PICK own \in BOOLEAN : own = TRUE
  OBVIOUS
<1>4. trace' = trace \o ((IF own THEN <<x>> ELSE << >>) \o (IF Silent(stages, t) THEN << >> ELSE <<Given(stages, t)>>))
  BY <1>0, <1>1, <1>2
<1>61. own => Told(stages, trace', t, Len(trace) + 1)
  BY <1>3, <1>4, Tells
<1>62. own => Len(trace) < Len(trace')
  BY <1>3, <1>4, Tells
<1>63. own => trace'[Len(trace) + 1] = x
  BY <1>3, <1>4, Tells
<1>6. own => /\ Len(trace) < Len(trace') /\ trace'[Len(trace) + 1] = x
              /\ Told(stages, trace', t, Len(trace) + 1)
  BY <1>61, <1>62, <1>63
<1>7. Grew(trace, trace')
  BY <1>3, <1>4, Tells
<1>5. Grew(trace, trace') /\ Len(trace) < Len(trace') /\ trace'[Len(trace) + 1] = x /\ Told(stages, trace', t, Len(trace) + 1)
  BY <1>0, <1>6, <1>7
<1> QED BY <1>3, <1>5 DEF t

\* A step that records only what the next stage is given.
LEMMA RecordsGiven ==
  ASSUME IsTrace(trace), stages' = stages, NEW i, turn' = i, Records(Input(i))
  PROVE  Grew(trace, trace') /\ Told(stages, trace', Snapshot', Snapshot.read)
<1> DEFINE t == Snapshot'
           g == IF Silent(stages, t) THEN << >> ELSE <<Given(stages, t)>>
<1>1. trace' = trace \o Input(i)
  BY DEF Records
<1>2. Input(i) = g
  BY InputIs
<1>3. t.read = Len(trace') /\ Snapshot.read = Len(trace)
  BY SnapshotIs, SnapshotNext
<1>6. << >> \o g = g
  OBVIOUS
<1> HIDE DEF t
<1>0. PICK own \in BOOLEAN : own = FALSE
  OBVIOUS
<1>4. trace' = trace \o ((IF own THEN <<0>> ELSE << >>) \o (IF Silent(stages, t) THEN << >> ELSE <<Given(stages, t)>>))
  BY <1>0, <1>1, <1>2, <1>6
<1>5. Grew(trace, trace') /\ Told(stages, trace', t, Len(trace))
  BY <1>0, <1>3, <1>4, Tells
<1> QED BY <1>3, <1>5 DEF t

\* A step that records only an operation of its own.
LEMMA RecordsOwn ==
  ASSUME IsTrace(trace), stages' = stages, NEW x, Records(<<x>>)
  PROVE  /\ Grew(trace, trace') /\ Snapshot.read < Len(trace') /\ trace'[Snapshot.read + 1] = x
         /\ Snapshot'.read = Snapshot.read + 1
<1>1. trace' = trace \o <<x>>
  BY DEF Records
<1>2. Snapshot'.read = Len(trace') /\ Snapshot.read = Len(trace) /\ Len(trace) \in Nat
  BY SnapshotIs, SnapshotNext, NothingMore DEF Grew
<1> QED BY <1>1, <1>2, OneMore

\* A step that records nothing.
LEMMA RecordsNone ==
  ASSUME IsTrace(trace), stages' = stages, Records(<< >>)
  PROVE  Grew(trace, trace') /\ trace' = trace /\ Snapshot'.read = Snapshot.read
<1>1. trace' = trace \o << >>
  BY DEF Records
<1>2. Snapshot'.read = Len(trace') /\ Snapshot.read = Len(trace)
  BY SnapshotIs, SnapshotNext
<1> QED BY <1>1, <1>2, NothingMore

\* The iterators of a snapshot when one of them changes.
LEMMA InnerNext ==
  ASSUME stages' = stages, DOMAIN inner = 1..Len(stages) + 1, NEW i \in 1..Len(stages) + 1, NEW x,
         inner' = [inner EXCEPT ![i] = x]
  PROVE  Snapshot'.inner = [Snapshot.inner EXCEPT ![i] = Filled(x, << >>)]
BY SnapshotIs, SnapshotNext

\* An iterator whose neighbors are replaced.
LEMMA FilledIs ==
  /\ NoIterator.op = "none"
  /\ \A s : Filled(NoIterator, s) = NoIterator
  /\ \A c, n, has, end, s : Filled(EdgeIt(c, n, has, end), s) = EdgeIt(c, s, has, end)
  /\ \A c, b, n, s : Filled(RecursiveIt(c, b, n), s) = RecursiveIt(c, b, s)
  /\ \A cs, s : Filled(UnpackIt(cs), s) = UnpackIt(cs)
BY DEF Filled, NoIterator, EdgeIt, RecursiveIt, UnpackIt

\* An iterator one of whose fields changes.
LEMMA UnpackContexts ==
  ASSUME NEW x, NEW a, NEW v, x = UnpackIt(a)
  PROVE  [x EXCEPT !.contexts = v] = UnpackIt(v)
BY DEF UnpackIt

\* The neighbors of a resolver's edge.
LEMMA EdgeNeighbors ==
  ASSUME NEW x, NEW a, NEW b, NEW c, NEW l, NEW v, x = EdgeIt(a, b, c, l)
  PROVE  [x EXCEPT !.neighbors = v] = EdgeIt(a, v, c, l)
BY DEF EdgeIt

\* Whether it has had a neighbor.
LEMMA EdgeHas ==
  ASSUME NEW x, NEW a, NEW b, NEW c, NEW l, NEW v, x = EdgeIt(a, b, c, l)
  PROVE  [x EXCEPT !.hasNeighbors = v] = EdgeIt(a, b, v, l)
BY DEF EdgeIt

\* Whether it has told its end.
LEMMA EdgeEnded ==
  ASSUME NEW x, NEW a, NEW b, NEW c, NEW l, NEW v, x = EdgeIt(a, b, c, l)
  PROVE  [x EXCEPT !.ended = v] = EdgeIt(a, b, c, v)
BY DEF EdgeIt

\* The neighbors of a level of a recursion.
LEMMA RecursiveNeighbors ==
  ASSUME NEW x, NEW a, NEW b, NEW c, NEW v, x = RecursiveIt(a, b, c)
  PROVE  [x EXCEPT !.neighbors = v] = RecursiveIt(a, b, v)
BY DEF RecursiveIt

\* Its context.
LEMMA RecursiveCtx ==
  ASSUME NEW x, NEW a, NEW b, NEW c, NEW v, x = RecursiveIt(a, b, c)
  PROVE  [x EXCEPT !.ctx = v] = RecursiveIt(v, b, c)
BY DEF RecursiveIt

\* The context it started from.
LEMMA RecursiveBase ==
  ASSUME NEW x, NEW a, NEW b, NEW c, NEW v, x = RecursiveIt(a, b, c)
  PROVE  [x EXCEPT !.base = v] = RecursiveIt(a, v, c)
BY DEF RecursiveIt

\* What a recording that goes on is known to have.
LEMMA TappedIs ==
  ASSUME Tapped
  PROVE  /\ IsTrace(trace)
         /\ stages \in Seq(Stage) /\ DOMAIN stages = 1..Len(stages) /\ Len(stages) \in Nat
         /\ Consumer = Len(stages) + 1
         /\ DOMAIN inner = 1..Len(stages) + 1
         /\ \A j \in 1..Len(stages) : stages[j] \in Stage /\ inner[j] \in Expander(stages[j])
         /\ inner[Len(stages) + 1] = NoIterator
         /\ turn \in 0..Len(stages) + 1
         /\ queue \in [1..Len(stages) + 1 -> Seq(Context)]
         /\ ended \in [1..Len(stages) + 1 -> BOOLEAN]
<1>1. /\ stages \in Seq(Stage) /\ turn \in 0..Consumer /\ queue \in [1..Consumer -> Seq(Context)]
      /\ ended \in [1..Consumer -> BOOLEAN] /\ DOMAIN inner = 1..Consumer /\ inner[Consumer] = NoIterator
  BY DEF Tapped, IInv, Chained
<1>2. PICK W : IsPending(W, stages, graph, queue, inner, source)
  BY DEF Tapped, IInv, Pending
<1>3. \A j \in 1..Len(stages) : inner[j] \in Expander(stages[j])
  BY <1>2 DEF IsPending
<1>4. DOMAIN stages = 1..Len(stages) /\ Len(stages) \in Nat /\ \A j \in 1..Len(stages) : stages[j] \in Stage
  BY <1>1
<1>5. IsTrace(trace)
  BY DEF Tapped, TraceOK
<1> QED BY <1>1, <1>3, <1>4, <1>5 DEF Consumer

\* A stage without an inner iterator.
LEMMA FreeIs ==
  ASSUME Tapped, NEW i \in 1..Len(stages) + 1, turn = i, inner[i] = NoIterator
  PROVE  Free(Snapshot, i)
BY SnapshotIs, FilledIs DEF Free

\* A stage that asks for its input.
LEMMA PullFollows ==
  ASSUME Tapped, NEW i \in 1..Consumer, RecordPull(i)
  PROVE  Grew(trace, trace') /\ Pulls(stages, trace', Snapshot, Snapshot', i)
<1> DEFINE s == Snapshot
           t == Snapshot'
<1>1. /\ stages' = stages /\ turn = i /\ inner[i] = NoIterator /\ ~ ended[i] /\ turn' = i - 1
      /\ queue' = queue /\ ended' = ended /\ inner' = inner /\ neighbors' = neighbors
      /\ i = Consumer \/ queue[i] = << >> \/ IsAdapter(i)
      /\ Records(IF IsAdapter(i) THEN <<Op(CallOf(i), "advance", None)>> ELSE << >>)
  BY DEF RecordPull, Pull
<1>2. IsTrace(trace) /\ Consumer = Len(stages) + 1
  BY TappedIs
<1>3. Free(s, i)
  BY <1>1, <1>2, FreeIs
<1>4. /\ s.ended = ended /\ s.queue = queue /\ t.turn = turn' /\ t.queue = queue' /\ t.ended = ended'
      /\ t.outer = neighbors' /\ s.outer = neighbors /\ t.inner = s.inner
  BY <1>1, SnapshotIs, SnapshotNext
<1>5. CASE IsAdapter(i)
  <2>1. Records(<<Op(CallOf(i), "advance", None)>>)
    BY <1>1, <1>5
  <2>2. /\ Grew(trace, trace') /\ s.read < Len(trace') /\ t.read = s.read + 1
        /\ trace'[s.read + 1] = Op(CallOf(i), "advance", None)
    BY <1>1, <1>2, <2>1, RecordsOwn
  <2>3. Said(trace', s.read, CallAt(stages, i), "advance")
    BY <2>2, StagesAt DEF Said, Op
  <2>4. AdapterAt(stages, i)
    BY <1>5, StagesAt
  <2> HIDE DEF s, t
  <2> QED BY <1>1, <1>3, <1>4, <2>2, <2>3, <2>4 DEF Pulls, s, t
<1>6. CASE ~ IsAdapter(i)
  <2>1. Records(<< >>)
    BY <1>1, <1>6
  <2>2. Grew(trace, trace') /\ t.read = s.read
    BY <1>1, <1>2, <2>1, RecordsNone
  <2>4. ~ AdapterAt(stages, i)
    BY <1>6, StagesAt
  <2> HIDE DEF s, t
  <2> QED BY <1>1, <1>2, <1>3, <1>4, <1>6, <2>2, <2>4 DEF Pulls, s, t
<1> QED BY <1>5, <1>6

\* A stage that has no more input.
LEMMA EndFollows ==
  ASSUME Tapped, NEW i \in 1..Consumer, RecordEnd(i)
  PROVE  Grew(trace, trace') /\ Ends(stages, trace', Snapshot, Snapshot', i)
<1> DEFINE s == Snapshot
           t == Snapshot'
<1>1. /\ stages' = stages /\ i \in DOMAIN stages /\ turn = i /\ inner[i] = NoIterator /\ ended[i] /\ turn' = i + 1
      /\ queue' = queue /\ ended' = [ended EXCEPT ![i + 1] = TRUE] /\ inner' = inner /\ neighbors' = neighbors
      /\ queue[i] = << >>
      /\ Records((IF IsAdapter(i) THEN <<Op(CallOf(i), "exhausted", None)>> ELSE << >>) \o Input(i + 1))
  BY DEF RecordEnd, End
<1>2. IsTrace(trace) /\ Consumer = Len(stages) + 1
  BY TappedIs
<1>3. Free(s, i)
  BY <1>1, <1>2, FreeIs
<1>4. /\ s.ended = ended /\ s.queue = queue /\ t.turn = turn' /\ t.queue = queue' /\ t.ended = ended'
      /\ t.outer = neighbors' /\ s.outer = neighbors /\ t.inner = s.inner
  BY <1>1, SnapshotIs, SnapshotNext
<1>5. CASE IsAdapter(i)
  <2>1. Records(<<Op(CallOf(i), "exhausted", None)>> \o Input(i + 1))
    BY <1>1, <1>5
  <2>2. /\ Grew(trace, trace') /\ s.read < Len(trace') /\ Told(stages, trace', t, s.read + 1)
        /\ trace'[s.read + 1] = Op(CallOf(i), "exhausted", None)
    BY <1>1, <1>2, <2>1, RecordsBoth
  <2>3. Said(trace', s.read, CallAt(stages, i), "exhausted")
    BY <2>2, StagesAt DEF Said, Op
  <2>4. AdapterAt(stages, i)
    BY <1>5, StagesAt
  <2> HIDE DEF s, t
  <2> QED BY <1>1, <1>3, <1>4, <2>2, <2>3, <2>4 DEF Ends, s, t
<1>6. CASE ~ IsAdapter(i)
  <2>1. Records(<< >> \o Input(i + 1))
    BY <1>1, <1>6
  <2>5. << >> \o Input(i + 1) = Input(i + 1)
    <3> DEFINE g == Given(stages, Snapshot')
    <3>1. Input(i + 1) = << >> \/ Input(i + 1) = <<g>>
      BY <1>1, InputIs
    <3> HIDE DEF g
    <3> QED BY <3>1
  <2>2. Grew(trace, trace') /\ Told(stages, trace', t, s.read)
    BY <1>1, <1>2, <2>1, <2>5, RecordsGiven
  <2>4. ~ AdapterAt(stages, i)
    BY <1>6, StagesAt
  <2> HIDE DEF s, t
  <2> QED BY <1>1, <1>2, <1>3, <1>4, <1>6, <2>2, <2>4 DEF Ends, s, t
<1> QED BY <1>5, <1>6

\* The starting vertices.
LEMMA SourceFollows ==
  ASSUME Tapped, RecordStartingVertices
  PROVE  Grew(trace, trace') /\ Starts(stages, trace', Snapshot, Snapshot')
<1> DEFINE s == Snapshot
           t == Snapshot'
<1>1. /\ stages' = stages /\ turn = 0 /\ turn' = 1 /\ inner' = inner /\ neighbors' = neighbors
      /\ IF source = << >> THEN ended' = [ended EXCEPT ![1] = TRUE] /\ queue' = queue
         ELSE ended' = ended /\ queue' = [queue EXCEPT ![1] = Append(@, NewContext(Head(source)))]
      /\ Records((IF source = << >> THEN <<Op(CallOf(0), "exhausted", None)>>
                  ELSE <<Op(CallOf(0), "starting", Head(source))>>) \o Input(1))
  BY DEF RecordStartingVertices, ResolveStartingVertices
<1>2. IsTrace(trace)
  BY TappedIs
<1>4. /\ s.ended = ended /\ s.queue = queue /\ t.turn = turn' /\ t.queue = queue' /\ t.ended = ended'
      /\ t.outer = neighbors' /\ s.outer = neighbors /\ t.inner = s.inner /\ s.turn = turn
  BY <1>1, SnapshotIs, SnapshotNext
<1>5. PICK x : x = IF source = << >> THEN Op(CallOf(0), "exhausted", None) ELSE Op(CallOf(0), "starting", Head(source))
  OBVIOUS
<1>6. Records(<<x>> \o Input(1))
  BY <1>1, <1>5
<1>7. /\ Grew(trace, trace') /\ s.read < Len(trace') /\ Told(stages, trace', t, s.read + 1)
      /\ trace'[s.read + 1] = x
  BY <1>1, <1>2, <1>6, RecordsBoth
<1>8. CASE source = << >>
  <2>1. Said(trace', s.read, CallAt(stages, 0), "exhausted")
    BY <1>5, <1>7, <1>8, StagesAt DEF Said, Op
  <2> QED BY <1>1, <1>4, <1>7, <1>8, <2>1 DEF Starts
<1>9. CASE source # << >>
  <2>1. Said(trace', s.read, CallAt(stages, 0), "starting") /\ trace'[s.read + 1].value = Head(source)
    BY <1>5, <1>7, <1>9, StagesAt DEF Said, Op
  <2> QED BY <1>1, <1>4, <1>7, <1>9, <2>1 DEF Starts
<1> QED BY <1>8, <1>9

\* A stage that is none of the adapter's.
LEMMA OtherFollows ==
  ASSUME Tapped, NEW i \in 1..Consumer, RecordOther(i)
  PROVE  Grew(trace, trace') /\ FollowsAt(stages, trace', Snapshot, Snapshot', i)
<1> DEFINE s == Snapshot
           t == Snapshot'
<1>1. IsTrace(trace) /\ Consumer = Len(stages) + 1 /\ DOMAIN inner = 1..Len(stages) + 1
      /\ \A j \in 1..Len(stages) : stages[j] \in Stage /\ inner[j] \in Expander(stages[j])
      /\ DOMAIN stages = 1..Len(stages)
  BY TappedIs
<1>2. stages' = stages /\ neighbors' = neighbors /\ Records(Answers(i)) /\ turn = i
  BY DEF RecordOther, Record, Activate, Unpack, UnpackEnd, Takes, Runs, InnerAnswers, InnerEnds
<1>3. /\ s.ended = ended /\ s.queue = queue /\ t.turn = turn' /\ t.queue = queue' /\ t.ended = ended'
      /\ t.outer = neighbors' /\ s.outer = neighbors /\ s.turn = turn
      /\ \A j \in 1..Len(stages) : s.inner[j] = Filled(inner[j], << >>)
  BY <1>2, SnapshotIs, SnapshotNext
<1>4. turn' = i + 1 => Grew(trace, trace') /\ Told(stages, trace', t, s.read)
  BY <1>1, <1>2, RecordsGiven DEF Answers
<1>5. ASSUME turn' = i PROVE Grew(trace, trace') /\ t.read = s.read
  <2>1. Records(<< >>)
    BY <1>2, <1>5 DEF Answers
  <2> QED BY <1>1, <1>2, <2>1, RecordsNone
<1>6. CASE Record(i) \/ Activate(i)
  <2>1. /\ turn' = i + 1 /\ ended' = ended /\ inner' = inner /\ queue[i] # << >> /\ inner[i] = NoIterator
        /\ \/ IsOp(i, "record") /\ queue' = Passed(i, RecordVertex(Head(queue[i]), stages[i].vid))
           \/ IsOp(i, "activate") /\ queue' = Passed(i, ActivateVertex(MarkMissing(i, Head(queue[i])), stages[i].vid))
    BY <1>6 DEF Record, Activate, Takes
  <2>2. Free(s, i)
    BY <1>1, <1>2, <2>1, FreeIs
  <2>3. t.inner = s.inner
    BY <1>2, <2>1, SnapshotIs, SnapshotNext
  <2>4. \/ OpAt(stages, i, "record") /\ Hands(s, t, i, RecordVertex(Head(queue[i]), stages[i].vid))
        \/ OpAt(stages, i, "activate")
           /\ Hands(s, t, i, ActivateVertex(MarkedAt(stages[i], Head(queue[i])), stages[i].vid))
    BY <1>2, <1>3, <2>1, <2>3, StagesAt DEF Hands, Passed, MarkMissing, MarkedAt
  <2>5. Moves(stages, trace', s, t, i)
    BY <1>3, <1>4, <2>1, <2>2, <2>4 DEF Moves
  <2> QED BY <1>4, <2>1, <2>5 DEF FollowsAt
<1>7. CASE Unpack(i) \/ UnpackEnd(i)
  <2>1. i \in 1..Len(stages) /\ inner[i].op = "unpack"
    BY <1>1, <1>7 DEF Unpack, UnpackEnd, Runs
  <2>2. inner[i] = UnpackIt(inner[i].contexts) /\ s.inner[i] = inner[i]
    BY <1>1, <1>3, <2>1, UnpackItIs, FilledIs
  <2>3. CASE Unpack(i)
    <3>1. /\ inner[i].contexts # << >> /\ ended' = ended /\ turn' = i + 1
          /\ inner' = [inner EXCEPT ![i] = [inner[i] EXCEPT !.contexts = Tail(@)]]
          /\ queue' = [queue EXCEPT ![i + 1] = Append(@, EnsureUnsuspended(Head(inner[i].contexts)))]
      BY <2>3 DEF Unpack, InnerAnswers
    <3>2. PICK cs : cs = inner[i].contexts
      OBVIOUS
    <3>5. PICK rest : rest = Tail(cs)
      OBVIOUS
    <3>6. inner[i] = UnpackIt(cs)
      BY <2>2, <3>2
    <3>7. [inner[i] EXCEPT !.contexts = rest] = UnpackIt(rest)
      BY <3>6, UnpackContexts
    <3>8. inner' = [inner EXCEPT ![i] = UnpackIt(rest)]
      BY <3>1, <3>2, <3>5, <3>7
    <3>9. t.inner = [s.inner EXCEPT ![i] = Filled(UnpackIt(rest), << >>)]
      BY <1>1, <1>2, <3>8, InnerNext
    <3>3. t.inner = [s.inner EXCEPT ![i] = UnpackIt(Tail(inner[i].contexts))]
      BY <3>2, <3>5, <3>9, FilledIs
    <3>4. Rides(stages, trace', s, t, i)
      BY <1>1, <1>2, <1>3, <1>4, <2>1, <2>2, <3>1, <3>3 DEF Rides, Answered
    <3> QED BY <1>4, <3>1, <3>4 DEF FollowsAt
  <2>4. CASE UnpackEnd(i)
    <3>1. /\ inner[i].contexts = << >> /\ ended' = ended /\ turn' = i /\ queue' = queue
          /\ inner' = [inner EXCEPT ![i] = NoIterator]
      BY <1>2, <2>4 DEF UnpackEnd, InnerEnds
    <3>3. t.inner = [s.inner EXCEPT ![i] = NoIterator]
      <4>1. t.inner = [s.inner EXCEPT ![i] = Filled(NoIterator, << >>)]
        BY <1>1, <1>2, <3>1, InnerNext
      <4> QED BY <4>1, FilledIs
    <3>4. Rides(stages, trace', s, t, i)
      BY <1>1, <1>2, <1>3, <1>5, <2>1, <2>2, <3>1, <3>3 DEF Rides, Dropped
    <3> QED BY <1>5, <3>1, <3>4 DEF FollowsAt
  <2> QED BY <1>7, <2>3, <2>4
<1> QED BY <1>6, <1>7 DEF RecordOther

\* A property or a coercion that is answered.
LEMMA AnswerFollows ==
  ASSUME Tapped, NEW i \in 1..Consumer, RecordAnswer(i)
  PROVE  Grew(trace, trace') /\ FollowsAt(stages, trace', Snapshot, Snapshot', i)
<1> DEFINE s == Snapshot
           t == Snapshot'
           c == Head(queue[i])
<1>1. IsTrace(trace) /\ Consumer = Len(stages) + 1
  BY TappedIs
<1>2. /\ stages' = stages /\ neighbors' = neighbors /\ turn = i /\ queue[i] # << >> /\ inner[i] = NoIterator
      /\ inner' = inner /\ ended' = ended
  BY DEF RecordAnswer, Keep, Drop, CoerceDeeper, Takes
<1>3. /\ s.ended = ended /\ s.queue = queue /\ t.turn = turn' /\ t.queue = queue' /\ t.ended = ended'
      /\ t.outer = neighbors' /\ s.outer = neighbors /\ s.turn = turn /\ t.inner = s.inner
  BY <1>2, SnapshotIs, SnapshotNext
<1>4. Free(s, i)
  BY <1>1, <1>2, FreeIs
<1>5. \A o : /\ Yield(i, o).parent = CallAt(stages, i) /\ Yield(i, o).kind = "yieldFrom"
             /\ Yield(i, o).value.context = c /\ Yield(i, o).value.outcome = o
  BY StagesAt DEF Yield, Op
<1>6. CASE Keep(i) /\ Records(<<Yield(i, TRUE)>> \o Input(i + 1))
  <2>1. turn' = i + 1 /\ IsOp(i, "check") /\ queue' = Passed(i, c)
    BY <1>6 DEF Keep
  <2>2. /\ Grew(trace, trace') /\ s.read < Len(trace') /\ Told(stages, trace', t, s.read + 1)
        /\ trace'[s.read + 1] = Yield(i, TRUE)
    BY <1>1, <1>2, <1>6, <2>1, RecordsBoth
  <2>3. Hands(s, t, i, c)
    BY <1>2, <1>3, <2>1 DEF Hands, Passed
  <2>4. OpAt(stages, i, "check") /\ Said(trace', s.read, CallAt(stages, i), "yieldFrom")
    BY <1>5, <2>1, <2>2, StagesAt DEF Said
  <2>5. Checked(stages, trace', s, t, i)
    BY <1>2, <1>3, <1>4, <1>5, <2>2, <2>3, <2>4 DEF Checked
  <2> QED BY <2>2, <2>5 DEF FollowsAt
<1>7. CASE Drop(i) /\ Records(<<Yield(i, FALSE)>>)
  <2>1. turn' = i /\ IsOp(i, "check") /\ queue' = [queue EXCEPT ![i] = Tail(@)]
    BY <1>2, <1>7 DEF Drop
  <2>2. /\ Grew(trace, trace') /\ s.read < Len(trace') /\ t.read = s.read + 1
        /\ trace'[s.read + 1] = Yield(i, FALSE)
    BY <1>1, <1>2, <1>7, <2>1, RecordsOwn
  <2>4. OpAt(stages, i, "check") /\ Said(trace', s.read, CallAt(stages, i), "yieldFrom")
    BY <1>5, <2>1, <2>2, StagesAt DEF Said
  <2>5. Checked(stages, trace', s, t, i)
    BY <1>2, <1>3, <1>4, <1>5, <2>1, <2>2, <2>4 DEF Checked
  <2> QED BY <2>2, <2>5 DEF FollowsAt
<1>8. CASE CoerceDeeper(i) /\ Records(<<Yield(i, c.active \in stages[i].to)>> \o Input(i + 1))
  <2>0. PICK o \in BOOLEAN : o <=> c.active \in stages[i].to
    <3>1. CASE c.active \in stages[i].to
      <4>1. TRUE \in BOOLEAN /\ (TRUE <=> c.active \in stages[i].to)
        BY <3>1
      <4> QED BY <4>1
    <3>2. CASE c.active \notin stages[i].to
      <4>1. FALSE \in BOOLEAN /\ (FALSE <=> c.active \in stages[i].to)
        BY <3>2
      <4> QED BY <4>1
    <3> QED BY <3>1, <3>2
  <2>9. o = (c.active \in stages[i].to)
    BY <2>0, Zenon
  <2>1. /\ turn' = i + 1 /\ IsOp(i, "coerce")
        /\ queue' = Passed(i, IF c.active \in stages[i].to THEN c ELSE EnsureSuspended(c))
    BY <1>8 DEF CoerceDeeper, SuspendUncoercible
  <2>7. queue' = Passed(i, IF o THEN c ELSE EnsureSuspended(c))
    BY <2>0, <2>1
  <2>8. Records(<<Yield(i, o)>> \o Input(i + 1))
    BY <1>8, <2>9, Zenon
  <2>2. /\ Grew(trace, trace') /\ s.read < Len(trace') /\ Told(stages, trace', t, s.read + 1)
        /\ trace'[s.read + 1] = Yield(i, o)
    BY <1>1, <1>2, <2>1, <2>8, RecordsBoth
  <2>6. trace'[s.read + 1].value.outcome = o
    BY <1>5, <2>2
  <2>3. Hands(s, t, i, IF trace'[s.read + 1].value.outcome THEN c ELSE EnsureSuspended(c))
    BY <1>2, <1>3, <2>1, <2>6, <2>7 DEF Hands, Passed
  <2>4. OpAt(stages, i, "coerce") /\ Said(trace', s.read, CallAt(stages, i), "yieldFrom")
    BY <1>5, <2>1, <2>2, StagesAt DEF Said
  <2>5. Coerced(stages, trace', s, t, i)
    BY <1>2, <1>3, <1>4, <1>5, <2>2, <2>3, <2>4 DEF Coerced
  <2> QED BY <2>2, <2>5 DEF FollowsAt
<1> QED BY <1>6, <1>7, <1>8 DEF RecordAnswer

\* An edge whose neighbors are asked for.
LEMMA OuterFollows ==
  ASSUME Tapped, NEW i \in 1..Consumer, RecordOuter(i)
  PROVE  Grew(trace, trace') /\ FollowsAt(stages, trace', Snapshot, Snapshot', i)
<1> DEFINE s == Snapshot
           t == Snapshot'
           c == Head(queue[i])
           x == NewExpander(i, c)
<1>1. IsTrace(trace) /\ Consumer = Len(stages) + 1 /\ DOMAIN inner = 1..Len(stages) + 1
  BY TappedIs
<1>2. /\ stages' = stages /\ turn = i /\ queue[i] # << >> /\ inner[i] = NoIterator
      /\ turn' = turn /\ ended' = ended
      /\ inner' = [inner EXCEPT ![i] = x]
      /\ queue' = [queue EXCEPT ![i] = Tail(@)]
      /\ \E op \in {"neighbors", "recurse", "unpack"} : IsOp(i, op)
  BY DEF RecordOuter, Expand, Takes
<1>3. /\ s.ended = ended /\ s.queue = queue /\ t.turn = turn' /\ t.queue = queue' /\ t.ended = ended'
      /\ t.outer = neighbors' /\ s.outer = neighbors /\ s.turn = turn /\ s.read = Len(trace)
  BY <1>2, SnapshotIs, SnapshotNext
<1>4. Free(s, i)
  BY <1>1, <1>2, FreeIs
<1>5. t.inner = [s.inner EXCEPT ![i] = Filled(x, << >>)]
  <2> HIDE DEF x
  <2> QED BY <1>1, <1>2, InnerNext
<1>6. \A a, b : IsOp(i, a) /\ IsOp(i, b) => a = b
  BY DEF IsOp
<1>7. CASE IsAdapter(i)
  <2> DEFINE o == Op(CallOf(i), "outer", c)
  <2>1. Records(<<o>>) /\ neighbors' = [neighbors EXCEPT ![i] = Len(trace) + 1]
    BY <1>7 DEF RecordOuter
  <2> HIDE DEF o
  <2>2. /\ Grew(trace, trace') /\ s.read < Len(trace') /\ t.read = s.read + 1
        /\ trace'[s.read + 1] = o
    BY <1>1, <1>2, <2>1, RecordsOwn
  <2>3. Said(trace', s.read, CallAt(stages, i), "outer") /\ trace'[s.read + 1].value = Head(s.queue[i])
    BY <1>3, <2>2, StagesAt DEF Said, Op, o
  <2>4. \/ IsOp(i, "neighbors") /\ Filled(x, << >>) = EdgeIt(c, << >>, No, No)
        \/ IsOp(i, "recurse") /\ Filled(x, << >>) = RecursiveIt(c, None, << >>)
    <3>1. \/ IsOp(i, "neighbors") /\ x = EdgeIt(c, ResolveNeighbors(c), No, No)
          \/ IsOp(i, "recurse") /\ x = RecursiveIt(c, None, ResolveNeighbors(c))
      <4>1. ~ IsOp(i, "unpack")
        BY <1>7 DEF IsAdapter, IsOp
      <4>2. \/ IsOp(i, "neighbors") /\ ~ IsOp(i, "recurse")
            \/ IsOp(i, "recurse") /\ ~ IsOp(i, "neighbors")
        BY <1>2, <4>1 DEF IsOp
      <4> HIDE DEF c
      <4>3. CASE IsOp(i, "neighbors")
        <5>1. x = EdgeIt(c, ResolveNeighbors(c), No, No)
          BY <4>1, <4>2, <4>3 DEF NewExpander, EdgeIt, No
        <5> HIDE DEF x
        <5> QED BY <4>3, <5>1
      <4>4. CASE IsOp(i, "recurse")
        <5>1. x = RecursiveIt(c, None, ResolveNeighbors(c))
          BY <4>1, <4>2, <4>4 DEF NewExpander, RecursiveIt
        <5> HIDE DEF x
        <5> QED BY <4>4, <5>1
      <4> QED BY <4>2, <4>3, <4>4
    <3> HIDE DEF x, c
    <3> QED BY <3>1, FilledIs
  <2> HIDE DEF x
  <2>5. \/ OpAt(stages, i, "neighbors") /\ Begins(s, t, i, EdgeIt(Head(s.queue[i]), << >>, No, No))
        \/ OpAt(stages, i, "recurse") /\ Begins(s, t, i, RecursiveIt(Head(s.queue[i]), None, << >>))
    BY <1>2, <1>3, <1>5, <2>4, StagesAt DEF Begins
  <2>6. Opens(stages, trace', s, t, i)
    BY <1>2, <1>3, <1>4, <2>1, <2>2, <2>3, <2>5 DEF Opens
  <2> QED BY <2>2, <2>6 DEF FollowsAt
<1>8. CASE ~ IsAdapter(i)
  <2>1. Records(<< >>) /\ neighbors' = neighbors
    BY <1>8 DEF RecordOuter
  <2>2. Grew(trace, trace') /\ t.read = s.read
    BY <1>1, <1>2, <2>1, RecordsNone
  <2>3. IsOp(i, "unpack")
    BY <1>2, <1>8 DEF IsAdapter
  <2>4. x = UnpackIt(UnpackPiggyback(c))
    BY <1>6, <2>3 DEF NewExpander, UnpackIt
  <2>5. Filled(x, << >>) = UnpackIt(UnpackPiggyback(c))
    <3> HIDE DEF x, c
    <3> QED BY <2>4, FilledIs
  <2> HIDE DEF x
  <2>6. Unpacks(stages, s, t, i)
    BY <1>2, <1>3, <1>4, <1>5, <2>1, <2>2, <2>3, <2>5, StagesAt DEF Unpacks, Begins
  <2> QED BY <2>2, <2>6 DEF FollowsAt
<1> QED BY <1>7, <1>8

\* An expander of a stage, with its fields.
LEMMA ExpanderIs ==
  ASSUME Tapped, NEW i \in 1..Len(stages)
  PROVE  /\ inner[i].op = "edge" =>
              \E c \in Context, end \in BOOLEAN : \E n, has :
                 inner[i] = EdgeIt(c, n, has, end) /\ (end => n = << >>)
         /\ inner[i].op = "recursive" =>
              \E c \in Context \cup {None}, b \in Context \cup {None} : \E n :
                 inner[i] = RecursiveIt(c, b, n) /\ (c = None => n = << >> \/ b # None)
<1>1. stages[i] \in Stage /\ inner[i] \in Expander(stages[i])
  BY TappedIs
<1>2. PICK x : x = inner[i]
  OBVIOUS
<1>3. ASSUME x.op = "edge"
      PROVE  \E c \in Context, end \in BOOLEAN : \E n, has : x = EdgeIt(c, n, has, end) /\ (end => n = << >>)
  <2>1. x \in EdgeIts /\ x.ctx \in Context /\ x.ended \in BOOLEAN
    BY <1>1, <1>2, <1>3, EdgeItIs
  <2>2. x.ended => x.neighbors = << >>
    BY <1>2, <1>3 DEF Tapped
  <2>3. x = EdgeIt(x.ctx, x.neighbors, x.hasNeighbors, x.ended)
    BY <2>1 DEF EdgeIts, EdgeIt
  <2> QED BY <2>1, <2>2, <2>3
<1>4. ASSUME x.op = "recursive"
      PROVE  \E c \in Context \cup {None}, b \in Context \cup {None} : \E n :
               x = RecursiveIt(c, b, n) /\ (c = None => n = << >> \/ b # None)
  <2>1. /\ x \in RecursiveIts /\ x.ctx \in Context \cup {None} /\ x.base \in Context \cup {None}
        /\ x.ctx = None => x.neighbors = << >> \/ x.base \in Context
    BY <1>1, <1>2, <1>4, RecursiveItIs
  <2>2. x = RecursiveIt(x.ctx, x.base, x.neighbors)
    BY <2>1 DEF RecursiveIts, RecursiveIt
  <2>3. None \notin Context
    BY ExecutionAssumption
  <2> QED BY <2>1, <2>2, <2>3
<1> QED BY <1>2, <1>3, <1>4

\* What an iterator has yielded does not change when the trace grows.
LEMMA CountGrows ==
  ASSUME NEW tr, NEW new, Grew(tr, new), NEW n, NEW b \in Nat, b <= Len(tr)
  PROVE  InnerOps(new, n, b) = InnerOps(tr, n, b) /\ Count(new, n, b) = Count(tr, n, b)
<1>1. \A m \in 1..b : new[m] = tr[m]
  BY DEF Grew
<1>2. InnerOps(new, n, b) = InnerOps(tr, n, b)
  BY <1>1 DEF InnerOps
<1> QED BY <1>2 DEF Count

\* How many vertices an iterator has yielded, by the trace.
LEMMA PositionIs ==
  ASSUME IsTrace(trace), Grew(trace, trace'), NEW n
  PROVE  Position(n) = Count(trace', n, Len(trace))
<1>1. PICK T : trace \in Seq(T)
  BY DEF IsTrace
<1>2. DOMAIN trace = 1..Len(trace) /\ Len(trace) \in Nat
  BY <1>1
<1>3. Inner(n) = InnerOps(trace, n, Len(trace))
  BY <1>2 DEF Inner, InnerOps
<1>4. Count(trace', n, Len(trace)) = Count(trace, n, Len(trace))
  BY <1>2, CountGrows
<1> QED BY <1>3, <1>4 DEF Position, Count

\* The fields of what is recorded.
LEMMA FieldsOf ==
  ASSUME NEW c, NEW n, NEW has, NEW end
  PROVE  /\ LET x == EdgeIt(c, n, has, end) IN
            x.op = "edge" /\ x.ctx = c /\ x.neighbors = n /\ x.hasNeighbors = has /\ x.ended = end
         /\ LET x == RecursiveIt(c, has, n) IN
            x.op = "recursive" /\ x.ctx = c /\ x.base = has /\ x.neighbors = n
BY DEF EdgeIt, RecursiveIt

\* What is recorded when a stage asks for a neighbor, or does not.
LEMMA NeighborRecorded ==
  ASSUME Tapped, NEW i \in 1..Len(stages), RecordNeighbor(i), turn = i
  PROVE  /\ stages' = stages /\ neighbors' = neighbors
         /\ \/ /\ GetsNeighbor(i)
               /\ Grew(trace, trace') /\ Said(trace', Snapshot.read, neighbors[i], "inner")
               /\ trace'[Snapshot.read + 1].value.position = Count(trace', neighbors[i], Snapshot.read)
               /\ trace'[Snapshot.read + 1].value.vertex = Head(inner[i].neighbors)
               /\ turn' = i + 1 /\ Told(stages, trace', Snapshot', Snapshot.read + 1)
            \/ /\ GetsNone(i)
               /\ Grew(trace, trace') /\ Said(trace', Snapshot.read, neighbors[i], "exhausted")
               /\ turn' = i + 1 => Told(stages, trace', Snapshot', Snapshot.read + 1)
               /\ turn' = i => Snapshot'.read = Snapshot.read + 1
            \/ /\ DoesNotAsk(i)
               /\ Grew(trace, trace') /\ Snapshot'.read = Snapshot.read
<1>0. IsTrace(trace) /\ Len(stages) \in Nat
  BY TappedIs
<1>1. stages' = stages /\ neighbors' = neighbors /\ Snapshot.read = Len(trace)
  BY SnapshotIs DEF RecordNeighbor, GetsNeighbor, GetsNone, DoesNotAsk, EdgeNeighbor, EdgeMissing, EdgeEnd,
       RecursiveFirst, RecursiveNeighbor, RecursiveLeaf, RecursiveEnd, InnerAnswers, InnerEnds
<1>2. ASSUME NEW x, Records(<<x>> \o Answers(i))
      PROVE  /\ Grew(trace, trace') /\ Snapshot.read < Len(trace') /\ trace'[Snapshot.read + 1] = x
             /\ turn' = i + 1 => Told(stages, trace', Snapshot', Snapshot.read + 1)
             /\ turn' = i => Snapshot'.read = Snapshot.read + 1
  <2>1. CASE turn' = i + 1
    <3>1. Records(<<x>> \o Input(i + 1))
      BY <1>2, <2>1 DEF Answers
    <3> QED BY <1>0, <1>1, <2>1, <3>1, RecordsBoth
  <2>2. CASE turn' # i + 1
    <3>1. <<x>> \o << >> = <<x>>
      OBVIOUS
    <3>2. Records(<<x>>)
      BY <1>2, <2>2, <3>1 DEF Answers
    <3> QED BY <1>0, <1>1, <2>2, <3>2, RecordsOwn
  <2> QED BY <2>1, <2>2
<1>3. CASE /\ GetsNeighbor(i)
           /\ Records(<<Op(neighbors[i], "inner",
                           [position |-> Position(neighbors[i]), vertex |-> Head(inner[i].neighbors)])>> \o Answers(i))
  <2> DEFINE x == Op(neighbors[i], "inner",
                     [position |-> Position(neighbors[i]), vertex |-> Head(inner[i].neighbors)])
  <2>1. /\ x.parent = neighbors[i] /\ x.kind = "inner" /\ x.value.position = Position(neighbors[i])
        /\ x.value.vertex = Head(inner[i].neighbors)
    BY DEF Op
  <2>2. Records(<<x>> \o Answers(i)) /\ GetsNeighbor(i)
    BY <1>3
  <2> HIDE DEF x
  <2>3. /\ Grew(trace, trace') /\ Snapshot.read < Len(trace') /\ trace'[Snapshot.read + 1] = x
        /\ turn' = i + 1 => Told(stages, trace', Snapshot', Snapshot.read + 1)
    BY <1>2, <2>2
  <2>4. turn' = i + 1
    BY <2>2 DEF GetsNeighbor, EdgeNeighbor, RecursiveFirst, RecursiveNeighbor, InnerAnswers
  <2>5. Position(neighbors[i]) = Count(trace', neighbors[i], Snapshot.read)
    BY <1>0, <1>1, <2>3, PositionIs
  <2>6. Said(trace', Snapshot.read, neighbors[i], "inner")
    BY <2>1, <2>3 DEF Said
  <2> QED BY <1>1, <2>1, <2>2, <2>3, <2>4, <2>5, <2>6
<1>4. CASE GetsNone(i) /\ Records(<<Op(neighbors[i], "exhausted", None)>> \o Answers(i))
  <2> DEFINE x == Op(neighbors[i], "exhausted", None)
  <2>1. x.parent = neighbors[i] /\ x.kind = "exhausted"
    BY DEF Op
  <2>2. Records(<<x>> \o Answers(i))
    BY <1>4
  <2> HIDE DEF x
  <2>3. /\ Grew(trace, trace') /\ Snapshot.read < Len(trace') /\ trace'[Snapshot.read + 1] = x
        /\ turn' = i + 1 => Told(stages, trace', Snapshot', Snapshot.read + 1)
        /\ turn' = i => Snapshot'.read = Snapshot.read + 1
    BY <1>2, <2>2
  <2>6. Said(trace', Snapshot.read, neighbors[i], "exhausted")
    BY <2>1, <2>3 DEF Said
  <2> QED BY <1>1, <1>4, <2>3, <2>6
<1>5. CASE DoesNotAsk(i) /\ Records(<< >>)
  BY <1>0, <1>1, <1>5, RecordsNone
<1> QED BY <1>3, <1>4, <1>5 DEF RecordNeighbor

\* An edge that asks for its next neighbor.
LEMMA EdgeFollows ==
  ASSUME Tapped, NEW i \in 1..Len(stages), RecordNeighbor(i), turn = i, inner[i].op = "edge"
  PROVE  Grew(trace, trace') /\ FollowsAt(stages, trace', Snapshot, Snapshot', i)
<1> DEFINE s == Snapshot
           t == Snapshot'
<1>1. Consumer = Len(stages) + 1 /\ DOMAIN inner = 1..Len(stages) + 1 /\ i \in DOMAIN stages
      /\ i \in 1..Len(stages) + 1
  BY TappedIs
<1>2. stages' = stages /\ neighbors' = neighbors
  BY NeighborRecorded
<1>3. /\ s.ended = ended /\ s.queue = queue /\ t.turn = turn' /\ t.queue = queue' /\ t.ended = ended'
      /\ t.outer = neighbors' /\ s.outer = neighbors /\ s.turn = turn
      /\ s.inner[i] = Filled(inner[i], << >>)
  BY <1>1, <1>2, SnapshotIs, SnapshotNext
<1>4. PICK c \in Context, end \in BOOLEAN : \E n, has :
         inner[i] = EdgeIt(c, n, has, end) /\ (end => n = << >>)
  BY ExpanderIs
<1>5. PICK n, has : inner[i] = EdgeIt(c, n, has, end) /\ (end => n = << >>)
  BY <1>4
<1>6. s.inner[i] = EdgeIt(c, << >>, has, end)
  BY <1>3, <1>5, FilledIs
<1> DEFINE x == s.inner[i]
<1>7. /\ x.op = "edge" /\ x.ctx = c /\ x.hasNeighbors = has /\ x.ended = end
      /\ inner[i].ctx = c /\ inner[i].neighbors = n /\ inner[i].hasNeighbors = has /\ inner[i].ended = end
  BY <1>5, <1>6, FieldsOf
<1>8. Asking(x) <=> ~ end
  BY <1>7 DEF Asking
<1>9. Polls(i) <=> ~ end
  BY <1>1, <1>7 DEF Polls, Runs
<1> HIDE DEF s, t
<1>10. CASE EdgeNeighbor(i)
  <2>1. /\ n # << >> /\ ended' = ended /\ turn' = i + 1
        /\ queue' = [queue EXCEPT ![i + 1] = Append(@, SplitAndMoveToVertex(c, Head(n)))]
        /\ inner' = [inner EXCEPT ![i] = [inner[i] EXCEPT !.neighbors = Tail(@), !.hasNeighbors = TRUE]]
    BY <1>7, <1>10 DEF EdgeNeighbor, InnerAnswers
  <2>2. PICK rest : rest = Tail(n)
    OBVIOUS
  <2>3. inner' = [inner EXCEPT ![i] = [inner[i] EXCEPT !.neighbors = rest, !.hasNeighbors = Yes]]
    <3>1. inner' = [inner EXCEPT ![i] = [inner[i] EXCEPT !.neighbors = rest, !.hasNeighbors = TRUE]]
      BY <1>7, <2>1, <2>2
    <3> QED BY <3>1, Zenon DEF Yes
  <2>4. PICK y : y = inner[i]
    OBVIOUS
  <2>11. [y EXCEPT !.neighbors = rest, !.hasNeighbors = Yes] = EdgeIt(c, rest, Yes, end)
    <3> DEFINE z == [y EXCEPT !.neighbors = rest]
    <3>1. y = EdgeIt(c, n, has, end)
      BY <1>5, <2>4
    <3>2. [y EXCEPT !.neighbors = rest, !.hasNeighbors = Yes] = [z EXCEPT !.hasNeighbors = Yes]
      OBVIOUS
    <3>3. z = EdgeIt(c, rest, has, end)
      BY <3>1, EdgeNeighbors
    <3> HIDE DEF z
    <3>4. [z EXCEPT !.hasNeighbors = Yes] = EdgeIt(c, rest, Yes, end)
      BY <3>3, EdgeHas
    <3> QED BY <3>2, <3>4
  <2>5. inner' = [inner EXCEPT ![i] = EdgeIt(c, rest, Yes, end)]
    BY <2>3, <2>4, <2>11
  <2>6. t.inner = [s.inner EXCEPT ![i] = Filled(EdgeIt(c, rest, Yes, end), << >>)]
    BY <1>1, <1>2, <2>5, InnerNext DEF s, t
  <2>7. t.inner = [s.inner EXCEPT ![i] = EdgeIt(c, << >>, Yes, end)]
    BY <2>6, FilledIs
  <2>8. ~ GetsNone(i) /\ ~ DoesNotAsk(i)
    BY <1>7, <2>1 DEF GetsNone, DoesNotAsk, EdgeMissing, EdgeEnd, RecursiveLeaf, RecursiveEnd, Runs
  <2>9. /\ Grew(trace, trace') /\ Said(trace', s.read, neighbors[i], "inner")
        /\ trace'[s.read + 1].value.position = Count(trace', neighbors[i], s.read)
        /\ trace'[s.read + 1].value.vertex = Head(n)
        /\ Told(stages, trace', t, s.read + 1)
    BY <1>7, <2>8, NeighborRecorded DEF s, t
  <2>12. ~ end
    BY <1>5, <2>1
  <2>13. Answered(s, t, i, SplitAndMoveToVertex(x.ctx, Head(n)), EdgeIt(x.ctx, << >>, Yes, x.ended))
    BY <1>2, <1>3, <1>7, <2>1, <2>7 DEF Answered
  <2>10. Reaches(stages, trace', s, t, i)
    BY <1>1, <1>3, <1>7, <1>8, <2>9, <2>12, <2>13 DEF Reaches
  <2> QED BY <2>9, <2>10 DEF FollowsAt, s, t
<1>11. ASSUME EdgeMissing(i) \/ EdgeEnd(i), Polls(i)
       PROVE  Grew(trace, trace') /\ FollowsAt(stages, trace', Snapshot, Snapshot', i)
  <2>1. n = << >>
    BY <1>7, <1>11 DEF EdgeMissing, EdgeEnd
  <2>2. ~ GetsNeighbor(i) /\ ~ DoesNotAsk(i)
    BY <1>7, <1>11, <2>1 DEF GetsNeighbor, DoesNotAsk, EdgeNeighbor, RecursiveFirst, RecursiveNeighbor
  <2>3. /\ Grew(trace, trace') /\ Said(trace', s.read, neighbors[i], "exhausted")
        /\ turn' = i + 1 => Told(stages, trace', t, s.read + 1)
        /\ turn' = i => t.read = s.read + 1
    BY <2>2, NeighborRecorded DEF s, t
  <2>4. YieldsMissing(i, inner[i]) <=> MissingAt(stages[i], x)
    BY <1>7 DEF YieldsMissing, MissingAt
  <2>5. CASE EdgeMissing(i)
    <3>1. /\ ended' = ended /\ turn' = i + 1 /\ YieldsMissing(i, inner[i])
          /\ queue' = [queue EXCEPT ![i + 1] = Append(@, SplitAndMoveToVertex(c, None))]
          /\ inner' = [inner EXCEPT ![i] = [inner[i] EXCEPT !.ended = TRUE]]
      BY <1>7, <2>5 DEF EdgeMissing, InnerAnswers
    <3>7. PICK y : y = inner[i]
      OBVIOUS
    <3>2. [y EXCEPT !.ended = Yes] = EdgeIt(c, n, has, Yes)
      <4>1. y = EdgeIt(c, n, has, end)
        BY <1>5, <3>7
      <4> QED BY <4>1, EdgeEnded
    <3>8. inner' = [inner EXCEPT ![i] = [inner[i] EXCEPT !.ended = Yes]]
      BY <3>1, Zenon DEF Yes
    <3>3. inner' = [inner EXCEPT ![i] = EdgeIt(c, n, has, Yes)]
      BY <3>2, <3>7, <3>8
    <3>4. t.inner = [s.inner EXCEPT ![i] = Filled(EdgeIt(c, n, has, Yes), << >>)]
      BY <1>1, <1>2, <3>3, InnerNext DEF s, t
    <3>5. t.inner = [s.inner EXCEPT ![i] = EdgeIt(c, << >>, has, Yes)]
      BY <3>4, FilledIs
    <3>6. RunsOut(stages, trace', s, t, i)
      BY <1>1, <1>2, <1>3, <1>7, <1>8, <1>9, <1>11, <2>3, <2>4, <3>1, <3>5 DEF RunsOut, Answered
    <3> QED BY <2>3, <3>6 DEF FollowsAt, s, t
  <2>6. CASE EdgeEnd(i)
    <3>1. /\ ended' = ended /\ turn' = i /\ queue' = queue /\ ~ YieldsMissing(i, inner[i])
          /\ inner' = [inner EXCEPT ![i] = NoIterator]
      BY <2>6 DEF EdgeEnd, InnerEnds
    <3>4. t.inner = [s.inner EXCEPT ![i] = Filled(NoIterator, << >>)]
      BY <1>1, <1>2, <3>1, InnerNext DEF s, t
    <3>5. t.inner = [s.inner EXCEPT ![i] = NoIterator]
      BY <3>4, FilledIs
    <3>6. RunsOut(stages, trace', s, t, i)
      BY <1>1, <1>2, <1>3, <1>7, <1>8, <1>9, <1>11, <2>3, <2>4, <3>1, <3>5 DEF RunsOut, Dropped
    <3> QED BY <2>3, <3>6 DEF FollowsAt, s, t
  <2> QED BY <1>11, <2>5, <2>6
<1>12. ASSUME EdgeEnd(i), ~ Polls(i)
       PROVE  Grew(trace, trace') /\ FollowsAt(stages, trace', Snapshot, Snapshot', i)
  <2>1. /\ n = << >> /\ ended' = ended /\ turn' = i /\ queue' = queue
        /\ inner' = [inner EXCEPT ![i] = NoIterator]
    BY <1>7, <1>12 DEF EdgeEnd, InnerEnds
  <2>2. ~ GetsNeighbor(i) /\ ~ GetsNone(i)
    BY <1>7, <1>12, <2>1 DEF GetsNeighbor, GetsNone, EdgeNeighbor, RecursiveFirst, RecursiveNeighbor
  <2>3. Grew(trace, trace') /\ t.read = s.read
    BY <2>2, NeighborRecorded DEF s, t
  <2>4. t.inner = [s.inner EXCEPT ![i] = Filled(NoIterator, << >>)]
    BY <1>1, <1>2, <2>1, InnerNext DEF s, t
  <2>5. t.inner = [s.inner EXCEPT ![i] = NoIterator]
    BY <2>4, FilledIs
  <2>6. Closes(stages, s, t, i)
    BY <1>1, <1>2, <1>3, <1>7, <1>8, <1>9, <1>12, <2>1, <2>3, <2>5 DEF Closes, Dropped, Expanding
  <2> QED BY <2>3, <2>6 DEF FollowsAt, s, t
<1>13. EdgeNeighbor(i) \/ ((EdgeMissing(i) \/ EdgeEnd(i)) /\ Polls(i)) \/ (EdgeEnd(i) /\ ~ Polls(i))
  BY <1>7, NeighborRecorded DEF GetsNeighbor, GetsNone, DoesNotAsk, RecursiveFirst, RecursiveNeighbor, RecursiveLeaf,
       RecursiveEnd, Runs
<1> QED BY <1>10, <1>11, <1>12, <1>13

\* A recursion that asks for its next neighbor.
LEMMA RecursionFollows ==
  ASSUME Tapped, NEW i \in 1..Len(stages), RecordNeighbor(i), turn = i, inner[i].op = "recursive"
  PROVE  Grew(trace, trace') /\ FollowsAt(stages, trace', Snapshot, Snapshot', i)
<1> DEFINE s == Snapshot
           t == Snapshot'
<1>1. Consumer = Len(stages) + 1 /\ DOMAIN inner = 1..Len(stages) + 1 /\ i \in DOMAIN stages
      /\ i \in 1..Len(stages) + 1
  BY TappedIs
<1>2. stages' = stages /\ neighbors' = neighbors
  BY NeighborRecorded
<1>3. /\ s.ended = ended /\ s.queue = queue /\ t.turn = turn' /\ t.queue = queue' /\ t.ended = ended'
      /\ t.outer = neighbors' /\ s.outer = neighbors /\ s.turn = turn
      /\ s.inner[i] = Filled(inner[i], << >>)
  BY <1>1, <1>2, SnapshotIs, SnapshotNext
<1>4. PICK c \in Context \cup {None}, b \in Context \cup {None} : \E n :
         inner[i] = RecursiveIt(c, b, n) /\ (c = None => n = << >> \/ b # None)
  BY ExpanderIs
<1>5. PICK n : inner[i] = RecursiveIt(c, b, n) /\ (c = None => n = << >> \/ b # None)
  BY <1>4
<1>6. s.inner[i] = RecursiveIt(c, b, << >>)
  BY <1>3, <1>5, FilledIs
<1> DEFINE x == s.inner[i]
<1>7. /\ x.op = "recursive" /\ x.ctx = c /\ x.base = b
      /\ inner[i].ctx = c /\ inner[i].neighbors = n /\ inner[i].base = b
  BY <1>5, <1>6, FieldsOf
<1>8. Asking(x) <=> (c # None \/ b # None)
  BY <1>7 DEF Asking
<1>9. Polls(i) <=> (c # None \/ b # None)
  BY <1>1, <1>7 DEF Polls, Runs
<1> HIDE DEF s, t
<1>10. ASSUME RecursiveFirst(i) \/ RecursiveNeighbor(i)
       PROVE  Grew(trace, trace') /\ FollowsAt(stages, trace', Snapshot, Snapshot', i)
  <2>1. n # << >> /\ turn' = i + 1 /\ ended' = ended
    BY <1>7, <1>10 DEF RecursiveFirst, RecursiveNeighbor, InnerAnswers
  <2>2. PICK rest : rest = Tail(n)
    OBVIOUS
  <2>8. ~ GetsNone(i) /\ ~ DoesNotAsk(i)
    BY <1>7, <2>1 DEF GetsNone, DoesNotAsk, EdgeMissing, EdgeEnd, RecursiveLeaf, RecursiveEnd, Runs
  <2>9. /\ Grew(trace, trace') /\ Said(trace', s.read, neighbors[i], "inner")
        /\ trace'[s.read + 1].value.position = Count(trace', neighbors[i], s.read)
        /\ trace'[s.read + 1].value.vertex = Head(n)
        /\ Told(stages, trace', t, s.read + 1)
    BY <1>7, <2>8, NeighborRecorded DEF s, t
  <2>10. Asking(x)
    BY <1>5, <1>8, <2>1
  <2>11. CASE RecursiveFirst(i)
    <3> DEFINE base == SplitAndMoveToVertex(c, None)
    <3>1. /\ c # None
          /\ queue' = [queue EXCEPT ![i + 1] = Append(@,
                AttachPiggyback(SplitAndMoveToVertex(c, Head(n)), EnsureSuspended(c)))]
          /\ inner' = [inner EXCEPT ![i] = [inner[i] EXCEPT !.neighbors = Tail(@), !.ctx = None, !.base = base]]
      BY <1>7, <2>11 DEF RecursiveFirst, InnerAnswers
    <3> HIDE DEF base
    <3>2. inner' = [inner EXCEPT ![i] = [inner[i] EXCEPT !.neighbors = rest, !.ctx = None, !.base = base]]
      BY <1>7, <2>2, <3>1
    <3>8. PICK y : y = inner[i]
      OBVIOUS
    <3>3. [y EXCEPT !.neighbors = rest, !.ctx = None, !.base = base] = RecursiveIt(None, base, rest)
      <4> DEFINE w == [y EXCEPT !.neighbors = rest]
                 z == [w EXCEPT !.ctx = None]
      <4>1. y = RecursiveIt(c, b, n)
        BY <1>5, <3>8
      <4>2. [y EXCEPT !.neighbors = rest, !.ctx = None, !.base = base] = [z EXCEPT !.base = base]
        OBVIOUS
      <4>3. w = RecursiveIt(c, b, rest)
        BY <4>1, RecursiveNeighbors
      <4> HIDE DEF w
      <4>4. z = RecursiveIt(None, b, rest)
        BY <4>3, RecursiveCtx
      <4> HIDE DEF z
      <4>5. [z EXCEPT !.base = base] = RecursiveIt(None, base, rest)
        BY <4>4, RecursiveBase
      <4> QED BY <4>2, <4>5
    <3>4. inner' = [inner EXCEPT ![i] = RecursiveIt(None, base, rest)]
      BY <3>2, <3>3, <3>8
    <3>5. t.inner = [s.inner EXCEPT ![i] = Filled(RecursiveIt(None, base, rest), << >>)]
      BY <1>1, <1>2, <3>4, InnerNext DEF s, t
    <3>6. t.inner = [s.inner EXCEPT ![i] = RecursiveIt(None, base, << >>)]
      BY <3>5, FilledIs
    <3>7. Reaches(stages, trace', s, t, i)
      BY <1>1, <1>2, <1>3, <1>7, <2>1, <2>9, <2>10, <3>1, <3>6 DEF Reaches, Answered, base
    <3> QED BY <2>9, <3>7 DEF FollowsAt, s, t
  <2>12. CASE RecursiveNeighbor(i)
    <3>1. /\ c = None
          /\ queue' = [queue EXCEPT ![i + 1] = Append(@, SplitAndMoveToVertex(b, Head(n)))]
          /\ inner' = [inner EXCEPT ![i] = [inner[i] EXCEPT !.neighbors = Tail(@)]]
      BY <1>7, <2>12 DEF RecursiveNeighbor, InnerAnswers
    <3>2. inner' = [inner EXCEPT ![i] = [inner[i] EXCEPT !.neighbors = rest]]
      BY <1>7, <2>2, <3>1
    <3>3. [inner[i] EXCEPT !.neighbors = rest] = RecursiveIt(c, b, rest)
      BY <1>5, RecursiveNeighbors
    <3>4. inner' = [inner EXCEPT ![i] = RecursiveIt(c, b, rest)]
      BY <3>2, <3>3
    <3>5. t.inner = [s.inner EXCEPT ![i] = Filled(RecursiveIt(c, b, rest), << >>)]
      BY <1>1, <1>2, <3>4, InnerNext DEF s, t
    <3>6. t.inner = [s.inner EXCEPT ![i] = x]
      BY <1>6, <3>5, FilledIs
    <3>7. Reaches(stages, trace', s, t, i)
      BY <1>1, <1>2, <1>3, <1>7, <2>1, <2>9, <2>10, <3>1, <3>6 DEF Reaches, Answered
    <3> QED BY <2>9, <3>7 DEF FollowsAt, s, t
  <2> QED BY <1>10, <2>11, <2>12
<1>11. ASSUME RecursiveLeaf(i) \/ RecursiveEnd(i), Polls(i)
       PROVE  Grew(trace, trace') /\ FollowsAt(stages, trace', Snapshot, Snapshot', i)
  <2>1. n = << >>
    BY <1>7, <1>11 DEF RecursiveLeaf, RecursiveEnd
  <2>2. ~ GetsNeighbor(i) /\ ~ DoesNotAsk(i)
    BY <1>7, <1>11, <2>1 DEF GetsNeighbor, DoesNotAsk, EdgeNeighbor, RecursiveFirst, RecursiveNeighbor
  <2>3. /\ Grew(trace, trace') /\ Said(trace', s.read, neighbors[i], "exhausted")
        /\ turn' = i + 1 => Told(stages, trace', t, s.read + 1)
        /\ turn' = i => t.read = s.read + 1
    BY <2>2, NeighborRecorded DEF s, t
  <2>5. CASE RecursiveLeaf(i)
    <3>1. /\ ended' = ended /\ turn' = i + 1 /\ c # None
          /\ queue' = [queue EXCEPT ![i + 1] = Append(@, c)]
          /\ inner' = [inner EXCEPT ![i] = [inner[i] EXCEPT !.ctx = None]]
      BY <1>7, <2>5 DEF RecursiveLeaf, InnerAnswers
    <3>2. [inner[i] EXCEPT !.ctx = None] = RecursiveIt(None, b, n)
      BY <1>5, RecursiveCtx
    <3>3. inner' = [inner EXCEPT ![i] = RecursiveIt(None, b, n)]
      BY <3>1, <3>2
    <3>4. t.inner = [s.inner EXCEPT ![i] = Filled(RecursiveIt(None, b, n), << >>)]
      BY <1>1, <1>2, <3>3, InnerNext DEF s, t
    <3>5. t.inner = [s.inner EXCEPT ![i] = RecursiveIt(None, b, << >>)]
      BY <3>4, FilledIs
    <3>6. RunsOut(stages, trace', s, t, i)
      BY <1>1, <1>2, <1>3, <1>7, <1>8, <1>9, <1>11, <2>3, <3>1, <3>5 DEF RunsOut, Answered
    <3> QED BY <2>3, <3>6 DEF FollowsAt, s, t
  <2>6. CASE RecursiveEnd(i)
    <3>1. /\ ended' = ended /\ turn' = i /\ queue' = queue /\ c = None
          /\ inner' = [inner EXCEPT ![i] = NoIterator]
      BY <1>7, <2>6 DEF RecursiveEnd, InnerEnds
    <3>4. t.inner = [s.inner EXCEPT ![i] = Filled(NoIterator, << >>)]
      BY <1>1, <1>2, <3>1, InnerNext DEF s, t
    <3>5. t.inner = [s.inner EXCEPT ![i] = NoIterator]
      BY <3>4, FilledIs
    <3>6. RunsOut(stages, trace', s, t, i)
      BY <1>1, <1>2, <1>3, <1>7, <1>8, <1>9, <1>11, <2>3, <3>1, <3>5 DEF RunsOut, Dropped
    <3> QED BY <2>3, <3>6 DEF FollowsAt, s, t
  <2> QED BY <1>11, <2>5, <2>6
<1>12. ASSUME RecursiveEnd(i), ~ Polls(i)
       PROVE  Grew(trace, trace') /\ FollowsAt(stages, trace', Snapshot, Snapshot', i)
  <2>1. /\ n = << >> /\ ended' = ended /\ turn' = i /\ queue' = queue
        /\ inner' = [inner EXCEPT ![i] = NoIterator]
    BY <1>7, <1>12 DEF RecursiveEnd, InnerEnds
  <2>2. ~ GetsNeighbor(i) /\ ~ GetsNone(i)
    BY <1>7, <1>12, <2>1 DEF GetsNeighbor, GetsNone, EdgeNeighbor, RecursiveFirst, RecursiveNeighbor
  <2>3. Grew(trace, trace') /\ t.read = s.read
    BY <2>2, NeighborRecorded DEF s, t
  <2>4. t.inner = [s.inner EXCEPT ![i] = Filled(NoIterator, << >>)]
    BY <1>1, <1>2, <2>1, InnerNext DEF s, t
  <2>5. t.inner = [s.inner EXCEPT ![i] = NoIterator]
    BY <2>4, FilledIs
  <2>6. Closes(stages, s, t, i)
    BY <1>1, <1>2, <1>3, <1>7, <1>8, <1>9, <1>12, <2>1, <2>3, <2>5 DEF Closes, Dropped, Expanding
  <2> QED BY <2>3, <2>6 DEF FollowsAt, s, t
<1>13. \/ RecursiveFirst(i) \/ RecursiveNeighbor(i)
       \/ (RecursiveLeaf(i) \/ RecursiveEnd(i)) /\ Polls(i)
       \/ RecursiveEnd(i) /\ ~ Polls(i)
  BY <1>7, NeighborRecorded DEF GetsNeighbor, GetsNone, DoesNotAsk, EdgeNeighbor, EdgeMissing, EdgeEnd, Runs
<1> QED BY <1>10, <1>11, <1>12, <1>13

-----------------------------------------------------------------------------

\* A step that is recorded, but for the last.
RecordStep ==
  \/ RecordStartingVertices
  \/ \E i \in 1..Consumer :
       RecordPull(i) \/ RecordEnd(i) \/ RecordAnswer(i) \/ RecordOuter(i) \/ RecordNeighbor(i) \/ RecordOther(i)

\* A recorded step relates the snapshot before it to the one after it.
LEMMA StepFollows ==
  ASSUME Tapped, RecordStep
  PROVE  /\ Grew(trace, trace') /\ Follows(stages, trace', Snapshot, Snapshot')
         /\ stages' = stages /\ mode' = mode /\ awaiting' = awaiting /\ [Next]_vars
<1>0. Consumer = Len(stages) + 1 /\ Len(stages) \in Nat /\ DOMAIN stages = 1..Len(stages) /\ Snapshot.turn = turn
  BY TappedIs, SnapshotIs
<1>1. CASE RecordStartingVertices
  <2>1. turn = 0 /\ stages' = stages /\ mode' = mode /\ awaiting' = awaiting /\ [Next]_vars
    BY <1>1 DEF RecordStartingVertices, ResolveStartingVertices, Records, Next
  <2> QED BY <1>0, <1>1, <2>1, SourceFollows DEF Follows
<1>2. ASSUME NEW i \in 1..Consumer,
             RecordPull(i) \/ RecordEnd(i) \/ RecordAnswer(i) \/ RecordOuter(i) \/ RecordNeighbor(i) \/ RecordOther(i)
      PROVE  /\ Grew(trace, trace') /\ Follows(stages, trace', Snapshot, Snapshot')
             /\ stages' = stages /\ mode' = mode /\ awaiting' = awaiting /\ [Next]_vars
  <2>1. i # 0 /\ i \in 1..Len(stages) + 1
    BY <1>0
  <2>2. /\ mode' = mode /\ awaiting' = awaiting
        /\ Step(i)
    BY <1>2 DEF RecordPull, RecordEnd, RecordAnswer, RecordOuter, RecordNeighbor, RecordOther, GetsNeighbor, GetsNone,
         DoesNotAsk, Records, Step
  <2>3. stages' = stages /\ turn = i
    BY <2>2 DEF Step, Pull, End, Record, Activate, Keep, Drop, CoerceDeeper, Expand, EdgeNeighbor, EdgeMissing, EdgeEnd,
         RecursiveFirst, RecursiveNeighbor, RecursiveLeaf, RecursiveEnd, Unpack, UnpackEnd, Takes, Runs, InnerAnswers,
         InnerEnds
  <2>4. [Next]_vars
    BY <2>2 DEF Next
  <2>5. ASSUME RecordNeighbor(i)
        PROVE  Grew(trace, trace') /\ FollowsAt(stages, trace', Snapshot, Snapshot', i)
    <3>1. i \in DOMAIN stages /\ (inner[i].op = "edge" \/ inner[i].op = "recursive")
      BY <2>5 DEF RecordNeighbor, GetsNeighbor, GetsNone, DoesNotAsk, EdgeNeighbor, EdgeMissing, EdgeEnd,
           RecursiveFirst, RecursiveNeighbor, RecursiveLeaf, RecursiveEnd, Runs
    <3> QED BY <1>0, <2>3, <2>5, <3>1, EdgeFollows, RecursionFollows
  <2>6. Grew(trace, trace') /\ FollowsAt(stages, trace', Snapshot, Snapshot', i)
    <3>1. CASE RecordPull(i)
      BY <3>1, PullFollows DEF FollowsAt
    <3>2. CASE RecordEnd(i)
      BY <3>2, EndFollows DEF FollowsAt
    <3> QED BY <1>2, <2>5, <3>1, <3>2, AnswerFollows, OuterFollows, OtherFollows
  <2> QED BY <1>0, <2>1, <2>2, <2>3, <2>4, <2>6 DEF Follows
<1> QED BY <1>1, <1>2 DEF RecordStep

-----------------------------------------------------------------------------
(* What a step does.                                                       *)

OwnKinds == {"starting", "advance", "exhausted", "yieldFrom", "outer", "inner"}

\* The operation of a step's own, after b operations.
OwnIs(S, tr, s, t, b) ==
  /\ b < Len(tr) /\ tr[b + 1].kind \in OwnKinds
  /\ tr[b + 1].kind = "inner" => Reaches(S, tr, s, t, s.turn)
  /\ tr[b + 1].kind = "exhausted" =>
       RunsOut(S, tr, s, t, s.turn) \/ (tr[b + 1].parent = CallAt(S, s.turn) /\ s.turn \in 0..Len(S))

\* The next stage is given something, or nothing is.
Goes(S, tr, s, t, b) ==
  LET i == s.turn IN
  \/ /\ i \in 0..Len(S) /\ t.turn = i + 1 /\ Told(S, tr, t, b)
     /\ \/ t.ended[i + 1] /\ t.queue[i + 1] = s.queue[i + 1]
        \/ ~ t.ended[i + 1] /\ \E ctx : t.queue[i + 1] = Append(s.queue[i + 1], ctx)
  \/ /\ i \in 1..Len(S) + 1 /\ t.read = b
     /\ (t.turn = i /\ i \in 1..Len(S)) \/ (t.turn = i - 1 /\ t.inner[i] = NoIterator)
     /\ i # Len(S) + 1 => t.queue[Len(S) + 1] = s.queue[Len(S) + 1]
     /\ i = Len(S) + 1 => t.queue = s.queue

Progress(S, tr, s, t) ==
  LET i == s.turn IN
  /\ \/ OwnIs(S, tr, s, t, s.read) /\ Goes(S, tr, s, t, s.read + 1)
     \/ Goes(S, tr, s, t, s.read)
  /\ \A j \in 1..Len(S) + 1 : j # i => t.inner[j] = s.inner[j]
  /\ \A j \in 1..Len(S) + 1 : j # i /\ j # i + 1 => t.queue[j] = s.queue[j]
  /\ \/ Opens(S, tr, s, t, i)
     \/ /\ t.outer = s.outer
        /\ Expanding(t.inner[i]) => Expanding(s.inner[i])
        /\ Asking(t.inner[i]) => Asking(s.inner[i])

\* A context handed on.
LEMMA HandsGo ==
  ASSUME NEW S \in Seq(Stage), NEW tr, NEW s, NEW t, StateTyped(S, s), NEW b, NEW i \in 1..Len(S), NEW ctx,
         s.turn = i, ~ s.ended[i + 1], Hands(s, t, i, ctx), Told(S, tr, t, b)
  PROVE  Goes(S, tr, s, t, b)
<1>1. Len(S) \in Nat /\ i # i + 1 /\ i + 1 \in 1..Len(S) + 1 /\ i \in 0..Len(S)
  OBVIOUS
<1>2. DOMAIN s.queue = 1..Len(S) + 1
  BY DEF StateTyped
<1>3. t.queue = [s.queue EXCEPT ![i] = Tail(@), ![i + 1] = Append(@, ctx)] /\ t.turn = i + 1 /\ t.ended = s.ended
  BY DEF Hands
<1>4. t.queue[i + 1] = Append(s.queue[i + 1], ctx)
  BY <1>1, <1>2, <1>3
<1> QED BY <1>1, <1>3, <1>4 DEF Goes

\* A context that an iterator hands on.
LEMMA AnsweredGo ==
  ASSUME NEW S \in Seq(Stage), NEW tr, NEW s, NEW t, StateTyped(S, s), NEW b, NEW i \in 1..Len(S), NEW ctx, NEW x,
         s.turn = i, ~ s.ended[i + 1], Answered(s, t, i, ctx, x), Told(S, tr, t, b)
  PROVE  Goes(S, tr, s, t, b)
<1>1. Len(S) \in Nat /\ i + 1 \in 1..Len(S) + 1 /\ i \in 0..Len(S)
  OBVIOUS
<1>2. DOMAIN s.queue = 1..Len(S) + 1
  BY DEF StateTyped
<1>3. t.queue = [s.queue EXCEPT ![i + 1] = Append(@, ctx)] /\ t.turn = i + 1 /\ t.ended = s.ended
  BY DEF Answered
<1>4. t.queue[i + 1] = Append(s.queue[i + 1], ctx)
  BY <1>1, <1>2, <1>3
<1> QED BY <1>1, <1>3, <1>4 DEF Goes

\* An iterator that is left.
LEMMA DroppedGo ==
  ASSUME NEW S \in Seq(Stage), NEW tr, NEW s, NEW t, NEW b, NEW i \in 1..Len(S),
         s.turn = i, Dropped(s, t, i), t.read = b
  PROVE  Goes(S, tr, s, t, b)
<1>1. Len(S) \in Nat /\ i \in 1..Len(S) + 1
  OBVIOUS
<1>3. t.queue = s.queue /\ t.turn = i
  BY DEF Dropped
<1> QED BY <1>1, <1>3 DEF Goes

\* Only an iterator over neighbors asks for one.
LEMMA IteratorsAsk ==
  /\ ~ Expanding(NoIterator) /\ ~ Asking(NoIterator)
  /\ \A cs : ~ Expanding(UnpackIt(cs)) /\ ~ Asking(UnpackIt(cs))
  /\ \A c, n, has : ~ Asking(EdgeIt(c, n, has, Yes))
  /\ \A n : ~ Asking(RecursiveIt(None, None, n))
  /\ \A x : Asking(x) => Expanding(x)
<1>1. Yes
  BY DEF Yes
<1> QED BY <1>1 DEF Expanding, Asking, NoIterator, UnpackIt, EdgeIt, RecursiveIt

\* Whatever follows is progress: the turn moves by a stage at most, the trace is not unread.
LEMMA Progresses ==
  ASSUME NEW S \in Seq(Stage), NEW tr, NEW s, NEW t, StateOK(S, tr, s), Follows(S, tr, s, t)
  PROVE  Progress(S, tr, s, t)
<1>02. PICK i : i = s.turn
  OBVIOUS
<1>03. PICK b : b = s.read
  OBVIOUS
<1>0. /\ Len(S) \in Nat /\ DOMAIN S = 1..Len(S) /\ StateTyped(S, s) /\ i \in 0..Len(S) + 1
      /\ \A j \in 1..Len(S) + 1 : i < j => s.inner[j] = NoIterator /\ ~ s.ended[j]
      /\ DOMAIN s.queue = 1..Len(S) + 1 /\ DOMAIN s.ended = 1..Len(S) + 1 /\ b \in Nat
  BY <1>02, <1>03 DEF StateOK, StateTyped
<1>04. DOMAIN s.inner = 1..Len(S) + 1
  <2>1. s.inner = [j \in 1..Len(S) + 1 |-> s.inner[j]]
    BY <1>0 DEF StateTyped
  <2> QED BY <2>1
<1>01. i \in 1..Len(S) => ~ s.ended[i + 1] /\ i + 1 \in 1..Len(S) + 1 /\ i # i + 1
  BY <1>0
<1>1. CASE i = 0
  <2>1. Starts(S, tr, s, t)
    BY <1>1, <1>02 DEF Follows
  <2>2. t.turn = 1 /\ t.inner = s.inner /\ t.outer = s.outer /\ Told(S, tr, t, b + 1)
    BY <1>03, <2>1 DEF Starts
  <2>3. OwnIs(S, tr, s, t, b)
    BY <1>0, <1>1, <1>02, <1>03, <2>1 DEF Starts, OwnIs, Said, OwnKinds
  <2>4. 1 \in 1..Len(S) + 1 /\ ~ s.ended[1] /\ 0 + 1 = 1 /\ 0 \in 0..Len(S)
    BY <1>0, <1>1
  <2>5. \/ t.ended[1] /\ t.queue[1] = s.queue[1]
        \/ ~ t.ended[1] /\ \E ctx : t.queue[1] = Append(s.queue[1], ctx)
    BY <1>0, <2>1, <2>4 DEF Starts
  <2>6. \A j \in 1..Len(S) + 1 : j # 1 => t.queue[j] = s.queue[j]
    BY <1>0, <2>1, <2>4 DEF Starts
  <2>7. Goes(S, tr, s, t, b + 1)
    BY <1>1, <1>02, <2>2, <2>4, <2>5 DEF Goes
  <2> QED BY <1>1, <1>02, <1>03, <2>2, <2>3, <2>4, <2>6, <2>7 DEF Progress
<1>2. CASE i # 0
  <2>0. FollowsAt(S, tr, s, t, i) /\ i \in 1..Len(S) + 1
    BY <1>0, <1>2, <1>02 DEF Follows
  <2>1. CASE Pulls(S, tr, s, t, i)
    <3>1. /\ t.turn = i - 1 /\ s.inner[i] = NoIterator
          /\ t.queue = s.queue /\ t.ended = s.ended /\ t.inner = s.inner /\ t.outer = s.outer
      BY <2>1 DEF Pulls, Free
    <3>2. \/ OwnIs(S, tr, s, t, b) /\ t.read = b + 1
          \/ t.read = b
      BY <2>1, <1>03 DEF Pulls, OwnIs, Said, OwnKinds
    <3>3. ASSUME NEW c, t.read = c PROVE Goes(S, tr, s, t, c)
      BY <2>0, <3>1, <3>3, <1>02 DEF Goes
    <3>4. \/ OwnIs(S, tr, s, t, b) /\ Goes(S, tr, s, t, b + 1)
          \/ Goes(S, tr, s, t, b)
      BY <3>2, <3>3
    <3> QED BY <3>1, <3>4, <1>02, <1>03 DEF Progress
  <2>2. CASE Ends(S, tr, s, t, i)
    <3>1. /\ t.turn = i + 1 /\ i \in 1..Len(S)
          /\ t.queue = s.queue /\ t.ended = [s.ended EXCEPT ![i + 1] = TRUE] /\ t.inner = s.inner /\ t.outer = s.outer
      BY <1>0, <2>2 DEF Ends, Free
    <3>2. \/ OwnIs(S, tr, s, t, b) /\ Told(S, tr, t, b + 1)
          \/ Told(S, tr, t, b)
      BY <1>0, <2>2, <3>1, <1>02, <1>03 DEF Ends, OwnIs, Said, OwnKinds
    <3>3. ASSUME NEW c, Told(S, tr, t, c) PROVE Goes(S, tr, s, t, c)
      <4>1. t.ended[i + 1] /\ i \in 0..Len(S)
        BY <1>0, <1>01, <3>1
      <4> QED BY <3>1, <3>3, <4>1, <1>02 DEF Goes
    <3>4. \/ OwnIs(S, tr, s, t, b) /\ Goes(S, tr, s, t, b + 1)
          \/ Goes(S, tr, s, t, b)
      BY <3>2, <3>3
    <3> QED BY <3>1, <3>4, <1>02, <1>03 DEF Progress
  <2>3. CASE Moves(S, tr, s, t, i)
    <3>1. PICK ctx : Hands(s, t, i, ctx) /\ i \in 1..Len(S) /\ Told(S, tr, t, b)
      BY <1>0, <2>3, <1>03 DEF Moves, OpAt
    <3>2. Goes(S, tr, s, t, b)
      BY <1>0, <1>01, <3>1, HandsGo, <1>02
    <3>3. \A j \in 1..Len(S) + 1 : j # i /\ j # i + 1 => t.queue[j] = s.queue[j]
      BY <1>0, <3>1 DEF Hands
    <3> QED BY <1>02, <1>03, <3>1, <3>2, <3>3 DEF Progress, Hands
  <2>4. CASE Coerced(S, tr, s, t, i) \/ (Checked(S, tr, s, t, i) /\ tr[b + 1].value.outcome)
    <3>1. PICK ctx : Hands(s, t, i, ctx) /\ i \in 1..Len(S) /\ Told(S, tr, t, b + 1)
      BY <1>0, <2>4, <1>03 DEF Checked, Coerced, OpAt
    <3>2. Goes(S, tr, s, t, b + 1)
      BY <1>0, <1>01, <3>1, HandsGo, <1>02
    <3>4. \A j \in 1..Len(S) + 1 : j # i /\ j # i + 1 => t.queue[j] = s.queue[j]
      BY <1>0, <3>1 DEF Hands
    <3>3. OwnIs(S, tr, s, t, b)
      BY <2>4, <1>03 DEF Checked, Coerced, OwnIs, Said, OwnKinds
    <3> QED BY <3>1, <3>2, <3>3, <3>4, <1>02, <1>03 DEF Progress, Hands
  <2>5. CASE Checked(S, tr, s, t, i) /\ ~ tr[b + 1].value.outcome
    <3>1. /\ t.turn = i /\ t.queue = [s.queue EXCEPT ![i] = Tail(@)] /\ i \in 1..Len(S)
          /\ t.inner = s.inner /\ t.outer = s.outer /\ t.read = b + 1
      BY <1>0, <2>5, <1>03 DEF Checked, OpAt
    <3>2. \A j \in 1..Len(S) + 1 : j # i => t.queue[j] = s.queue[j]
      BY <1>0, <3>1
    <3>3. OwnIs(S, tr, s, t, b)
      BY <2>5, <1>03 DEF Checked, OwnIs, Said, OwnKinds
    <3>4. i # Len(S) + 1 /\ Len(S) + 1 \in 1..Len(S) + 1 /\ i \in 1..Len(S) + 1
      BY <1>0, <3>1
    <3>5. Goes(S, tr, s, t, b + 1)
      BY <3>1, <3>2, <3>4, <1>02 DEF Goes
    <3> QED BY <3>1, <3>2, <3>3, <3>5, <1>02, <1>03 DEF Progress
  <2>6. CASE Opens(S, tr, s, t, i) \/ Unpacks(S, s, t, i)
    <3>1. PICK x : Begins(s, t, i, x) /\ i \in 1..Len(S)
      BY <1>0, <2>6 DEF Opens, Unpacks, OpAt
    <3>2. /\ t.turn = i /\ t.queue = [s.queue EXCEPT ![i] = Tail(@)] /\ t.inner = [s.inner EXCEPT ![i] = x]
      BY <3>1 DEF Begins
    <3>3. \A j \in 1..Len(S) + 1 : j # i => t.queue[j] = s.queue[j]
      BY <1>0, <3>1, <3>2
    <3>4. i # Len(S) + 1 /\ Len(S) + 1 \in 1..Len(S) + 1 /\ i \in 1..Len(S) + 1
      BY <1>0, <3>1
    <3>5. ASSUME NEW c, t.read = c PROVE Goes(S, tr, s, t, c)
      BY <3>1, <3>2, <3>3, <3>4, <3>5, <1>02 DEF Goes
    <3>6. DOMAIN s.inner = 1..Len(S) + 1
      <4>1. s.inner = [j \in 1..Len(S) + 1 |-> s.inner[j]]
        BY <1>0 DEF StateTyped
      <4> QED BY <4>1
    <3>7. \A j \in 1..Len(S) + 1 : j # i => t.inner[j] = s.inner[j]
      BY <3>2, <3>6
    <3>8. CASE Opens(S, tr, s, t, i)
      <4>1. OwnIs(S, tr, s, t, b) /\ t.read = b + 1
        BY <3>8, <1>03 DEF Opens, OwnIs, Said, OwnKinds
      <4> QED BY <3>3, <3>5, <3>7, <3>8, <4>1, <1>02, <1>03 DEF Progress
    <3>9. CASE Unpacks(S, s, t, i)
      <4>1. t.read = b /\ t.outer = s.outer /\ t.inner = [s.inner EXCEPT ![i] = UnpackIt(UnpackPiggyback(Head(s.queue[i])))]
        BY <3>9, <1>03 DEF Unpacks, Begins
      <4>2. ~ Expanding(t.inner[i]) /\ ~ Asking(t.inner[i])
        BY <3>4, <3>6, <4>1, IteratorsAsk
      <4> QED BY <3>3, <3>5, <3>7, <4>1, <4>2, <1>02, <1>03 DEF Progress
    <3> QED BY <2>6, <3>8, <3>9
  <2>10. ASSUME NEW ctx, NEW x, NEW c, i \in 1..Len(S), Answered(s, t, i, ctx, x), Told(S, tr, t, c)
         PROVE  /\ Goes(S, tr, s, t, c)
                /\ \A j \in 1..Len(S) + 1 : j # i /\ j # i + 1 => t.queue[j] = s.queue[j]
                /\ \A j \in 1..Len(S) + 1 : j # i => t.inner[j] = s.inner[j]
                /\ t.inner[i] = x /\ t.outer = s.outer
    <3>1. Goes(S, tr, s, t, c)
      BY <1>0, <1>01, <1>02, <2>10, AnsweredGo
    <3>2. \A j \in 1..Len(S) + 1 : j # i /\ j # i + 1 => t.queue[j] = s.queue[j]
      BY <1>0, <2>10 DEF Answered
    <3>3. \A j \in 1..Len(S) + 1 : j # i => t.inner[j] = s.inner[j]
      BY <1>04, <2>10 DEF Answered
    <3>4. t.inner[i] = x
      BY <1>0, <1>04, <2>10 DEF Answered
    <3> QED BY <2>10, <3>1, <3>2, <3>3, <3>4 DEF Answered
  <2>11. ASSUME NEW c, i \in 1..Len(S), Dropped(s, t, i), t.read = c
         PROVE  /\ Goes(S, tr, s, t, c)
                /\ t.queue = s.queue
                /\ \A j \in 1..Len(S) + 1 : j # i => t.inner[j] = s.inner[j]
                /\ t.inner[i] = NoIterator /\ t.outer = s.outer
    <3>1. Goes(S, tr, s, t, c)
      BY <1>02, <2>11, DroppedGo
    <3>2. \A j \in 1..Len(S) + 1 : j # i => t.inner[j] = s.inner[j]
      BY <1>04, <2>11 DEF Dropped
    <3>3. t.inner[i] = NoIterator
      BY <1>0, <1>04, <2>11 DEF Dropped
    <3> QED BY <2>11, <3>1, <3>2, <3>3 DEF Dropped
  <2>7. CASE Reaches(S, tr, s, t, i)
    <3>1. /\ i \in 1..Len(S) /\ Told(S, tr, t, b + 1) /\ Asking(s.inner[i])
          /\ \E ctx, x : Answered(s, t, i, ctx, x)
      BY <1>0, <1>03, <2>7 DEF Reaches
    <3>2. /\ Goes(S, tr, s, t, b + 1) /\ t.outer = s.outer
          /\ \A j \in 1..Len(S) + 1 : j # i /\ j # i + 1 => t.queue[j] = s.queue[j]
          /\ \A j \in 1..Len(S) + 1 : j # i => t.inner[j] = s.inner[j]
      BY <2>10, <3>1
    <3>5. OwnIs(S, tr, s, t, b)
      BY <2>7, <1>02, <1>03 DEF Reaches, OwnIs, Said, OwnKinds
    <3>6. Expanding(s.inner[i])
      BY <3>1, IteratorsAsk
    <3> QED BY <1>02, <1>03, <3>1, <3>2, <3>5, <3>6 DEF Progress
  <2>8. CASE RunsOut(S, tr, s, t, i)
    <3>1. i \in 1..Len(S) /\ Asking(s.inner[i]) /\ OwnIs(S, tr, s, t, b)
      BY <1>0, <1>02, <1>03, <2>8 DEF RunsOut, OwnIs, Said, OwnKinds
    <3>2. \/ \E ctx, x : Answered(s, t, i, ctx, x) /\ Told(S, tr, t, b + 1)
          \/ Dropped(s, t, i) /\ t.read = b + 1
      BY <1>03, <2>8 DEF RunsOut
    <3>3. Expanding(s.inner[i])
      BY <3>1, IteratorsAsk
    <3>4. /\ Goes(S, tr, s, t, b + 1) /\ t.outer = s.outer
          /\ \A j \in 1..Len(S) + 1 : j # i /\ j # i + 1 => t.queue[j] = s.queue[j]
          /\ \A j \in 1..Len(S) + 1 : j # i => t.inner[j] = s.inner[j]
      BY <2>10, <2>11, <3>1, <3>2
    <3> QED BY <1>02, <1>03, <3>1, <3>3, <3>4 DEF Progress
  <2>9. CASE Closes(S, s, t, i) \/ Rides(S, tr, s, t, i)
    <3>1. /\ i \in 1..Len(S)
          /\ \/ \E ctx, cs : Answered(s, t, i, ctx, UnpackIt(cs)) /\ Told(S, tr, t, b)
             \/ Dropped(s, t, i) /\ t.read = b
      BY <1>0, <1>03, <2>9 DEF Closes, Rides
    <3>2. /\ Goes(S, tr, s, t, b) /\ t.outer = s.outer
          /\ \A j \in 1..Len(S) + 1 : j # i /\ j # i + 1 => t.queue[j] = s.queue[j]
          /\ \A j \in 1..Len(S) + 1 : j # i => t.inner[j] = s.inner[j]
          /\ t.inner[i] = NoIterator \/ \E cs : t.inner[i] = UnpackIt(cs)
      BY <2>10, <2>11, <3>1
    <3>3. ~ Expanding(t.inner[i]) /\ ~ Asking(t.inner[i])
      BY <3>2, IteratorsAsk
    <3> QED BY <1>02, <1>03, <3>2, <3>3 DEF Progress
  <2> QED BY <2>0, <2>1, <2>2, <2>3, <2>4, <2>5, <2>6, <2>7, <2>8, <2>9 DEF FollowsAt
<1> QED BY <1>1, <1>2

\* What is recorded after the operation of a step's own.
LEMMA GoesOps ==
  ASSUME NEW S, NEW tr, NEW s, NEW t, NEW c \in Nat, Len(tr) \in Nat, c <= Len(tr), Goes(S, tr, s, t, c)
  PROVE  /\ t.read \in Nat /\ c <= t.read /\ t.read <= Len(tr)
         /\ \A m \in Nat : c < m /\ m <= t.read =>
              /\ m = t.read /\ t.turn = s.turn + 1 /\ ~ Silent(S, t) /\ tr[m] = Given(S, t)
<1>1. CASE t.read = c
  BY <1>1
<1>2. CASE t.read # c
  <2>1. Told(S, tr, t, c) /\ t.turn = s.turn + 1
    BY <1>2 DEF Goes
  <2>2. ~ Silent(S, t) /\ t.read = c + 1 /\ c < Len(tr) /\ tr[c + 1] = Given(S, t)
    BY <1>2, <2>1 DEF Told
  <2>3. \A m \in Nat : c < m /\ m <= c + 1 => m = c + 1
    OBVIOUS
  <2> QED BY <2>1, <2>2, <2>3
<1> QED BY <1>1, <1>2

\* What a stage is given is no operation of its own.
LEMMA GivenKind ==
  ASSUME NEW S, NEW t
  PROVE  /\ Given(S, t).kind \notin OwnKinds
         /\ t.turn = Len(S) + 1 => Given(S, t).kind = "result"
         /\ t.turn # Len(S) + 1 => Given(S, t).kind # "result"
BY DEF Given, Op, OwnKinds

\* Between two snapshots there are at most two operations.
LEMMA NewOps ==
  ASSUME NEW S \in Seq(Stage), NEW tr, IsTrace(tr), NEW s, NEW t, StateOK(S, tr, s), Progress(S, tr, s, t)
  PROVE  /\ t.read \in Nat /\ s.read <= t.read /\ t.read <= Len(tr)
         /\ \A m \in Nat : s.read < m /\ m <= t.read /\ tr[m].kind \in OwnKinds =>
              m = s.read + 1 /\ OwnIs(S, tr, s, t, s.read)
         /\ \A m \in Nat : s.read < m /\ m <= t.read /\ tr[m].kind = "result" =>
              m = t.read /\ t.turn = Len(S) + 1 /\ s.turn = Len(S) /\ ~ t.ended[Len(S) + 1]
<1>1. s.read \in Nat /\ Len(tr) \in Nat /\ s.read <= Len(tr) /\ Len(S) \in Nat /\ s.turn \in 0..Len(S) + 1
  <2>1. Len(tr) \in Nat
    BY NothingMore DEF Grew
  <2> QED BY <2>1 DEF StateOK, StateTyped
<1>2. PICK c \in Nat : /\ c <= Len(tr) /\ Goes(S, tr, s, t, c)
                       /\ c = s.read \/ (c = s.read + 1 /\ OwnIs(S, tr, s, t, s.read))
  BY <1>1 DEF Progress, OwnIs
<1>3. /\ t.read \in Nat /\ c <= t.read /\ t.read <= Len(tr)
      /\ \A m \in Nat : c < m /\ m <= t.read =>
           /\ m = t.read /\ t.turn = s.turn + 1 /\ ~ Silent(S, t) /\ tr[m] = Given(S, t)
  <2>1. t.read \in Nat /\ c <= t.read /\ t.read <= Len(tr)
    BY <1>1, <1>2, GoesOps
  <2>2. \A m \in Nat : c < m /\ m <= t.read =>
           /\ m = t.read /\ t.turn = s.turn + 1 /\ ~ Silent(S, t) /\ tr[m] = Given(S, t)
    BY <1>1, <1>2, GoesOps
  <2> QED BY <2>1, <2>2
<1>4. s.read <= t.read
  BY <1>1, <1>2, <1>3
<1>5. ASSUME NEW m \in Nat, s.read < m, m <= t.read
      PROVE  /\ tr[m].kind \in OwnKinds => m = s.read + 1 /\ OwnIs(S, tr, s, t, s.read)
             /\ tr[m].kind = "result" => m = t.read /\ t.turn = Len(S) + 1 /\ s.turn = Len(S) /\ ~ t.ended[Len(S) + 1]
  <2>1. CASE c < m
    <3>1. m = t.read /\ t.turn = s.turn + 1 /\ ~ Silent(S, t) /\ tr[m] = Given(S, t)
      BY <1>3, <1>5, <2>1
    <3>2. tr[m].kind \notin OwnKinds /\ (tr[m].kind = "result" => t.turn = Len(S) + 1)
      BY <3>1, GivenKind
    <3>3. t.turn = Len(S) + 1 => s.turn = Len(S)
      BY <1>1, <3>1
    <3> QED BY <3>1, <3>2, <3>3 DEF Silent
  <2>2. CASE ~ c < m
    <3>1. m = s.read + 1 /\ OwnIs(S, tr, s, t, s.read)
      BY <1>1, <1>2, <1>5, <2>2
    <3>2. tr[m].kind # "result"
      BY <3>1 DEF OwnIs, OwnKinds
    <3> QED BY <3>1, <3>2
  <2> QED BY <2>1, <2>2
<1> QED BY <1>3, <1>4, <1>5

\* The rows that have been recorded.
LEMMA RowsGrow ==
  ASSUME NEW tr, NEW b \in Nat, NEW c \in Nat, b <= c
  PROVE  /\ IsFiniteSet(Rows(tr, b)) /\ Cardinality(Rows(tr, b)) \in Nat
         /\ (\A m \in Nat : b < m /\ m <= c => tr[m].kind # "result") => Rows(tr, c) = Rows(tr, b)
         /\ (\A m \in Nat : b < m /\ m < c => tr[m].kind # "result") /\ b < c /\ tr[c].kind = "result" =>
              Cardinality(Rows(tr, c)) = Cardinality(Rows(tr, b)) + 1
         /\ Cardinality(Rows(tr, b)) <= Cardinality(Rows(tr, c))
<1>1. \A n \in Nat : IsFiniteSet(Rows(tr, n))
  <2> SUFFICES ASSUME NEW n \in Nat PROVE IsFiniteSet(Rows(tr, n))
    OBVIOUS
  <2>1. IsFiniteSet(1..n) /\ Rows(tr, n) \subseteq 1..n
    BY FS_Interval DEF Rows
  <2> QED BY <2>1, FS_Subset
<1>2. \A m : m \in 1..b => m \in 1..c
  OBVIOUS
<1>3. Rows(tr, b) \subseteq Rows(tr, c)
  BY <1>2 DEF Rows
<1>4. Cardinality(Rows(tr, b)) <= Cardinality(Rows(tr, c)) /\ Cardinality(Rows(tr, b)) \in Nat
  BY <1>1, <1>3, FS_Subset, FS_CardinalityType
<1>5. ASSUME \A m \in Nat : b < m /\ m <= c => tr[m].kind # "result"
      PROVE  Rows(tr, c) = Rows(tr, b)
  <2>1. \A m \in 1..c : m \notin 1..b => b < m /\ m <= c /\ m \in Nat
    OBVIOUS
  <2> QED BY <1>2, <1>5, <2>1 DEF Rows
<1>6. ASSUME \A m \in Nat : b < m /\ m < c => tr[m].kind # "result", b < c, tr[c].kind = "result"
      PROVE  Cardinality(Rows(tr, c)) = Cardinality(Rows(tr, b)) + 1
  <2>1. \A m \in 1..c : m \notin 1..b => m = c \/ (b < m /\ m < c /\ m \in Nat)
    OBVIOUS
  <2>2. c \in 1..c /\ c \notin 1..b
    BY <1>6
  <2>3. Rows(tr, c) = Rows(tr, b) \cup {c}
    BY <1>2, <1>6, <2>1, <2>2 DEF Rows
  <2>4. c \notin Rows(tr, b)
    BY <2>2 DEF Rows
  <2> QED BY <1>1, <2>3, <2>4, FS_AddElement
<1> QED BY <1>1, <1>4, <1>5, <1>6

\* As many rows have come to the consumer as have been recorded.
LEMMA RowsKeep ==
  ASSUME NEW S \in Seq(Stage), NEW tr, IsTrace(tr), NEW s, NEW t, StateOK(S, tr, s), StateTyped(S, t),
         Progress(S, tr, s, t)
  PROVE  Len(t.queue[Len(S) + 1]) = Cardinality(Rows(tr, t.read))
<1> DEFINE z == Len(S) + 1
<1>1. Len(S) \in Nat /\ s.read \in Nat /\ s.turn \in 0..z /\ z \in 1..z /\ s.queue[z] \in Seq(Context) /\ Len(tr) \in Nat
  <2>1. Len(tr) \in Nat
    BY NothingMore DEF Grew
  <2> QED BY <2>1 DEF StateOK, StateTyped
<1>2. Len(s.queue[z]) = Cardinality(Rows(tr, s.read)) /\ s.read <= Len(tr)
  BY DEF StateOK
<1>3. t.read \in Nat /\ s.read <= t.read
  BY NewOps
<1>4. \A m \in Nat : s.read < m /\ m <= t.read /\ tr[m].kind = "result" =>
              m = t.read /\ t.turn = z /\ s.turn = Len(S) /\ ~ t.ended[z]
  BY NewOps
<1>5. PICK c \in Nat : Goes(S, tr, s, t, c) /\ s.read <= c /\ c <= s.read + 1
  BY <1>1 DEF Progress
<1> HIDE DEF z
<1>6. CASE s.turn = Len(S) /\ t.turn = z /\ ~ t.ended[z]
  <2>1. Told(S, tr, t, c) /\ \E ctx : t.queue[z] = Append(s.queue[z], ctx)
    <3>1. s.turn + 1 = z /\ t.turn # s.turn /\ t.turn # s.turn - 1
      BY <1>1, <1>6 DEF z
    <3> QED BY <1>5, <1>6, <3>1 DEF Goes
  <2>2. t.queue[z] \in Seq(Context)
    BY <1>1 DEF StateTyped, z
  <2>3. Len(t.queue[z]) = Len(s.queue[z]) + 1
    BY <1>1, <2>1
  <2>4. t.read = c + 1 /\ tr[c + 1] = Given(S, t)
    BY <1>6, <2>1 DEF Told, Silent, z
  <2>5. tr[t.read].kind = "result"
    BY <1>6, <2>4, GivenKind DEF z
  <2>6. s.read < t.read /\ \A m \in Nat : m < t.read => m # t.read /\ m <= t.read
    BY <1>1, <1>5, <2>4
  <2>7. Cardinality(Rows(tr, t.read)) = Cardinality(Rows(tr, s.read)) + 1
    <3>1. \A m \in Nat : s.read < m /\ m < t.read => tr[m].kind # "result"
      BY <1>4, <2>6
    <3> QED BY <1>1, <1>3, <2>5, <2>6, <3>1, RowsGrow
  <2> QED BY <1>2, <2>3, <2>7 DEF z
<1>7. CASE ~ (s.turn = Len(S) /\ t.turn = z /\ ~ t.ended[z])
  <2>1. Rows(tr, t.read) = Rows(tr, s.read)
    <3>1. \A m \in Nat : s.read < m /\ m <= t.read => tr[m].kind # "result"
      BY <1>4, <1>7
    <3> QED BY <1>1, <1>3, <3>1, RowsGrow
  <2>2. t.queue[z] = s.queue[z]
    <3>1. CASE s.turn = Len(S) /\ t.turn = z
      <4>1. Len(S) # Len(S) + 1 /\ Len(S) # Len(S) + 1 - 1 => FALSE
        BY <1>1
      <4>2. s.turn + 1 = z /\ s.turn # t.turn /\ t.turn # s.turn - 1
        BY <1>1, <3>1 DEF z
      <4> QED BY <1>5, <1>7, <3>1, <4>2 DEF Goes, z
    <3>2. CASE s.turn = Len(S) /\ t.turn # z
      <4>1. s.turn + 1 = z /\ s.turn # z
        BY <1>1, <3>2 DEF z
      <4> QED BY <1>5, <3>2, <4>1 DEF Goes, z
    <3>3. CASE s.turn = z
      <4>1. s.turn \notin 0..Len(S)
        BY <1>1, <3>3 DEF z
      <4> QED BY <1>5, <3>3, <4>1 DEF Goes, z
    <3>4. CASE s.turn # Len(S) /\ s.turn # z
      <4>1. z # s.turn + 1
        BY <1>1, <3>4 DEF z
      <4> QED BY <1>1, <3>4, <4>1 DEF Progress, z
    <3> QED BY <3>1, <3>2, <3>3, <3>4
  <2> QED BY <1>2, <2>1, <2>2 DEF z
<1> QED BY <1>6, <1>7 DEF z

\* The iterator of a stage, in a snapshot.
LEMMA ShapeIs ==
  ASSUME NEW S, NEW j, NEW x, Shape(S, j, x)
  PROVE  /\ x.op = "edge" => OpAt(S, j, "neighbors") /\ x = EdgeIt(x.ctx, << >>, x.hasNeighbors, x.ended)
         /\ x.op = "recursive" =>
              OpAt(S, j, "recurse") /\ x = RecursiveIt(x.ctx, x.base, << >>) /\ (x.ctx = None \/ x.base = None)
         /\ x.op = "unpack" => OpAt(S, j, "unpack") /\ x = UnpackIt(x.contexts)
         /\ x = NoIterator \/ x.op \in {"edge", "recursive", "unpack"}
         /\ x.op = "none" <=> x = NoIterator
<1>1. NoIterator.op = "none" /\ UnpackIt(x.contexts).op = "unpack"
  BY DEF NoIterator, UnpackIt
<1>2. x.op = "edge" => Filled(x, << >>) = EdgeIt(x.ctx, << >>, x.hasNeighbors, x.ended)
  BY DEF Filled
<1>3. x.op = "recursive" => Filled(x, << >>) = RecursiveIt(x.ctx, x.base, << >>)
  BY DEF Filled
<1> QED BY <1>1, <1>2, <1>3 DEF Shape

\* The iterators of a reachable state have the shape of their stages.
LEMMA ShapesHold ==
  ASSUME NEW S, NEW j
  PROVE  /\ Shape(S, j, NoIterator)
         /\ \A c, has, end : OpAt(S, j, "neighbors") => Shape(S, j, EdgeIt(c, << >>, has, end))
         /\ \A c : OpAt(S, j, "recurse") => Shape(S, j, RecursiveIt(c, None, << >>))
         /\ \A b : OpAt(S, j, "recurse") => Shape(S, j, RecursiveIt(None, b, << >>))
         /\ \A cs : OpAt(S, j, "unpack") => Shape(S, j, UnpackIt(cs))
<1>1. \A c, n, has, end : EdgeIt(c, n, has, end).op = "edge"
  BY FieldsOf
<1>2. \A c, b, n : LET x == RecursiveIt(c, b, n) IN x.op = "recursive" /\ x.ctx = c /\ x.base = b
  BY FieldsOf
<1>3. \A cs : UnpackIt(cs).contexts = cs
  BY DEF UnpackIt
<1> QED BY <1>1, <1>2, <1>3, FilledIs DEF Shape

\* A step keeps them in shape.
LEMMA ShapeKeeps ==
  ASSUME NEW S \in Seq(Stage), NEW tr, NEW s, NEW t, StateOK(S, tr, s), Follows(S, tr, s, t)
  PROVE  \A j \in 1..Len(S) + 1 : Shape(S, j, t.inner[j])
<1>1. PICK i : i = s.turn
  OBVIOUS
<1>2. /\ DOMAIN S = 1..Len(S) /\ Len(S) \in Nat /\ i \in 0..Len(S) + 1
      /\ \A j \in 1..Len(S) + 1 : Shape(S, j, s.inner[j])
  BY <1>1 DEF StateOK, StateTyped
<1>3. DOMAIN s.inner = 1..Len(S) + 1
  <2>1. s.inner = [j \in 1..Len(S) + 1 |-> s.inner[j]]
    BY DEF StateOK, StateTyped
  <2> QED BY <2>1
<1>4. \A j \in 1..Len(S) + 1 : j # i => t.inner[j] = s.inner[j]
  BY <1>1, Progresses DEF Progress
<1>5. ASSUME i \in 1..Len(S) + 1 PROVE Shape(S, i, t.inner[i])
  <2>1. FollowsAt(S, tr, s, t, i) /\ Shape(S, i, s.inner[i])
    BY <1>1, <1>2, <1>5 DEF Follows
  <2>2. ASSUME NEW x, t.inner = [s.inner EXCEPT ![i] = x], Shape(S, i, x) PROVE Shape(S, i, t.inner[i])
    BY <1>3, <1>5, <2>2
  <2>3. CASE t.inner = s.inner
    BY <2>1, <2>3
  <2>4. CASE Opens(S, tr, s, t, i)
    BY <2>2, <2>4, ShapesHold DEF Opens, Begins
  <2>5. CASE Unpacks(S, s, t, i)
    BY <2>2, <2>5, ShapesHold DEF Unpacks, Begins
  <2>6. CASE Reaches(S, tr, s, t, i)
    BY <2>1, <2>2, <2>6, ShapesHold, ShapeIs DEF Reaches, Answered
  <2>7. CASE RunsOut(S, tr, s, t, i)
    BY <2>1, <2>2, <2>7, ShapesHold, ShapeIs DEF RunsOut, Answered, Dropped
  <2>8. CASE Closes(S, s, t, i)
    BY <2>2, <2>8, ShapesHold DEF Closes, Dropped
  <2>9. CASE Rides(S, tr, s, t, i)
    BY <2>1, <2>2, <2>9, ShapesHold, ShapeIs DEF Rides, Answered, Dropped
  <2>10. \/ t.inner = s.inner
         \/ Opens(S, tr, s, t, i) \/ Unpacks(S, s, t, i) \/ Reaches(S, tr, s, t, i)
         \/ RunsOut(S, tr, s, t, i) \/ Closes(S, s, t, i) \/ Rides(S, tr, s, t, i)
    BY <2>1 DEF FollowsAt, Pulls, Ends, Moves, Checked, Coerced, Hands
  <2> QED BY <2>3, <2>4, <2>5, <2>6, <2>7, <2>8, <2>9, <2>10
<1> QED BY <1>2, <1>4, <1>5

\* The callers of the adapter are as many as they are.
LEMMA CallersFinite ==
  ASSUME NEW S \in Seq(Stage)
  PROVE  /\ IsFiniteSet(CallersOf(S)) /\ Cardinality(CallersOf(S)) \in Nat
         /\ \A i : CallAt(S, i) \in Nat /\ CallAt(S, i) <= Cardinality(CallersOf(S))
<1>1. IsFiniteSet(0..Len(S))
  <2>1. Len(S) \in Nat
    OBVIOUS
  <2> QED BY <2>1, FS_Interval
<1>2. CallersOf(S) \subseteq 0..Len(S)
  BY DEF CallersOf
<1>3. IsFiniteSet(CallersOf(S)) /\ Cardinality(CallersOf(S)) \in Nat
  BY <1>1, <1>2, FS_Subset, FS_CardinalityType
<1>4. ASSUME NEW i
      PROVE  CallAt(S, i) \in Nat /\ CallAt(S, i) <= Cardinality(CallersOf(S))
  <2>1. {j \in CallersOf(S) : j <= i} \subseteq CallersOf(S)
    OBVIOUS
  <2> QED BY <1>3, <2>1, FS_Subset, FS_CardinalityType DEF CallAt
<1> QED BY <1>3, <1>4

\* The operations that the iterators refer to.
OutersOK(S, s) ==
  /\ s.outer \in [1..Len(S) -> Nat]
  /\ \A j, k \in 1..Len(S) :
       j # k /\ Expanding(s.inner[j]) /\ Expanding(s.inner[k]) => s.outer[j] # s.outer[k]
  /\ \A j \in 1..Len(S) :
       Expanding(s.inner[j]) => Cardinality(CallersOf(S)) < s.outer[j] /\ s.outer[j] <= s.read

\* The operation that an iterator came from is one that was recorded.
LEMMA OutersKeep ==
  ASSUME NEW S \in Seq(Stage), NEW tr, IsTrace(tr), NEW s, NEW t, StateOK(S, tr, s), Progress(S, tr, s, t)
  PROVE  OutersOK(S, t)
<1>1. PICK i : i = s.turn
  OBVIOUS
<1>2. PICK c : c = Cardinality(CallersOf(S))
  OBVIOUS
<1>3. /\ Len(S) \in Nat /\ s.read \in Nat /\ OutersOK(S, s) /\ t.read \in Nat /\ s.read <= t.read
      /\ c \in Nat /\ c <= s.read
  <2>4. OutersOK(S, s)
    BY Zenon DEF StateOK, StateTyped, OutersOK
  <2>1. Len(S) \in Nat /\ s.read \in Nat /\ c <= s.read
    BY <1>2 DEF StateOK, StateTyped
  <2>2. t.read \in Nat /\ s.read <= t.read
    BY NewOps
  <2>3. c \in Nat
    BY <1>2, CallersFinite
  <2> QED BY <2>1, <2>2, <2>3, <2>4
<1>4. \A j \in 1..Len(S) : j # i => t.inner[j] = s.inner[j]
  BY <1>1, <1>3 DEF Progress
<1>5. CASE Opens(S, tr, s, t, i)
  <2>1. t.outer = [s.outer EXCEPT ![i] = s.read + 1] /\ t.read = s.read + 1
    BY <1>5 DEF Opens
  <2>2. t.outer \in [1..Len(S) -> Nat] /\ \A j \in 1..Len(S) : t.outer[j] = IF j = i THEN s.read + 1 ELSE s.outer[j]
    BY <1>3, <2>1 DEF OutersOK
  <2>3. \A j \in 1..Len(S) : j # i /\ Expanding(t.inner[j]) =>
          /\ Expanding(s.inner[j]) /\ t.outer[j] = s.outer[j] /\ c < t.outer[j] /\ t.outer[j] <= s.read
    BY <1>2, <1>3, <1>4, <2>2 DEF OutersOK
  <2>4. \A j, k \in 1..Len(S) :
       j # k /\ Expanding(t.inner[j]) /\ Expanding(t.inner[k]) => t.outer[j] # t.outer[k]
    <3> SUFFICES ASSUME NEW j \in 1..Len(S), NEW k \in 1..Len(S), j # k, Expanding(t.inner[j]), Expanding(t.inner[k])
                 PROVE  t.outer[j] # t.outer[k]
      OBVIOUS
    <3>1. CASE j # i /\ k # i
      BY <1>3, <2>3, <3>1 DEF OutersOK
    <3>2. CASE j = i
      BY <1>3, <2>2, <2>3, <3>2
    <3>3. CASE k = i
      BY <1>3, <2>2, <2>3, <3>3
    <3> QED BY <3>1, <3>2, <3>3
  <2>5. \A j \in 1..Len(S) : Expanding(t.inner[j]) => c < t.outer[j] /\ t.outer[j] <= t.read
    <3> SUFFICES ASSUME NEW j \in 1..Len(S), Expanding(t.inner[j]) PROVE c < t.outer[j] /\ t.outer[j] <= t.read
      OBVIOUS
    <3>1. t.outer[j] \in Nat /\ (t.outer[j] = s.read + 1 \/ (c < t.outer[j] /\ t.outer[j] <= s.read))
      BY <1>3, <2>2, <2>3
    <3> QED BY <1>3, <2>1, <3>1
  <2> QED BY <1>2, <2>2, <2>4, <2>5 DEF OutersOK
<1>6. CASE ~ Opens(S, tr, s, t, i)
  <2>1. t.outer = s.outer /\ \A j \in 1..Len(S) : Expanding(t.inner[j]) => Expanding(s.inner[j])
    BY <1>1, <1>4, <1>6 DEF Progress
  <2>2. \A j \in 1..Len(S) : Expanding(t.inner[j]) => t.outer[j] \in Nat /\ t.outer[j] <= s.read
    BY <1>3, <2>1 DEF OutersOK
  <2>3. \A x \in Nat : x <= s.read => x <= t.read
    BY <1>3
  <2> QED BY <1>3, <2>1, <2>2, <2>3 DEF OutersOK
<1> QED BY <1>5, <1>6

\* What the invariant of the execution says of a snapshot.
Sound(S, t) ==
  /\ t.turn \in 0..Len(S) + 1
  /\ t.queue \in [1..Len(S) + 1 -> Seq(Context)]
  /\ t.ended \in [1..Len(S) + 1 -> BOOLEAN]
  /\ t.inner = [j \in 1..Len(S) + 1 |-> t.inner[j]]
  /\ t.inner[Len(S) + 1] = NoIterator
  /\ \A j \in 1..Len(S) + 1 : t.turn < j => ~ t.ended[j]

\* The snapshot of a reachable state is sound.
LEMMA SnapshotSound == IInv => Sound(stages, Snapshot) /\ stages \in Seq(Stage)
<1> SUFFICES ASSUME IInv PROVE Sound(stages, Snapshot) /\ stages \in Seq(Stage)
  OBVIOUS
<1>1. /\ stages \in Seq(Stage) /\ turn \in 0..Len(stages) + 1
      /\ queue \in [1..Len(stages) + 1 -> Seq(Context)] /\ ended \in [1..Len(stages) + 1 -> BOOLEAN]
      /\ inner[Len(stages) + 1] = NoIterator
      /\ \A j \in 1..Len(stages) + 1 : turn < j => ~ ended[j]
  BY DEF IInv, Chained, EndedInOrder, Consumer
<1>2. Len(stages) \in Nat /\ Len(stages) + 1 \in 1..Len(stages) + 1
  BY <1>1
<1>3. Snapshot.inner = [j \in 1..Len(stages) + 1 |-> Snapshot.inner[j]]
  BY SnapshotIs
<1>4. Snapshot.inner[Len(stages) + 1] = NoIterator
  <2>1. Snapshot.inner[Len(stages) + 1] = Filled(inner[Len(stages) + 1], << >>)
    BY <1>2, SnapshotIs
  <2> QED BY <1>1, <2>1, FilledIs
<1>5. Snapshot.turn = turn /\ Snapshot.queue = queue /\ Snapshot.ended = ended
  BY SnapshotIs
<1> HIDE DEF Snapshot
<1> QED BY <1>1, <1>3, <1>4, <1>5 DEF Sound

\* A step keeps a snapshot well formed.
LEMMA StateKeeps ==
  ASSUME NEW S \in Seq(Stage), NEW tr, IsTrace(tr), NEW s, NEW t, StateOK(S, tr, s), Follows(S, tr, s, t), Sound(S, t)
  PROVE  StateOK(S, tr, t)
<1>1. Progress(S, tr, s, t)
  BY Progresses
<1>2. t.read \in Nat /\ s.read <= t.read /\ t.read <= Len(tr)
  BY <1>1, NewOps
<1>3. OutersOK(S, t)
  BY <1>1, OutersKeep
<1>4. StateTyped(S, t)
  BY <1>2, <1>3 DEF StateTyped, Sound, OutersOK
<1>5. Len(t.queue[Len(S) + 1]) = Cardinality(Rows(tr, t.read))
  BY <1>1, <1>4, RowsKeep
<1>6. \A j \in 1..Len(S) + 1 : Shape(S, j, t.inner[j])
  BY ShapeKeeps
<1>7. Cardinality(CallersOf(S)) <= t.read
  <2>1. Cardinality(CallersOf(S)) <= s.read /\ s.read \in Nat
    BY DEF StateOK, StateTyped
  <2>2. Cardinality(CallersOf(S)) \in Nat
    BY CallersFinite
  <2> QED BY <1>2, <2>1, <2>2
<1>8. \A j \in 1..Len(S) + 1 : t.turn < j => t.inner[j] = NoIterator /\ ~ t.ended[j]
  <2> SUFFICES ASSUME NEW j \in 1..Len(S) + 1, t.turn < j PROVE t.inner[j] = NoIterator /\ ~ t.ended[j]
    OBVIOUS
  <2>1. ~ t.ended[j]
    BY DEF Sound
  <2>2. /\ Len(S) \in Nat /\ s.turn \in 0..Len(S) + 1
        /\ s.turn < j => s.inner[j] = NoIterator
    BY DEF StateOK, StateTyped
  <2>3. t.turn = s.turn + 1 \/ t.turn = s.turn \/ (t.turn = s.turn - 1 /\ t.inner[s.turn] = NoIterator)
    BY <1>1 DEF Progress, Goes
  <2>4. j = s.turn \/ t.inner[j] = s.inner[j]
    BY <1>1 DEF Progress
  <2>5. CASE j = s.turn
    <3>1. t.turn # s.turn + 1 /\ t.turn # s.turn
      BY <2>2, <2>5
    <3> QED BY <2>1, <2>3, <2>5, <3>1
  <2>6. CASE j # s.turn
    <3>1. s.turn < j
      BY <2>2, <2>3, <2>6
    <3> QED BY <2>1, <2>2, <2>4, <2>6, <3>1
  <2> QED BY <2>5, <2>6
<1>9. t.inner[Len(S) + 1] = NoIterator
  BY DEF Sound
<1>10. /\ \A j, k \in 1..Len(S) :
            j # k /\ Expanding(t.inner[j]) /\ Expanding(t.inner[k]) => t.outer[j] # t.outer[k]
       /\ \A j \in 1..Len(S) :
            Expanding(t.inner[j]) => Cardinality(CallersOf(S)) < t.outer[j] /\ t.outer[j] <= t.read
  BY <1>3, Zenon DEF OutersOK
<1> QED BY <1>2, <1>4, <1>5, <1>6, <1>7, <1>8, <1>9, <1>10, Zenon DEF StateOK

-----------------------------------------------------------------------------
(* A longer trace has the same history.                                    *)

\* The operations of a snapshot's own and those before.
LEMMA SaidGrows ==
  ASSUME NEW tr, NEW new, Grew(tr, new), NEW b \in Nat, NEW p, NEW k, Said(tr, b, p, k)
  PROVE  Said(new, b, p, k) /\ new[b + 1] = tr[b + 1]
<1>1. b + 1 \in 1..Len(tr) /\ b < Len(new)
  BY DEF Said, Grew
<1> QED BY <1>1 DEF Said, Grew

\* What was told remains told when the trace grows.
LEMMA ToldGrows ==
  ASSUME NEW S, NEW tr, NEW new, Grew(tr, new), NEW t, NEW b \in Nat, Told(S, tr, t, b)
  PROVE  Told(S, new, t, b)
<1>1. CASE Silent(S, t)
  BY <1>1 DEF Told
<1>2. CASE ~ Silent(S, t)
  <2>1. b < Len(tr) /\ t.read = b + 1 /\ tr[b + 1] = Given(S, t)
    BY <1>2 DEF Told
  <2>2. b + 1 \in 1..Len(tr) /\ b < Len(new)
    BY <2>1 DEF Grew
  <2> QED BY <1>2, <2>1, <2>2 DEF Told, Grew
<1> QED BY <1>1, <1>2

\* A step remains a step when the trace grows.
LEMMA FollowsGrows ==
  ASSUME NEW S \in Seq(Stage), NEW tr, NEW new, Grew(tr, new), NEW s, NEW t,
         StateOK(S, tr, s), Follows(S, tr, s, t)
  PROVE  Follows(S, new, s, t)
<1>1. PICK i : i = s.turn
  OBVIOUS
<1>2. PICK b : b = s.read
  OBVIOUS
<1>3. b \in Nat /\ b + 1 \in Nat /\ b <= Len(tr)
  BY <1>2 DEF StateOK, StateTyped
<1>4. \A p, k : Said(tr, b, p, k) => Said(new, b, p, k) /\ new[b + 1] = tr[b + 1]
  BY <1>3, SaidGrows
<1>5. \A c \in Nat : Told(S, tr, t, c) => Told(S, new, t, c)
  BY ToldGrows
<1>6. CASE i = 0
  <2>1. Starts(S, tr, s, t)
    BY <1>1, <1>6 DEF Follows
  <2>2. Starts(S, new, s, t)
    BY <1>2, <1>3, <1>4, <1>5, <2>1 DEF Starts
  <2> QED BY <1>1, <1>6, <2>2 DEF Follows
<1>7. CASE i # 0
  <2>0. FollowsAt(S, tr, s, t, i)
    BY <1>1, <1>7 DEF Follows
  <2> SUFFICES FollowsAt(S, new, s, t, i)
    BY <1>1, <1>7 DEF Follows
  <2>1. CASE Pulls(S, tr, s, t, i)
    <3>1. Pulls(S, new, s, t, i)
      BY <1>2, <1>4, <2>1 DEF Pulls
    <3> QED BY <3>1 DEF FollowsAt
  <2>2. CASE Ends(S, tr, s, t, i)
    <3>1. Ends(S, new, s, t, i)
      BY <1>2, <1>3, <1>4, <1>5, <2>2 DEF Ends
    <3> QED BY <3>1 DEF FollowsAt
  <2>3. CASE Moves(S, tr, s, t, i)
    <3>1. Moves(S, new, s, t, i)
      BY <1>2, <1>3, <1>5, <2>3 DEF Moves
    <3> QED BY <3>1 DEF FollowsAt
  <2>4. CASE Checked(S, tr, s, t, i)
    <3>1. Checked(S, new, s, t, i)
      BY <1>2, <1>3, <1>4, <1>5, <2>4 DEF Checked
    <3> QED BY <3>1 DEF FollowsAt
  <2>5. CASE Coerced(S, tr, s, t, i)
    <3>1. Coerced(S, new, s, t, i)
      BY <1>2, <1>3, <1>4, <1>5, <2>5 DEF Coerced
    <3> QED BY <3>1 DEF FollowsAt
  <2>6. CASE Opens(S, tr, s, t, i)
    <3>1. Opens(S, new, s, t, i)
      BY <1>2, <1>4, <2>6 DEF Opens
    <3> QED BY <3>1 DEF FollowsAt
  <2>7. CASE Reaches(S, tr, s, t, i)
    <3>1. Count(new, s.outer[i], b) = Count(tr, s.outer[i], b)
      BY <1>3, CountGrows
    <3>2. Reaches(S, new, s, t, i)
      BY <1>2, <1>3, <1>4, <1>5, <2>7, <3>1 DEF Reaches
    <3> QED BY <3>2 DEF FollowsAt
  <2>8. CASE RunsOut(S, tr, s, t, i)
    <3>1. RunsOut(S, new, s, t, i)
      BY <1>2, <1>3, <1>4, <1>5, <2>8 DEF RunsOut
    <3> QED BY <3>1 DEF FollowsAt
  <2>9. CASE Rides(S, tr, s, t, i)
    <3>1. Rides(S, new, s, t, i)
      BY <1>2, <1>3, <1>5, <2>9 DEF Rides
    <3> QED BY <3>1 DEF FollowsAt
  <2>10. CASE Unpacks(S, s, t, i) \/ Closes(S, s, t, i)
    BY <2>10 DEF FollowsAt
  <2> QED BY <2>0, <2>1, <2>2, <2>3, <2>4, <2>5, <2>6, <2>7, <2>8, <2>9, <2>10 DEF FollowsAt
<1> QED BY <1>6, <1>7

\* A snapshot remains one when the trace grows.
LEMMA StateGrows ==
  ASSUME NEW S, NEW tr, NEW new, Grew(tr, new), NEW s, StateOK(S, tr, s)
  PROVE  StateOK(S, new, s)
<1>1. s.read \in Nat /\ s.read <= Len(tr)
  BY DEF StateOK, StateTyped
<1>2. \A m \in 1..s.read : new[m] = tr[m]
  BY <1>1 DEF Grew
<1>3. Rows(new, s.read) = Rows(tr, s.read)
  BY <1>2 DEF Rows
<1>4. s.read <= Len(new)
  BY <1>1 DEF Grew
<1> QED BY <1>3, <1>4, Zenon DEF StateOK

\* A history goes on with the step that follows.
LEMMA HistoryGrows ==
  ASSUME NEW S \in Seq(Stage), NEW tr, NEW new, Grew(tr, new), NEW h, NEW n, IsHistory(S, tr, h, n),
         NEW t, Follows(S, new, h[n], t), StateOK(S, new, t), t.read = Len(new)
  PROVE  \E g : IsHistory(S, new, g, n + 1) /\ g[n + 1] = t
<1> DEFINE g == [k \in 1..n + 1 |-> IF k = n + 1 THEN t ELSE h[k]]
<1>1. /\ n \in Nat \ {0}
      /\ \A k \in 1..n : StateOK(S, tr, h[k])
      /\ \A k \in 1..n - 1 : Follows(S, tr, h[k], h[k + 1])
  BY DEF IsHistory
<1>2. n + 1 \in Nat \ {0} /\ 1 \in 1..n /\ n + 1 \in 1..n + 1 /\ n + 1 - 1 = n
  BY <1>1
<1>3. g[n + 1] = t /\ \A k \in 1..n : g[k] = h[k]
  <2>1. \A k \in 1..n : k \in 1..n + 1 /\ k # n + 1
    BY <1>1
  <2> QED BY <1>2, <2>1
<1> HIDE DEF g
<1>4. \A k \in 1..n + 1 : k \in 1..n \/ k = n + 1
  BY <1>1
<1>5. \A k \in 1..n + 1 : StateOK(S, new, g[k])
  <2> SUFFICES ASSUME NEW k \in 1..n + 1 PROVE StateOK(S, new, g[k])
    OBVIOUS
  <2>1. CASE k \in 1..n
    <3>1. StateOK(S, tr, h[k])
      BY <1>1, <2>1
    <3> QED BY <1>3, <2>1, <3>1, StateGrows
  <2> QED BY <1>3, <1>4, <2>1
<1>6. \A k \in 1..n + 1 - 1 : Follows(S, new, g[k], g[k + 1])
  <2> SUFFICES ASSUME NEW k \in 1..n PROVE Follows(S, new, g[k], g[k + 1])
    BY <1>2
  <2>1. CASE k = n
    BY <1>3, <2>1
  <2>2. CASE k # n
    <3>1. k \in 1..n - 1 /\ k + 1 \in 1..n
      BY <1>1, <2>2
    <3>2. Follows(S, tr, h[k], h[k + 1]) /\ StateOK(S, tr, h[k])
      BY <1>1, <3>1
    <3>3. Follows(S, new, h[k], h[k + 1])
      BY <3>2, FollowsGrows
    <3> QED BY <1>3, <3>1, <3>3
  <2> QED BY <2>1, <2>2
<1>7. g[1] = h[1]
  BY <1>2, <1>3
<1>8. /\ h[1].turn = Len(S) + 1
      /\ h[1].queue = [i \in 1..Len(S) + 1 |-> << >>]
      /\ h[1].ended = [i \in 1..Len(S) + 1 |-> FALSE]
      /\ h[1].inner = [i \in 1..Len(S) + 1 |-> NoIterator]
      /\ h[1].read = Cardinality(CallersOf(S))
  BY DEF IsHistory
<1>9. g[n + 1].read = Len(new)
  BY <1>3
<1>10. IsHistory(S, new, g, n + 1)
  BY <1>2, <1>5, <1>6, <1>7, <1>8, <1>9 DEF IsHistory
<1> QED BY <1>3, <1>10

\* An iterator that has told that it is exhausted is not asked again.
LEMMA RunsOutAsks ==
  ASSUME NEW S \in Seq(Stage), NEW tr, NEW s, NEW t, StateOK(S, tr, s), NEW i, RunsOut(S, tr, s, t, i)
  PROVE  ~ Asking(t.inner[i])
<1>1. i \in 1..Len(S) /\ Len(S) \in Nat
  BY DEF RunsOut
<1>2. i \in 1..Len(S) + 1
  BY <1>1
<1>3. DOMAIN s.inner = 1..Len(S) + 1 /\ Shape(S, i, s.inner[i])
  <2>1. s.inner = [j \in 1..Len(S) + 1 |-> s.inner[j]]
    BY DEF StateOK, StateTyped
  <2> QED BY <1>2, <2>1 DEF StateOK
<1>4. ASSUME NEW x, t.inner = [s.inner EXCEPT ![i] = x], ~ Asking(x) PROVE ~ Asking(t.inner[i])
  BY <1>2, <1>3, <1>4
<1>5. s.inner[i].op = "recursive" /\ s.inner[i].ctx # None => s.inner[i].base = None
  BY <1>3, ShapeIs
<1> QED BY <1>4, <1>5, IteratorsAsk DEF RunsOut, Answered, Dropped

\* The trace stays well formed when a step is recorded.
LEMMA TraceKeeps ==
  ASSUME NEW S \in Seq(Stage), NEW tr, NEW new, Grew(tr, new), TraceOK(S, tr), NEW s, NEW t,
         StateOK(S, new, s), Follows(S, new, s, t), s.read = Len(tr), t.read = Len(new), StillOpen(S, tr, s)
  PROVE  TraceOK(S, new) /\ StillOpen(S, new, t)
<1>1. PICK i : i = s.turn
  OBVIOUS
<1>2. PICK b : b = s.read
  OBVIOUS
<1>3. PICK c : c = Cardinality(CallersOf(S))
  OBVIOUS
<1>4. Progress(S, new, s, t) /\ IsTrace(new)
  BY Progresses DEF Grew
<1>5. /\ b \in Nat /\ b = Len(tr) /\ Len(new) \in Nat /\ b <= Len(new) /\ c \in Nat /\ c <= b
      /\ \A m \in 1..b : new[m] = tr[m]
  <2>1. c \in Nat /\ \A j : CallAt(S, j) \in Nat /\ CallAt(S, j) <= c
    BY <1>3, CallersFinite
  <2> QED BY <1>2, <1>3, <2>1 DEF Grew, TraceOK
<1>6. ASSUME NEW m \in 1..Len(new), m \notin 1..b, new[m].kind \in OwnKinds
      PROVE  m = b + 1 /\ OwnIs(S, new, s, t, b)
  <2>1. m \in Nat /\ b < m /\ m <= Len(new)
    BY <1>5, <1>6
  <2> QED BY <1>2, <1>4, <1>6, <2>1, NewOps
<1>7. \A j \in 1..Len(S) : Expanding(s.inner[j]) => s.outer[j] \in Nat /\ c < s.outer[j] /\ s.outer[j] <= b
  BY <1>2, <1>3 DEF StateOK, StateTyped
<1>8. ASSUME NEW m \in 1..Len(new), m \notin 1..b, new[m].kind = "inner"
      PROVE  /\ m = b + 1 /\ i \in 1..Len(S) /\ Asking(s.inner[i]) /\ new[m].parent = s.outer[i]
             /\ new[m].value.position = Count(new, s.outer[i], b)
  BY <1>1, <1>2, <1>6, <1>8 DEF OwnIs, OwnKinds, Reaches, Said
<1>9. ASSUME NEW m \in 1..Len(new), m \notin 1..b, new[m].kind = "exhausted"
      PROVE  /\ m = b + 1
             /\ \/ /\ RunsOut(S, new, s, t, i) /\ i \in 1..Len(S) /\ Asking(s.inner[i]) /\ new[m].parent = s.outer[i]
                \/ new[m].parent = CallAt(S, i)
  BY <1>1, <1>2, <1>6, <1>9 DEF OwnIs, OwnKinds, RunsOut, Said
<1>10. \A j : CallAt(S, j) \in Nat /\ CallAt(S, j) <= c
  BY <1>3, CallersFinite
<1>11. ASSUME NEW m \in 1..Len(new)
       PROVE  /\ new[m].kind \in {"inner", "exhausted"} => new[m].parent \in Nat /\ new[m].parent < m
              /\ new[m].kind = "inner" => new[m].value.position = Count(new, new[m].parent, m - 1)
  <2>1. CASE m \in 1..b
    <3>1. m \in 1..Len(tr) /\ new[m] = tr[m] /\ m - 1 \in Nat /\ m - 1 <= Len(tr)
      BY <1>5, <2>1
    <3>2. /\ tr[m].kind \in {"inner", "exhausted"} => tr[m].parent \in Nat /\ tr[m].parent < m
          /\ tr[m].kind = "inner" => tr[m].value.position = Count(tr, tr[m].parent, m - 1)
      BY <3>1 DEF TraceOK
    <3>3. Count(new, tr[m].parent, m - 1) = Count(tr, tr[m].parent, m - 1)
      BY <3>1, CountGrows
    <3> QED BY <3>1, <3>2, <3>3
  <2>2. CASE m \notin 1..b
    <3>1. ASSUME new[m].kind = "inner"
          PROVE  /\ new[m].parent \in Nat /\ new[m].parent < m
                 /\ new[m].value.position = Count(new, new[m].parent, m - 1)
      <4>1. /\ m = b + 1 /\ i \in 1..Len(S) /\ Asking(s.inner[i]) /\ new[m].parent = s.outer[i]
            /\ new[m].value.position = Count(new, s.outer[i], b)
        BY <1>8, <2>2, <3>1
      <4>2. s.outer[i] \in Nat /\ s.outer[i] <= b
        BY <1>7, <4>1, IteratorsAsk
      <4>3. m - 1 = b /\ s.outer[i] < m
        BY <1>5, <4>1, <4>2
      <4> QED BY <4>1, <4>2, <4>3
    <3>2. ASSUME new[m].kind = "exhausted"
          PROVE  new[m].parent \in Nat /\ new[m].parent < m
      <4>1. /\ m = b + 1
            /\ \/ i \in 1..Len(S) /\ Asking(s.inner[i]) /\ new[m].parent = s.outer[i]
               \/ new[m].parent = CallAt(S, i)
        BY <1>9, <2>2, <3>2
      <4>2. new[m].parent \in Nat /\ new[m].parent <= b
        <5>1. CASE i \in 1..Len(S) /\ Asking(s.inner[i]) /\ new[m].parent = s.outer[i]
          BY <1>7, <5>1, IteratorsAsk
        <5>2. CASE new[m].parent = CallAt(S, i)
          <6>1. CallAt(S, i) \in Nat /\ CallAt(S, i) <= c
            BY <1>10
          <6> QED BY <1>5, <5>2, <6>1
        <5> QED BY <4>1, <5>1, <5>2
      <4> QED BY <1>5, <4>1, <4>2
    <3> QED BY <3>1, <3>2
  <2> QED BY <2>1, <2>2
<1>12. ASSUME NEW l \in 1..Len(new), NEW m \in 1..Len(new), l < m, new[l].kind = "exhausted", new[m].kind = "inner"
       PROVE  new[l].parent # new[m].parent
  <2>1. CASE m \in 1..b
    <3>1. l \in 1..Len(tr) /\ m \in 1..Len(tr) /\ new[l] = tr[l] /\ new[m] = tr[m]
      BY <1>5, <1>12, <2>1
    <3> QED BY <1>12, <3>1 DEF TraceOK
  <2>2. CASE m \notin 1..b
    <3>1. m = b + 1 /\ i \in 1..Len(S) /\ Asking(s.inner[i]) /\ new[m].parent = s.outer[i]
      BY <1>8, <1>12, <2>2
    <3>2. l \in 1..Len(tr) /\ new[l] = tr[l]
      BY <1>5, <1>12, <3>1
    <3> QED BY <1>12, <3>1, <3>2 DEF StillOpen
  <2> QED BY <2>1, <2>2
<1>13. TraceOK(S, new)
  <2>1. c <= Len(new)
    BY <1>5
  <2> QED BY <1>3, <1>4, <1>11, <1>12, <2>1 DEF TraceOK
<1>14. ASSUME NEW j \in 1..Len(S), NEW m \in 1..Len(new), Asking(t.inner[j]), new[m].kind = "exhausted"
       PROVE  new[m].parent # t.outer[j]
  <2>0. j # i => t.inner[j] = s.inner[j]
    <3>1. j \in 1..Len(S) + 1
      OBVIOUS
    <3> QED BY <1>1, <1>4, <3>1 DEF Progress
  <2>1. CASE Opens(S, new, s, t, i)
    <3>1. /\ t.outer = [s.outer EXCEPT ![i] = b + 1] /\ new[b + 1].kind = "outer"
      BY <1>2, <2>1 DEF Opens, Said
    <3>2. m \in 1..b
      BY <1>9, <1>14, <3>1
    <3>3. m \in 1..Len(tr) /\ new[m] = tr[m]
      BY <1>5, <3>2
    <3>4. t.outer[j] = IF j = i THEN b + 1 ELSE s.outer[j]
      BY <3>1 DEF StateOK, StateTyped
    <3>5. CASE j = i
      <4>1. tr[m].parent \in Nat /\ tr[m].parent < m
        BY <1>14, <3>3 DEF TraceOK
      <4> QED BY <1>5, <3>2, <3>3, <3>4, <3>5, <4>1
    <3>6. CASE j # i
      BY <1>14, <2>0, <3>3, <3>4, <3>6 DEF StillOpen
    <3> QED BY <3>5, <3>6
  <2>2. CASE ~ Opens(S, new, s, t, i)
    <3>1. t.outer = s.outer /\ Asking(s.inner[j])
      BY <1>1, <1>4, <1>14, <2>0, <2>2 DEF Progress
    <3>2. CASE m \in 1..b
      <4>1. m \in 1..Len(tr) /\ new[m] = tr[m]
        BY <1>5, <3>2
      <4> QED BY <1>14, <3>1, <4>1 DEF StillOpen
    <3>3. CASE m \notin 1..b
      <4>1. CASE RunsOut(S, new, s, t, i) /\ i \in 1..Len(S) /\ Asking(s.inner[i]) /\ new[m].parent = s.outer[i]
        <5>1. j # i
          BY <1>14, <4>1, RunsOutAsks
        <5>2. Expanding(s.inner[i]) /\ Expanding(s.inner[j])
          BY <3>1, <4>1, IteratorsAsk
        <5> QED BY <3>1, <4>1, <5>1, <5>2 DEF StateOK
      <4>2. CASE new[m].parent = CallAt(S, i)
        <5>1. CallAt(S, i) \in Nat /\ CallAt(S, i) <= c
          BY <1>10
        <5>2. s.outer[j] \in Nat /\ c < s.outer[j]
          BY <1>7, <3>1, IteratorsAsk
        <5> QED BY <1>5, <3>1, <4>2, <5>1, <5>2
      <4> QED BY <1>9, <1>14, <3>3, <4>1, <4>2
    <3> QED BY <3>2, <3>3
  <2> QED BY <2>1, <2>2
<1> QED BY <1>13, <1>14 DEF StillOpen

-----------------------------------------------------------------------------
(* Recording keeps the history.                                            *)

EndedEdge(x) == x.op = "edge" /\ x.ended => x.neighbors = << >>

\* An edge that has told its end has no neighbors left.
LEMMA EndedEdges ==
  ASSUME Tapped, RecordStep
  PROVE  \A j \in 1..Len(stages) : EndedEdge(inner'[j])
<1>0. /\ DOMAIN inner = 1..Len(stages) + 1 /\ DOMAIN stages = 1..Len(stages) /\ Len(stages) \in Nat
      /\ \A j \in 1..Len(stages) : j \in 1..Len(stages) + 1 /\ EndedEdge(inner[j])
  <2>1. \A j \in 1..Len(stages) : EndedEdge(inner[j])
    BY DEF Tapped, EndedEdge
  <2> QED BY <2>1, TappedIs
<1>1. CASE inner' = inner
  BY <1>0, <1>1
<1>2. ASSUME NEW i \in 1..Len(stages), NEW x, inner' = [inner EXCEPT ![i] = x], EndedEdge(x)
      PROVE  \A j \in 1..Len(stages) : EndedEdge(inner'[j])
  BY <1>0, <1>2
<1>3. /\ EndedEdge(NoIterator)
      /\ \A c, n, has : EndedEdge([op |-> "edge", ctx |-> c, neighbors |-> n, hasNeighbors |-> has, ended |-> FALSE])
      /\ \A c, b, n : EndedEdge([op |-> "recursive", ctx |-> c, base |-> b, neighbors |-> n])
      /\ \A cs : EndedEdge([op |-> "unpack", contexts |-> cs])
  BY DEF EndedEdge, NoIterator
<1>4. ASSUME NEW i \in 1..Len(stages), Expand(i)
      PROVE  \A j \in 1..Len(stages) : EndedEdge(inner'[j])
  <2>1. EndedEdge(NewExpander(i, Head(queue[i])))
    <3>1. \A a, b : IsOp(i, a) /\ IsOp(i, b) => a = b
      BY DEF IsOp
    <3>2. CASE IsOp(i, "neighbors")
      BY <1>3, <3>1, <3>2 DEF NewExpander
    <3>3. CASE IsOp(i, "recurse")
      BY <1>3, <3>1, <3>3 DEF NewExpander
    <3>4. CASE IsOp(i, "unpack")
      BY <1>3, <3>1, <3>4 DEF NewExpander
    <3> QED BY <1>4, <3>2, <3>3, <3>4 DEF Expand
  <2>2. inner' = [inner EXCEPT ![i] = NewExpander(i, Head(queue[i]))]
    BY <1>4 DEF Expand
  <2> QED BY <1>2, <2>1, <2>2
<1>5. ASSUME NEW i \in 1..Len(stages), inner[i].op = "edge", EdgeNeighbor(i) \/ EdgeMissing(i)
      PROVE  \A j \in 1..Len(stages) : EndedEdge(inner'[j])
  <2>1. \E c \in Context, end \in BOOLEAN : \E n, has :
          inner[i] = EdgeIt(c, n, has, end) /\ (end => n = << >>)
    BY <1>5, ExpanderIs
  <2>2. PICK c, n, has, end : inner[i] = EdgeIt(c, n, has, end) /\ (end => n = << >>)
    BY <2>1
  <2>3. PICK x : inner' = [inner EXCEPT ![i] = x] /\ x = IF EdgeNeighbor(i)
                    THEN [inner[i] EXCEPT !.neighbors = Tail(@), !.hasNeighbors = TRUE]
                    ELSE [inner[i] EXCEPT !.ended = TRUE]
    BY <1>5 DEF EdgeNeighbor, EdgeMissing, InnerAnswers
  <2>4. inner[i].neighbors = n /\ inner[i].ended = end
    BY <2>2, FieldsOf
  <2>5. EndedEdge(x)
    <3>1. CASE EdgeNeighbor(i)
      <4>1. ~ end
        BY <2>2, <2>4, <3>1 DEF EdgeNeighbor
      <4>2. x.ended = end
        BY <2>2, <2>3, <3>1 DEF EdgeIt
      <4> QED BY <4>1, <4>2 DEF EndedEdge
    <3>2. CASE ~ EdgeNeighbor(i)
      <4>1. n = << >>
        BY <1>5, <2>4, <3>2 DEF EdgeMissing
      <4>2. x.neighbors = n
        BY <2>2, <2>3, <3>2 DEF EdgeIt
      <4> QED BY <4>1, <4>2 DEF EndedEdge
    <3> QED BY <3>1, <3>2
  <2> QED BY <1>2, <2>3, <2>5
<1>6. ASSUME NEW i \in 1..Len(stages), inner[i].op = "recursive",
             RecursiveFirst(i) \/ RecursiveNeighbor(i) \/ RecursiveLeaf(i)
      PROVE  \A j \in 1..Len(stages) : EndedEdge(inner'[j])
  <2>1. \E c \in Context \cup {None}, b \in Context \cup {None} : \E n :
          inner[i] = RecursiveIt(c, b, n) /\ (c = None => n = << >> \/ b # None)
    BY <1>6, ExpanderIs
  <2>2. PICK c, b, n : inner[i] = RecursiveIt(c, b, n)
    BY <2>1
  <2>3. PICK x : /\ inner' = [inner EXCEPT ![i] = x]
                 /\ \/ \E l, m : x = [inner[i] EXCEPT !.neighbors = l, !.ctx = None, !.base = m]
                    \/ \E l : x = [inner[i] EXCEPT !.neighbors = l]
                    \/ x = [inner[i] EXCEPT !.ctx = None]
    <3>1. CASE RecursiveFirst(i)
      BY <3>1 DEF RecursiveFirst, InnerAnswers
    <3>2. CASE RecursiveNeighbor(i)
      BY <3>2 DEF RecursiveNeighbor, InnerAnswers
    <3>3. CASE RecursiveLeaf(i)
      BY <3>3 DEF RecursiveLeaf, InnerAnswers
    <3> QED BY <1>6, <3>1, <3>2, <3>3
  <2>4. x.op = "recursive"
    <3> DEFINE r == [op |-> "recursive", ctx |-> c, base |-> b, neighbors |-> n]
    <3>1. inner[i] = r
      BY <2>2 DEF RecursiveIt
    <3>2. ASSUME NEW l, NEW m, x = [r EXCEPT !.neighbors = l, !.ctx = None, !.base = m]
          PROVE  x.op = "recursive"
      BY <3>2
    <3>3. ASSUME NEW l, x = [r EXCEPT !.neighbors = l]
          PROVE  x.op = "recursive"
      BY <3>3
    <3>4. ASSUME x = [r EXCEPT !.ctx = None]
          PROVE  x.op = "recursive"
      BY <3>4
    <3> HIDE DEF r
    <3> QED BY <2>3, <3>1, <3>2, <3>3, <3>4
  <2>5. EndedEdge(x)
    BY <2>4 DEF EndedEdge
  <2> QED BY <1>2, <2>3, <2>5
<1>7. ASSUME NEW i \in 1..Len(stages), inner[i].op = "unpack", Unpack(i)
      PROVE  \A j \in 1..Len(stages) : EndedEdge(inner'[j])
  <2>1. PICK x : inner' = [inner EXCEPT ![i] = x] /\ x = [inner[i] EXCEPT !.contexts = Tail(@)]
    BY <1>7 DEF Unpack, InnerAnswers
  <2>2. inner[i] = UnpackIt(inner[i].contexts)
    BY <1>7, TappedIs, UnpackItIs
  <2>3. EndedEdge(x)
    BY <2>1, <2>2 DEF UnpackIt, EndedEdge
  <2> QED BY <1>2, <2>1, <2>3
<1>8. ASSUME NEW i \in 1..Len(stages), EdgeEnd(i) \/ RecursiveEnd(i) \/ UnpackEnd(i)
      PROVE  \A j \in 1..Len(stages) : EndedEdge(inner'[j])
  BY <1>2, <1>3, <1>8 DEF EdgeEnd, RecursiveEnd, UnpackEnd, InnerEnds
<1>9. CASE RecordStartingVertices
  BY <1>1, <1>9 DEF RecordStartingVertices, ResolveStartingVertices
<1>10. ASSUME NEW i \in 1..Consumer, Step(i)
       PROVE  \A j \in 1..Len(stages) : EndedEdge(inner'[j])
  <2>1. CASE Pull(i) \/ End(i) \/ Record(i) \/ Activate(i) \/ Keep(i) \/ Drop(i) \/ CoerceDeeper(i)
    BY <1>1, <2>1 DEF Pull, End, Record, Activate, Keep, Drop, CoerceDeeper
  <2>2. CASE Expand(i)
    <3>1. i \in 1..Len(stages)
      BY <1>0, <2>2 DEF Expand, IsOp
    <3> QED BY <1>4, <2>2, <3>1
  <2>3. CASE EdgeNeighbor(i) \/ EdgeMissing(i)
    <3>1. i \in 1..Len(stages) /\ inner[i].op = "edge"
      BY <1>0, <2>3 DEF EdgeNeighbor, EdgeMissing, Runs
    <3> QED BY <1>5, <2>3, <3>1
  <2>4. CASE RecursiveFirst(i) \/ RecursiveNeighbor(i) \/ RecursiveLeaf(i)
    <3>1. i \in 1..Len(stages) /\ inner[i].op = "recursive"
      BY <1>0, <2>4 DEF RecursiveFirst, RecursiveNeighbor, RecursiveLeaf, Runs
    <3> QED BY <1>6, <2>4, <3>1
  <2>5. CASE Unpack(i)
    <3>1. i \in 1..Len(stages) /\ inner[i].op = "unpack"
      BY <1>0, <2>5 DEF Unpack, Runs
    <3> QED BY <1>7, <2>5, <3>1
  <2>6. CASE EdgeEnd(i) \/ RecursiveEnd(i) \/ UnpackEnd(i)
    <3>1. i \in 1..Len(stages)
      BY <1>0, <2>6 DEF EdgeEnd, RecursiveEnd, UnpackEnd, Runs
    <3> QED BY <1>8, <2>6, <3>1
  <2> QED BY <1>10, <2>1, <2>2, <2>3, <2>4, <2>5, <2>6 DEF Step
<1>11. RecordStartingVertices \/ \E i \in 1..Consumer : Step(i)
  BY DEF RecordStep, RecordPull, RecordEnd, RecordAnswer, RecordOuter, RecordNeighbor, RecordOther, GetsNeighbor, GetsNone,
         DoesNotAsk, Step
<1> QED BY <1>9, <1>10, <1>11

\* A recorded step makes the history longer by one snapshot.
LEMMA RecordStepKeeps ==
  ASSUME RecordInv, RecordStep
  PROVE  RecordInv'
<1> DEFINE s == Snapshot
           t == Snapshot'
<1>1. Tapped /\ StillOpen(stages, trace, s) /\ IInv /\ TraceOK(stages, trace)
  BY DEF RecordInv, Tapped
<1>2. /\ Grew(trace, trace') /\ Follows(stages, trace', s, t)
      /\ stages' = stages /\ mode' = mode /\ awaiting' = awaiting /\ [Next]_vars
  BY <1>1, StepFollows
<1>3. PICK h, n : IsHistory(stages, trace, h, n) /\ h[n] = s
  BY DEF RecordInv
<1>4. stages \in Seq(Stage)
  BY <1>1, TappedIs
<1>5. StateOK(stages, trace', s)
  <2>1. n \in 1..n /\ \A k \in 1..n : StateOK(stages, trace, h[k])
    BY <1>3 DEF IsHistory
  <2>2. StateOK(stages, trace, s)
    BY <1>3, <2>1
  <2> HIDE DEF s
  <2> QED BY <1>2, <2>2, StateGrows
<1>6. IInv'
  BY <1>1, <1>2, NextIInv
<1>7. Sound(stages, t)
  <2>1. (IInv => Sound(stages, Snapshot))'
    BY SnapshotSound, PTL
  <2> QED BY <1>2, <1>6, <2>1
<1>8. s.read = Len(trace) /\ t.read = Len(trace')
  BY <1>2, SnapshotIs, SnapshotNext
<1> HIDE DEF s, t
<1>9. IsTrace(trace')
  BY <1>2 DEF Grew
<1>10. StateOK(stages, trace', t)
  BY <1>2, <1>4, <1>5, <1>7, <1>9, StateKeeps
<1>11. TraceOK(stages, trace') /\ StillOpen(stages, trace', t)
  BY <1>1, <1>2, <1>4, <1>5, <1>8, TraceKeeps
<1>12. \E g : IsHistory(stages, trace', g, n + 1) /\ g[n + 1] = t
  BY <1>2, <1>3, <1>4, <1>8, <1>10, HistoryGrows
<1>13. \A j \in 1..Len(stages) : EndedEdge(inner'[j])
  BY <1>1, EndedEdges
<1>14. Tapped'
  BY <1>1, <1>2, <1>6, <1>11, <1>13 DEF Tapped, EndedEdge
<1> QED BY <1>2, <1>11, <1>12, <1>14 DEF RecordInv, t

\* The recording starts with the history of one snapshot.
LEMMA InitRecorded == TapInit => RecordInv
<1> SUFFICES ASSUME TapInit PROVE RecordInv
  OBVIOUS
<1> DEFINE s == Snapshot
<1>1. /\ Init /\ mode = "recording" /\ trace = Calls /\ awaiting = {}
      /\ neighbors = [i \in DOMAIN stages |-> 0]
      /\ turn = Consumer /\ queue = [i \in 1..Consumer |-> << >>]
      /\ ended = [i \in 1..Consumer |-> FALSE] /\ inner = [i \in 1..Consumer |-> NoIterator]
  BY DEF TapInit, Init
<1>2. IInv /\ Consumer = Len(stages) + 1
  BY <1>1, InitIInv DEF Consumer
<1>3. stages \in Seq(Stage) /\ Len(stages) \in Nat /\ DOMAIN stages = 1..Len(stages)
  <2>1. stages \in Seq(Stage)
    BY <1>2, SnapshotSound
  <2> QED BY <2>1
<1>4. PICK c \in Nat : c = Cardinality(CallersOf(stages))
  BY <1>3, CallersFinite
<1>5. trace = [n \in 1..c |-> Op(None, "call", CHOOSE i \in Callers : CallOf(i) = n)]
  BY <1>1, <1>4, StagesAt DEF Calls
<1>6. IsTrace(trace) /\ Len(trace) = c
  <2> DEFINE T == {trace[k] : k \in 1..c}
  <2> DEFINE C(n) == Op(None, "call", CHOOSE i \in Callers : CallOf(i) = n)
  <2>1. trace = [n \in 1..c |-> trace[n]]
    <3>1. trace = [n \in 1..c |-> C(n)]
      BY <1>5
    <3> HIDE DEF C
    <3> QED BY <3>1
  <2>2. \A k \in 1..c : trace[k] \in T
    OBVIOUS
  <2> HIDE DEF T
  <2> QED BY <2>1, <2>2, SeqIs DEF IsTrace
<1>7. \A m \in 1..Len(trace) : trace[m].kind = "call"
  BY <1>5, <1>6 DEF Op
<1>8. TraceOK(stages, trace)
  BY <1>4, <1>6, <1>7 DEF TraceOK
<1>9. /\ s.turn = Len(stages) + 1 /\ s.read = c
      /\ s.queue = [i \in 1..Len(stages) + 1 |-> << >>]
      /\ s.ended = [i \in 1..Len(stages) + 1 |-> FALSE]
      /\ s.outer = [i \in 1..Len(stages) |-> 0]
  BY <1>1, <1>2, <1>3, <1>6, SnapshotIs
<1>10. s.inner = [i \in 1..Len(stages) + 1 |-> NoIterator]
  BY <1>1, <1>2, SnapshotIs, FilledIs
<1> HIDE DEF s
<1>11. StateOK(stages, trace, s)
  <2>1. StateTyped(stages, s)
    BY <1>3, <1>4, <1>9, <1>10 DEF StateTyped
  <2>2. \A j \in 1..Len(stages) + 1 : s.inner[j] = NoIterator /\ ~ s.ended[j] /\ Shape(stages, j, s.inner[j])
    BY <1>9, <1>10, ShapesHold
  <2>3. Cardinality(Rows(trace, s.read)) = 0
    <3>1. Rows(trace, s.read) = {}
      BY <1>6, <1>7, <1>9 DEF Rows
    <3> QED BY <3>1, FS_EmptySet
  <2>4. s.queue[Len(stages) + 1] = << >> /\ Len(stages) + 1 \in 1..Len(stages) + 1
    BY <1>3, <1>9
  <2>5. s.read <= s.read
    BY <1>4, <1>9
  <2>6. \A j \in 1..Len(stages) : j \in 1..Len(stages) + 1 /\ ~ Expanding(s.inner[j])
    BY <1>3, <2>2, IteratorsAsk
  <2>7. Cardinality(CallersOf(stages)) <= s.read /\ s.read <= Len(trace)
    BY <1>4, <1>6, <1>9, <2>5
  <2>8. Len(s.queue[Len(stages) + 1]) = Cardinality(Rows(trace, s.read))
    BY <2>3, <2>4
  <2> QED BY <2>1, <2>2, <2>4, <2>6, <2>7, <2>8 DEF StateOK
<1>12. \E h, n : IsHistory(stages, trace, h, n) /\ h[n] = s
  <2> DEFINE h == [k \in 1..1 |-> s]
  <2>1. h[1] = s /\ 1 \in Nat \ {0} /\ 1..1 - 1 = {}
    OBVIOUS
  <2>2. \A k \in 1..1 : h[k] = s
    OBVIOUS
  <2> HIDE DEF h
  <2>3. h[1].read = Cardinality(CallersOf(stages)) /\ h[1].read = Len(trace)
    BY <1>4, <1>6, <1>9, <2>1
  <2>4. IsHistory(stages, trace, h, 1)
    BY <1>9, <1>10, <1>11, <2>1, <2>2, <2>3 DEF IsHistory
  <2> QED BY <2>1, <2>4
<1>13. StillOpen(stages, trace, s)
  BY <1>7 DEF StillOpen
<1>14. Tapped
  <2>1. \A j \in 1..Len(stages) : inner[j].op # "edge"
    BY <1>1, <1>2, <1>3, FilledIs
  <2> QED BY <1>1, <1>2, <1>8, <2>1 DEF Tapped
<1> QED BY <1>12, <1>13, <1>14 DEF RecordInv, s

-----------------------------------------------------------------------------
(* The replay begins.                                                      *)

\* The iterators at a snapshot.
Iters(S, tr, s) == [j \in 1..Len(S) + 1 |-> Filled(s.inner[j], Unread(tr, s.outer[j], s.read))]

\* A replay starts at the first snapshot of the history.
LEMMA StartReplays ==
  ASSUME RecordInv, StartReplay
  PROVE  ReplayInv'
<1>1. Tapped /\ mode = "recording" /\ awaiting = {} /\ TraceOK(stages, trace)
  BY DEF RecordInv, Tapped
<1>2. PICK h, n : IsHistory(stages, trace, h, n) /\ h[n] = Snapshot
  BY DEF RecordInv
<1>3. /\ stages \in Seq(Stage) /\ Consumer = Len(stages) + 1 /\ Len(stages) \in Nat /\ DOMAIN stages = 1..Len(stages)
      /\ IsTrace(trace)
  BY <1>1, TappedIs
<1>4. /\ stages' = stages /\ trace' = trace /\ mode' = "replaying" /\ complete' = ended[Consumer]
      /\ turn = Consumer /\ turn' = Consumer /\ awaiting' = awaiting /\ neighbors' = neighbors
      /\ queue' = [i \in 1..Consumer |-> << >>]
      /\ ended' = [i \in 1..Consumer |-> FALSE]
      /\ inner' = [i \in 1..Consumer |-> NoIterator]
      /\ read' = Len(Calls)
  BY DEF StartReplay
<1>5. h[n].turn = Len(stages) + 1 /\ complete' = h[n].ended[Len(stages) + 1] /\ h[n].outer = neighbors
  BY <1>2, <1>3, <1>4, SnapshotIs
<1>6. n \in Nat \ {0} /\ 1 \in 1..n /\ n \in 1..n
  BY <1>2 DEF IsHistory
<1>7. neighbors \in [1..Len(stages) -> Nat]
  <2>1. StateOK(stages, trace, h[n])
    BY <1>2, <1>6 DEF IsHistory
  <2> QED BY <1>5, <2>1 DEF StateOK, StateTyped
<1>8. read' = h[1].read
  <2>1. Len(Calls) = Cardinality(Callers)
    <3>1. PICK c \in Nat : c = Cardinality(Callers)
      BY <1>3, StagesAt, CallersFinite
    <3>2. Calls = [k \in 1..c |-> Op(None, "call", CHOOSE i \in Callers : CallOf(i) = k)]
      BY <3>1 DEF Calls
    <3> DEFINE T == {Calls[k] : k \in 1..c}
    <3> DEFINE C(k) == Op(None, "call", CHOOSE i \in Callers : CallOf(i) = k)
    <3>3. Calls = [k \in 1..c |-> Calls[k]]
      <4>1. Calls = [k \in 1..c |-> C(k)]
        BY <3>2
      <4> HIDE DEF C
      <4> QED BY <4>1
    <3>4. \A k \in 1..c : Calls[k] \in T
      OBVIOUS
    <3> HIDE DEF T
    <3> QED BY <3>1, <3>3, <3>4, SeqIs
  <2> QED BY <1>2, <1>4, <2>1, StagesAt DEF IsHistory
<1>9. /\ h[1].turn = Len(stages) + 1
      /\ h[1].queue = [i \in 1..Len(stages) + 1 |-> << >>]
      /\ h[1].ended = [i \in 1..Len(stages) + 1 |-> FALSE]
      /\ h[1].inner = [i \in 1..Len(stages) + 1 |-> NoIterator]
  BY <1>2 DEF IsHistory
<1>10. Waiting(stages, h[1], No) = {}
  BY <1>3, <1>9 DEF Waiting, No
<1>11. inner' = Iters(stages, trace, h[1])
  BY <1>3, <1>4, <1>9, FilledIs DEF Iters
<1>12. \A j \in 1..Len(stages) : ~ Expanding(h[1].inner[j])
  BY <1>3, <1>9, IteratorsAsk
<1>13. At(h[1], FALSE)'
  <2>1. At(h[1], No)'
    <3>1. stages' = stages /\ trace' = trace /\ awaiting' = Waiting(stages, h[1], No) /\ neighbors' = neighbors
      BY <1>1, <1>4, <1>10
    <3>2. turn' = h[1].turn /\ queue' = h[1].queue /\ ended' = h[1].ended
      BY <1>3, <1>4, <1>9
    <3> QED BY <1>7, <1>8, <1>11, <1>12, <3>1, <3>2, Zenon DEF At, Iters, No
  <2> QED BY <2>1, Zenon DEF No
<1> QED BY <1>1, <1>2, <1>3, <1>4, <1>5, <1>6, <1>13, Zenon DEF ReplayInv

-----------------------------------------------------------------------------
(* What the trace has of an iterator over neighbors.                       *)

LEMMA CountIs ==
  ASSUME NEW tr, NEW n, NEW b \in Nat, NEW c \in Nat, b <= c
  PROVE  /\ Count(tr, n, b) \in Nat /\ Count(tr, n, b) <= Count(tr, n, c)
         /\ (\A m \in Nat : b < m /\ m <= c /\ tr[m].kind = "inner" => tr[m].parent # n) =>
              Count(tr, n, c) = Count(tr, n, b)
         /\ c = b + 1 /\ tr[c].kind = "inner" /\ tr[c].parent = n => Count(tr, n, c) = Count(tr, n, b) + 1
<1>1. InnerOps(tr, n, b) \subseteq InnerOps(tr, n, c) /\ InnerOps(tr, n, b) \subseteq 1..b /\ InnerOps(tr, n, c) \subseteq 1..c
  BY DEF InnerOps
<1>2. IsFiniteSet(1..b) /\ IsFiniteSet(1..c)
  BY FS_Interval
<1>3. IsFiniteSet(InnerOps(tr, n, b)) /\ IsFiniteSet(InnerOps(tr, n, c))
  BY <1>1, <1>2, FS_Subset
<1>4. Count(tr, n, b) \in Nat /\ Count(tr, n, b) <= Count(tr, n, c)
  BY <1>1, <1>3, FS_Subset, FS_CardinalityType DEF Count
<1>5. ASSUME \A m \in Nat : b < m /\ m <= c /\ tr[m].kind = "inner" => tr[m].parent # n
      PROVE  Count(tr, n, c) = Count(tr, n, b)
  <2>1. InnerOps(tr, n, c) = InnerOps(tr, n, b)
    BY <1>5 DEF InnerOps
  <2> QED BY <2>1 DEF Count
<1>6. ASSUME c = b + 1, tr[c].kind = "inner", tr[c].parent = n
      PROVE  Count(tr, n, c) = Count(tr, n, b) + 1
  <2>1. InnerOps(tr, n, c) = InnerOps(tr, n, b) \cup {c} /\ c \notin InnerOps(tr, n, b)
    BY <1>6 DEF InnerOps
  <2> QED BY <1>3, <2>1, FS_AddElement DEF Count
<1> QED BY <1>4, <1>5, <1>6

\* No two of the vertices that an iterator yielded have the same position.
LEMMA PositionsOnce ==
  ASSUME NEW S, NEW tr, TraceOK(S, tr), Len(tr) \in Nat, NEW n, NEW b \in Nat, Said(tr, b, n, "inner")
  PROVE  VertexIn(tr, n, Count(tr, n, b)) = tr[b + 1].value.vertex
<1>1. b + 1 \in InnerOps(tr, n, Len(tr)) /\ b + 1 \in 1..Len(tr)
  BY DEF Said, InnerOps
<1>2. tr[b + 1].value.position = Count(tr, n, b)
  <2>1. tr[b + 1].value.position = Count(tr, tr[b + 1].parent, b + 1 - 1)
    BY <1>1 DEF TraceOK, Said
  <2>2. b + 1 - 1 = b
    OBVIOUS
  <2> QED BY <2>1, <2>2 DEF Said
<1>3. ASSUME NEW m \in InnerOps(tr, n, Len(tr)), tr[m].value.position = Count(tr, n, b)
      PROVE  m = b + 1
  <2>1. m \in 1..Len(tr) /\ tr[m].kind = "inner" /\ tr[m].parent = n /\ m - 1 \in Nat /\ m \in Nat
    BY DEF InnerOps
  <2>2. Count(tr, n, m - 1) = Count(tr, n, b)
    BY <1>3, <2>1 DEF TraceOK
  <2>3. Count(tr, n, b + 1) = Count(tr, n, b) + 1 /\ Count(tr, n, b) \in Nat
    BY CountIs DEF Said
  <2>4. Count(tr, n, m) = Count(tr, n, m - 1) + 1
    <3>1. m - 1 <= m /\ m = (m - 1) + 1
      BY <2>1
    <3> QED BY <2>1, <3>1, CountIs
  <2>5. CASE m <= b
    <3>1. Count(tr, n, m) <= Count(tr, n, b) /\ Count(tr, n, m) \in Nat
      BY <2>1, <2>5, CountIs
    <3> QED BY <2>2, <2>3, <2>4, <3>1
  <2>6. CASE b + 1 <= m - 1
    <3>1. Count(tr, n, b + 1) <= Count(tr, n, m - 1)
      BY <2>1, <2>6, CountIs
    <3> QED BY <2>2, <2>3, <3>1
  <2> QED BY <2>1, <2>5, <2>6
<1>4. (CHOOSE m \in InnerOps(tr, n, Len(tr)) : tr[m].value.position = Count(tr, n, b)) = b + 1
  BY <1>1, <1>2, <1>3
<1> QED BY <1>4 DEF VertexIn

\* What the trace still has of an iterator: the vertices it has not yielded yet, in order.
LEMMA UnreadIs ==
  ASSUME NEW tr, NEW n, NEW b \in Nat, Len(tr) \in Nat, b <= Len(tr)
  PROVE  /\ Len(Unread(tr, n, b)) = Count(tr, n, Len(tr)) - Count(tr, n, b)
         /\ Len(Unread(tr, n, b)) \in Nat
         /\ \E T : Unread(tr, n, b) \in Seq(T)
         /\ \A k \in 1..Len(Unread(tr, n, b)) : Unread(tr, n, b)[k] = VertexIn(tr, n, Count(tr, n, b) + k - 1)
<1> DEFINE u == Unread(tr, n, b)
           V(p) == VertexIn(tr, n, p)
<1>1. PICK c : c = Count(tr, n, b)
  OBVIOUS
<1>2. PICK d : d = Count(tr, n, Len(tr)) - c
  OBVIOUS
<1>3. c \in Nat /\ d \in Nat
  <2>1. c \in Nat /\ Count(tr, n, Len(tr)) \in Nat /\ c <= Count(tr, n, Len(tr))
    BY <1>1, CountIs
  <2> QED BY <1>2, <2>1
<1>4. u = [k \in 1..d |-> V(c + k - 1)]
  BY <1>1, <1>2 DEF Unread
<1> HIDE DEF u, V
<1>5. u = [k \in 1..d |-> u[k]] /\ \A k \in 1..d : u[k] = V(c + k - 1)
  BY <1>4
<1>6. u \in Seq({u[k] : k \in 1..d}) /\ Len(u) = d
  <2> DEFINE T == {u[k] : k \in 1..d}
  <2>1. \A k \in 1..d : u[k] \in T
    OBVIOUS
  <2> HIDE DEF T
  <2>2. u \in Seq(T) /\ Len(u) = d
    BY <1>3, <1>5, <2>1, SeqIs
  <2> QED BY <2>2 DEF T
<1>7. \E T : u \in Seq(T)
  BY <1>6
<1>8. Len(u) = Count(tr, n, Len(tr)) - Count(tr, n, b) /\ Len(u) \in Nat
  BY <1>1, <1>2, <1>3, <1>6
<1>9. \A k \in 1..Len(u) : u[k] = VertexIn(tr, n, Count(tr, n, b) + k - 1)
  BY <1>1, <1>5, <1>6 DEF V
<1> QED BY <1>7, <1>8, <1>9 DEF u

\* The next vertex of an iterator is the next that the trace has of it.
LEMMA UnreadNext ==
  ASSUME NEW S, NEW tr, TraceOK(S, tr), Len(tr) \in Nat, NEW n, NEW b \in Nat, Said(tr, b, n, "inner")
  PROVE  /\ Unread(tr, n, b) # << >>
         /\ Head(Unread(tr, n, b)) = tr[b + 1].value.vertex
         /\ Tail(Unread(tr, n, b)) = Unread(tr, n, b + 1)
<1> DEFINE V(p) == VertexIn(tr, n, p)
<1>1. PICK u : u = Unread(tr, n, b)
  OBVIOUS
<1>2. PICK c : c = Count(tr, n, b)
  OBVIOUS
<1>3. PICK d : d = Count(tr, n, Len(tr))
  OBVIOUS
<1>4. b <= Len(tr) /\ b + 1 \in Nat /\ b + 1 <= Len(tr) /\ b <= b + 1
  BY DEF Said
<1>5. c \in Nat /\ d \in Nat /\ Count(tr, n, b + 1) = c + 1 /\ c + 1 <= d
  <2>1. c \in Nat /\ Count(tr, n, b + 1) = c + 1
    BY <1>2, <1>4, CountIs DEF Said
  <2>2. Count(tr, n, b + 1) \in Nat /\ Count(tr, n, b + 1) <= d
    BY <1>3, <1>4, CountIs
  <2>3. d \in Nat
    BY <1>3, CountIs
  <2> QED BY <2>1, <2>2, <2>3
<1>6. /\ Len(u) = d - c /\ \E T : u \in Seq(T)
      /\ \A k \in 1..d - c : u[k] = V(c + k - 1)
  <2>1. Len(u) = d - c /\ \E T : u \in Seq(T)
    BY <1>1, <1>2, <1>3, <1>4, UnreadIs
  <2>2. \A k \in 1..Len(u) : u[k] = V(c + k - 1)
    BY <1>1, <1>2, <1>4, UnreadIs
  <2> QED BY <2>1, <2>2
<1>7. PICK T : u \in Seq(T)
  BY <1>6
<1>8. V(c) = tr[b + 1].value.vertex
  BY <1>2, PositionsOnce
<1>9. Unread(tr, n, b + 1) = [k \in 1..d - (c + 1) |-> V(c + 1 + k - 1)]
  BY <1>3, <1>5 DEF Unread
<1> HIDE DEF V
<1>10. u # << >> /\ Head(u) = V(c)
  <2>1. 1 \in 1..d - c /\ c + 1 - 1 = c
    BY <1>5
  <2>2. u[1] = V(c)
    BY <1>6, <2>1
  <2> QED BY <1>5, <1>6, <1>7, <2>1, <2>2
<1>11. Tail(u) = [k \in 1..d - (c + 1) |-> V(c + 1 + k - 1)]
  <2>0. PICK w : w = Tail(u)
    OBVIOUS
  <2>1. w = [k \in 1..Len(u) - 1 |-> u[k + 1]]
    <3>1. w \in Seq(T) /\ Len(w) = Len(u) - 1 /\ \A k \in 1..Len(w) : w[k] = u[k + 1]
      BY <1>7, <1>10, <2>0, HeadTailProperties
    <3>2. w = [k \in 1..Len(w) |-> w[k]]
      BY <3>1
    <3> QED BY <3>1, <3>2
  <2>2. Len(u) - 1 = d - (c + 1)
    BY <1>5, <1>6
  <2>3. \A k \in 1..d - (c + 1) : k + 1 \in 1..d - c /\ c + (k + 1) - 1 = c + 1 + k - 1
    BY <1>5
  <2>4. \A k \in 1..d - (c + 1) : u[k + 1] = V(c + 1 + k - 1)
    BY <1>6, <2>3
  <2>5. w = [k \in 1..d - (c + 1) |-> u[k + 1]]
    BY <2>1, <2>2
  <2> QED BY <2>0, <2>4, <2>5
<1> QED BY <1>1, <1>8, <1>9, <1>10, <1>11

\* An iterator that runs out has nothing left in the trace.
LEMMA UnreadEnds ==
  ASSUME NEW S, NEW tr, TraceOK(S, tr), Len(tr) \in Nat, NEW n, NEW b \in Nat, Said(tr, b, n, "exhausted")
  PROVE  Unread(tr, n, b) = << >>
<1>1. b + 1 \in 1..Len(tr) /\ b <= Len(tr)
  BY DEF Said
<1>2. ASSUME NEW m \in Nat, b < m, m <= Len(tr), tr[m].kind = "inner"
      PROVE  tr[m].parent # n
  <2>1. m \in 1..Len(tr) /\ m # b + 1
    BY <1>2 DEF Said
  <2>2. b + 1 < m
    BY <1>2, <2>1
  <2> QED BY <1>1, <1>2, <2>1, <2>2 DEF TraceOK, Said
<1>3. Count(tr, n, Len(tr)) = Count(tr, n, b) /\ Count(tr, n, b) \in Nat
  BY <1>1, <1>2, CountIs
<1>4. Len(Unread(tr, n, b)) = 0 /\ \E T : Unread(tr, n, b) \in Seq(T)
  <2>1. Len(Unread(tr, n, b)) = Count(tr, n, Len(tr)) - Count(tr, n, b)
    BY <1>1, UnreadIs
  <2>2. \E T : Unread(tr, n, b) \in Seq(T)
    BY <1>1, UnreadIs
  <2> QED BY <1>3, <2>1, <2>2
<1> QED BY <1>4

\* What the trace has of an iterator does not change while another one is read.
LEMMA UnreadKept ==
  ASSUME NEW tr, NEW n, NEW b \in Nat, NEW c \in Nat, b <= c,
         \A m \in Nat : b < m /\ m <= c /\ tr[m].kind = "inner" => tr[m].parent # n
  PROVE  Unread(tr, n, c) = Unread(tr, n, b)
<1>1. Count(tr, n, c) = Count(tr, n, b)
  BY CountIs
<1> QED BY <1>1 DEF Unread

\* The vertices that the readers find for an operation.
LEMMA VerticesAre ==
  ASSUME NEW n, NEW b \in Nat, IsTrace(trace), b <= Len(trace)
  PROVE  /\ Len(VerticesOf(n)) - Len(Unread(trace, n, b)) = Count(trace, n, b)
         /\ Count(trace, n, b) = 0 => VerticesOf(n) = Unread(trace, n, b)
<1>1. Len(trace) \in Nat /\ DOMAIN trace = 1..Len(trace)
  BY DEF IsTrace
<1>2. Inner(n) = InnerOps(trace, n, Len(trace))
  BY <1>1 DEF Inner, InnerOps
<1>3. Position(n) = Count(trace, n, Len(trace))
  BY <1>2 DEF Position, Count
<1>4. \A p : VertexAt(n, p) = VertexIn(trace, n, p)
  BY <1>2 DEF VertexAt, VertexIn
<1>5. \A c \in Nat : Count(trace, n, c) = 0 => VerticesOf(n) = Unread(trace, n, c)
  <2> SUFFICES ASSUME NEW c \in Nat, Count(trace, n, c) = 0 PROVE VerticesOf(n) = Unread(trace, n, c)
    OBVIOUS
  <2>1. PICK d \in Nat : d = Position(n)
    BY <1>1, <1>3, CountIs
  <2>2. \A k \in 1..d : 0 + k - 1 = k - 1
    OBVIOUS
  <2>3. d - 0 = d
    OBVIOUS
  <2> QED BY <1>3, <1>4, <2>1, <2>2, <2>3 DEF VerticesOf, Unread
<1>6. Count(trace, n, 0) = 0
  <2>1. InnerOps(trace, n, 0) = {}
    BY DEF InnerOps
  <2> QED BY <2>1, FS_EmptySet DEF Count
<1>7. Len(VerticesOf(n)) = Count(trace, n, Len(trace)) - 0
  BY <1>1, <1>5, <1>6, UnreadIs
<1>8. Len(Unread(trace, n, b)) = Count(trace, n, Len(trace)) - Count(trace, n, b)
  BY <1>1, UnreadIs
<1>9. Count(trace, n, Len(trace)) \in Nat /\ Count(trace, n, b) \in Nat
  BY <1>1, CountIs
<1>10. Len(VerticesOf(n)) - Len(Unread(trace, n, b)) = Count(trace, n, b)
  BY <1>7, <1>8, <1>9
<1> QED BY <1>5, <1>10

\* An iterator that is new has all that the trace has of it.
LEMMA UnreadFirst ==
  ASSUME NEW S, TraceOK(S, trace), NEW n \in Nat, n <= Len(trace)
  PROVE  VerticesOf(n) = Unread(trace, n, n)
<1>1. IsTrace(trace) /\ Len(trace) \in Nat
  BY DEF TraceOK, IsTrace
<1>2. InnerOps(trace, n, n) = {}
  BY <1>1 DEF InnerOps, TraceOK
<1>3. Count(trace, n, n) = 0
  BY <1>2, FS_EmptySet DEF Count
<1> QED BY <1>1, <1>3, VerticesAre

-----------------------------------------------------------------------------
(* The iterators of a replay.                                              *)

\* A step that yields none of its vertices leaves what is unread.
LEMMA UnreadStays ==
  ASSUME NEW S \in Seq(Stage), NEW tr, IsTrace(tr), NEW s, NEW t, StateOK(S, tr, s), Progress(S, tr, s, t),
         NEW n, ~ Said(tr, s.read, n, "inner")
  PROVE  Unread(tr, n, t.read) = Unread(tr, n, s.read)
<1>1. s.read \in Nat /\ t.read \in Nat /\ s.read <= t.read /\ t.read <= Len(tr)
  <2>1. s.read \in Nat
    BY DEF StateOK, StateTyped
  <2> QED BY <2>1, NewOps
<1>2. ASSUME NEW m \in Nat, s.read < m, m <= t.read, tr[m].kind = "inner"
      PROVE  tr[m].parent # n
  <2>1. tr[m].kind \in OwnKinds
    BY <1>2 DEF OwnKinds
  <2>2. m = s.read + 1 /\ OwnIs(S, tr, s, t, s.read)
    BY <1>2, <2>1, NewOps
  <2> QED BY <1>2, <2>2 DEF Said, OwnIs
<1> QED BY <1>1, <1>2, UnreadKept

\* The iterators of the other stages have what they had.
LEMMA OthersKeep ==
  ASSUME NEW S \in Seq(Stage), NEW tr, IsTrace(tr), NEW s, NEW t, StateOK(S, tr, s), Progress(S, tr, s, t),
         NEW j \in 1..Len(S), j # s.turn, Expanding(s.inner[j])
  PROVE  Unread(tr, s.outer[j], t.read) = Unread(tr, s.outer[j], s.read)
<1>0. s.read \in Nat /\ t.read \in Nat /\ s.read <= t.read
  <2>1. s.read \in Nat
    BY DEF StateOK, StateTyped
  <2> QED BY <2>1, NewOps
<1>1. CASE Said(tr, s.read, s.outer[j], "inner")
  <2>1. PICK i : i = s.turn
    OBVIOUS
  <2>2. ~ OwnIs(S, tr, s, t, s.read)
    <3> SUFFICES ASSUME OwnIs(S, tr, s, t, s.read) PROVE FALSE
      OBVIOUS
    <3>1. Reaches(S, tr, s, t, i)
      BY <1>1, <2>1 DEF OwnIs, Said
    <3>2. i \in 1..Len(S) /\ Expanding(s.inner[i]) /\ tr[s.read + 1].parent = s.outer[i]
      BY <3>1, IteratorsAsk DEF Reaches, Said
    <3>3. s.outer[i] # s.outer[j]
      BY <2>1, <3>2 DEF StateOK
    <3> QED BY <1>1, <3>2, <3>3 DEF Said
  <2>3. ASSUME NEW m \in Nat, s.read < m, m <= t.read
        PROVE  tr[m].kind # "inner"
    BY <2>2, <2>3, NewOps DEF OwnKinds
  <2> QED BY <1>0, <2>3, UnreadKept
<1>2. CASE ~ Said(tr, s.read, s.outer[j], "inner")
  BY <1>2, UnreadStays
<1> QED BY <1>1, <1>2

\* The iterators of a step that changes none.
LEMMA ItersSame ==
  ASSUME NEW S \in Seq(Stage), NEW tr, IsTrace(tr), NEW s, NEW t, StateOK(S, tr, s), Progress(S, tr, s, t),
         t.inner = s.inner, t.outer = s.outer, s.turn \in 1..Len(S) => ~ Expanding(s.inner[s.turn])
  PROVE  Iters(S, tr, t) = Iters(S, tr, s)
<1>1. ASSUME NEW j \in 1..Len(S) + 1
      PROVE  Filled(t.inner[j], Unread(tr, t.outer[j], t.read)) = Filled(s.inner[j], Unread(tr, s.outer[j], s.read))
  <2>1. CASE Expanding(s.inner[j])
    <3>1. j \in 1..Len(S) /\ j # s.turn
      BY <2>1, IteratorsAsk DEF StateOK
    <3> QED BY <2>1, <3>1, OthersKeep
  <2>2. CASE ~ Expanding(s.inner[j])
    BY <2>2 DEF Filled, Expanding
  <2> QED BY <2>1, <2>2
<1> QED BY <1>1 DEF Iters

Changed(f, i, v) == [f EXCEPT ![i] = v]
SameOuter(S, s, t, i) == \A j \in 1..Len(S) : j # i => t.outer[j] = s.outer[j]

\* The iterators of a step that changes one.
LEMMA ItersChange ==
  ASSUME NEW S \in Seq(Stage), NEW tr, IsTrace(tr), NEW s, NEW t, StateOK(S, tr, s), Progress(S, tr, s, t),
         NEW i \in 1..Len(S), s.turn = i, SameOuter(S, s, t, i)
  PROVE  Iters(S, tr, t) = Changed(Iters(S, tr, s), i, Filled(t.inner[i], Unread(tr, t.outer[i], t.read)))
<1>1. ASSUME NEW j \in 1..Len(S) + 1, j # i
      PROVE  Filled(t.inner[j], Unread(tr, t.outer[j], t.read)) = Filled(s.inner[j], Unread(tr, s.outer[j], s.read))
  <2>0. t.inner[j] = s.inner[j]
    BY <1>1 DEF Progress
  <2>1. CASE Expanding(s.inner[j])
    <3>1. j \in 1..Len(S) /\ j # s.turn
      BY <1>1, <2>1, IteratorsAsk DEF StateOK
    <3> QED BY <1>1, <2>0, <2>1, <3>1, OthersKeep DEF SameOuter
  <2>2. CASE ~ Expanding(s.inner[j])
    BY <2>0, <2>2 DEF Filled, Expanding
  <2> QED BY <2>1, <2>2
<1>2. i \in 1..Len(S) + 1
  OBVIOUS
<1>3. PICK f : f = Iters(S, tr, s)
  OBVIOUS
<1>4. f = [j \in 1..Len(S) + 1 |-> f[j]] /\ \A j \in 1..Len(S) + 1 : f[j] = Filled(s.inner[j], Unread(tr, s.outer[j], s.read))
  BY <1>3 DEF Iters
<1>5. PICK g : g = Iters(S, tr, t)
  OBVIOUS
<1>6. g = [j \in 1..Len(S) + 1 |-> g[j]] /\ \A j \in 1..Len(S) + 1 : g[j] = Filled(t.inner[j], Unread(tr, t.outer[j], t.read))
  BY <1>5 DEF Iters
<1>7. \A j \in 1..Len(S) + 1 : j # i => g[j] = f[j]
  BY <1>1, <1>4, <1>6
<1>8. g[i] = Filled(t.inner[i], Unread(tr, t.outer[i], t.read))
  BY <1>2, <1>6
<1>9. g = [f EXCEPT ![i] = g[i]]
  BY <1>4, <1>6, <1>7
<1> QED BY <1>3, <1>5, <1>8, <1>9 DEF Changed

-----------------------------------------------------------------------------
(* From a snapshot to the next.                                            *)

\* The replay is at s, and its input has been read.
Ready(s) ==
  /\ mode = "replaying" /\ stages \in Seq(Stage) /\ TraceOK(stages, trace)
  /\ StateOK(stages, trace, s)
  /\ At(s, FALSE)

\* What a replay that is at a snapshot is known to have.
LEMMA ReadyIs ==
  ASSUME NEW s, Ready(s)
  PROVE  /\ IsTrace(trace) /\ Len(trace) \in Nat /\ DOMAIN trace = 1..Len(trace)
         /\ Len(stages) \in Nat /\ DOMAIN stages = 1..Len(stages) /\ Consumer = Len(stages) + 1
         /\ turn = s.turn /\ queue = s.queue /\ ended = s.ended /\ inner = Iters(stages, trace, s)
         /\ read = s.read /\ read \in Nat /\ awaiting = Waiting(stages, s, FALSE)
         /\ neighbors \in [1..Len(stages) -> Nat]
         /\ \A j \in 1..Len(stages) : Expanding(s.inner[j]) => neighbors[j] = s.outer[j]
         /\ s.turn \in 0..Len(stages) + 1
<1>1. IsTrace(trace) /\ Len(trace) \in Nat /\ DOMAIN trace = 1..Len(trace)
  BY DEF Ready, TraceOK, IsTrace
<1>2. Len(stages) \in Nat /\ DOMAIN stages = 1..Len(stages) /\ Consumer = Len(stages) + 1
  BY DEF Ready, Consumer
<1>3. s.turn \in 0..Len(stages) + 1 /\ s.read \in Nat
  BY DEF Ready, StateOK, StateTyped
<1>4. /\ turn = s.turn /\ queue = s.queue /\ ended = s.ended /\ inner = Iters(stages, trace, s)
      /\ read = s.read /\ awaiting = Waiting(stages, s, FALSE)
      /\ neighbors \in [1..Len(stages) -> Nat]
      /\ \A j \in 1..Len(stages) : Expanding(s.inner[j]) => neighbors[j] = s.outer[j]
  BY Zenon DEF Ready, At, Iters
<1> QED BY <1>1, <1>2, <1>3, <1>4

\* A step of the replay takes it on to t.
Carries(t) ==
  /\ mode' = mode /\ complete' = complete /\ stages' = stages /\ trace' = trace
  /\ turn' = t.turn /\ queue' = t.queue /\ ended' = t.ended /\ inner' = Iters(stages, trace, t)
  /\ neighbors' \in [1..Len(stages) -> Nat]
  /\ \A j \in 1..Len(stages) : Expanding(t.inner[j]) => neighbors'[j] = t.outer[j]

\* A replay lands where the next stage is given nothing.
LEMMA LandsSilent ==
  ASSUME NEW t, Carries(t), awaiting' = Waiting(stages, t, FALSE), read' = t.read
  PROVE  \E pending \in BOOLEAN : At(t, pending)'
<1>1. At(t, FALSE)'
  BY Zenon DEF Carries, At, Iters
<1> QED BY <1>1

\* The next stage has the turn.
LEMMA Arrives ==
  ASSUME NEW s, Ready(s), NEW t, Carries(t), awaiting' = awaiting,
         t.turn = s.turn + 1, t.inner[t.turn] = NoIterator, s.turn \in 0..Len(stages),
         Told(stages, trace, t, read'), read' \in Nat
  PROVE  \E pending \in BOOLEAN : At(t, pending)'
<1>1. PICK i : i = s.turn
  OBVIOUS
<1>2. Len(stages) \in Nat /\ awaiting = Waiting(stages, s, FALSE) /\ i \in 0..Len(stages) /\ t.turn = i + 1
  BY <1>1, ReadyIs
<1>3. \A j \in 1..Len(stages) + 1 : (i < j <=> i + 1 < j \/ j = i + 1) /\ (i = j => j # Len(stages) + 1)
  BY <1>2
<1>4. CASE Silent(stages, t)
  <2>1. CASE t.turn = Len(stages) + 1
    <3>1. t.ended[t.turn]
      BY <1>4, <2>1 DEF Silent
    <3>2. Waiting(stages, t, FALSE) = Waiting(stages, s, FALSE)
      BY <1>1, <1>2, <1>3, <2>1, <3>1 DEF Waiting
    <3> QED BY <1>2, <1>4, <3>2, LandsSilent DEF Told
  <2>2. CASE t.turn # Len(stages) + 1
    <3>1. ~ AdapterAt(stages, t.turn)
      BY <1>4, <2>2 DEF Silent
    <3>2. Waiting(stages, t, FALSE) = Waiting(stages, s, FALSE)
      BY <1>1, <1>2, <1>3, <2>2, <3>1 DEF Waiting
    <3> QED BY <1>2, <1>4, <3>2, LandsSilent DEF Told
  <2> QED BY <2>1, <2>2
<1>5. CASE ~ Silent(stages, t)
  <2>1. t.read = read' + 1 /\ read' < Len(trace) /\ trace[t.read] = Given(stages, t)
    BY <1>5 DEF Told
  <2>2. t.turn = Len(stages) + 1 \/ AdapterAt(stages, t.turn)
    BY <1>5 DEF Silent
  <2>3. Waiting(stages, t, TRUE) = Waiting(stages, s, FALSE)
    BY <1>1, <1>2, <1>3, <2>2 DEF Waiting
  <2>4. t.turn # 0
    BY <1>2
  <2>5. At(t, TRUE)'
    <3>1. awaiting' = Waiting(stages, t, TRUE)
      BY <1>2, <2>3
    <3> QED BY <1>5, <2>1, <2>4, <3>1, Zenon DEF Carries, At, Iters
  <2> QED BY <2>5
<1> QED BY <1>4, <1>5

\* The stage goes on.
LEMMA KeepsTurn ==
  ASSUME NEW s, Ready(s), NEW t, Carries(t), awaiting' = awaiting,
         t.turn = s.turn, NEW i \in 1..Len(stages), s.turn = i, read' = t.read
  PROVE  \E pending \in BOOLEAN : At(t, pending)'
<1>0. Len(stages) \in Nat /\ awaiting = Waiting(stages, s, FALSE)
  BY ReadyIs
<1>1. s.turn # Len(stages) + 1
  BY <1>0
<1>2. Waiting(stages, t, FALSE) = Waiting(stages, s, FALSE)
  BY <1>1 DEF Waiting
<1> QED BY <1>0, <1>2, LandsSilent

\* The stage before it has the turn.
LEMMA GoesBack ==
  ASSUME NEW s, Ready(s), NEW t, Carries(t), NEW i \in 1..Len(stages) + 1, s.turn = i, t.turn = i - 1,
         ~ s.ended[i], read' = t.read,
         awaiting' = IF AdapterAt(stages, i) \/ i = Len(stages) + 1 THEN awaiting \cup {i} ELSE awaiting
  PROVE  \E pending \in BOOLEAN : At(t, pending)'
<1>1. Len(stages) \in Nat /\ awaiting = Waiting(stages, s, FALSE)
  BY ReadyIs
<1>2. \A j \in 1..Len(stages) + 1 : (i - 1 < j <=> i < j \/ j = i) /\ (i - 1 = j => j # Len(stages) + 1)
  BY <1>1
<1>3. CASE AdapterAt(stages, i) \/ i = Len(stages) + 1
  <2>1. Waiting(stages, t, FALSE) = Waiting(stages, s, FALSE) \cup {i}
    BY <1>1, <1>2, <1>3 DEF Waiting
  <2> QED BY <1>1, <1>3, <2>1, LandsSilent
<1>4. CASE ~ (AdapterAt(stages, i) \/ i = Len(stages) + 1)
  <2>1. Waiting(stages, t, FALSE) = Waiting(stages, s, FALSE)
    BY <1>1, <1>2, <1>4 DEF Waiting
  <2> QED BY <1>1, <1>4, <2>1, LandsSilent
<1> QED BY <1>3, <1>4

-----------------------------------------------------------------------------
(* Who acts in a replay.                                                   *)

ReadsAt(i) ==
  \/ ReadAdvance(i) \/ ReadInput(i) \/ ReadExhausted(i) \/ ReadAnswer(i) \/ ReadOuter(i)
  \/ ReadUnexpected(i) \/ ReadNeighbor(i) \/ ReplayOther(i)

\* A stage of the replay acts only in its turn.
LEMMA ActsInTurn ==
  ASSUME NEW i, ReadsAt(i)
  PROVE  turn = i /\ (i \in DOMAIN stages \/ (i # Consumer /\ (ReadInput(i) \/ ReplayOther(i))))
<1>1. CASE ReadAdvance(i) \/ ReadExhausted(i) \/ ReadAnswer(i) \/ ReadOuter(i) \/ ReadUnexpected(i)
  BY <1>1 DEF ReadAdvance, ReadExhausted, ReadAnswer, ReadOuter, ReadUnexpected, Asks
<1>2. CASE ReadInput(i)
  BY <1>2 DEF ReadInput
<1>3. CASE ReadNeighbor(i)
  <2>1. CASE Polls(i)
    BY <2>1 DEF Polls, Runs
  <2>2. CASE EdgeEnd(i) \/ RecursiveEnd(i)
    BY <2>2 DEF EdgeEnd, RecursiveEnd, Runs
  <2> QED BY <1>3, <2>1, <2>2 DEF ReadNeighbor, DoesNotAsk
<1>4. CASE ReplayOther(i)
  <2>1. CASE Record(i) \/ Activate(i)
    BY <2>1 DEF Record, Activate, Takes, IsOp
  <2>2. CASE Unpack(i) \/ UnpackEnd(i)
    BY <2>2 DEF Unpack, UnpackEnd, Runs
  <2>3. CASE i # Consumer /\ (Pull(i) \/ End(i))
    BY <1>4, <2>3 DEF Pull, End
  <2>4. CASE IsOp(i, "unpack") /\ Expand(i)
    BY <2>4 DEF Expand, Takes, IsOp
  <2> QED BY <1>4, <2>1, <2>2, <2>3, <2>4 DEF ReplayOther
<1> QED BY <1>1, <1>2, <1>3, <1>4 DEF ReadsAt

\* A step of the replay is one of the stage that has the turn.
LEMMA ReplayTurns ==
  ASSUME stages \in Seq(Stage), Replaying
  PROVE  \/ turn = 0 /\ ReadStartingVertices
         \/ turn \in 1..Len(stages) /\ ReadsAt(turn)
         \/ turn = Len(stages) + 1 /\ PullRow
         \/ turn = Len(stages) + 1 /\ (CompareRow \/ AllCompared)
<1>1. DOMAIN stages = 1..Len(stages) /\ Len(stages) \in Nat /\ Consumer = Len(stages) + 1
  BY DEF Consumer
<1>2. CASE ReadStartingVertices
  BY <1>2 DEF ReadStartingVertices
<1>3. ASSUME NEW i \in 1..Consumer, ReadsAt(i)
      PROVE  turn \in 1..Len(stages) /\ ReadsAt(turn)
  <2>1. turn = i /\ (i \in DOMAIN stages \/ i # Consumer)
    BY <1>3, ActsInTurn
  <2> QED BY <1>1, <1>3, <2>1
<1>4. CASE PullRow
  BY <1>1, <1>4 DEF PullRow, Pull
<1>5. CASE CompareRow \/ AllCompared
  BY <1>1, <1>5 DEF CompareRow, AllCompared, Arrived
<1>6. ReadStartingVertices \/ (\E i \in 1..Consumer : ReadsAt(i)) \/ PullRow \/ CompareRow \/ AllCompared
  BY Zenon DEF Replaying, ReadsAt
<1> QED BY <1>2, <1>3, <1>4, <1>5, <1>6

\* The resolvers read the trace, what they pass through does not.
LEMMA AdaptersRead ==
  ASSUME stages \in Seq(Stage), NEW i \in 1..Len(stages), ReadsAt(i), i \notin awaiting, inner[i] = NoIterator
  PROVE  /\ IsAdapter(i) =>
              ReadAdvance(i) \/ ReadExhausted(i) \/ ReadAnswer(i) \/ ReadOuter(i) \/ ReadUnexpected(i)
         /\ ~ IsAdapter(i) =>
              (Record(i) \/ Activate(i) \/ Expand(i) \/ Pull(i) \/ End(i)) /\ UNCHANGED traceVars
<1>1. \A a, b : IsOp(i, a) /\ IsOp(i, b) => a = b
  BY DEF IsOp
<1>2. NoIterator.op = "none"
  BY FilledIs
<1>3. ~ ReadInput(i)
  BY DEF ReadInput
<1>4. ~ ReadNeighbor(i)
  <2>1. \A op : Runs(i, op) => op = "none"
    BY <1>2 DEF Runs
  <2> QED BY <2>1 DEF ReadNeighbor, Polls, DoesNotAsk, EdgeEnd, RecursiveEnd
<1>5. ~ Unpack(i) /\ ~ UnpackEnd(i)
  BY <1>2 DEF Unpack, UnpackEnd, Runs
<1>6. IsAdapter(i) => ~ ReplayOther(i)
  <2>1. IsAdapter(i) => ~ IsOp(i, "record") /\ ~ IsOp(i, "activate") /\ ~ IsOp(i, "unpack")
    BY <1>1 DEF IsAdapter
  <2> QED BY <1>5, <2>1 DEF ReplayOther, Record, Activate
<1>7. ~ IsAdapter(i) => ~ Asks(i)
  BY DEF Asks
<1>8. ~ IsAdapter(i) => ReplayOther(i)
  BY <1>3, <1>4, <1>7 DEF ReadsAt, ReadAdvance, ReadExhausted, ReadAnswer, ReadOuter, ReadUnexpected
<1> QED BY <1>3, <1>4, <1>5, <1>6, <1>8 DEF ReadsAt, ReplayOther

\* So do the iterators over neighbors.
LEMMA IteratorsRead ==
  ASSUME stages \in Seq(Stage), NEW i \in 1..Len(stages), ReadsAt(i), i \notin awaiting, inner[i] # NoIterator
  PROVE  /\ inner[i].op \in {"edge", "recursive"} => ReadNeighbor(i)
         /\ inner[i].op \notin {"edge", "recursive"} => (Unpack(i) \/ UnpackEnd(i)) /\ UNCHANGED traceVars
<1>1. ~ Asks(i) /\ ~ ReadInput(i)
  BY DEF Asks, ReadInput
<1>2. ReadNeighbor(i) \/ ReplayOther(i)
  BY <1>1 DEF ReadsAt, ReadAdvance, ReadExhausted, ReadAnswer, ReadOuter, ReadUnexpected
<1>3. ~ Record(i) /\ ~ Activate(i) /\ ~ Pull(i) /\ ~ End(i) /\ ~ Expand(i)
  BY DEF Record, Activate, Pull, End, Expand, Takes
<1>4. ReplayOther(i) => (Unpack(i) \/ UnpackEnd(i)) /\ UNCHANGED traceVars
  BY <1>3 DEF ReplayOther
<1>5. ReplayOther(i) => inner[i].op = "unpack"
  BY <1>4 DEF Unpack, UnpackEnd, Runs
<1>6. ReadNeighbor(i) => inner[i].op \in {"edge", "recursive"}
  BY DEF ReadNeighbor, Polls, DoesNotAsk, EdgeEnd, RecursiveEnd, Runs
<1> QED BY <1>2, <1>4, <1>5, <1>6

-----------------------------------------------------------------------------
(* What a step of the replay does.                                         *)

\* What a step of the history is known to have.
LEMMA StepIs ==
  ASSUME NEW s, Ready(s), NEW t, StateOK(stages, trace, t), Follows(stages, trace, s, t)
  PROVE  /\ Progress(stages, trace, s, t)
         /\ t.read \in Nat
         /\ t.turn = s.turn + 1 => t.inner[t.turn] = NoIterator
<1>1. Progress(stages, trace, s, t)
  BY Progresses DEF Ready
<1>2. t.read \in Nat
  BY DEF StateOK, StateTyped
<1>3. ASSUME t.turn = s.turn + 1
      PROVE  t.inner[t.turn] = NoIterator
  <2>1. PICK i : i = s.turn
    OBVIOUS
  <2>2. i \in Nat /\ i + 1 \in 1..Len(stages) + 1 /\ i + 1 # i /\ i < i + 1
    <3>1. t.turn \in 0..Len(stages) + 1
      BY DEF StateOK, StateTyped
    <3>2. i \in 0..Len(stages) + 1 /\ Len(stages) \in Nat
      BY <2>1, ReadyIs
    <3>3. t.turn = i + 1
      BY <1>3, <2>1
    <3> QED BY <3>1, <3>2, <3>3
  <2>3. s.inner[i + 1] = NoIterator
    BY <2>1, <2>2 DEF Ready, StateOK
  <2>4. t.inner[i + 1] = s.inner[i + 1]
    BY <1>1, <2>1, <2>2 DEF Progress
  <2> QED BY <1>3, <2>1, <2>3, <2>4
<1> QED BY <1>1, <1>2, <1>3

\* The iterators stay as they are.
LEMMA CarriesSame ==
  ASSUME NEW s, Ready(s), NEW t, StateOK(stages, trace, t), Follows(stages, trace, s, t),
         t.inner = s.inner, t.outer = s.outer, s.turn \in 1..Len(stages) => ~ Expanding(s.inner[s.turn]),
         UNCHANGED <<mode, complete, stages, trace, inner, neighbors>>,
         turn' = t.turn, queue' = t.queue, ended' = t.ended
  PROVE  Carries(t)
<1>1. Progress(stages, trace, s, t)
  BY StepIs
<1>2. Iters(stages, trace, t) = Iters(stages, trace, s)
  BY <1>1, ReadyIs, ItersSame DEF Ready
<1> QED BY <1>2, ReadyIs DEF Carries

\* The iterator of stage i becomes x, which has the neighbors that the trace has.
Becomes(s, t, i, x) ==
  /\ t.inner = [s.inner EXCEPT ![i] = x] /\ t.outer = s.outer /\ (Expanding(x) => Expanding(s.inner[i]))
  /\ inner' = [inner EXCEPT ![i] = Filled(x, Unread(trace, s.outer[i], t.read))]
  /\ mode' = mode /\ complete' = complete /\ stages' = stages /\ trace' = trace /\ neighbors' = neighbors
  /\ turn' = t.turn /\ queue' = t.queue /\ ended' = t.ended

\* The iterators of the replay when one of them changes.
LEMMA CarriesChanged ==
  ASSUME NEW s, Ready(s), NEW t, StateOK(stages, trace, t), Follows(stages, trace, s, t),
         NEW i \in 1..Len(stages), s.turn = i, NEW x, Becomes(s, t, i, x)
  PROVE  Carries(t)
<1>1. Progress(stages, trace, s, t)
  BY StepIs
<1>2. t.outer = s.outer
  BY DEF Becomes
<1>3. Iters(stages, trace, t) =
        Changed(Iters(stages, trace, s), i, Filled(t.inner[i], Unread(trace, t.outer[i], t.read)))
  <2>1. IsTrace(trace)
    BY ReadyIs
  <2>2. stages \in Seq(Stage) /\ StateOK(stages, trace, s)
    BY DEF Ready
  <2>3. SameOuter(stages, s, t, i)
    BY <1>2 DEF SameOuter
  <2> QED BY <1>1, <2>1, <2>2, <2>3, ItersChange
<1>4. DOMAIN s.inner = 1..Len(stages) + 1 /\ i \in 1..Len(stages) + 1
  BY DEF Ready, StateOK, StateTyped
<1>5. t.inner[i] = x /\ \A j \in 1..Len(stages) : j # i => t.inner[j] = s.inner[j]
  BY <1>4 DEF Becomes
<1>6. inner' = Iters(stages, trace, t)
  BY <1>2, <1>3, <1>5, ReadyIs DEF Changed, Becomes
<1>7. \A j \in 1..Len(stages) : Expanding(t.inner[j]) => Expanding(s.inner[j])
  BY <1>5 DEF Becomes
<1>8. \A j \in 1..Len(stages) : Expanding(t.inner[j]) => neighbors'[j] = t.outer[j]
  <2>1. \A j \in 1..Len(stages) : Expanding(s.inner[j]) => neighbors[j] = s.outer[j]
    BY ReadyIs
  <2> QED BY <1>2, <1>7, <2>1 DEF Becomes
<1>9. neighbors' \in [1..Len(stages) -> Nat]
  BY ReadyIs DEF Becomes
<1> QED BY <1>6, <1>8, <1>9 DEF Carries, Becomes

-----------------------------------------------------------------------------
(* The steps.                                                              *)

\* The replay is at one of the snapshots again.
Lands(t) ==
  /\ mode' = mode /\ complete' = complete /\ stages' = stages /\ trace' = trace
  /\ \E pending \in BOOLEAN : At(t, pending)'

\* The starting vertices, replayed.
LEMMA SourceReplays ==
  ASSUME NEW s, Ready(s), NEW t, StateOK(stages, trace, t), Follows(stages, trace, s, t),
         s.turn = 0, ReadStartingVertices
  PROVE  Lands(t)
<1>1. Starts(stages, trace, s, t)
  BY DEF Follows
<1>2. Finds(CallOf(0), {"starting", "exhausted"}) /\ NextOp = trace[s.read + 1] /\ read = s.read
  BY <1>1, StagesAt, ReadyIs DEF Finds, NextOp, Starts, Said
<1>3. /\ UNCHANGED <<mode, complete, stages, trace, inner, neighbors>> /\ awaiting' = awaiting
      /\ read' = s.read + 1 /\ turn' = t.turn
  BY <1>1, <1>2 DEF ReadStartingVertices, Reads, Starts
<1>4. queue' = t.queue /\ ended' = t.ended
  BY <1>1, <1>2, ReadyIs DEF ReadStartingVertices, Starts, Said
<1>5. Carries(t)
  BY <1>1, <1>3, <1>4, CarriesSame DEF Starts
<1>6. \E pending \in BOOLEAN : At(t, pending)'
  <2>1. t.turn = s.turn + 1 /\ t.inner[t.turn] = NoIterator /\ s.turn \in 0..Len(stages)
    <3>1. t.turn = s.turn + 1
      BY <1>1 DEF Starts
    <3> QED BY <3>1, StepIs, ReadyIs
  <2>2. Told(stages, trace, t, read') /\ read' \in Nat
    <3>1. Told(stages, trace, t, s.read + 1)
      BY <1>1 DEF Starts
    <3>2. s.read \in Nat
      BY ReadyIs
    <3> QED BY <1>3, <3>1, <3>2
  <2> QED BY <1>3, <1>5, <2>1, <2>2, Arrives
<1> QED BY <1>3, <1>6 DEF Lands

\* A stage without an iterator of its own.
LEMMA FreeReplays ==
  ASSUME NEW s, Ready(s), NEW i, Free(s, i), i \in 1..Len(stages)
  PROVE  /\ turn = i /\ i \notin awaiting /\ inner[i] = NoIterator /\ ~ Expanding(s.inner[i])
         /\ IsAdapter(i) => Asks(i)
         /\ CallOf(i) = CallAt(stages, i) /\ (IsAdapter(i) <=> AdapterAt(stages, i))
         /\ \A op : IsOp(i, op) <=> OpAt(stages, i, op)
         /\ \A a, b : OpAt(stages, i, a) /\ OpAt(stages, i, b) => a = b
         /\ i + 1 \in 1..Len(stages) + 1 /\ ~ s.ended[i + 1]
<1>1. turn = i /\ inner[i] = NoIterator /\ ~ Expanding(s.inner[i])
  <2>1. i \in 1..Len(stages) + 1 /\ s.turn = i /\ s.inner[i] = NoIterator
    BY ReadyIs DEF Free
  <2>2. inner = Iters(stages, trace, s) /\ turn = s.turn
    BY ReadyIs
  <2>3. inner[i] = Filled(s.inner[i], Unread(trace, s.outer[i], s.read))
    BY <2>1, <2>2 DEF Iters
  <2>4. inner[i] = NoIterator
    BY <2>1, <2>3, FilledIs
  <2> QED BY <2>1, <2>2, <2>4, IteratorsAsk
<1>2. i \notin awaiting
  BY <1>1, ReadyIs DEF Waiting
<1>3. i \in DOMAIN stages
  BY ReadyIs
<1>4. i + 1 \in 1..Len(stages) + 1 /\ ~ s.ended[i + 1]
  <2>1. i + 1 \in 1..Len(stages) + 1 /\ i < i + 1
    BY ReadyIs
  <2> QED BY <2>1 DEF Ready, StateOK, Free
<1> QED BY <1>1, <1>2, <1>3, <1>4, StagesAt DEF Asks, OpAt

\* What is found is the operation of the step.
LEMMA Finding ==
  ASSUME NEW s, Ready(s), NEW p, NEW k, Said(trace, s.read, p, k)
  PROVE  /\ NextOp = trace[s.read + 1] /\ read = s.read
         /\ \A kinds : Finds(p, kinds) <=> k \in kinds
BY ReadyIs DEF Finds, NextOp, Said

\* What a reader does that finds an operation of its own.
LEMMA ReaderFinds ==
  ASSUME NEW s, Ready(s), NEW i \in 1..Len(stages), Free(s, i), AdapterAt(stages, i), ReadsAt(i),
         NEW k, Said(trace, s.read, CallAt(stages, i), k)
  PROVE  /\ k = "advance" => ReadAdvance(i)
         /\ k = "exhausted" => ReadExhausted(i)
         /\ k = "yieldFrom" /\ Answering(i) => ReadAnswer(i)
         /\ k = "outer" /\ ~ Answering(i) => ReadOuter(i)
<1>1. /\ turn = i /\ i \notin awaiting /\ inner[i] = NoIterator
      /\ IsAdapter(i) /\ CallOf(i) = CallAt(stages, i)
  BY FreeReplays
<1>2. \A kinds : Finds(CallOf(i), kinds) <=> k \in kinds
  BY <1>1, Finding
<1>3. stages \in Seq(Stage)
  BY DEF Ready
<1>4. ReadAdvance(i) \/ ReadExhausted(i) \/ ReadAnswer(i) \/ ReadOuter(i) \/ ReadUnexpected(i)
  BY <1>1, <1>3, AdaptersRead
<1>5. ReadAdvance(i) => k = "advance"
  BY <1>2 DEF ReadAdvance
<1>6. ReadExhausted(i) => k = "exhausted"
  BY <1>2 DEF ReadExhausted
<1>7. ReadAnswer(i) => k = "yieldFrom"
  BY <1>2 DEF ReadAnswer
<1>8. ReadOuter(i) => k = "outer"
  BY <1>2 DEF ReadOuter
<1>9. ReadUnexpected(i) =>
        k # "advance" /\ k # "exhausted" /\ ~ (k = "yieldFrom" /\ Answering(i)) /\ ~ (k = "outer" /\ ~ Answering(i))
  BY <1>2 DEF ReadUnexpected
<1> QED BY <1>4, <1>5, <1>6, <1>7, <1>8, <1>9

\* What a stage that is none of the adapter's does.
LEMMA QuietStep ==
  ASSUME NEW s, Ready(s), NEW i \in 1..Len(stages), Free(s, i), ~ AdapterAt(stages, i), ReadsAt(i)
  PROVE  /\ mode' = mode /\ complete' = complete /\ trace' = trace /\ read' = s.read /\ neighbors' = neighbors
         /\ awaiting' = awaiting /\ stages' = stages
         /\ s.queue[i] = << >> /\ ~ s.ended[i] => Pull(i)
         /\ s.queue[i] = << >> /\ s.ended[i] => End(i)
         /\ s.queue[i] # << >> /\ OpAt(stages, i, "record") => Record(i)
         /\ s.queue[i] # << >> /\ OpAt(stages, i, "activate") => Activate(i)
         /\ s.queue[i] # << >> /\ OpAt(stages, i, "unpack") => Expand(i)
<1>1. /\ turn = i /\ i \notin awaiting /\ inner[i] = NoIterator /\ ~ IsAdapter(i)
      /\ \A op : IsOp(i, op) <=> OpAt(stages, i, op)
      /\ \A a, b : OpAt(stages, i, a) /\ OpAt(stages, i, b) => a = b
  BY FreeReplays
<1>2. stages \in Seq(Stage)
  BY DEF Ready
<1>3. (Record(i) \/ Activate(i) \/ Expand(i) \/ Pull(i) \/ End(i)) /\ UNCHANGED traceVars
  BY <1>1, <1>2, AdaptersRead
<1>4. queue = s.queue /\ ended = s.ended /\ read = s.read /\ Consumer = Len(stages) + 1 /\ Len(stages) \in Nat
  BY ReadyIs
<1>5. UNCHANGED <<mode, complete, trace, neighbors, awaiting>> /\ read' = s.read
  BY <1>3, <1>4 DEF traceVars
<1>6. stages' = stages
  BY <1>3 DEF Record, Activate, Expand, Pull, End
<1>7. Record(i) \/ Activate(i) \/ Expand(i) => s.queue[i] # << >>
  BY <1>4 DEF Record, Activate, Expand, Takes
<1>8. Pull(i) => ~ s.ended[i] /\ s.queue[i] = << >>
  BY <1>1, <1>4 DEF Pull
<1>9. End(i) => s.queue[i] = << >> /\ s.ended[i]
  BY <1>4 DEF End
<1>10. /\ Record(i) => OpAt(stages, i, "record")
       /\ Activate(i) => OpAt(stages, i, "activate")
       /\ Expand(i) => ~ OpAt(stages, i, "record") /\ ~ OpAt(stages, i, "activate")
  BY <1>1 DEF Record, Activate, Expand
<1>11. \A a, b \in {"record", "activate", "unpack"} : OpAt(stages, i, a) /\ OpAt(stages, i, b) => a = b
  BY <1>1
<1> QED BY <1>3, <1>5, <1>6, <1>7, <1>8, <1>9, <1>10, <1>11

\* A stage that asks for its input, replayed.
LEMMA PullsReplays ==
  ASSUME NEW s, Ready(s), NEW t, StateOK(stages, trace, t), Follows(stages, trace, s, t),
         NEW i \in 1..Len(stages), Pulls(stages, trace, s, t, i), ReadsAt(i)
  PROVE  Lands(t)
<1>1. Free(s, i) /\ ~ s.ended[i] /\ t.turn = i - 1 /\ s.turn = i
      /\ t.queue = s.queue /\ t.ended = s.ended /\ t.inner = s.inner /\ t.outer = s.outer
  BY DEF Pulls, Free
<1>2. ~ Expanding(s.inner[i])
  BY <1>1, FreeReplays
<1>3. /\ UNCHANGED <<mode, complete, stages, trace, inner, neighbors, queue, ended>> /\ turn' = i - 1 /\ read' = t.read
      /\ awaiting' = IF AdapterAt(stages, i) \/ i = Len(stages) + 1 THEN awaiting \cup {i} ELSE awaiting
  <2>1. CASE AdapterAt(stages, i)
    <3>1. Said(trace, s.read, CallAt(stages, i), "advance") /\ t.read = s.read + 1
      BY <2>1 DEF Pulls
    <3>2. ReadAdvance(i)
      BY <1>1, <2>1, <3>1, ReaderFinds
    <3> QED BY <2>1, <3>1, <3>2, ReadyIs DEF ReadAdvance, Reads
  <2>2. CASE ~ AdapterAt(stages, i)
    <3>1. s.queue[i] = << >> /\ t.read = s.read /\ i # Len(stages) + 1
      BY <2>2, ReadyIs DEF Pulls
    <3>2. Pull(i)
      BY <1>1, <2>2, <3>1, QuietStep
    <3>3. /\ mode' = mode /\ complete' = complete /\ trace' = trace /\ read' = s.read /\ neighbors' = neighbors
          /\ awaiting' = awaiting
      BY <1>1, <2>2, QuietStep
    <3> QED BY <2>2, <3>1, <3>2, <3>3 DEF Pull
  <2> QED BY <2>1, <2>2
<1>4. Carries(t)
  <2>1. turn' = t.turn /\ queue' = t.queue /\ ended' = t.ended
    BY <1>1, <1>3, ReadyIs
  <2> QED BY <1>1, <1>2, <1>3, <2>1, CarriesSame
<1>5. i \in 1..Len(stages) + 1
  BY ReadyIs
<1>6. \E pending \in BOOLEAN : At(t, pending)'
  BY <1>1, <1>3, <1>4, <1>5, GoesBack
<1> QED BY <1>3, <1>6 DEF Lands

\* A replay lands at the next stage.
LEMMA LandsNext ==
  ASSUME NEW s, Ready(s), NEW t, StateOK(stages, trace, t), Follows(stages, trace, s, t), Carries(t),
         awaiting' = awaiting, NEW i \in 1..Len(stages), s.turn = i, t.turn = i + 1,
         NEW b \in Nat, read' = b, Told(stages, trace, t, b)
  PROVE  Lands(t)
<1>1. t.turn = s.turn + 1 /\ t.inner[t.turn] = NoIterator /\ s.turn \in 0..Len(stages)
  BY StepIs, ReadyIs
<1>2. \E pending \in BOOLEAN : At(t, pending)'
  BY <1>1, Arrives
<1> QED BY <1>2 DEF Lands, Carries

\* A replay lands at the same stage.
LEMMA LandsHere ==
  ASSUME NEW s, Ready(s), NEW t, Carries(t), awaiting' = awaiting, NEW i \in 1..Len(stages), s.turn = i, t.turn = i,
         read' = t.read
  PROVE  Lands(t)
<1>1. \E pending \in BOOLEAN : At(t, pending)'
  BY KeepsTurn
<1> QED BY <1>1 DEF Lands, Carries

\* A stage that has no more input, replayed.
LEMMA EndsReplays ==
  ASSUME NEW s, Ready(s), NEW t, StateOK(stages, trace, t), Follows(stages, trace, s, t),
         NEW i \in 1..Len(stages), Ends(stages, trace, s, t, i), ReadsAt(i)
  PROVE  Lands(t)
<1>1. Free(s, i) /\ s.queue[i] = << >> /\ s.ended[i] /\ t.turn = i + 1 /\ s.turn = i
      /\ t.queue = s.queue /\ t.ended = [s.ended EXCEPT ![i + 1] = TRUE] /\ t.inner = s.inner /\ t.outer = s.outer
  BY DEF Ends, Free
<1>2. ~ Expanding(s.inner[i])
  BY <1>1, FreeReplays
<1>3. /\ UNCHANGED <<mode, complete, stages, trace, inner, neighbors, queue>> /\ turn' = i + 1
      /\ ended' = [ended EXCEPT ![i + 1] = TRUE]
      /\ awaiting' = awaiting /\ \E b \in Nat : read' = b /\ Told(stages, trace, t, b)
  <2>1. CASE AdapterAt(stages, i)
    <3>1. Said(trace, s.read, CallAt(stages, i), "exhausted") /\ Told(stages, trace, t, s.read + 1)
      BY <2>1 DEF Ends
    <3>2. ReadExhausted(i)
      BY <1>1, <2>1, <3>1, ReaderFinds
    <3>0. read = s.read /\ read \in Nat /\ queue = s.queue
      BY ReadyIs
    <3>3. queue[i] = << >> /\ read = s.read /\ s.read + 1 \in Nat
      BY <1>1, <3>0
    <3>4. /\ UNCHANGED <<mode, complete, stages, trace, inner, neighbors, queue>> /\ turn' = i + 1
          /\ ended' = [ended EXCEPT ![i + 1] = TRUE] /\ awaiting' = awaiting /\ read' = read + 1
      BY <3>2, <3>3 DEF ReadExhausted, Reads
    <3>5. read' = s.read + 1
      BY <3>3, <3>4
    <3> QED BY <3>1, <3>3, <3>4, <3>5
  <2>2. CASE ~ AdapterAt(stages, i)
    <3>1. Told(stages, trace, t, s.read) /\ s.read \in Nat
      BY <2>2, ReadyIs DEF Ends
    <3>2. End(i)
      BY <1>1, <2>2, QuietStep
    <3>3. /\ mode' = mode /\ complete' = complete /\ trace' = trace /\ read' = s.read /\ neighbors' = neighbors
          /\ awaiting' = awaiting
      BY <1>1, <2>2, QuietStep
    <3> QED BY <3>1, <3>2, <3>3 DEF End
  <2> QED BY <2>1, <2>2
<1>4. Carries(t)
  <2>1. turn' = t.turn /\ queue' = t.queue /\ ended' = t.ended
    BY <1>1, <1>3, ReadyIs
  <2> QED BY <1>1, <1>2, <1>3, <2>1, CarriesSame
<1>5. PICK b \in Nat : read' = b /\ Told(stages, trace, t, b)
  BY <1>3
<1> QED BY <1>1, <1>3, <1>4, <1>5, LandsNext

\* A context handed on.
LEMMA HandsCarry ==
  ASSUME NEW s, Ready(s), NEW t, StateOK(stages, trace, t), Follows(stages, trace, s, t),
         NEW i \in 1..Len(stages), Free(s, i), NEW ctx, Hands(s, t, i, ctx), queue' = Passed(i, ctx), turn' = i + 1,
         UNCHANGED <<mode, complete, stages, trace, inner, neighbors, ended>>
  PROVE  Carries(t) /\ s.turn = i /\ t.turn = i + 1
<1>1. ~ Expanding(s.inner[i]) /\ s.turn = i
  BY FreeReplays DEF Free
<1>2. turn' = t.turn /\ queue' = t.queue /\ ended' = t.ended /\ t.inner = s.inner /\ t.outer = s.outer
  BY ReadyIs DEF Hands, Passed
<1>3. Carries(t)
  BY <1>1, <1>2, CarriesSame
<1> QED BY <1>1, <1>3 DEF Hands

\* A stage that is none of the adapter's, replayed.
LEMMA MovesReplays ==
  ASSUME NEW s, Ready(s), NEW t, StateOK(stages, trace, t), Follows(stages, trace, s, t),
         NEW i \in 1..Len(stages), Moves(stages, trace, s, t, i), ReadsAt(i)
  PROVE  Lands(t)
<1>1. Free(s, i) /\ s.queue[i] # << >> /\ Told(stages, trace, t, s.read) /\ s.read \in Nat
  BY ReadyIs DEF Moves
<1>2. PICK ctx : ctx = Head(s.queue[i])
  OBVIOUS
<1>3. \/ OpAt(stages, i, "record") /\ Hands(s, t, i, RecordVertex(ctx, stages[i].vid))
      \/ OpAt(stages, i, "activate") /\ Hands(s, t, i, ActivateVertex(MarkedAt(stages[i], ctx), stages[i].vid))
  BY <1>2 DEF Moves
<1>4. ~ AdapterAt(stages, i)
  BY <1>1, <1>3, FreeReplays DEF AdapterAt
<1>5. /\ mode' = mode /\ complete' = complete /\ trace' = trace /\ read' = s.read /\ neighbors' = neighbors
      /\ awaiting' = awaiting /\ stages' = stages
  BY <1>1, <1>4, QuietStep
<1>6. Head(queue[i]) = ctx
  BY <1>2, ReadyIs
<1>7. Carries(t) /\ s.turn = i /\ t.turn = i + 1
  <2>1. CASE OpAt(stages, i, "record") /\ Hands(s, t, i, RecordVertex(ctx, stages[i].vid))
    <3>1. Record(i)
      BY <1>1, <1>4, <2>1, QuietStep
    <3>2. queue' = Passed(i, RecordVertex(ctx, stages[i].vid)) /\ turn' = i + 1 /\ UNCHANGED <<inner, ended>>
      BY <1>6, <3>1 DEF Record
    <3> QED BY <1>1, <1>5, <2>1, <3>2, HandsCarry
  <2>2. CASE OpAt(stages, i, "activate") /\ Hands(s, t, i, ActivateVertex(MarkedAt(stages[i], ctx), stages[i].vid))
    <3>1. Activate(i)
      BY <1>1, <1>4, <2>2, QuietStep
    <3>2. /\ queue' = Passed(i, ActivateVertex(MarkedAt(stages[i], ctx), stages[i].vid))
          /\ turn' = i + 1 /\ UNCHANGED <<inner, ended>>
      BY <1>6, <3>1 DEF Activate, MarkMissing, MarkedAt
    <3> QED BY <1>1, <1>5, <2>2, <3>2, HandsCarry
  <2> QED BY <1>3, <2>1, <2>2
<1> QED BY <1>1, <1>5, <1>7, LandsNext

\* A property or a coercion that is answered for the oldest context.
LEMMA AnswerRead ==
  ASSUME NEW s, Ready(s), NEW i \in 1..Len(stages), Free(s, i), s.queue[i] # << >>, ReadsAt(i),
         AdapterAt(stages, i), Answering(i), Said(trace, s.read, CallAt(stages, i), "yieldFrom"),
         trace[s.read + 1].value.context = Head(s.queue[i])
  PROVE  LET ctx == Head(s.queue[i])
             outcome == trace[s.read + 1].value.outcome
         IN
         /\ UNCHANGED <<mode, complete, stages, trace, inner, neighbors, ended>> /\ awaiting' = awaiting
         /\ read' = s.read + 1 /\ s.read + 1 \in Nat
         /\ \/ /\ outcome \/ OpAt(stages, i, "coerce")
               /\ queue' = Passed(i, IF outcome THEN ctx ELSE EnsureSuspended(ctx))
               /\ turn' = i + 1
            \/ /\ ~ outcome /\ OpAt(stages, i, "check")
               /\ queue' = [queue EXCEPT ![i] = Tail(@)]
               /\ turn' = i
<1>1. ReadAnswer(i)
  BY ReaderFinds
<1>2. NextOp = trace[s.read + 1] /\ read = s.read
  BY Finding
<1>3. queue = s.queue /\ read \in Nat
  BY ReadyIs
<1>4. Fits(i, NextOp.value.context) /\ Oldest(i) = Head(s.queue[i])
  BY <1>2, <1>3 DEF Fits, Oldest
<1>5. UNCHANGED <<mode, complete, stages, trace, inner, neighbors, ended>> /\ awaiting' = awaiting /\ read' = read + 1
  BY <1>1, <1>4 DEF ReadAnswer, Reads
<1>6. \A op : IsOp(i, op) <=> OpAt(stages, i, op)
  BY FreeReplays
<1>7. \/ /\ NextOp.value.outcome \/ IsOp(i, "coerce")
         /\ queue' = Passed(i, IF NextOp.value.outcome THEN Oldest(i) ELSE EnsureSuspended(Oldest(i)))
         /\ turn' = i + 1
      \/ /\ ~ NextOp.value.outcome /\ IsOp(i, "check")
         /\ queue' = [queue EXCEPT ![i] = Tail(@)]
         /\ turn' = i
  BY <1>1, <1>4, Zenon DEF ReadAnswer
<1>8. read' = s.read + 1 /\ s.read + 1 \in Nat
  BY <1>2, <1>3, <1>5
<1>9. \/ /\ trace[s.read + 1].value.outcome \/ OpAt(stages, i, "coerce")
         /\ queue' = Passed(i, IF trace[s.read + 1].value.outcome THEN Head(s.queue[i])
                               ELSE EnsureSuspended(Head(s.queue[i])))
         /\ turn' = i + 1
      \/ /\ ~ trace[s.read + 1].value.outcome /\ OpAt(stages, i, "check")
         /\ queue' = [queue EXCEPT ![i] = Tail(@)]
         /\ turn' = i
  BY <1>2, <1>4, <1>6, <1>7, Zenon
<1> QED BY <1>5, <1>8, <1>9

\* A filter that is answered, replayed.
LEMMA CheckedReplays ==
  ASSUME NEW s, Ready(s), NEW t, StateOK(stages, trace, t), Follows(stages, trace, s, t),
         NEW i \in 1..Len(stages), Checked(stages, trace, s, t, i), ReadsAt(i)
  PROVE  Lands(t)
<1> DEFINE outcome == trace[s.read + 1].value.outcome
<1>1. /\ Free(s, i) /\ s.queue[i] # << >> /\ OpAt(stages, i, "check") /\ s.turn = i
      /\ Said(trace, s.read, CallAt(stages, i), "yieldFrom")
      /\ trace[s.read + 1].value.context = Head(s.queue[i])
  BY DEF Checked, Free
<1>2. AdapterAt(stages, i) /\ Answering(i) /\ ~ OpAt(stages, i, "coerce") /\ ~ Expanding(s.inner[i])
  BY <1>1, FreeReplays DEF AdapterAt, Answering, OpAt
<1>3. /\ UNCHANGED <<mode, complete, stages, trace, inner, neighbors, ended>> /\ awaiting' = awaiting
      /\ read' = s.read + 1 /\ s.read + 1 \in Nat
  BY <1>1, <1>2, AnswerRead
<1>4. \/ /\ outcome \/ OpAt(stages, i, "coerce")
         /\ queue' = Passed(i, IF outcome THEN Head(s.queue[i]) ELSE EnsureSuspended(Head(s.queue[i])))
         /\ turn' = i + 1
      \/ /\ ~ outcome /\ OpAt(stages, i, "check")
         /\ queue' = [queue EXCEPT ![i] = Tail(@)]
         /\ turn' = i
  BY <1>1, <1>2, AnswerRead
<1>5. CASE outcome
  <2>1. queue' = Passed(i, Head(s.queue[i])) /\ turn' = i + 1
    BY <1>4, <1>5
  <2>2. Hands(s, t, i, Head(s.queue[i])) /\ Told(stages, trace, t, s.read + 1)
    BY <1>5 DEF Checked
  <2>3. Carries(t) /\ t.turn = i + 1
    BY <1>1, <1>3, <2>1, <2>2, HandsCarry
  <2> QED BY <1>1, <1>3, <2>2, <2>3, LandsNext
<1>6. CASE ~ outcome
  <2>1. queue' = [queue EXCEPT ![i] = Tail(@)] /\ turn' = i
    BY <1>2, <1>4, <1>6
  <2>2. /\ t.turn = i /\ t.queue = [s.queue EXCEPT ![i] = Tail(@)]
        /\ t.ended = s.ended /\ t.inner = s.inner /\ t.outer = s.outer /\ t.read = s.read + 1
    BY <1>6 DEF Checked
  <2>3. turn' = t.turn /\ queue' = t.queue /\ ended' = t.ended
    BY <1>3, <2>1, <2>2, ReadyIs
  <2>4. Carries(t)
    BY <1>1, <1>2, <1>3, <2>2, <2>3, CarriesSame
  <2> QED BY <1>1, <1>3, <2>2, <2>4, LandsHere
<1> QED BY <1>5, <1>6

\* A coercion that is answered, replayed.
LEMMA CoercedReplays ==
  ASSUME NEW s, Ready(s), NEW t, StateOK(stages, trace, t), Follows(stages, trace, s, t),
         NEW i \in 1..Len(stages), Coerced(stages, trace, s, t, i), ReadsAt(i)
  PROVE  Lands(t)
<1> DEFINE outcome == trace[s.read + 1].value.outcome
           ctx == IF outcome THEN Head(s.queue[i]) ELSE EnsureSuspended(Head(s.queue[i]))
<1>1. /\ Free(s, i) /\ s.queue[i] # << >> /\ OpAt(stages, i, "coerce") /\ s.turn = i
      /\ Said(trace, s.read, CallAt(stages, i), "yieldFrom")
      /\ trace[s.read + 1].value.context = Head(s.queue[i])
      /\ Hands(s, t, i, ctx) /\ Told(stages, trace, t, s.read + 1)
  BY DEF Coerced, Free
<1>2. AdapterAt(stages, i) /\ Answering(i) /\ ~ OpAt(stages, i, "check")
  BY <1>1, FreeReplays DEF AdapterAt, Answering, OpAt
<1>3. /\ UNCHANGED <<mode, complete, stages, trace, inner, neighbors, ended>> /\ awaiting' = awaiting
      /\ read' = s.read + 1 /\ s.read + 1 \in Nat
  BY <1>1, <1>2, AnswerRead
<1>4. queue' = Passed(i, ctx) /\ turn' = i + 1
  BY <1>1, <1>2, AnswerRead
<1> HIDE DEF ctx
<1>5. Carries(t) /\ t.turn = i + 1
  BY <1>1, <1>3, <1>4, HandsCarry
<1> QED BY <1>1, <1>3, <1>5, LandsNext

\* A stage that starts to unpack, replayed.
LEMMA UnpacksReplays ==
  ASSUME NEW s, Ready(s), NEW t, StateOK(stages, trace, t), Follows(stages, trace, s, t),
         NEW i \in 1..Len(stages), Unpacks(stages, s, t, i), ReadsAt(i)
  PROVE  Lands(t)
<1>1. PICK x : x = UnpackIt(UnpackPiggyback(Head(s.queue[i])))
  OBVIOUS
<1>2. /\ Free(s, i) /\ s.queue[i] # << >> /\ OpAt(stages, i, "unpack") /\ s.turn = i
      /\ Begins(s, t, i, x) /\ t.outer = s.outer /\ t.read = s.read
  BY <1>1 DEF Unpacks, Free
<1>3. ~ AdapterAt(stages, i)
  BY <1>2, FreeReplays DEF AdapterAt
<1>4. /\ mode' = mode /\ complete' = complete /\ trace' = trace /\ read' = s.read /\ neighbors' = neighbors
      /\ awaiting' = awaiting /\ stages' = stages
  BY <1>2, <1>3, QuietStep
<1>5. Expand(i)
  BY <1>2, <1>3, QuietStep
<1>6. NewExpander(i, Head(queue[i])) = x
  <2>1. IsOp(i, "unpack") /\ ~ IsOp(i, "neighbors") /\ ~ IsOp(i, "recurse")
    BY <1>2, FreeReplays
  <2> QED BY <1>1, <2>1, ReadyIs DEF NewExpander, UnpackIt
<1>7. /\ inner' = [inner EXCEPT ![i] = x] /\ queue' = [queue EXCEPT ![i] = Tail(@)] /\ turn' = turn /\ ended' = ended
  BY <1>5, <1>6 DEF Expand
<1>8. Filled(x, Unread(trace, s.outer[i], t.read)) = x /\ ~ Expanding(x)
  BY <1>1, FilledIs, IteratorsAsk
<1>9. Becomes(s, t, i, x)
  BY <1>2, <1>4, <1>7, <1>8, ReadyIs DEF Becomes, Begins
<1>10. Carries(t)
  BY <1>2, <1>9, CarriesChanged
<1> QED BY <1>2, <1>4, <1>10, LandsHere DEF Begins

\* An edge whose neighbors are asked for, replayed.
LEMMA OpensReplays ==
  ASSUME NEW s, Ready(s), NEW t, StateOK(stages, trace, t), Follows(stages, trace, s, t),
         NEW i \in 1..Len(stages), Opens(stages, trace, s, t, i), ReadsAt(i)
  PROVE  Lands(t)
<1>1. PICK c : c = Head(s.queue[i])
  OBVIOUS
<1>2. PICK n : n = s.read + 1
  OBVIOUS
<1>3. /\ Free(s, i) /\ s.queue[i] # << >> /\ s.turn = i
      /\ Said(trace, s.read, CallAt(stages, i), "outer") /\ trace[s.read + 1].value = c
      /\ t.outer = [s.outer EXCEPT ![i] = n] /\ t.read = n
  BY <1>1, <1>2 DEF Opens, Free
<1>4. \/ OpAt(stages, i, "neighbors") /\ Begins(s, t, i, EdgeIt(c, << >>, No, No))
      \/ OpAt(stages, i, "recurse") /\ Begins(s, t, i, RecursiveIt(c, None, << >>))
  BY <1>1 DEF Opens
<1>5. AdapterAt(stages, i) /\ ~ Answering(i)
  BY <1>4 DEF AdapterAt, Answering, OpAt
<1>6. ReadOuter(i)
  BY <1>3, <1>5, ReaderFinds
<1>7. NextOp = trace[s.read + 1] /\ read = s.read
  BY <1>3, Finding
<1>8. queue = s.queue /\ read \in Nat /\ turn = s.turn /\ ended = s.ended /\ inner = Iters(stages, trace, s)
  BY ReadyIs
<1>9. Fits(i, NextOp.value) /\ Oldest(i) = c
  BY <1>1, <1>3, <1>7, <1>8 DEF Fits, Oldest
<1>10. PICK y : y = [NewExpander(i, c) EXCEPT !.neighbors = VerticesOf(n)]
  OBVIOUS
<1>11. /\ UNCHANGED <<mode, complete, stages, trace, turn, ended>> /\ awaiting' = awaiting /\ read' = n
       /\ inner' = [inner EXCEPT ![i] = y]
       /\ queue' = [queue EXCEPT ![i] = Tail(@)]
       /\ neighbors' = [neighbors EXCEPT ![i] = n]
  BY <1>2, <1>6, <1>7, <1>9, <1>10 DEF ReadOuter, Reads
<1>12. n \in Nat /\ n <= Len(trace)
  BY <1>2, <1>3, <1>7, <1>8, ReadyIs DEF Said
<1>13. VerticesOf(n) = Unread(trace, n, n)
  BY <1>12, UnreadFirst DEF Ready
<1>14. y = Filled(t.inner[i], Unread(trace, n, n)) /\ t.turn = i /\ t.queue = [s.queue EXCEPT ![i] = Tail(@)]
       /\ t.ended = s.ended
  <2>1. DOMAIN s.inner = 1..Len(stages) + 1 /\ i \in 1..Len(stages) + 1
    BY DEF Ready, StateOK, StateTyped
  <2>2. \A op : IsOp(i, op) <=> OpAt(stages, i, op)
    BY <1>3, FreeReplays
  <2>3. \A a, b : OpAt(stages, i, a) /\ OpAt(stages, i, b) => a = b
    BY <1>3, FreeReplays
  <2>4. CASE OpAt(stages, i, "neighbors")
    <3>1. IsOp(i, "neighbors") /\ ~ IsOp(i, "recurse") /\ ~ IsOp(i, "unpack")
      BY <2>2, <2>3, <2>4
    <3>2. Begins(s, t, i, EdgeIt(c, << >>, No, No))
      BY <1>4, <2>2, <2>4, <3>1
    <3>3. NewExpander(i, c) = EdgeIt(c, ResolveNeighbors(c), No, No)
      BY <3>1 DEF NewExpander, EdgeIt, No
    <3>4. y = EdgeIt(c, VerticesOf(n), No, No)
      BY <1>10, <3>3, EdgeNeighbors
    <3>5. t.inner[i] = EdgeIt(c, << >>, No, No)
      BY <2>1, <3>2 DEF Begins
    <3> QED BY <1>13, <3>2, <3>4, <3>5, FilledIs DEF Begins
  <2>5. CASE OpAt(stages, i, "recurse")
    <3>1. IsOp(i, "recurse") /\ ~ IsOp(i, "neighbors") /\ ~ IsOp(i, "unpack")
      BY <2>2, <2>3, <2>5
    <3>2. Begins(s, t, i, RecursiveIt(c, None, << >>))
      BY <1>4, <2>2, <2>5, <3>1
    <3>3. NewExpander(i, c) = RecursiveIt(c, None, ResolveNeighbors(c))
      BY <3>1 DEF NewExpander, RecursiveIt
    <3>4. y = RecursiveIt(c, None, VerticesOf(n))
      BY <1>10, <3>3, RecursiveNeighbors
    <3>5. t.inner[i] = RecursiveIt(c, None, << >>)
      BY <2>1, <3>2 DEF Begins
    <3> QED BY <1>13, <3>2, <3>4, <3>5, FilledIs DEF Begins
  <2> QED BY <1>4, <2>4, <2>5
<1>15. s.outer \in [1..Len(stages) -> Nat] /\ t.outer[i] = n
       /\ \A j \in 1..Len(stages) : j # i => t.outer[j] = s.outer[j]
  <2>1. s.outer \in [1..Len(stages) -> Nat]
    BY DEF Ready, StateOK, StateTyped
  <2> QED BY <1>3, <2>1
<1>16. Progress(stages, trace, s, t)
  BY StepIs
<1>17. inner' = Iters(stages, trace, t)
  <2>1. SameOuter(stages, s, t, i)
    BY <1>15 DEF SameOuter
  <2>2. IsTrace(trace) /\ stages \in Seq(Stage) /\ StateOK(stages, trace, s)
    BY ReadyIs DEF Ready
  <2>3. Iters(stages, trace, t) =
          Changed(Iters(stages, trace, s), i, Filled(t.inner[i], Unread(trace, t.outer[i], t.read)))
    <3>1. s.turn = i
      BY <1>3
    <3> QED BY <1>16, <2>1, <2>2, <3>1, ItersChange
  <2> QED BY <1>3, <1>8, <1>11, <1>14, <1>15, <2>3 DEF Changed
<1>18. neighbors' \in [1..Len(stages) -> Nat] /\ \A j \in 1..Len(stages) : Expanding(t.inner[j]) => neighbors'[j] = t.outer[j]
  <2>1. /\ neighbors \in [1..Len(stages) -> Nat]
        /\ \A j \in 1..Len(stages) : Expanding(s.inner[j]) => neighbors[j] = s.outer[j]
    BY ReadyIs
  <2>2. neighbors' \in [1..Len(stages) -> Nat] /\ neighbors'[i] = n
        /\ \A j \in 1..Len(stages) : j # i => neighbors'[j] = neighbors[j]
    BY <1>11, <1>12, <2>1
  <2>3. \A j \in 1..Len(stages) : j # i => t.inner[j] = s.inner[j]
    <3>1. \A j \in 1..Len(stages) + 1 : j # i => t.inner[j] = s.inner[j]
      BY <1>3, <1>16 DEF Progress
    <3> QED BY <3>1, ReadyIs
  <2> QED BY <1>15, <2>1, <2>2, <2>3
<1>19. Carries(t)
  BY <1>3, <1>8, <1>11, <1>14, <1>17, <1>18 DEF Carries
<1> QED BY <1>3, <1>11, <1>14, <1>19, LandsHere

-----------------------------------------------------------------------------
(* The iterators of a step.                                                *)

\* A stage with an iterator of its own, which has the neighbors that the trace has.
LEMMA BusyReplays ==
  ASSUME NEW s, Ready(s), NEW i \in 1..Len(stages), s.turn = i, s.inner[i] # NoIterator, ReadsAt(i)
  PROVE  /\ turn = i /\ i \in DOMAIN stages /\ Shape(stages, i, s.inner[i])
         /\ inner[i] = Filled(s.inner[i], Unread(trace, s.outer[i], s.read))
         /\ Expanding(s.inner[i]) => ReadNeighbor(i) /\ neighbors[i] = s.outer[i]
         /\ ~ Expanding(s.inner[i]) => (Unpack(i) \/ UnpackEnd(i)) /\ UNCHANGED traceVars
<1>1. PICK x : x = s.inner[i]
  OBVIOUS
<1>2. PICK u : u = Unread(trace, s.outer[i], s.read)
  OBVIOUS
<1>3. i \in 1..Len(stages) + 1 /\ turn = i /\ i \in DOMAIN stages
  <2>1. Len(stages) \in Nat /\ turn = s.turn /\ DOMAIN stages = 1..Len(stages)
    BY ReadyIs
  <2> QED BY <2>1
<1>4. Shape(stages, i, x)
  <2>1. StateOK(stages, trace, s)
    BY DEF Ready
  <2>2. \A j \in 1..Len(stages) + 1 : Shape(stages, j, s.inner[j])
    BY <2>1, Zenon DEF StateOK
  <2> QED BY <1>1, <1>3, <2>2
<1>5. inner[i] = Filled(x, u)
  <2>1. inner = Iters(stages, trace, s)
    BY ReadyIs
  <2> QED BY <1>1, <1>2, <1>3, <2>1 DEF Iters
<1>6. x # NoIterator
  BY <1>1
<1>7. (x.op = "edge" \/ x.op = "recursive" \/ x.op = "unpack") /\ inner[i].op = x.op
  <2>1. x.op = "edge" \/ x.op = "recursive" \/ x.op = "unpack"
    BY <1>4, <1>6, ShapeIs
  <2>2. Filled(x, u).op = x.op
    BY DEF Filled, EdgeIt, RecursiveIt
  <2> QED BY <1>5, <2>1, <2>2
<1>8. inner[i] # NoIterator
  BY <1>7, FilledIs
<1>9. i \notin awaiting
  <2>1. i # Len(stages) + 1 /\ ~ (i < i)
    BY ReadyIs
  <2>2. awaiting = Waiting(stages, s, FALSE)
    BY ReadyIs
  <2> QED BY <2>1, <2>2 DEF Waiting
<1>10. stages \in Seq(Stage)
  BY DEF Ready
<1>11. /\ inner[i].op \in {"edge", "recursive"} => ReadNeighbor(i)
       /\ inner[i].op \notin {"edge", "recursive"} => (Unpack(i) \/ UnpackEnd(i)) /\ UNCHANGED traceVars
  BY <1>8, <1>9, <1>10, IteratorsRead
<1>12. Expanding(x) => neighbors[i] = s.outer[i]
  BY <1>1, ReadyIs
<1> QED BY <1>1, <1>2, <1>3, <1>4, <1>5, <1>7, <1>11, <1>12 DEF Expanding

\* The first vertex that the trace still has is read, and no other.
LEMMA UnreadAfter ==
  ASSUME NEW s, Ready(s), NEW t, Progress(stages, trace, s, t), NEW n, Said(trace, s.read, n, "inner"),
         s.read + 1 <= t.read
  PROVE  /\ Unread(trace, n, s.read) # << >>
         /\ Head(Unread(trace, n, s.read)) = trace[s.read + 1].value.vertex
         /\ Tail(Unread(trace, n, s.read)) = Unread(trace, n, t.read)
<1>1. IsTrace(trace) /\ Len(trace) \in Nat /\ s.read \in Nat /\ stages \in Seq(Stage) /\ TraceOK(stages, trace)
      /\ StateOK(stages, trace, s)
  BY ReadyIs DEF Ready
<1>2. /\ Unread(trace, n, s.read) # << >>
      /\ Head(Unread(trace, n, s.read)) = trace[s.read + 1].value.vertex
      /\ Tail(Unread(trace, n, s.read)) = Unread(trace, n, s.read + 1)
  BY <1>1, UnreadNext
<1>3. t.read \in Nat
  BY <1>1, NewOps
<1>4. ASSUME NEW m \in Nat, s.read + 1 < m, m <= t.read, trace[m].kind = "inner"
      PROVE  trace[m].parent # n
  <2>1. trace[m].kind \in OwnKinds /\ s.read < m /\ m # s.read + 1
    BY <1>1, <1>4 DEF OwnKinds
  <2>2. m = s.read + 1
    BY <1>1, <1>4, <2>1, NewOps
  <2> QED BY <2>1, <2>2
<1>5. s.read + 1 \in Nat
  BY <1>1
<1>6. Unread(trace, n, t.read) = Unread(trace, n, s.read + 1)
  BY <1>3, <1>4, <1>5, UnreadKept
<1> QED BY <1>2, <1>6

\* An iterator that finds its next vertex.
LEMMA NeighborFinds ==
  ASSUME NEW s, Ready(s), NEW i \in 1..Len(stages), ReadNeighbor(i), neighbors[i] = s.outer[i], Polls(i),
         inner[i].neighbors = Unread(trace, s.outer[i], s.read), inner[i].neighbors # << >>,
         Said(trace, s.read, s.outer[i], "inner"),
         trace[s.read + 1].value.position = Count(trace, s.outer[i], s.read)
  PROVE  /\ GetsNeighbor(i) /\ read' = s.read + 1 /\ s.read + 1 \in Nat
         /\ mode' = mode /\ complete' = complete /\ trace' = trace /\ neighbors' = neighbors /\ awaiting' = awaiting
<1>1. IsTrace(trace) /\ Len(trace) \in Nat /\ s.read \in Nat /\ read = s.read
  BY ReadyIs
<1>2. PICK n : n = s.outer[i]
  OBVIOUS
<1>3. Finds(n, {"inner"}) /\ NextOp = trace[s.read + 1]
  BY <1>2, Finding
<1>4. Len(VerticesOf(n)) - Len(Unread(trace, n, s.read)) = Count(trace, n, s.read)
  <2>1. s.read <= Len(trace)
    BY <1>1 DEF Said
  <2> QED BY <1>1, <2>1, VerticesAre
<1>5. FindsNeighbor(i)
  BY <1>2, <1>3, <1>4 DEF FindsNeighbor
<1>6. (GetsNeighbor(i) \/ GetsNone(i)) /\ Reads /\ UNCHANGED <<neighbors, awaiting>>
  BY <1>5 DEF ReadNeighbor, DoesNotAsk
<1>7. ~ GetsNone(i)
  BY DEF GetsNone, EdgeMissing, EdgeEnd, RecursiveLeaf, RecursiveEnd
<1> QED BY <1>1, <1>6, <1>7 DEF Reads

\* One that has none left.
LEMMA NeighborRunsOut ==
  ASSUME NEW s, Ready(s), NEW i \in 1..Len(stages), ReadNeighbor(i), neighbors[i] = s.outer[i], Polls(i),
         inner[i].neighbors = << >>, Said(trace, s.read, s.outer[i], "exhausted")
  PROVE  /\ EdgeMissing(i) \/ EdgeEnd(i) \/ RecursiveLeaf(i) \/ RecursiveEnd(i)
         /\ read' = s.read + 1 /\ s.read + 1 \in Nat
         /\ mode' = mode /\ complete' = complete /\ trace' = trace /\ neighbors' = neighbors /\ awaiting' = awaiting
<1>1. s.read \in Nat /\ read = s.read
  BY ReadyIs
<1>2. PICK n : n = s.outer[i]
  OBVIOUS
<1>3. Finds(n, {"exhausted"})
  BY <1>2, Finding
<1>4. FindsNeighbor(i)
  BY <1>2, <1>3 DEF FindsNeighbor
<1>5. (GetsNeighbor(i) \/ GetsNone(i)) /\ Reads /\ UNCHANGED <<neighbors, awaiting>>
  BY <1>4 DEF ReadNeighbor, DoesNotAsk
<1>6. ~ GetsNeighbor(i)
  BY DEF GetsNeighbor, EdgeNeighbor, RecursiveFirst, RecursiveNeighbor
<1> QED BY <1>1, <1>5, <1>6 DEF Reads, GetsNone

\* An iterator that is dropped.
LEMMA DroppedReplays ==
  ASSUME NEW s, Ready(s), NEW t, StateOK(stages, trace, t), Follows(stages, trace, s, t),
         NEW i \in 1..Len(stages), s.turn = i, Dropped(s, t, i), InnerEnds(i), read' = t.read,
         mode' = mode, complete' = complete, trace' = trace, neighbors' = neighbors, awaiting' = awaiting
  PROVE  Lands(t)
<1>1. PICK x : x = NoIterator
  OBVIOUS
<1>2. ~ Expanding(x) /\ Filled(x, Unread(trace, s.outer[i], t.read)) = x
  BY <1>1, FilledIs, IteratorsAsk
<1>3. inner' = [inner EXCEPT ![i] = x] /\ stages' = stages /\ turn' = turn /\ queue' = queue /\ ended' = ended
  BY <1>1 DEF InnerEnds
<1>4. t.inner = [s.inner EXCEPT ![i] = x] /\ t.outer = s.outer /\ t.turn = i /\ t.queue = s.queue /\ t.ended = s.ended
  BY <1>1 DEF Dropped
<1>5. turn = i /\ queue = s.queue /\ ended = s.ended
  BY ReadyIs
<1>6. Becomes(s, t, i, x)
  BY <1>2, <1>3, <1>4, <1>5 DEF Becomes
<1>7. Carries(t)
  BY <1>6, CarriesChanged
<1> QED BY <1>4, <1>7, LandsHere

\* An iterator that has answered.
LEMMA AnsweredReplays ==
  ASSUME NEW s, Ready(s), NEW t, StateOK(stages, trace, t), Follows(stages, trace, s, t),
         NEW i \in 1..Len(stages), s.turn = i, NEW ctx, NEW x, Answered(s, t, i, ctx, x), Expanding(x) => Expanding(s.inner[i]),
         InnerAnswers(i, ctx, Filled(x, Unread(trace, s.outer[i], t.read))),
         NEW b \in Nat, read' = b, Told(stages, trace, t, b),
         mode' = mode, complete' = complete, trace' = trace, neighbors' = neighbors, awaiting' = awaiting
  PROVE  Lands(t)
<1>1. PICK y : y = Filled(x, Unread(trace, s.outer[i], t.read))
  OBVIOUS
<1>2. /\ inner' = [inner EXCEPT ![i] = y] /\ stages' = stages /\ turn' = i + 1
      /\ queue' = [queue EXCEPT ![i + 1] = Append(@, ctx)] /\ ended' = ended
  BY <1>1 DEF InnerAnswers
<1>3. /\ t.inner = [s.inner EXCEPT ![i] = x] /\ t.outer = s.outer /\ t.turn = i + 1
      /\ t.queue = [s.queue EXCEPT ![i + 1] = Append(@, ctx)] /\ t.ended = s.ended
  BY DEF Answered
<1>4. queue = s.queue /\ ended = s.ended
  BY ReadyIs
<1>5. Becomes(s, t, i, x)
  BY <1>1, <1>2, <1>3, <1>4 DEF Becomes
<1>6. Carries(t)
  BY <1>5, CarriesChanged
<1> QED BY <1>3, <1>6, LandsNext

\* What the iterator is in the replay.
LEMMA BusyIs ==
  ASSUME NEW s, Ready(s), NEW i \in 1..Len(stages), s.turn = i, s.inner[i] # NoIterator, ReadsAt(i),
         NEW x, x = s.inner[i], NEW u, u = Unread(trace, s.outer[i], s.read)
  PROVE  /\ x.op = "edge" => inner[i] = EdgeIt(x.ctx, u, x.hasNeighbors, x.ended)
         /\ x.op = "recursive" => inner[i] = RecursiveIt(x.ctx, x.base, u) /\ (x.ctx = None \/ x.base = None)
         /\ x.op = "unpack" => inner[i] = UnpackIt(x.contexts) /\ x = UnpackIt(x.contexts)
         /\ Polls(i) <=> Asking(x)
<1>1. turn = i /\ i \in DOMAIN stages /\ Shape(stages, i, x) /\ inner[i] = Filled(x, u)
  BY BusyReplays
<1>2. /\ x.op = "edge" => inner[i] = EdgeIt(x.ctx, u, x.hasNeighbors, x.ended)
      /\ x.op = "recursive" => inner[i] = RecursiveIt(x.ctx, x.base, u)
      /\ x.op \notin {"edge", "recursive"} => inner[i] = x
  BY <1>1 DEF Filled
<1>3. /\ x.op = "recursive" => (x.ctx = None \/ x.base = None)
      /\ x.op = "unpack" => x = UnpackIt(x.contexts)
  BY <1>1, ShapeIs
<1>4. Polls(i) <=> Asking(x)
  <2>1. CASE x.op = "edge"
    <3>1. inner[i].op = "edge" /\ inner[i].ended = x.ended
      BY <1>2, <2>1, FieldsOf
    <3> QED BY <1>1, <2>1, <3>1 DEF Polls, Runs, Asking
  <2>2. CASE x.op = "recursive"
    <3>1. inner[i].op = "recursive" /\ inner[i].ctx = x.ctx /\ inner[i].base = x.base
      BY <1>2, <2>2, FieldsOf
    <3> QED BY <1>1, <2>2, <3>1 DEF Polls, Runs, Asking
  <2>3. CASE x.op \notin {"edge", "recursive"}
    BY <1>2, <2>3 DEF Polls, Runs, Asking
  <2> QED BY <2>1, <2>2, <2>3
<1> QED BY <1>2, <1>3, <1>4

\* An iterator that yields its next vertex, replayed.
LEMMA ReachesReplays ==
  ASSUME NEW s, Ready(s), NEW t, StateOK(stages, trace, t), Follows(stages, trace, s, t),
         NEW i \in 1..Len(stages), Reaches(stages, trace, s, t, i), ReadsAt(i)
  PROVE  Lands(t)
<1>1. PICK x : x = s.inner[i]
  OBVIOUS
<1>2. PICK u : u = Unread(trace, s.outer[i], s.read)
  OBVIOUS
<1>3. PICK v : v = trace[s.read + 1].value.vertex
  OBVIOUS
<1>4. /\ s.turn = i /\ Asking(x) /\ Said(trace, s.read, s.outer[i], "inner")
      /\ trace[s.read + 1].value.position = Count(trace, s.outer[i], s.read)
      /\ Told(stages, trace, t, s.read + 1)
  BY <1>1 DEF Reaches
<1>5. \/ /\ x.op = "edge"
         /\ Answered(s, t, i, SplitAndMoveToVertex(x.ctx, v), EdgeIt(x.ctx, << >>, Yes, x.ended))
      \/ /\ x.op = "recursive" /\ x.ctx # None
         /\ Answered(s, t, i, AttachPiggyback(SplitAndMoveToVertex(x.ctx, v), EnsureSuspended(x.ctx)),
              RecursiveIt(None, SplitAndMoveToVertex(x.ctx, None), << >>))
      \/ x.op = "recursive" /\ x.ctx = None /\ Answered(s, t, i, SplitAndMoveToVertex(x.base, v), x)
  BY <1>1, <1>3, Zenon DEF Reaches
<1>6. Expanding(x) /\ s.inner[i] # NoIterator /\ Expanding(s.inner[i])
  BY <1>1, <1>4, IteratorsAsk
<1>7. /\ x.op = "edge" => inner[i] = EdgeIt(x.ctx, u, x.hasNeighbors, x.ended)
      /\ x.op = "recursive" => inner[i] = RecursiveIt(x.ctx, x.base, u)
      /\ Polls(i)
  BY <1>1, <1>2, <1>4, <1>6, BusyIs
<1>8. ReadNeighbor(i) /\ neighbors[i] = s.outer[i] /\ turn = i
  BY <1>4, <1>6, BusyReplays
<1>9. s.read + 1 <= t.read
  <2>1. s.read \in Nat
    BY ReadyIs
  <2> QED BY <1>4, <2>1 DEF Told
<1>10. Progress(stages, trace, s, t)
  BY StepIs
<1>11. PICK rest : rest = Unread(trace, s.outer[i], t.read)
  OBVIOUS
<1>12. u # << >> /\ Head(u) = v /\ Tail(u) = rest
  BY <1>2, <1>3, <1>4, <1>9, <1>10, <1>11, UnreadAfter
<1>13. inner[i].neighbors = u
  BY <1>5, <1>7, FieldsOf
<1>14. /\ GetsNeighbor(i) /\ read' = s.read + 1 /\ s.read + 1 \in Nat
       /\ mode' = mode /\ complete' = complete /\ trace' = trace /\ neighbors' = neighbors /\ awaiting' = awaiting
  BY <1>2, <1>4, <1>7, <1>8, <1>12, <1>13, NeighborFinds
<1>15. Tail(inner[i].neighbors) = rest /\ Head(inner[i].neighbors) = v
  BY <1>12, <1>13
<1>16. CASE x.op = "edge"
  <2>1. inner[i] = EdgeIt(x.ctx, u, x.hasNeighbors, x.ended) /\ inner[i].op = "edge" /\ inner[i].ctx = x.ctx
    BY <1>7, <1>16, FieldsOf
  <2>2. EdgeNeighbor(i)
    BY <1>14, <2>1 DEF GetsNeighbor, RecursiveFirst, RecursiveNeighbor, Runs
  <2>3. InnerAnswers(i, SplitAndMoveToVertex(inner[i].ctx, Head(inner[i].neighbors)),
                     [inner[i] EXCEPT !.neighbors = Tail(inner[i].neighbors), !.hasNeighbors = TRUE])
    BY <2>2, Zenon DEF EdgeNeighbor
  <2>4. InnerAnswers(i, SplitAndMoveToVertex(x.ctx, v), [inner[i] EXCEPT !.neighbors = rest, !.hasNeighbors = TRUE])
    BY <1>15, <2>1, <2>3
  <2>5. InnerAnswers(i, SplitAndMoveToVertex(x.ctx, v), [inner[i] EXCEPT !.neighbors = rest, !.hasNeighbors = Yes])
    BY <2>4, Zenon DEF Yes
  <2>6. PICK y : y = inner[i]
    OBVIOUS
  <2>7. [y EXCEPT !.neighbors = rest, !.hasNeighbors = Yes] = EdgeIt(x.ctx, rest, Yes, x.ended)
    <3> DEFINE z == [y EXCEPT !.neighbors = rest]
    <3>1. [y EXCEPT !.neighbors = rest, !.hasNeighbors = Yes] = [z EXCEPT !.hasNeighbors = Yes]
      OBVIOUS
    <3>2. y = EdgeIt(x.ctx, u, x.hasNeighbors, x.ended)
      BY <2>1, <2>6
    <3>3. z = EdgeIt(x.ctx, rest, x.hasNeighbors, x.ended)
      BY <3>2, EdgeNeighbors
    <3> HIDE DEF z
    <3>4. [z EXCEPT !.hasNeighbors = Yes] = EdgeIt(x.ctx, rest, Yes, x.ended)
      BY <3>3, EdgeHas
    <3> QED BY <3>1, <3>4
  <2>8. PICK w : w = EdgeIt(x.ctx, << >>, Yes, x.ended)
    OBVIOUS
  <2>9. Filled(w, rest) = EdgeIt(x.ctx, rest, Yes, x.ended)
    BY <2>8, FilledIs
  <2>10. PICK ctx : ctx = SplitAndMoveToVertex(x.ctx, v)
    OBVIOUS
  <2>11. InnerAnswers(i, ctx, Filled(w, Unread(trace, s.outer[i], t.read)))
    BY <1>11, <2>5, <2>6, <2>7, <2>9, <2>10
  <2>12. Answered(s, t, i, ctx, w)
    BY <1>5, <1>16, <2>8, <2>10
  <2> QED BY <1>4, <1>6, <1>14, <2>11, <2>12, AnsweredReplays
<1>17. CASE x.op = "recursive" /\ x.ctx # None
  <2>1. inner[i] = RecursiveIt(x.ctx, x.base, u) /\ inner[i].op = "recursive" /\ inner[i].ctx = x.ctx
    BY <1>7, <1>17, FieldsOf
  <2>2. RecursiveFirst(i)
    BY <1>14, <1>17, <2>1 DEF GetsNeighbor, EdgeNeighbor, RecursiveNeighbor, Runs
  <2>10. PICK ctx : ctx = AttachPiggyback(SplitAndMoveToVertex(x.ctx, v), EnsureSuspended(x.ctx))
    OBVIOUS
  <2>13. PICK base : base = SplitAndMoveToVertex(x.ctx, None)
    OBVIOUS
  <2>3. InnerAnswers(i, AttachPiggyback(SplitAndMoveToVertex(inner[i].ctx, Head(inner[i].neighbors)), EnsureSuspended(inner[i].ctx)),
          [inner[i] EXCEPT !.neighbors = Tail(inner[i].neighbors), !.ctx = None,
                           !.base = SplitAndMoveToVertex(inner[i].ctx, None)])
    BY <2>2, Zenon DEF RecursiveFirst
  <2>4. InnerAnswers(i, ctx, [inner[i] EXCEPT !.neighbors = rest, !.ctx = None, !.base = base])
    BY <1>15, <2>1, <2>3, <2>10, <2>13
  <2>6. PICK y : y = inner[i]
    OBVIOUS
  <2>7. [y EXCEPT !.neighbors = rest, !.ctx = None, !.base = base] = RecursiveIt(None, base, rest)
    <3> DEFINE a == [y EXCEPT !.neighbors = rest]
               z == [a EXCEPT !.ctx = None]
    <3>1. [y EXCEPT !.neighbors = rest, !.ctx = None, !.base = base] = [z EXCEPT !.base = base]
      OBVIOUS
    <3>2. y = RecursiveIt(x.ctx, x.base, u)
      BY <2>1, <2>6
    <3>3. a = RecursiveIt(x.ctx, x.base, rest)
      BY <3>2, RecursiveNeighbors
    <3> HIDE DEF a
    <3>4. z = RecursiveIt(None, x.base, rest)
      BY <3>3, RecursiveCtx
    <3> HIDE DEF z
    <3>5. [z EXCEPT !.base = base] = RecursiveIt(None, base, rest)
      BY <3>4, RecursiveBase
    <3> QED BY <3>1, <3>5
  <2>8. PICK w : w = RecursiveIt(None, base, << >>)
    OBVIOUS
  <2>9. Filled(w, rest) = RecursiveIt(None, base, rest)
    BY <2>8, FilledIs
  <2>11. InnerAnswers(i, ctx, Filled(w, Unread(trace, s.outer[i], t.read)))
    BY <1>11, <2>4, <2>6, <2>7, <2>9
  <2>12. Answered(s, t, i, ctx, w)
    BY <1>5, <1>17, <2>8, <2>10, <2>13
  <2> QED BY <1>4, <1>6, <1>14, <2>11, <2>12, AnsweredReplays
<1>18. CASE x.op = "recursive" /\ x.ctx = None
  <2>1. inner[i] = RecursiveIt(x.ctx, x.base, u) /\ inner[i].op = "recursive" /\ inner[i].ctx = x.ctx
        /\ inner[i].base = x.base
    BY <1>7, <1>18, FieldsOf
  <2>2. RecursiveNeighbor(i)
    BY <1>14, <1>18, <2>1 DEF GetsNeighbor, EdgeNeighbor, RecursiveFirst, Runs
  <2>10. PICK ctx : ctx = SplitAndMoveToVertex(x.base, v)
    OBVIOUS
  <2>3. InnerAnswers(i, SplitAndMoveToVertex(inner[i].base, Head(inner[i].neighbors)),
                     [inner[i] EXCEPT !.neighbors = Tail(inner[i].neighbors)])
    BY <2>2, Zenon DEF RecursiveNeighbor
  <2>4. InnerAnswers(i, ctx, [inner[i] EXCEPT !.neighbors = rest])
    BY <1>15, <2>1, <2>3, <2>10
  <2>6. PICK y : y = inner[i]
    OBVIOUS
  <2>7. [y EXCEPT !.neighbors = rest] = RecursiveIt(x.ctx, x.base, rest)
    BY <2>1, <2>6, RecursiveNeighbors
  <2>9. Filled(x, rest) = RecursiveIt(x.ctx, x.base, rest)
    BY <1>18 DEF Filled
  <2>11. InnerAnswers(i, ctx, Filled(x, Unread(trace, s.outer[i], t.read)))
    BY <1>11, <2>4, <2>6, <2>7, <2>9
  <2>12. Answered(s, t, i, ctx, x)
    BY <1>5, <1>18, <2>10
  <2> QED BY <1>4, <1>6, <1>14, <2>11, <2>12, AnsweredReplays
<1> QED BY <1>5, <1>16, <1>17, <1>18

\* An iterator over neighbors that runs out, replayed.
LEMMA RunsOutReplays ==
  ASSUME NEW s, Ready(s), NEW t, StateOK(stages, trace, t), Follows(stages, trace, s, t),
         NEW i \in 1..Len(stages), RunsOut(stages, trace, s, t, i), ReadsAt(i)
  PROVE  Lands(t)
<1>1. PICK x : x = s.inner[i]
  OBVIOUS
<1>2. PICK u : u = Unread(trace, s.outer[i], s.read)
  OBVIOUS
<1>3. s.turn = i /\ Asking(x) /\ Said(trace, s.read, s.outer[i], "exhausted")
  BY <1>1 DEF RunsOut
<1>4. \/ /\ x.op = "edge" /\ MissingAt(stages[i], x)
         /\ Answered(s, t, i, SplitAndMoveToVertex(x.ctx, None), EdgeIt(x.ctx, << >>, x.hasNeighbors, Yes))
         /\ Told(stages, trace, t, s.read + 1)
      \/ x.op = "edge" /\ ~ MissingAt(stages[i], x) /\ Dropped(s, t, i) /\ t.read = s.read + 1
      \/ /\ x.op = "recursive" /\ x.ctx # None
         /\ Answered(s, t, i, x.ctx, RecursiveIt(None, x.base, << >>))
         /\ Told(stages, trace, t, s.read + 1)
      \/ x.op = "recursive" /\ x.ctx = None /\ Dropped(s, t, i) /\ t.read = s.read + 1
  BY <1>1, Zenon DEF RunsOut
<1>5. Expanding(x) /\ s.inner[i] # NoIterator /\ Expanding(s.inner[i])
  BY <1>1, <1>3, IteratorsAsk
<1>6. /\ x.op = "edge" => inner[i] = EdgeIt(x.ctx, u, x.hasNeighbors, x.ended)
      /\ x.op = "recursive" => inner[i] = RecursiveIt(x.ctx, x.base, u)
      /\ Polls(i)
  BY <1>1, <1>2, <1>3, <1>5, BusyIs
<1>7. ReadNeighbor(i) /\ neighbors[i] = s.outer[i] /\ turn = i
  BY <1>3, <1>5, BusyReplays
<1>8. u = << >> /\ Unread(trace, s.outer[i], t.read) = << >>
  <2>1. TraceOK(stages, trace) /\ IsTrace(trace) /\ Len(trace) \in Nat /\ s.read \in Nat /\ stages \in Seq(Stage)
        /\ StateOK(stages, trace, s)
    BY ReadyIs DEF Ready
  <2>2. u = << >>
    BY <1>2, <1>3, <2>1, UnreadEnds
  <2>3. ~ Said(trace, s.read, s.outer[i], "inner")
    BY <1>3 DEF Said
  <2>4. Progress(stages, trace, s, t)
    BY StepIs
  <2>5. Unread(trace, s.outer[i], t.read) = Unread(trace, s.outer[i], s.read)
    BY <2>1, <2>3, <2>4, UnreadStays
  <2> QED BY <1>2, <2>2, <2>5
<1>9. inner[i].neighbors = << >>
  <2>1. CASE x.op = "edge"
    <3>1. inner[i] = EdgeIt(x.ctx, u, x.hasNeighbors, x.ended)
      BY <1>6, <2>1
    <3> QED BY <1>8, <3>1, FieldsOf
  <2>2. CASE x.op = "recursive"
    <3>1. inner[i] = RecursiveIt(x.ctx, x.base, u)
      BY <1>6, <2>2
    <3>2. inner[i].neighbors = u
      BY <3>1, FieldsOf
    <3> QED BY <1>8, <3>2
  <2> QED BY <1>4, <2>1, <2>2
<1>10. /\ EdgeMissing(i) \/ EdgeEnd(i) \/ RecursiveLeaf(i) \/ RecursiveEnd(i)
       /\ read' = s.read + 1 /\ s.read + 1 \in Nat
       /\ mode' = mode /\ complete' = complete /\ trace' = trace /\ neighbors' = neighbors /\ awaiting' = awaiting
  BY <1>3, <1>6, <1>7, <1>9, NeighborRunsOut
<1>11. CASE x.op = "edge"
  <2>1. /\ inner[i] = EdgeIt(x.ctx, u, x.hasNeighbors, x.ended) /\ inner[i].op = "edge" /\ inner[i].ctx = x.ctx
        /\ inner[i].hasNeighbors = x.hasNeighbors /\ inner[i].ended = x.ended
    BY <1>6, <1>11, FieldsOf
  <2>2. EdgeMissing(i) \/ EdgeEnd(i)
    BY <1>10, <2>1 DEF RecursiveLeaf, RecursiveEnd, Runs
  <2>3. YieldsMissing(i, inner[i]) <=> MissingAt(stages[i], x)
    BY <2>1 DEF YieldsMissing, MissingAt
  <2>4. CASE MissingAt(stages[i], x)
    <3>1. EdgeMissing(i)
      BY <2>2, <2>3, <2>4 DEF EdgeEnd
    <3>2. InnerAnswers(i, SplitAndMoveToVertex(inner[i].ctx, None), [inner[i] EXCEPT !.ended = TRUE])
      BY <3>1, Zenon DEF EdgeMissing
    <3>3. PICK y : y = inner[i]
      OBVIOUS
    <3>4. InnerAnswers(i, SplitAndMoveToVertex(x.ctx, None), [y EXCEPT !.ended = TRUE])
      BY <2>1, <3>2, <3>3
    <3>5. InnerAnswers(i, SplitAndMoveToVertex(x.ctx, None), [y EXCEPT !.ended = Yes])
      BY <3>4, Zenon DEF Yes
    <3>6. [y EXCEPT !.ended = Yes] = EdgeIt(x.ctx, << >>, x.hasNeighbors, Yes)
      <4>1. y = EdgeIt(x.ctx, << >>, x.hasNeighbors, x.ended)
        BY <1>8, <2>1, <3>3
      <4> QED BY <4>1, EdgeEnded
    <3>7. PICK w : w = EdgeIt(x.ctx, << >>, x.hasNeighbors, Yes)
      OBVIOUS
    <3>8. Filled(w, << >>) = w
      BY <3>7, FilledIs
    <3>9. PICK ctx : ctx = SplitAndMoveToVertex(x.ctx, None)
      OBVIOUS
    <3>10. InnerAnswers(i, ctx, Filled(w, Unread(trace, s.outer[i], t.read)))
      BY <1>8, <3>5, <3>6, <3>7, <3>8, <3>9
    <3>11. Answered(s, t, i, ctx, w) /\ Told(stages, trace, t, s.read + 1)
      BY <1>4, <1>11, <2>4, <3>7, <3>9
    <3> QED BY <1>3, <1>5, <1>10, <3>10, <3>11, AnsweredReplays
  <2>5. CASE ~ MissingAt(stages[i], x)
    <3>1. EdgeEnd(i)
      BY <2>2, <2>3, <2>5 DEF EdgeMissing
    <3>2. InnerEnds(i)
      BY <3>1 DEF EdgeEnd
    <3>3. Dropped(s, t, i) /\ read' = t.read
      BY <1>4, <1>10, <1>11, <2>5
    <3> QED BY <1>3, <1>10, <3>2, <3>3, DroppedReplays
  <2> QED BY <2>4, <2>5
<1>12. CASE x.op = "recursive"
  <2>1. inner[i] = RecursiveIt(x.ctx, x.base, u) /\ inner[i].op = "recursive" /\ inner[i].ctx = x.ctx
    BY <1>6, <1>12, FieldsOf
  <2>2. RecursiveLeaf(i) \/ RecursiveEnd(i)
    BY <1>10, <2>1 DEF EdgeMissing, EdgeEnd, Runs
  <2>4. CASE x.ctx # None
    <3>1. RecursiveLeaf(i)
      BY <2>1, <2>2, <2>4 DEF RecursiveEnd
    <3>2. InnerAnswers(i, inner[i].ctx, [inner[i] EXCEPT !.ctx = None])
      BY <3>1, Zenon DEF RecursiveLeaf
    <3>3. PICK y : y = inner[i]
      OBVIOUS
    <3>4. InnerAnswers(i, x.ctx, [y EXCEPT !.ctx = None])
      BY <2>1, <3>2, <3>3
    <3>6. [y EXCEPT !.ctx = None] = RecursiveIt(None, x.base, << >>)
      <4>1. y = RecursiveIt(x.ctx, x.base, << >>)
        BY <1>8, <2>1, <3>3
      <4> QED BY <4>1, RecursiveCtx
    <3>7. PICK w : w = RecursiveIt(None, x.base, << >>)
      OBVIOUS
    <3>8. Filled(w, << >>) = w
      BY <3>7, FilledIs
    <3>9. PICK ctx : ctx = x.ctx
      OBVIOUS
    <3>10. InnerAnswers(i, ctx, Filled(w, Unread(trace, s.outer[i], t.read)))
      BY <1>8, <3>4, <3>6, <3>7, <3>8, <3>9
    <3>11. Answered(s, t, i, ctx, w) /\ Told(stages, trace, t, s.read + 1)
      BY <1>4, <1>12, <2>4, <3>7, <3>9
    <3> QED BY <1>3, <1>5, <1>10, <3>10, <3>11, AnsweredReplays
  <2>5. CASE x.ctx = None
    <3>1. RecursiveEnd(i)
      BY <2>1, <2>2, <2>5 DEF RecursiveLeaf
    <3>2. InnerEnds(i)
      BY <3>1 DEF RecursiveEnd
    <3>3. Dropped(s, t, i) /\ read' = t.read
      BY <1>4, <1>10, <1>12, <2>5
    <3> QED BY <1>3, <1>10, <3>2, <3>3, DroppedReplays
  <2> QED BY <2>4, <2>5
<1> QED BY <1>4, <1>11, <1>12

\* An iterator that is left, replayed.
LEMMA ClosesReplays ==
  ASSUME NEW s, Ready(s), NEW t, StateOK(stages, trace, t), Follows(stages, trace, s, t),
         NEW i \in 1..Len(stages), Closes(stages, s, t, i), ReadsAt(i)
  PROVE  Lands(t)
<1>1. s.turn = i /\ Expanding(s.inner[i]) /\ ~ Asking(s.inner[i]) /\ Dropped(s, t, i) /\ t.read = s.read
  BY DEF Closes
<1>2. s.inner[i] # NoIterator
  BY <1>1, IteratorsAsk
<1>3. ~ Polls(i)
  BY <1>1, <1>2, BusyIs
<1>4. ReadNeighbor(i)
  BY <1>1, <1>2, BusyReplays
<1>5. DoesNotAsk(i) /\ UNCHANGED traceVars
  BY <1>3, <1>4 DEF ReadNeighbor
<1>6. InnerEnds(i)
  BY <1>5 DEF DoesNotAsk, EdgeEnd, RecursiveEnd
<1>7. read = s.read
  BY ReadyIs
<1> QED BY <1>1, <1>5, <1>6, <1>7, DroppedReplays DEF traceVars

\* An iterator that hands on what it holds, replayed.
LEMMA RidesReplays ==
  ASSUME NEW s, Ready(s), NEW t, StateOK(stages, trace, t), Follows(stages, trace, s, t),
         NEW i \in 1..Len(stages), Rides(stages, trace, s, t, i), ReadsAt(i)
  PROVE  Lands(t)
<1>1. PICK x : x = s.inner[i]
  OBVIOUS
<1>2. PICK u : u = Unread(trace, s.outer[i], s.read)
  OBVIOUS
<1>3. s.turn = i /\ x.op = "unpack"
  BY <1>1 DEF Rides
<1>4. \/ /\ x.contexts # << >>
         /\ Answered(s, t, i, EnsureUnsuspended(Head(x.contexts)), UnpackIt(Tail(x.contexts)))
         /\ Told(stages, trace, t, s.read)
      \/ x.contexts = << >> /\ Dropped(s, t, i) /\ t.read = s.read
  BY <1>1, Zenon DEF Rides
<1>5. s.inner[i] # NoIterator /\ ~ Expanding(s.inner[i])
  BY <1>1, <1>3, FilledIs DEF Expanding
<1>6. (Unpack(i) \/ UnpackEnd(i)) /\ UNCHANGED traceVars
  BY <1>3, <1>5, BusyReplays
<1>7. inner[i] = UnpackIt(x.contexts)
  BY <1>1, <1>2, <1>3, <1>5, BusyIs
<1>8. inner[i].contexts = x.contexts
  BY <1>7 DEF UnpackIt
<1>9. /\ mode' = mode /\ complete' = complete /\ trace' = trace /\ neighbors' = neighbors /\ awaiting' = awaiting
      /\ read' = s.read /\ s.read \in Nat
  BY <1>6, ReadyIs DEF traceVars
<1>10. CASE x.contexts # << >>
  <2>1. Unpack(i)
    BY <1>6, <1>8, <1>10 DEF UnpackEnd
  <2>2. InnerAnswers(i, EnsureUnsuspended(Head(inner[i].contexts)), [inner[i] EXCEPT !.contexts = Tail(inner[i].contexts)])
    BY <2>1, Zenon DEF Unpack
  <2>3. PICK rest : rest = Tail(x.contexts)
    OBVIOUS
  <2>4. PICK ctx : ctx = EnsureUnsuspended(Head(x.contexts))
    OBVIOUS
  <2>5. InnerAnswers(i, ctx, [inner[i] EXCEPT !.contexts = rest])
    BY <1>8, <2>2, <2>3, <2>4
  <2>6. PICK y : y = inner[i]
    OBVIOUS
  <2>7. [y EXCEPT !.contexts = rest] = UnpackIt(rest)
    BY <1>7, <2>6, UnpackContexts
  <2>8. PICK w : w = UnpackIt(rest)
    OBVIOUS
  <2>9. Filled(w, Unread(trace, s.outer[i], t.read)) = w /\ ~ Expanding(w)
    BY <2>8, FilledIs, IteratorsAsk
  <2>10. InnerAnswers(i, ctx, Filled(w, Unread(trace, s.outer[i], t.read)))
    BY <2>5, <2>6, <2>7, <2>8, <2>9
  <2>11. Answered(s, t, i, ctx, w) /\ Told(stages, trace, t, s.read)
    BY <1>4, <1>10, <2>3, <2>4, <2>8
  <2> QED BY <1>3, <1>9, <2>9, <2>10, <2>11, AnsweredReplays
<1>11. CASE x.contexts = << >>
  <2>1. UnpackEnd(i)
    BY <1>6, <1>8, <1>11 DEF Unpack
  <2>2. InnerEnds(i)
    BY <2>1 DEF UnpackEnd
  <2>3. Dropped(s, t, i) /\ read' = t.read
    BY <1>4, <1>9, <1>11
  <2> QED BY <1>3, <1>9, <2>2, <2>3, DroppedReplays
<1> QED BY <1>10, <1>11

\* A stage does what it did when its step was recorded.
LEMMA StageReplays ==
  ASSUME NEW s, Ready(s), NEW t, StateOK(stages, trace, t), Follows(stages, trace, s, t),
         NEW i \in 1..Len(stages), s.turn = i, ReadsAt(i)
  PROVE  Lands(t)
<1>1. s.turn # 0
  OBVIOUS
<1>2. FollowsAt(stages, trace, s, t, i)
  BY <1>1 DEF Follows
<1>3. CASE Pulls(stages, trace, s, t, i)
  BY <1>3, PullsReplays
<1>4. CASE Ends(stages, trace, s, t, i)
  BY <1>4, EndsReplays
<1>5. CASE Moves(stages, trace, s, t, i)
  BY <1>5, MovesReplays
<1>6. CASE Checked(stages, trace, s, t, i)
  BY <1>6, CheckedReplays
<1>7. CASE Coerced(stages, trace, s, t, i)
  BY <1>7, CoercedReplays
<1>8. CASE Opens(stages, trace, s, t, i)
  BY <1>8, OpensReplays
<1>9. CASE Unpacks(stages, s, t, i)
  BY <1>9, UnpacksReplays
<1>10. CASE Reaches(stages, trace, s, t, i)
  BY <1>10, ReachesReplays
<1>11. CASE RunsOut(stages, trace, s, t, i)
  BY <1>11, RunsOutReplays
<1>12. CASE Closes(stages, s, t, i)
  BY <1>12, ClosesReplays
<1>13. CASE Rides(stages, trace, s, t, i)
  BY <1>13, RidesReplays
<1> QED BY <1>2, <1>3, <1>4, <1>5, <1>6, <1>7, <1>8, <1>9, <1>10, <1>11, <1>12, <1>13 DEF FollowsAt

-----------------------------------------------------------------------------
(* The consumer.                                                           *)

\* The rows that have been compared.
LEMMA RowsCompared ==
  ASSUME NEW s, TraceOK(stages, trace), StateOK(stages, trace, s), queue = s.queue, stages \in Seq(Stage)
  PROVE  /\ Len(queue[Consumer]) \in Nat /\ RowsExpected \in Nat /\ Len(queue[Consumer]) <= RowsExpected
         /\ s.read = Len(trace) => Len(queue[Consumer]) = RowsExpected
<1>1. Len(trace) \in Nat /\ DOMAIN trace = 1..Len(trace)
  BY DEF TraceOK, IsTrace
<1>2. Consumer = Len(stages) + 1
  BY DEF Consumer
<1>3. s.read \in Nat /\ s.read <= Len(trace) /\ Len(s.queue[Len(stages) + 1]) = Cardinality(Rows(trace, s.read))
  BY DEF StateOK, StateTyped
<1>4. RowsExpected = Cardinality(Rows(trace, Len(trace)))
  BY <1>1 DEF RowsExpected, Rows
<1>5. /\ Rows(trace, s.read) \subseteq Rows(trace, Len(trace))
      /\ Rows(trace, Len(trace)) \subseteq 1..Len(trace)
  BY <1>1, <1>3 DEF Rows
<1>6. IsFiniteSet(Rows(trace, Len(trace)))
  <2>1. IsFiniteSet(1..Len(trace))
    BY <1>1, FS_Interval
  <2> QED BY <1>5, <2>1, FS_Subset
<1>7. /\ Cardinality(Rows(trace, s.read)) <= Cardinality(Rows(trace, Len(trace)))
      /\ Cardinality(Rows(trace, s.read)) \in Nat /\ Cardinality(Rows(trace, Len(trace))) \in Nat
  <2>1. PICK A : A = Rows(trace, s.read)
    OBVIOUS
  <2>2. PICK B : B = Rows(trace, Len(trace))
    OBVIOUS
  <2>3. IsFiniteSet(B) /\ A \subseteq B
    BY <1>5, <1>6, <2>1, <2>2
  <2>4. IsFiniteSet(A) /\ Cardinality(A) <= Cardinality(B)
    BY <2>3, FS_Subset
  <2>5. Cardinality(A) \in Nat /\ Cardinality(B) \in Nat
    BY <2>3, <2>4, FS_CardinalityType
  <2> QED BY <2>1, <2>2, <2>4, <2>5
<1> QED BY <1>2, <1>3, <1>4, <1>7

\* The consumer has no iterator of its own: it asks for the next row.
LEMMA ConsumerFollows ==
  ASSUME NEW S \in Seq(Stage), NEW tr, NEW s, StateOK(S, tr, s), NEW t, Follows(S, tr, s, t), s.turn = Len(S) + 1
  PROVE  Pulls(S, tr, s, t, Len(S) + 1)
<1>1. PICK i : i = Len(S) + 1
  OBVIOUS
<1>2. i \notin DOMAIN S /\ i # 0
  BY <1>1
<1>3. s.inner[i] = NoIterator
  BY <1>1 DEF StateOK
<1>4. FollowsAt(S, tr, s, t, i)
  BY <1>1, <1>2 DEF Follows
<1>5. ~ Ends(S, tr, s, t, i) /\ ~ Reaches(S, tr, s, t, i) /\ ~ RunsOut(S, tr, s, t, i) /\ ~ Closes(S, s, t, i)
      /\ ~ Rides(S, tr, s, t, i)
  BY <1>2 DEF Ends, Reaches, RunsOut, Closes, Rides
<1>6. \A op : ~ OpAt(S, i, op)
  BY <1>2 DEF OpAt
<1>7. ~ Moves(S, tr, s, t, i) /\ ~ Checked(S, tr, s, t, i) /\ ~ Coerced(S, tr, s, t, i)
      /\ ~ Opens(S, tr, s, t, i) /\ ~ Unpacks(S, s, t, i)
  BY <1>6 DEF Moves, Checked, Coerced, Opens, Unpacks
<1> QED BY <1>1, <1>4, <1>5, <1>7 DEF FollowsAt

\* The consumer asks for the next row or compares one, replayed.
LEMMA ConsumerReplays ==
  ASSUME NEW s, Ready(s), NEW t, StateOK(stages, trace, t), Follows(stages, trace, s, t),
         s.turn = Len(stages) + 1, PullRow \/ CompareRow \/ AllCompared
  PROVE  Lands(t)
<1>1. PICK i : i = Len(stages) + 1
  OBVIOUS
<1>2. /\ Consumer = i /\ turn = s.turn /\ queue = s.queue /\ ended = s.ended /\ read = s.read /\ Len(stages) \in Nat
      /\ awaiting = Waiting(stages, s, FALSE)
  BY <1>1, ReadyIs
<1>3. Pulls(stages, trace, s, t, i)
  BY <1>1, ConsumerFollows DEF Ready
<1>4. ~ AdapterAt(stages, i) /\ i \in 1..Len(stages) + 1
  <2>1. i \notin DOMAIN stages /\ i \in 1..Len(stages) + 1
    BY <1>1, ReadyIs
  <2> QED BY <2>1 DEF AdapterAt, OpAt
<1>5. /\ ~ s.ended[i] /\ t.turn = i - 1 /\ t.read = s.read
      /\ t.queue = s.queue /\ t.ended = s.ended /\ t.inner = s.inner /\ t.outer = s.outer
  BY <1>3, <1>4 DEF Pulls
<1>6. i \notin awaiting
  <2>1. ~ (s.turn < i)
    BY <1>1, <1>2
  <2> QED BY <1>1, <1>2, <1>5, <2>1 DEF Waiting
<1>7. PullRow
  BY <1>2, <1>6 DEF CompareRow, AllCompared, Arrived
<1>8. /\ UNCHANGED <<mode, complete, stages, trace, inner, neighbors, queue, ended>> /\ turn' = i - 1 /\ read' = t.read
      /\ awaiting' = awaiting \cup {i}
  BY <1>2, <1>5, <1>7 DEF PullRow, Pull
<1>9. Carries(t)
  <2>1. turn' = t.turn /\ queue' = t.queue /\ ended' = t.ended
    BY <1>2, <1>5, <1>8
  <2>2. s.turn \notin 1..Len(stages)
    BY <1>2
  <2> QED BY <1>5, <1>8, <2>1, <2>2, CarriesSame
<1>10. awaiting' = IF AdapterAt(stages, i) \/ i = Len(stages) + 1 THEN awaiting \cup {i} ELSE awaiting
  BY <1>1, <1>8
<1>11. s.turn = i
  BY <1>1
<1>12. \E pending \in BOOLEAN : At(t, pending)'
  BY <1>4, <1>5, <1>8, <1>9, <1>10, <1>11, GoesBack
<1> QED BY <1>8, <1>12 DEF Lands

\* A snapshot is followed by the next.
LEMMA NextReplays ==
  ASSUME NEW s, Ready(s), NEW t, StateOK(stages, trace, t), Follows(stages, trace, s, t), Replaying
  PROVE  Lands(t)
<1>1. stages \in Seq(Stage) /\ turn = s.turn
  BY ReadyIs DEF Ready
<1>2. CASE turn = 0 /\ ReadStartingVertices
  BY <1>1, <1>2, SourceReplays
<1>3. CASE turn \in 1..Len(stages) /\ ReadsAt(turn)
  <2>1. PICK i : i = turn
    OBVIOUS
  <2>2. i \in 1..Len(stages) /\ ReadsAt(i) /\ s.turn = i
    BY <1>1, <1>3, <2>1
  <2> QED BY <2>2, StageReplays
<1>4. CASE turn = Len(stages) + 1 /\ (PullRow \/ CompareRow \/ AllCompared)
  BY <1>1, <1>4, ConsumerReplays
<1> QED BY <1>1, <1>2, <1>3, <1>4, ReplayTurns

-----------------------------------------------------------------------------
(* An input that has been pulled and is to be read.                        *)

InputPending(s) ==
  /\ mode = "replaying" /\ stages \in Seq(Stage) /\ TraceOK(stages, trace)
  /\ StateOK(stages, trace, s)
  /\ At(s, TRUE)

\* What a replay with a pending input is known to have.
LEMMA PendingIs ==
  ASSUME NEW s, InputPending(s)
  PROVE  /\ turn = s.turn /\ queue = s.queue /\ ended = s.ended /\ inner = Iters(stages, trace, s)
         /\ neighbors \in [1..Len(stages) -> Nat]
         /\ \A j \in 1..Len(stages) : Expanding(s.inner[j]) => neighbors[j] = s.outer[j]
         /\ awaiting = Waiting(stages, s, Yes)
         /\ ~ Silent(stages, s) /\ s.turn # 0 /\ s.inner[s.turn] = NoIterator
         /\ s.read = read + 1 /\ read < Len(trace) /\ trace[s.read] = Given(stages, s)
         /\ Len(stages) \in Nat /\ DOMAIN stages = 1..Len(stages) /\ Consumer = Len(stages) + 1
         /\ s.turn \in 0..Len(stages) + 1
<1>1. At(s, Yes)
  BY Zenon DEF InputPending, Yes
<1>2. Yes
  BY DEF Yes
<1>3. /\ turn = s.turn /\ queue = s.queue /\ ended = s.ended /\ inner = Iters(stages, trace, s)
      /\ neighbors \in [1..Len(stages) -> Nat]
      /\ \A j \in 1..Len(stages) : Expanding(s.inner[j]) => neighbors[j] = s.outer[j]
      /\ awaiting = Waiting(stages, s, Yes)
      /\ ~ Silent(stages, s) /\ s.turn # 0 /\ s.inner[s.turn] = NoIterator
      /\ s.read = read + 1 /\ read < Len(trace) /\ trace[s.read] = Given(stages, s)
  BY <1>1, <1>2, Zenon DEF At, Iters
<1>4. Len(stages) \in Nat /\ DOMAIN stages = 1..Len(stages) /\ Consumer = Len(stages) + 1
  BY DEF InputPending, Consumer
<1>5. s.turn \in 0..Len(stages) + 1
  BY DEF InputPending, StateOK, StateTyped
<1> QED BY <1>3, <1>4, <1>5

\* The replay is at s still, its input read.
Settles(s) ==
  /\ mode' = mode /\ complete' = complete /\ stages' = stages /\ trace' = trace
  /\ At(s, FALSE)'

\* When the input is read, the replay is at the same snapshot, with nothing pending.
LEMMA InputRead ==
  ASSUME NEW s, InputPending(s), NEW i, s.turn = i, awaiting' = awaiting \ {i}, read' = read + 1,
         mode' = mode, complete' = complete, trace' = trace, neighbors' = neighbors, UNCHANGED vars,
         i = Len(stages) + 1 => ~ s.ended[i]
  PROVE  Settles(s)
<1>1. stages' = stages /\ turn' = turn /\ queue' = queue /\ ended' = ended /\ inner' = inner
  BY DEF vars
<1>2. awaiting' = Waiting(stages, s, No)
  <2>1. awaiting = Waiting(stages, s, Yes) /\ s.turn \in 0..Len(stages) + 1 /\ Len(stages) \in Nat
    BY PendingIs
  <2>2. \A j \in 1..Len(stages) + 1 : j = i => ~ (i < j)
    BY <2>1
  <2>3. ~ No
    BY DEF No
  <2> QED BY <2>1, <2>2, <2>3 DEF Waiting
<1>3. At(s, No)'
  <2>1. /\ turn' = s.turn /\ queue' = s.queue /\ ended' = s.ended /\ inner' = Iters(stages, trace, s)
        /\ neighbors' \in [1..Len(stages) -> Nat]
        /\ \A j \in 1..Len(stages) : Expanding(s.inner[j]) => neighbors'[j] = s.outer[j]
        /\ read' = s.read /\ stages' = stages /\ trace' = trace
    BY <1>1, PendingIs
  <2>2. ~ No
    BY DEF No
  <2> QED BY <1>2, <2>1, <2>2, Zenon DEF At, Iters
<1>4. At(s, FALSE)'
  BY <1>3, Zenon DEF No
<1> QED BY <1>1, <1>4 DEF Settles

\* A stage reads the input that was pulled for it.
LEMMA StageReads ==
  ASSUME NEW s, InputPending(s), NEW i \in 1..Len(stages), s.turn = i, ReadsAt(i)
  PROVE  Settles(s)
<1>1. /\ turn = i /\ queue = s.queue /\ ended = s.ended /\ inner = Iters(stages, trace, s)
      /\ awaiting = Waiting(stages, s, Yes)
      /\ ~ Silent(stages, s) /\ s.inner[i] = NoIterator
      /\ s.read = read + 1 /\ read < Len(trace) /\ trace[s.read] = Given(stages, s)
      /\ Len(stages) \in Nat /\ DOMAIN stages = 1..Len(stages) /\ Consumer = Len(stages) + 1
  BY PendingIs
<1>2. i # Len(stages) + 1 /\ i \in 1..Len(stages) + 1
  BY <1>1
<1>3. AdapterAt(stages, i) /\ IsAdapter(i) /\ CallOf(i) = CallAt(stages, i)
  BY <1>1, <1>2, StagesAt DEF Silent
<1>4. i \in awaiting
  BY <1>1, <1>2, <1>3 DEF Waiting, Yes
<1>5. inner[i] = NoIterator /\ NoIterator.op = "none"
  BY <1>1, <1>2, FilledIs DEF Iters
<1>6. ~ Asks(i)
  BY <1>4 DEF Asks
<1>7. ~ ReadNeighbor(i)
  <2>1. \A op : Runs(i, op) => op = "none"
    BY <1>5 DEF Runs
  <2> QED BY <2>1 DEF ReadNeighbor, Polls, DoesNotAsk, EdgeEnd, RecursiveEnd
<1>8. ~ ReplayOther(i)
  <2>1. \A a, b : IsOp(i, a) /\ IsOp(i, b) => a = b
    BY DEF IsOp
  <2>2. ~ IsOp(i, "record") /\ ~ IsOp(i, "activate") /\ ~ IsOp(i, "unpack")
    BY <1>3, <2>1 DEF IsAdapter
  <2>3. ~ Unpack(i) /\ ~ UnpackEnd(i)
    BY <1>5 DEF Unpack, UnpackEnd, Runs
  <2> QED BY <1>3, <2>2, <2>3 DEF ReplayOther, Record, Activate
<1>9. ReadInput(i)
  BY <1>6, <1>7, <1>8 DEF ReadsAt, ReadAdvance, ReadExhausted, ReadAnswer, ReadOuter, ReadUnexpected
<1>10. NextOp = Given(stages, s)
  BY <1>1 DEF NextOp
<1>11. \/ Finds(CallOf(i), {"yieldInto"}) /\ ~ ended[i] /\ NextOp.value = Last(queue[i])
       \/ Finds(CallOf(i), {"inputExhausted"}) /\ ended[i]
  <2>1. CASE ended[i]
    <3>1. Given(stages, s) = Op(CallAt(stages, i), "inputExhausted", None)
      BY <1>1, <1>2, <2>1 DEF Given
    <3> QED BY <1>1, <1>3, <1>10, <2>1, <3>1 DEF Finds, Op
  <2>2. CASE ~ ended[i]
    <3>1. Given(stages, s) = Op(CallAt(stages, i), "yieldInto", Last(queue[i]))
      BY <1>1, <1>2, <2>2 DEF Given
    <3>2. PICK v : v = Last(queue[i])
      OBVIOUS
    <3>3. NextOp = Op(CallOf(i), "yieldInto", v)
      BY <1>3, <1>10, <3>1, <3>2
    <3> QED BY <1>1, <2>2, <3>2, <3>3 DEF Finds, Op
  <2> QED BY <2>1, <2>2
<1>12. Reads /\ awaiting' = awaiting \ {i} /\ UNCHANGED <<vars, neighbors>>
  BY <1>9, <1>11, Zenon DEF ReadInput
<1> QED BY <1>2, <1>12, InputRead DEF Reads

\* The consumer reads the row that was pulled for it.
LEMMA ConsumerReads ==
  ASSUME NEW s, InputPending(s), s.turn = Len(stages) + 1, PullRow \/ CompareRow \/ AllCompared
  PROVE  Settles(s)
<1>1. PICK i : i = Len(stages) + 1
  OBVIOUS
<1>2. /\ turn = i /\ queue = s.queue /\ ended = s.ended
      /\ awaiting = Waiting(stages, s, Yes)
      /\ ~ Silent(stages, s)
      /\ s.read = read + 1 /\ read < Len(trace) /\ trace[s.read] = Given(stages, s)
      /\ Len(stages) \in Nat /\ Consumer = i
  BY <1>1, PendingIs
<1>3. ~ ended[i]
  BY <1>1, <1>2 DEF Silent
<1>4. i \in awaiting
  BY <1>1, <1>2 DEF Waiting, Yes
<1>5. Expected
  <2>1. Len(queue[Consumer]) \in Nat /\ RowsExpected \in Nat /\ Len(queue[Consumer]) <= RowsExpected
    BY <1>2, RowsCompared DEF InputPending
  <2> QED BY <1>2, <1>3, <2>1 DEF Expected
<1>6. CompareRow
  BY <1>2, <1>4, <1>5 DEF PullRow, AllCompared
<1>7. Given(stages, s) = Op(None, "result", Last(queue[i]).vertices)
  BY <1>1, <1>2 DEF Given
<1>8. NextOp = Given(stages, s)
  BY <1>2 DEF NextOp
<1>9. Finds(None, {"result"}) /\ NextOp.value = Last(queue[i]).vertices
  <2>1. PICK v : v = Last(queue[i]).vertices
    OBVIOUS
  <2>2. NextOp = Op(None, "result", v)
    BY <1>7, <1>8, <2>1
  <2> QED BY <1>2, <2>1, <2>2 DEF Finds, Op
<1>10. /\ read' = read + 1 /\ mode' = AfterRow /\ awaiting' = awaiting \ {i}
       /\ UNCHANGED <<vars, complete, trace, neighbors>>
  BY <1>2, <1>3, <1>6, <1>9 DEF CompareRow
<1>11. mode' = mode
  BY <1>10 DEF AfterRow, InputPending
<1> QED BY <1>1, <1>2, <1>3, <1>10, <1>11, InputRead

\* While an input is pending, the only step is the one that reads it.
LEMMA PendingReplays ==
  ASSUME NEW s, InputPending(s), Replaying
  PROVE  Settles(s)
<1>1. stages \in Seq(Stage) /\ turn = s.turn /\ s.turn # 0
  BY PendingIs DEF InputPending
<1>2. CASE turn \in 1..Len(stages) /\ ReadsAt(turn)
  <2>1. PICK i : i = turn
    OBVIOUS
  <2>2. i \in 1..Len(stages) /\ ReadsAt(i) /\ s.turn = i
    BY <1>1, <1>2, <2>1
  <2> QED BY <2>2, StageReads
<1>3. CASE turn = Len(stages) + 1 /\ (PullRow \/ CompareRow \/ AllCompared)
  BY <1>1, <1>3, ConsumerReads
<1> QED BY <1>1, <1>2, <1>3, ReplayTurns

-----------------------------------------------------------------------------
(* The end of the trace.                                                   *)

\* Whatever is replayed, the trace is the one that was recorded, and an operation
\* is read only if there is one.
LEMMA ReplayingReads ==
  ASSUME Replaying, mode' # "panicked"
  PROVE  /\ complete' = complete /\ trace' = trace /\ stages' = stages
         /\ read' = read \/ read < Len(trace)
         /\ mode' = mode \/ (mode' = "replayed" /\ AllCompared)
<1>0. ~ Panic
  BY DEF Panic
<1>1. CASE ReadStartingVertices
  BY <1>0, <1>1 DEF ReadStartingVertices, Reads, Finds
<1>2. ASSUME NEW i \in 1..Consumer, ReadsAt(i)
      PROVE  complete' = complete /\ trace' = trace /\ stages' = stages /\ (read' = read \/ read < Len(trace))
             /\ mode' = mode
  <2>1. CASE ReadAdvance(i)
    BY <2>1 DEF ReadAdvance, Reads, Finds
  <2>2. CASE ReadInput(i)
    BY <1>0, <2>2 DEF ReadInput, Reads, Finds, vars
  <2>3. CASE ReadExhausted(i)
    BY <1>0, <2>3 DEF ReadExhausted, Reads, Finds
  <2>4. CASE ReadAnswer(i)
    BY <1>0, <2>4 DEF ReadAnswer, Reads, Finds
  <2>5. CASE ReadOuter(i)
    BY <1>0, <2>5 DEF ReadOuter, Reads, Finds
  <2>6. CASE ReadNeighbor(i)
    <3>1. GetsNeighbor(i) \/ GetsNone(i) \/ DoesNotAsk(i)
      BY <1>0, <2>6 DEF ReadNeighbor
    <3>2. stages' = stages
      BY <3>1 DEF GetsNeighbor, GetsNone, DoesNotAsk, EdgeNeighbor, EdgeMissing, EdgeEnd, RecursiveFirst,
           RecursiveNeighbor, RecursiveLeaf, RecursiveEnd, InnerAnswers, InnerEnds
    <3> QED BY <1>0, <2>6, <3>2 DEF ReadNeighbor, FindsNeighbor, Reads, Finds, traceVars
  <2>7. CASE ReplayOther(i)
    <3>1. stages' = stages
      BY <2>7 DEF ReplayOther, Record, Activate, Unpack, UnpackEnd, Pull, End, Expand, InnerAnswers, InnerEnds
    <3> QED BY <2>7, <3>1 DEF ReplayOther, traceVars
  <2>8. ~ ReadUnexpected(i)
    BY <1>0 DEF ReadUnexpected
  <2> QED BY <1>2, <2>1, <2>2, <2>3, <2>4, <2>5, <2>6, <2>7, <2>8 DEF ReadsAt
<1>3. CASE PullRow
  BY <1>3 DEF PullRow, Pull
<1>4. CASE CompareRow
  <2>1. mode = "replaying"
    BY DEF Replaying
  <2> QED BY <1>0, <1>4, <2>1 DEF CompareRow, Finds, AfterRow, vars
<1>5. CASE AllCompared
  BY <1>0, <1>5 DEF AllCompared, vars
<1>6. ReadStartingVertices \/ (\E i \in 1..Consumer : ReadsAt(i)) \/ PullRow \/ CompareRow \/ AllCompared
  BY Zenon DEF Replaying, ReadsAt
<1> QED BY <1>1, <1>2, <1>3, <1>4, <1>5, <1>6

\* A replay that panics leaves the rest as it was.
LEMMA PanicsIncomplete ==
  ASSUME Replaying, mode' = "panicked"
  PROVE  complete' = complete
<1>1. mode = "replaying" /\ mode # mode'
  BY DEF Replaying
<1>2. Panic => complete' = complete
  BY DEF Panic
<1>3. CASE ReadStartingVertices
  BY <1>1, <1>2, <1>3 DEF ReadStartingVertices, Reads
<1>4. ASSUME NEW i \in 1..Consumer, ReadsAt(i)
      PROVE  complete' = complete
  BY <1>1, <1>2, <1>4 DEF ReadsAt, ReadAdvance, ReadInput, ReadExhausted, ReadAnswer, ReadOuter, ReadUnexpected,
       ReadNeighbor, ReplayOther, Reads, traceVars
<1>5. CASE PullRow \/ CompareRow \/ AllCompared
  BY <1>1, <1>2, <1>5 DEF PullRow, CompareRow, AllCompared
<1>6. ReadStartingVertices \/ (\E i \in 1..Consumer : ReadsAt(i)) \/ PullRow \/ CompareRow \/ AllCompared
  BY Zenon DEF Replaying, ReadsAt
<1> QED BY <1>3, <1>4, <1>5, <1>6

\* The replay has come to where the recording was stopped.
LEMMA LastReplays ==
  ASSUME NEW s, Ready(s), s.turn = Len(stages) + 1, s.read = Len(trace), complete = s.ended[Len(stages) + 1],
         Replaying
  PROVE  \/ mode' = "replayed" /\ read' = Len(trace')
         \/ mode' = mode /\ complete' = complete /\ stages' = stages /\ trace' = trace /\ ~ complete /\ read' = Len(trace)
<1>1. PICK i : i = Len(stages) + 1
  OBVIOUS
<1>2. /\ Consumer = i /\ turn = i /\ queue = s.queue /\ ended = s.ended /\ read = s.read /\ Len(stages) \in Nat
      /\ awaiting = Waiting(stages, s, FALSE)
  BY <1>1, ReadyIs
<1>3. i \in 1..Len(stages) + 1 /\ ~ (s.turn < i)
  BY <1>1, <1>2
<1>4. i \in awaiting <=> s.ended[i]
  BY <1>1, <1>2, <1>3 DEF Waiting
<1>5. stages \in Seq(Stage) /\ TraceOK(stages, trace) /\ StateOK(stages, trace, s) /\ mode = "replaying"
  BY DEF Ready
<1>6. PullRow \/ CompareRow \/ AllCompared
  <2>1. turn # 0 /\ turn \notin 1..Len(stages)
    BY <1>1, <1>2
  <2> QED BY <1>5, <2>1, ReplayTurns
<1>7. CASE s.ended[i]
  <2>1. ~ PullRow
    BY <1>2, <1>4, <1>7 DEF PullRow
  <2>2. Len(queue[Consumer]) = RowsExpected /\ RowsExpected \in Nat
    BY <1>2, <1>5, RowsCompared
  <2>3. ~ Expected
    BY <1>2, <1>7, <2>2 DEF Expected
  <2>4. AllCompared
    BY <1>6, <2>1, <2>3 DEF CompareRow
  <2>5. mode' = "replayed" /\ trace' = trace /\ read' = read
    BY <1>2, <1>7, <2>4 DEF AllCompared
  <2> QED BY <1>2, <2>5
<1>8. CASE ~ s.ended[i]
  <2>1. PullRow
    BY <1>2, <1>4, <1>6, <1>8 DEF CompareRow, AllCompared, Arrived
  <2>2. mode' = mode /\ complete' = complete /\ stages' = stages /\ trace' = trace /\ read' = read
    BY <2>1 DEF PullRow, Pull
  <2> QED BY <1>1, <1>2, <1>8, <2>2
<1> QED BY <1>7, <1>8

-----------------------------------------------------------------------------
(* The invariant.                                                          *)

\* A recording has a history, and a replay is at one of its snapshots or, if the
\* recording was not complete, at its end.
TapIInv ==
  \/ RecordInv
  \/ ReplayInv
  \/ mode = "replayed" /\ read = Len(trace)
  \/ mode = "panicked" /\ ~ complete

\* A step of the replay keeps it at a snapshot, or ends it where the recording was stopped.
LEMMA ReplayStepKeeps ==
  ASSUME ReplayInv, Replaying
  PROVE  TapIInv'
<1>1. mode = "replaying" /\ stages \in Seq(Stage) /\ TraceOK(stages, trace)
  BY Zenon DEF ReplayInv
<1>2. PICK h, n :
        /\ IsHistory(stages, trace, h, n) /\ h[n].turn = Len(stages) + 1 /\ complete = h[n].ended[Len(stages) + 1]
        /\ \/ \E k \in 1..n, pending \in BOOLEAN : At(h[k], pending)
           \/ ~ complete /\ read = Len(trace)
  BY Zenon DEF ReplayInv
<1>3. ASSUME mode' = mode, complete' = complete, stages' = stages, trace' = trace,
             \/ \E k \in 1..n, pending \in BOOLEAN : At(h[k], pending)'
             \/ ~ complete /\ read' = Len(trace)
      PROVE  ReplayInv'
  <2>1. /\ mode' = "replaying" /\ stages' \in Seq(Stage) /\ TraceOK(stages', trace') /\ IsHistory(stages', trace', h, n)
        /\ h[n].turn = Len(stages') + 1 /\ complete' = h[n].ended[Len(stages') + 1]
    BY <1>1, <1>2, <1>3
  <2>2. \/ \E k \in 1..n, pending \in BOOLEAN : At(h[k], pending)'
        \/ ~ complete' /\ read' = Len(trace')
    BY <1>3
  <2> QED BY <2>1, <2>2, Zenon DEF ReplayInv
<1>4. n \in Nat \ {0} /\ n \in 1..n /\ \A k \in 1..n : k # n => k + 1 \in 1..n /\ k \in 1..n - 1
  BY <1>2 DEF IsHistory
<1>5. ASSUME NEW k \in 1..n, At(h[k], TRUE)
      PROVE  ReplayInv'
  <2>1. PICK s : s = h[k]
    OBVIOUS
  <2>2. StateOK(stages, trace, s)
    BY <1>2, <2>1 DEF IsHistory
  <2>3. InputPending(s)
    BY <1>1, <1>5, <2>1, <2>2, Zenon DEF InputPending
  <2>4. Settles(s)
    BY <2>3, PendingReplays
  <2>5. At(h[k], FALSE)' /\ mode' = mode /\ complete' = complete /\ stages' = stages /\ trace' = trace
    BY <2>1, <2>4, Zenon DEF Settles
  <2>6. \E j \in 1..n, pending \in BOOLEAN : At(h[j], pending)'
    BY <2>5, Zenon
  <2> QED BY <1>3, <2>5, <2>6
<1>6. ASSUME NEW k \in 1..n, At(h[k], FALSE)
      PROVE  TapIInv'
  <2>1. PICK s : s = h[k]
    OBVIOUS
  <2>2. StateOK(stages, trace, s)
    BY <1>2, <2>1 DEF IsHistory
  <2>3. Ready(s)
    BY <1>1, <1>6, <2>1, <2>2, Zenon DEF Ready
  <2>4. CASE k # n
    <3>1. PICK t : t = h[k + 1]
      OBVIOUS
    <3>2. k + 1 \in 1..n /\ k \in 1..n - 1
      BY <1>4, <2>4
    <3>3. StateOK(stages, trace, t) /\ Follows(stages, trace, s, t)
      BY <1>2, <2>1, <3>1, <3>2 DEF IsHistory
    <3>4. Lands(t)
      BY <2>3, <3>3, NextReplays
    <3>5. /\ mode' = mode /\ complete' = complete /\ stages' = stages /\ trace' = trace
          /\ \E pending \in BOOLEAN : At(h[k + 1], pending)'
      BY <3>1, <3>4, Zenon DEF Lands
    <3>6. \E j \in 1..n, pending \in BOOLEAN : At(h[j], pending)'
      BY <3>2, <3>5, Zenon
    <3>7. ReplayInv'
      BY <1>3, <3>5, <3>6
    <3> QED BY <3>7 DEF TapIInv
  <2>5. CASE k = n
    <3>1. s.turn = Len(stages) + 1 /\ s.read = Len(trace) /\ complete = s.ended[Len(stages) + 1]
      BY <1>2, <2>1, <2>5 DEF IsHistory
    <3>2. \/ mode' = "replayed" /\ read' = Len(trace')
          \/ mode' = mode /\ complete' = complete /\ stages' = stages /\ trace' = trace /\ ~ complete /\ read' = Len(trace)
      BY <2>3, <3>1, LastReplays
    <3>3. CASE mode' = "replayed" /\ read' = Len(trace')
      BY <3>3 DEF TapIInv
    <3>4. CASE mode' = mode /\ complete' = complete /\ stages' = stages /\ trace' = trace /\ ~ complete /\ read' = Len(trace)
      <4>1. ReplayInv'
        BY <1>3, <3>4
      <4> QED BY <4>1 DEF TapIInv
    <3> QED BY <3>2, <3>3, <3>4
  <2> QED BY <2>4, <2>5
<1>7. CASE ~ complete /\ read = Len(trace)
  <2>1. Len(trace) \in Nat
    BY <1>1 DEF TraceOK, IsTrace
  <2>2. CASE mode' = "panicked"
    BY <1>7, <2>2, PanicsIncomplete DEF TapIInv
  <2>3. CASE mode' # "panicked"
    <3>1. /\ complete' = complete /\ trace' = trace /\ stages' = stages
          /\ read' = read \/ read < Len(trace)
          /\ mode' = mode \/ (mode' = "replayed" /\ AllCompared)
      BY <2>3, ReplayingReads
    <3>2. read' = read
      BY <1>7, <2>1, <3>1
    <3>3. CASE mode' = mode
      <4>1. ReplayInv'
        BY <1>3, <1>7, <3>1, <3>2, <3>3
      <4> QED BY <4>1 DEF TapIInv
    <3>4. CASE mode' = "replayed"
      BY <1>7, <3>1, <3>2, <3>4 DEF TapIInv
    <3> QED BY <3>1, <3>3, <3>4
  <2> QED BY <2>2, <2>3
<1>8. \A pending \in BOOLEAN : pending = TRUE \/ pending = FALSE
  OBVIOUS
<1>9. ASSUME NEW k \in 1..n, NEW pending \in BOOLEAN, At(h[k], pending)
      PROVE  TapIInv'
  <2>1. CASE pending = TRUE
    <3>1. At(h[k], TRUE)
      BY <1>9, <2>1, Zenon
    <3>2. ReplayInv'
      BY <1>5, <3>1
    <3> QED BY <3>2 DEF TapIInv
  <2>2. CASE pending = FALSE
    <3>1. At(h[k], FALSE)
      BY <1>9, <2>2, Zenon
    <3> QED BY <1>6, <3>1
  <2> QED BY <1>8, <2>1, <2>2
<1> QED BY <1>2, <1>7, <1>9

\* A step that changes nothing.
LEMMA StutterKeeps ==
  ASSUME TapIInv, UNCHANGED <<vars, traceVars>>
  PROVE  TapIInv'
<1>0. /\ UNCHANGED <<mode, complete, trace, read, neighbors, awaiting, stages, turn, queue, ended, inner>>
      /\ UNCHANGED vars
  BY DEF vars, traceVars
<1>1. CASE RecordInv
  <2>1. IInv'
    <3>1. IInv /\ [Next]_vars
      BY <1>0, <1>1 DEF RecordInv, Tapped
    <3> QED BY <3>1, NextIInv
  <2>2. Snapshot' = Snapshot
    BY <1>0 DEF Snapshot, Consumer
  <2>3. Tapped'
    BY <1>0, <1>1, <2>1 DEF RecordInv, Tapped
  <2>4. StillOpen(stages', trace', Snapshot') /\ \E h, n : IsHistory(stages', trace', h, n) /\ h[n] = Snapshot'
    BY <1>0, <1>1, <2>2 DEF RecordInv
  <2>5. RecordInv'
    BY <2>3, <2>4, Zenon DEF RecordInv
  <2> QED BY <2>5 DEF TapIInv
<1>2. CASE ReplayInv
  <2>1. \A s, pending : At(s, pending)' <=> At(s, pending)
    BY <1>0 DEF At
  <2>2. PICK h, n :
        /\ IsHistory(stages, trace, h, n) /\ h[n].turn = Len(stages) + 1 /\ complete = h[n].ended[Len(stages) + 1]
        /\ \/ \E k \in 1..n, pending \in BOOLEAN : At(h[k], pending)
           \/ ~ complete /\ read = Len(trace)
    BY <1>2, Zenon DEF ReplayInv
  <2>3. /\ mode' = "replaying" /\ stages' \in Seq(Stage) /\ TraceOK(stages', trace') /\ IsHistory(stages', trace', h, n)
        /\ h[n].turn = Len(stages') + 1 /\ complete' = h[n].ended[Len(stages') + 1]
    BY <1>0, <1>2, <2>2 DEF ReplayInv
  <2>4. \/ \E k \in 1..n, pending \in BOOLEAN : At(h[k], pending)'
        \/ ~ complete' /\ read' = Len(trace')
    BY <1>0, <2>1, <2>2
  <2>5. ReplayInv'
    BY <2>3, <2>4, Zenon DEF ReplayInv
  <2> QED BY <2>5 DEF TapIInv
<1>3. CASE (mode = "replayed" /\ read = Len(trace)) \/ (mode = "panicked" /\ ~ complete)
  BY <1>0, <1>3 DEF TapIInv
<1> QED BY <1>1, <1>2, <1>3 DEF TapIInv

\* The strengthening is inductive.
LEMMA TapStepKeeps ==
  ASSUME TapIInv, [Recording \/ Replaying \/ Over]_<<vars, traceVars>>
  PROVE  TapIInv'
<1>1. CASE Recording
  <2>1. mode = "recording" /\ (RecordStep \/ StartReplay)
    BY <1>1, Zenon DEF Recording, RecordStep
  <2>2. RecordInv
    BY <2>1 DEF TapIInv, ReplayInv
  <2>3. CASE RecordStep
    BY <2>2, <2>3, RecordStepKeeps DEF TapIInv
  <2>4. CASE StartReplay
    BY <2>2, <2>4, StartReplays DEF TapIInv
  <2> QED BY <2>1, <2>3, <2>4
<1>2. CASE Replaying
  <2>1. mode = "replaying"
    BY <1>2 DEF Replaying
  <2>2. ReplayInv
    BY <2>1 DEF TapIInv, RecordInv, Tapped
  <2> QED BY <1>2, <2>2, ReplayStepKeeps
<1>3. CASE Over \/ UNCHANGED <<vars, traceVars>>
  BY <1>3, StutterKeeps DEF Over
<1> QED BY <1>1, <1>2, <1>3

\* It holds of every execution that is recorded and replayed.
LEMMA TapSpecIInv == TapSpec => []TapIInv
<1>1. TapInit => TapIInv
  BY InitRecorded DEF TapIInv
<1> QED BY <1>1, TapStepKeeps, PTL DEF TapSpec

\* A trace that the execution recorded to its end can be replayed: TapAdapter's
\* readers (replay.rs) find each operation where they look for it and compare
\* equal what they are given, so none of their assertions and unwraps panics.
THEOREM CompleteReplaysHolds == TapSpec => []CompleteReplays
<1>1. TapIInv => CompleteReplays
  BY DEF TapIInv, RecordInv, Tapped, ReplayInv, CompleteReplays
<1> QED BY <1>1, TapSpecIInv, PTL

\* When assert_interpreted_results() has seen the last row, there is nothing in
\* the trace that the readers have not read.
THEOREM ReadsAllHolds == TapSpec => []ReadsAll
<1>1. TapIInv => ReadsAll
  BY DEF TapIInv, RecordInv, Tapped, ReplayInv, ReadsAll
<1> QED BY <1>1, TapSpecIInv, PTL
=============================================================================
