-------------------------------- MODULE Replay --------------------------------
(***************************************************************************)
(* Recording what an adapter does and replaying it without the adapter:    *)
(* AdapterTap in interpreter/trace.rs, the trace readers and               *)
(* assert_interpreted_results() in interpreter/replay.rs.  Both run the    *)
(* interpreter of Execution, which knows of neither.                       *)
(*                                                                         *)
(* The tap records an operation for every call of a resolver, and for each *)
(* answer and each input of one as it passes.  The readers have the trace  *)
(* alone: the next operation, whoever asks for it, says what a resolver    *)
(* does, and has to be one of its own.  An operation is identified by its  *)
(* place in the trace.                                                     *)
(***************************************************************************)
EXTENDS Execution, FiniteSets

VARIABLES
  mode,      \* "recording", "replaying", "replayed" or "panicked"
  complete,  \* whether the recorded execution ran to its end
  trace,     \* the operations, in the order they were recorded
  read,      \* how many of them have been read
  neighbors, \* for each stage, the operation that yielded its neighbors
  awaiting   \* the stages whose readers have pulled an input (and the consumer)

traceVars == <<mode, complete, trace, read, neighbors, awaiting>>

Op(parent, kind, value) == [parent |-> parent, kind |-> kind, value |-> value]

\* The resolvers are called once each while the chain is built, the one for the
\* starting vertices first.
Callers == {0} \cup {i \in DOMAIN stages : IsAdapter(i)}
CallOf(i) == Cardinality({j \in Callers : j <= i})
Calls == [n \in 1..Cardinality(Callers) |-> Op(None, "call", CHOOSE i \in Callers : CallOf(i) = n)]

Answering(i) == stages[i].op \in {"check", "coerce"}

-----------------------------------------------------------------------------
(* Recording.                                                              *)

Records(ops) ==
  /\ trace' = trace \o ops
  /\ UNCHANGED <<mode, complete, read, awaiting>>

\* What stage i has been given: InputIteratorExhausted, YieldInto or, at the end
\* of the chain, ProduceQueryResult.
Input(i) ==
  IF i = Consumer
  THEN IF ended'[i] THEN << >> ELSE <<Op(None, "result", Last(queue'[i]).vertices)>>
  ELSE IF ~ IsAdapter(i) THEN << >>
  ELSE IF ended'[i] THEN <<Op(CallOf(i), "inputExhausted", None)>>
  ELSE <<Op(CallOf(i), "yieldInto", Last(queue'[i]))>>

\* What passes when stage i has its turn, the tap of its resolver first.
RecordStartingVertices ==
  /\ ResolveStartingVertices
  /\ Records((IF source = << >> THEN <<Op(CallOf(0), "exhausted", None)>>
              ELSE <<Op(CallOf(0), "starting", Head(source))>>) \o Input(1))
  /\ UNCHANGED neighbors

RecordPull(i) ==
  /\ Pull(i)
  /\ Records(IF IsAdapter(i) THEN <<Op(CallOf(i), "advance", None)>> ELSE << >>)
  /\ UNCHANGED neighbors

RecordEnd(i) ==
  /\ End(i)
  /\ Records((IF IsAdapter(i) THEN <<Op(CallOf(i), "exhausted", None)>> ELSE << >>) \o Input(i + 1))
  /\ UNCHANGED neighbors

\* A property or a coercion, with the outcome for the oldest input.
Yield(i, outcome) == Op(CallOf(i), "yieldFrom", [context |-> Head(queue[i]), outcome |-> outcome])

RecordAnswer(i) ==
  /\ \/ Keep(i) /\ Records(<<Yield(i, TRUE)>> \o Input(i + 1))
     \/ Drop(i) /\ Records(<<Yield(i, FALSE)>>)
     \/ CoerceDeeper(i) /\ Records(<<Yield(i, Head(queue[i]).active \in stages[i].to)>> \o Input(i + 1))
  /\ UNCHANGED neighbors

\* ResolveNeighborsOuter: what the inner iterator yields refers to it.
RecordOuter(i) ==
  /\ Expand(i)
  /\ IF IsAdapter(i)
     THEN /\ Records(<<Op(CallOf(i), "outer", Head(queue[i]))>>)
          /\ neighbors' = [neighbors EXCEPT ![i] = Len(trace) + 1]
     ELSE Records(<< >>) /\ UNCHANGED neighbors

\* An expander asks for neighbors until there are no more.
Polls(i) ==
  \/ Runs(i, "edge") /\ ~ inner[i].ended
  \/ Runs(i, "recursive") /\ (inner[i].ctx # None \/ inner[i].base # None)
GetsNeighbor(i) == EdgeNeighbor(i) \/ RecursiveFirst(i) \/ RecursiveNeighbor(i)
GetsNone(i) == Polls(i) /\ (EdgeMissing(i) \/ EdgeEnd(i) \/ RecursiveLeaf(i) \/ RecursiveEnd(i))
DoesNotAsk(i) == ~ Polls(i) /\ (EdgeEnd(i) \/ RecursiveEnd(i))

\* What the iterator yielded by operation n has yielded, enumerate()d.
Inner(n) == {m \in DOMAIN trace : trace[m].kind = "inner" /\ trace[m].parent = n}
Position(n) == Cardinality(Inner(n))

Answers(i) == IF turn' = i + 1 THEN Input(i + 1) ELSE << >>

RecordNeighbor(i) ==
  /\ \/ /\ GetsNeighbor(i)
        /\ Records(<<Op(neighbors[i], "inner",
                        [position |-> Position(neighbors[i]), vertex |-> Head(inner[i].neighbors)])>> \o Answers(i))
     \/ GetsNone(i) /\ Records(<<Op(neighbors[i], "exhausted", None)>> \o Answers(i))
     \/ DoesNotAsk(i) /\ Records(<< >>)
  /\ UNCHANGED neighbors

\* What no resolver takes part in.
RecordOther(i) ==
  /\ Record(i) \/ Activate(i) \/ Unpack(i) \/ UnpackEnd(i)
  /\ Records(Answers(i))
  /\ UNCHANGED neighbors

-----------------------------------------------------------------------------
(* Replaying.                                                              *)

Panic ==
  /\ mode' = "panicked"
  /\ UNCHANGED <<vars, complete, trace, read, neighbors, awaiting>>

\* finish(), when the rows are at an end or no more are asked for; the trace
\* goes to assert_interpreted_results(), which builds the chain once more.
\* Its resolvers read their calls, then nothing is left but the trace.
StartReplay ==
  /\ mode = "recording" /\ turn = Consumer
  /\ complete' = ended[Consumer]
  /\ mode' = "replaying"
  /\ read' = Len(Calls)
  /\ turn' = Consumer
  /\ queue' = [i \in 1..Consumer |-> << >>]
  /\ ended' = [i \in 1..Consumer |-> FALSE]
  /\ inner' = [i \in 1..Consumer |-> NoIterator]
  /\ graph' = [v \in Vertex |-> << >>]
  /\ source' = << >>
  /\ UNCHANGED <<plan, stages, answer, trace, neighbors, awaiting>>

\* advance_ref_iter(), and that the operation is one of the reader's.
NextOp == trace[read + 1]
Finds(parent, kinds) == read < Len(trace) /\ NextOp.parent = parent /\ NextOp.kind \in kinds

Reads ==
  /\ read' = read + 1
  /\ UNCHANGED <<mode, complete, trace>>

ReadStartingVertices ==
  /\ turn = 0
  /\ IF ~ Finds(CallOf(0), {"starting", "exhausted"}) THEN Panic
     ELSE /\ Reads
          /\ IF NextOp.kind = "exhausted"
             THEN ended' = [ended EXCEPT ![1] = TRUE] /\ UNCHANGED queue
             ELSE queue' = [queue EXCEPT ![1] = Append(@, NewContext(NextOp.value))] /\ UNCHANGED ended
          /\ turn' = 1
          /\ UNCHANGED <<plan, graph, stages, answer, source, inner, neighbors, awaiting>>

\* The readers take their inputs in the order they got them.
Newest(i) == Last(queue[i])
Oldest(i) == Head(queue[i])

Asks(i) == turn = i /\ i \in DOMAIN stages /\ IsAdapter(i) /\ inner[i] = NoIterator /\ i \notin awaiting

\* AdvanceInputIterator: the reader pulls its input.
ReadAdvance(i) ==
  /\ Asks(i) /\ Finds(CallOf(i), {"advance"})
  /\ Reads
  /\ turn' = i - 1
  /\ awaiting' = awaiting \cup {i}
  /\ UNCHANGED <<plan, graph, stages, answer, source, queue, ended, inner, neighbors>>

\* Then the input has to be what the trace has.
ReadInput(i) ==
  /\ turn = i /\ i \in awaiting /\ i # Consumer
  /\ IF \/ Finds(CallOf(i), {"yieldInto"}) /\ ~ ended[i] /\ NextOp.value = Last(queue[i])
        \/ Finds(CallOf(i), {"inputExhausted"}) /\ ended[i]
     THEN Reads /\ awaiting' = awaiting \ {i} /\ UNCHANGED <<vars, neighbors>>
     ELSE Panic

ReadExhausted(i) ==
  /\ Asks(i) /\ Finds(CallOf(i), {"exhausted"})
  /\ IF queue[i] # << >> THEN Panic
     ELSE /\ Reads
          /\ ended' = [ended EXCEPT ![i + 1] = TRUE]
          /\ turn' = i + 1
          /\ UNCHANGED <<plan, graph, stages, answer, source, queue, inner, neighbors, awaiting>>

Fits(i, context) == queue[i] # << >> /\ context = Oldest(i)

\* Whether the filter keeps it or the coercion succeeds is in the trace.
ReadAnswer(i) ==
  /\ Asks(i) /\ Answering(i) /\ Finds(CallOf(i), {"yieldFrom"})
  /\ IF ~ Fits(i, NextOp.value.context) THEN Panic
     ELSE /\ Reads
          /\ \/ /\ NextOp.value.outcome \/ IsOp(i, "coerce")
                /\ queue' = Passed(i, IF NextOp.value.outcome THEN Oldest(i) ELSE EnsureSuspended(Oldest(i)))
                /\ turn' = i + 1
             \/ /\ ~ NextOp.value.outcome /\ IsOp(i, "check")
                /\ queue' = [queue EXCEPT ![i] = Tail(@)]
                /\ turn' = i
          /\ UNCHANGED <<plan, graph, stages, answer, source, ended, inner, neighbors, awaiting>>

\* The vertices that the iterator yielded by operation n has in the trace, in the
\* order of their positions.
VertexAt(n, position) ==
  trace[CHOOSE m \in Inner(n) : trace[m].value.position = position].value.vertex
VerticesOf(n) == [k \in 1..Position(n) |-> VertexAt(n, k - 1)]

ReadOuter(i) ==
  /\ Asks(i) /\ ~ Answering(i) /\ Finds(CallOf(i), {"outer"})
  /\ IF ~ Fits(i, NextOp.value) THEN Panic
     ELSE /\ Reads
          /\ inner' = [inner EXCEPT ![i] =
                         [NewExpander(i, Oldest(i)) EXCEPT !.neighbors = VerticesOf(read + 1)]]
          /\ queue' = [queue EXCEPT ![i] = Tail(@)]
          /\ neighbors' = [neighbors EXCEPT ![i] = read + 1]
          /\ UNCHANGED <<plan, graph, stages, answer, source, turn, ended, awaiting>>

\* Anything else is not this reader's to read.
ReadUnexpected(i) ==
  /\ Asks(i)
  /\ ~ Finds(CallOf(i), {"advance", "exhausted"} \cup (IF Answering(i) THEN {"yieldFrom"} ELSE {"outer"}))
  /\ Panic

\* An inner iterator reads its neighbors one at a time, in the order of their
\* positions.
FindsNeighbor(i) ==
  IF inner[i].neighbors = << >> THEN Finds(neighbors[i], {"exhausted"})
  ELSE /\ Finds(neighbors[i], {"inner"})
       /\ NextOp.value.position = Len(VerticesOf(neighbors[i])) - Len(inner[i].neighbors)

ReadNeighbor(i) ==
  \/ /\ Polls(i) /\ FindsNeighbor(i)
     /\ GetsNeighbor(i) \/ GetsNone(i)
     /\ Reads
     /\ UNCHANGED <<neighbors, awaiting>>
  \/ Polls(i) /\ ~ FindsNeighbor(i) /\ Panic
  \/ DoesNotAsk(i) /\ UNCHANGED traceVars

\* The interpreter's own iterators do as they do when there is an adapter.
ReplayOther(i) ==
  /\ \/ Record(i) \/ Activate(i) \/ Unpack(i) \/ UnpackEnd(i)
     \/ ~ IsAdapter(i) /\ i # Consumer /\ (Pull(i) \/ End(i))
     \/ IsOp(i, "unpack") /\ Expand(i)
  /\ UNCHANGED traceVars

RowsExpected == Cardinality({m \in DOMAIN trace : trace[m].kind = "result"})

\* assert_interpreted_results() asks for one more row than it expects.
PullRow ==
  /\ Consumer \notin awaiting
  /\ Pull(Consumer)
  /\ awaiting' = awaiting \cup {Consumer}
  /\ UNCHANGED <<mode, complete, trace, read, neighbors>>

Arrived == turn = Consumer /\ Consumer \in awaiting
Expected == Len(queue[Consumer]) < RowsExpected \/ (Len(queue[Consumer]) = RowsExpected /\ ~ ended[Consumer])

\* The mutant of AfterRow: the last row expected is the end of it.
AfterLastRow == IF Len(queue[Consumer]) = RowsExpected THEN "replayed" ELSE "replaying"
AfterRow == "replaying"

CompareRow ==
  /\ Arrived /\ Expected
  /\ IF Finds(None, {"result"}) /\ ~ ended[Consumer] /\ NextOp.value = Last(queue[Consumer]).vertices
     THEN /\ read' = read + 1
          /\ mode' = AfterRow
          /\ awaiting' = awaiting \ {Consumer}
          /\ UNCHANGED <<vars, complete, trace, neighbors>>
     ELSE Panic

AllCompared ==
  /\ Arrived /\ ~ Expected
  /\ IF complete /\ ~ ended[Consumer] THEN Panic
     ELSE mode' = "replayed" /\ UNCHANGED <<vars, complete, trace, read, neighbors, awaiting>>

-----------------------------------------------------------------------------
TapInit ==
  /\ Init
  /\ mode = "recording"
  /\ complete = FALSE
  /\ trace = Calls
  /\ read = 0
  /\ neighbors = [i \in DOMAIN stages |-> 0]
  /\ awaiting = {}

Recording ==
  /\ mode = "recording"
  /\ \/ RecordStartingVertices
     \/ \E i \in 1..Consumer :
          RecordPull(i) \/ RecordEnd(i) \/ RecordAnswer(i) \/ RecordOuter(i) \/ RecordNeighbor(i) \/ RecordOther(i)
     \/ StartReplay

Replaying ==
  /\ mode = "replaying"
  /\ \/ ReadStartingVertices
     \/ \E i \in 1..Consumer :
          \/ ReadAdvance(i) \/ ReadInput(i) \/ ReadExhausted(i) \/ ReadAnswer(i) \/ ReadOuter(i)
          \/ ReadUnexpected(i) \/ ReadNeighbor(i) \/ ReplayOther(i)
     \/ PullRow \/ CompareRow \/ AllCompared

Over == mode \in {"replayed", "panicked"} /\ UNCHANGED <<vars, traceVars>>

TapSpec == TapInit /\ [][Recording \/ Replaying \/ Over]_<<vars, traceVars>>

-----------------------------------------------------------------------------
\* Whatever an adapter batches, a trace of all of its rows can be replayed: every
\* operation is asked for by the reader it belongs to, and every context and
\* every row comes out as it was recorded.
CompleteReplays == mode = "panicked" => ~ complete

\* When all rows have been compared, the trace has been read to its end.
ReadsAll == mode = "replayed" => read = Len(trace)
=============================================================================
