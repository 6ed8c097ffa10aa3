------------------------------ MODULE RowStream ------------------------------
(***************************************************************************)
(* What interpret_ir() promises its caller: an iterator that yields the    *)
(* rows of the query one by one, each once and in order, and then ends.    *)
(***************************************************************************)
EXTENDS Sequences, Naturals

VARIABLES
  answer,   \* the rows of the query
  yielded,  \* the rows the iterator has yielded
  finished  \* the iterator has returned None

streamVars == <<answer, yielded, finished>>

Init ==
  /\ yielded = <<>>
  /\ finished = FALSE

Yield ==
  /\ Len(yielded) < Len(answer)
  /\ yielded' = Append(yielded, answer[Len(yielded) + 1])
  /\ UNCHANGED <<answer, finished>>

Finish ==
  /\ yielded = answer
  /\ ~finished
  /\ finished' = TRUE
  /\ UNCHANGED <<answer, yielded>>

Next == Yield \/ Finish

Spec == Init /\ [][Next]_streamVars /\ WF_streamVars(Next)
=============================================================================
