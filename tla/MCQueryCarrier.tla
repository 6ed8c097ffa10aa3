--------------------------- MODULE MCQueryCarrier ---------------------------
(***************************************************************************)
(* A root component with two folds, the first holding two folds of its     *)
(* own, one of them with a fold inside.                                    *)
(***************************************************************************)
EXTENDS QueryCarrier

MCFolds == {1, 2, 3, 4, 5}

MCOuter ==
  [n \in {0} \cup MCFolds |->
     CASE n = 0 -> {}
       [] n \in {1, 5} -> {0}
       [] n \in {2, 3} -> {0, 1}
       [] n = 4 -> {0, 1, 3}]
=============================================================================
