----------------------------- MODULE MCCollector -----------------------------
(* Collector with two items of the second source and one of each other: one *)
(* process with all three sources, or two processes that overlap with the   *)
(* first two, which then do not fail of themselves.                         *)
EXTENDS Collector

TwoOfTheSecond == [s \in Sources |-> IF s = 2 THEN 2 ELSE 1]
AloneOrOverlapping ==
  {[procs |-> {1}, sources |-> {1, 2, 3}, failing |-> {1, 2, 3}],
   [procs |-> {1, 2}, sources |-> {1, 2}, failing |-> {}]}
=============================================================================
