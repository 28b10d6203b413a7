---------------------------- MODULE MCBatchPaging ----------------------------
(* BatchPaging with lists longer than every budget but one.                 *)
EXTENDS BatchPaging
MCTargets == 1..4
MCBudgets == 1..3
=============================================================================
