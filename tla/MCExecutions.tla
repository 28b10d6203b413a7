----------------------------- MODULE MCExecutions -----------------------------
(* One version of a profile with a period, without one and with another,    *)
(* and a later one that covers nothing.  Either the configuration changes   *)
(* or the job is tried many times.                                          *)
EXTENDS Executions

Covering(period) == [version |-> 1, uid |-> 1, covers |-> {batchJob}, period |-> period]
Corrected == [version |-> 2, uid |-> 2, covers |-> {}, period |-> {}]
MCProfiles == {Covering({1}), Covering({}), Covering({2}), Corrected}
MCSettings ==
  {[profiles |-> MCProfiles, changes |-> 2, chart |-> FALSE,
    submissions |-> 1, tasks |-> {0}, retries |-> 0],
   [profiles |-> MCProfiles, changes |-> 2, chart |-> TRUE,
    submissions |-> 1, tasks |-> {0}, retries |-> 0],
   [profiles |-> {}, changes |-> 0, chart |-> TRUE, submissions |-> 2, tasks |-> {0}, retries |-> 1],
   [profiles |-> {}, changes |-> 0, chart |-> TRUE, submissions |-> 1, tasks |-> {0}, retries |-> 2],
   [profiles |-> {}, changes |-> 0, chart |-> TRUE, submissions |-> 1, tasks |-> {0, 1}, retries |-> 1]}
=============================================================================
