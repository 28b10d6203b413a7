---------------------------- MODULE MCEnrollment ----------------------------
(* Two Galaxy databases and two collector processes.  An installation      *)
(* either has its source replaced by plan, or starts on an empty Galaxy, or *)
(* has the database replaced behind its back.                              *)
EXTENDS Enrollment

Planned == {"replaced_idle", "manual_replace", "reenroll_setting"}
AllSettings ==
  {Planned, Planned \cup {"lease_lost"}, {"empty_source", "lease_lost"}, {"replaced_running"}}
=============================================================================
