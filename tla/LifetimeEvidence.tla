-------------------------- MODULE LifetimeEvidence --------------------------
(***************************************************************************)
(* How the observations of one Batch VM become the window it is charged    *)
(* for.  A task runs on the VM and may be retried on it once; the GCP      *)
(* Batch collector reads the task's events, then what Compute or the audit *)
(* log say of the VM, and ingestion merges the lifetime of every attempt   *)
(* into one row by the precedence of its timing method.                    *)
(*                                                                         *)
(* The VM and its task go on between any two steps of a collection cycle,  *)
(* the audit log shows its entries late, and any cycle may be denied the   *)
(* enrichment or end with an error.                                        *)
(***************************************************************************)
EXTENDS Naturals, FiniteSets

CONSTANT Access    \* what the enrichment of a cycle may be allowed to read

ASSUME AccessAssumption == Access \subseteq {"full", "no_logging", "denied"}

VARIABLES
  at,         \* when each event of the VM and its task happened, 0: not yet
  logged,     \* the audit entries that Cloud Logging returns
  tasks,      \* the task events that the running cycle has read, or NoTasks
  row,        \* the ResourceLifetime, with the method its facts name for its end
  segment,    \* its ResourceSegment "lifetime"
  evidence    \* history: every lifetime that was merged into the row

vars == <<at, logged, tasks, row, segment, evidence>>

Events == {"inserted", "started0", "retried", "started1", "finished", "stopped", "deleted"}
Audited == {"inserted", "deleted"}
Times == 0 .. Cardinality(Events)
NoTasks == [e \in Events |-> 0]

TaskEvents == "batch_task_events"
Audit == "compute_insert_complete_to_delete_request"
Compute == "compute_instance_timestamps"
Methods == {TaskEvents, Audit, Compute, "none"}

Precedence(method) ==
  CASE method = Compute -> 40
    [] method = Audit -> 35
    [] method = TaskEvents -> 15
    [] OTHER -> 0

NoSegment == [method |-> "none", start |-> 0, end |-> 0]
NoRow == [method |-> "none", start |-> 0, end |-> 0, endMethod |-> "none"]

(* Python's "x or y" for a time that may be missing. *)
Either(x, y) == IF x # 0 THEN x ELSE y

-----------------------------------------------------------------------------
(* The VM and its task, as far as the sources tell of them.  A retry stays *)
(* on the VM; a VM may be stopped before it is deleted.                    *)

Before == [ inserted |-> {},           started0 |-> {"inserted"},
            retried  |-> {"started0"}, started1 |-> {"retried"},
            finished |-> {"started0"}, stopped  |-> {"finished"},
            deleted  |-> {"finished"} ]

Happened(e) == at[e] # 0
Now == Cardinality({e \in Events : Happened(e)})

Occurs(e) ==
  /\ ~Happened(e)
  /\ \A p \in Before[e] : Happened(p)
  /\ e = "retried" => ~Happened("finished")
  /\ e = "finished" => (Happened("retried") => Happened("started1"))
  /\ e = "stopped" => ~Happened("deleted")
  /\ at' = [at EXCEPT ![e] = Now + 1]
  /\ UNCHANGED <<logged, tasks, row, segment, evidence>>

IsLogged(e) ==
  /\ Happened(e)
  /\ e \notin logged
  /\ logged' = logged \cup {e}
  /\ UNCHANGED <<at, tasks, row, segment, evidence>>

-----------------------------------------------------------------------------
(* One cycle of the collector.  It reads the task's events first; without  *)
(* an event that names the VM there is no lifetime to merge.               *)

ReadTasks ==
  /\ tasks = NoTasks
  /\ Happened("started0")
  /\ tasks' = at
  /\ UNCHANGED <<at, logged, row, segment, evidence>>

(* What parse_task_attempts makes of the events: a RETRIED event closes the *)
(* first attempt and opens the second, which keeps the VM's identity even   *)
(* before an event of its own.                                              *)
FirstAttempt ==
  [start |-> tasks.started0, finish |-> Either(tasks.retried, tasks.finished)]
SecondAttempt == [start |-> tasks.started1, finish |-> tasks.finished]

(* A live VM answers for itself; the audit log is asked only when it does  *)
(* not, and a denial of either read drops both.                            *)
Answers(access) == access # "denied" /\ ~Happened("deleted")
Instance(access) ==
  IF Answers(access) THEN [start |-> at.inserted, end |-> at.stopped]
                     ELSE [start |-> 0, end |-> 0]
Entry(access, e) == IF access = "full" /\ ~Answers(access) /\ e \in logged THEN at[e] ELSE 0
Lifecycle(access) == [start |-> Entry(access, "inserted"), end |-> Entry(access, "deleted")]

Method(access) ==
  CASE Answers(access) -> Compute
    [] Lifecycle(access) # [start |-> 0, end |-> 0] -> Audit
    [] OTHER -> TaskEvents

(* _lifetime_for: an attempt's own times stand in for a missing start, and *)
(* only then for a missing end.                                            *)
LifetimeFor(attempt, access) ==
  LET start == Either(Lifecycle(access).start, Instance(access).start)
      end == Either(Lifecycle(access).end, Instance(access).end)
  IN  IF start = 0
      THEN [method |-> Method(access), start |-> attempt.start, end |-> Either(end, attempt.finish)]
      ELSE [method |-> Method(access), start |-> start, end |-> end]

\* Mutation: weaker evidence that closes a window brings its start along.
MergeRowWithStart(old, new) ==
  IF Precedence(new.method) >= Precedence(old.method)
  THEN [old EXCEPT !.method = new.method, !.start = new.start, !.end = new.end]
  ELSE IF old.end = 0 THEN [old EXCEPT !.start = new.start, !.end = new.end] ELSE old

\* Mutation: evidence of the row's own method is taken for nothing new.
MergeRowOnce(old, new) ==
  IF Precedence(new.method) > Precedence(old.method)
  THEN [old EXCEPT !.method = new.method, !.start = new.start, !.end = new.end]
  ELSE IF old.end = 0 /\ new.end # 0
  THEN [old EXCEPT !.end = new.end, !.endMethod = new.method]
  ELSE old

\* Mutation: weaker evidence is dropped, even where the row has no end.
MergeRowStrictly(old, new) ==
  IF Precedence(new.method) >= Precedence(old.method)
  THEN [old EXCEPT !.method = new.method, !.start = new.start, !.end = new.end]
  ELSE old

(* upsert_lifetime: evidence of at least the row's precedence replaces the *)
(* window, weaker evidence may only close it.                              *)
MergeRow(old, new) ==
  IF Precedence(new.method) >= Precedence(old.method)
  THEN [old EXCEPT !.method = new.method, !.start = new.start, !.end = new.end]
  ELSE IF old.end = 0 /\ new.end # 0
  THEN [old EXCEPT !.end = new.end, !.endMethod = new.method]
  ELSE old

MergeSegment(old, new) ==
  IF Precedence(new.method) >= Precedence(old.method) THEN new ELSE old

Collect(access) ==
  LET first == LifetimeFor(FirstAttempt, access)
      second == LifetimeFor(SecondAttempt, access)
      last == IF tasks.retried # 0 THEN {second} ELSE {}
  IN  /\ tasks # NoTasks
      /\ row' = IF last = {} THEN MergeRow(row, first) ELSE MergeRow(MergeRow(row, first), second)
      /\ segment' = IF last = {} THEN MergeSegment(segment, first)
                    ELSE MergeSegment(MergeSegment(segment, first), second)
      /\ evidence' = evidence \cup {first} \cup last
      /\ tasks' = NoTasks
      /\ UNCHANGED <<at, logged>>

(* A read that fails rolls the cycle back; the next one starts over. *)
Fail ==
  /\ tasks # NoTasks
  /\ tasks' = NoTasks
  /\ UNCHANGED <<at, logged, row, segment, evidence>>

Init ==
  /\ at = NoTasks
  /\ logged = {}
  /\ tasks = NoTasks
  /\ row = NoRow
  /\ segment = NoSegment
  /\ evidence = {}

Next ==
  \/ \E e \in Events : Occurs(e)
  \/ \E e \in Audited : IsLogged(e)
  \/ ReadTasks
  \/ \E access \in Access : Collect(access)
  \/ Fail

Spec == Init /\ [][Next]_vars

(* Cycles recur while the target is listed, not every one of them fails,    *)
(* and none of the ways to read stays away for good; what the VM and its    *)
(* task do next is never owed.                                              *)
Fairness ==
  /\ WF_vars(ReadTasks)
  /\ \A access \in Access : SF_vars(Collect(access))
  /\ \A e \in Audited : WF_vars(IsLogged(e))

FairSpec == Spec /\ Fairness

-----------------------------------------------------------------------------
(* costing._windows: a complete segment is what is charged, else the row. *)

Complete(w) == w.start # 0 /\ w.end # 0
NoWindow == [start |-> 0, end |-> 0]
Charged ==
  LET w == IF Complete(segment) THEN segment ELSE row
  IN  IF Complete(w) /\ w.start < w.end THEN [start |-> w.start, end |-> w.end] ELSE NoWindow

-----------------------------------------------------------------------------
(* Every variable has its type, and the audit log shows what has happened. *)
TypeOK ==
  /\ at \in [Events -> Times]
  /\ logged \subseteq {e \in Audited : Happened(e)}
  /\ tasks \in [Events -> Times]
  /\ row \in [method : Methods, start : Times, end : Times, endMethod : Methods]
  /\ segment \in [method : Methods, start : Times, end : Times]
  /\ evidence \subseteq [method : Methods \ {"none"}, start : Times, end : Times]

(* Weaker evidence never replaces better: whatever was merged in whatever *)
(* order, the row's start came with evidence of the best method that any  *)
(* cycle delivered (upsert_lifetime, docs/collection.md).                 *)
BestStartIsKept ==
  \A e \in evidence :
    /\ Precedence(row.method) >= Precedence(e.method)
    /\ \E best \in evidence : best.method = row.method /\ best.start = row.start

(* The row and its segment are merged by two copies of the precedence rule, *)
(* and the charge prefers the segment: when the segment has a window, it is *)
(* the window the lifetime is shown with.                                   *)
SegmentAgreesWithRow ==
  /\ segment.method = row.method
  /\ segment.start = row.start
  /\ segment.end # 0 => segment.end = row.end

(* "Better evidence that cannot close a window must not hold it open for    *)
(* good": once a cycle has delivered the deletion, the window has an end,   *)
(* and no later cycle opens it again.                                       *)
DeletionClosesTheWindow ==
  (Happened("deleted") /\ \E e \in evidence : e.end = at.deleted) => row.end # 0

(* A VM that ran a task and is gone is charged in the end, whatever the     *)
(* cycles could read of it, with a window inside its life.                  *)
DeletedVMsAreCharged ==
  Happened("deleted") ~> [](Charged # NoWindow)
=============================================================================
