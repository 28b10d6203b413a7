------------------------------- MODULE Executions -------------------------------
(***************************************************************************)
(* How observations of a job's executions become attempts, and what a      *)
(* report counts as repeated work (gcp_batch.parse_task_attempts,          *)
(* ingestion.upsert_attempt, reporting._executions and _base_records).     *)
(*                                                                         *)
(* The job batchJob runs on Google Cloud Batch.  Galaxy may submit it      *)
(* again when a submission has ended, a submission has parallel tasks, and *)
(* Batch retries a task, on the same VM or on another.  The log of a task  *)
(* grows while the collector reads it, from the start every time; rows and *)
(* links are only ever added.  Galaxy's own record of the job is           *)
(* classified by Baseline.                                                 *)
(*                                                                         *)
(* A log is the sequence of its parts between RETRIED events, each with    *)
(* the VM that its ASSIGNED and RUNNING events name and with whether it    *)
(* came to RUNNING.  An amount is the set of the VMs it charges: a VM      *)
(* works for one submission, and each has its price.                       *)
(***************************************************************************)
EXTENDS Baseline, Sequences, FiniteSetsExt

CONSTANTS
  batchJob,
  VMs            \* the VMs of one submission

\* Further bounds in a setting, submissions: of the job, numbered from 1,
\* tasks: of each of them, retries: of all its tasks together.

ASSUME ExecutionsAssumption ==
  /\ batchJob \in Jobs
  /\ 0 \notin VMs
  /\ \A s \in Settings : /\ {s.submissions, s.retries} \subseteq Nat
                         /\ s.tasks \subseteq Nat /\ IsFiniteSet(s.tasks)

VARIABLES
  log,           \* the log of each submission's tasks, empty before it exists
  over,          \* the submissions that have ended
  uid,           \* the place of each submission in the order of Batch's IDs, which
                 \* are drawn at random: decided at the start, seen by nobody
  fresh,         \* the logs that have not grown since they were read
  attempts,      \* stored attempts
  started,       \* the ones that have a time of their start
  used,          \* the VMs that each is linked to
  reclassified   \* whether reclassify-baseline ran under this configuration

providerVars == <<log, over, uid, fresh>>
storedVars == <<attempts, started, used>>
vars == <<baselineVars, providerVars, storedVars, reclassified>>

Submissions == 1 .. setting.submissions
Lanes == Submissions \X setting.tasks
Waiting == [vm |-> 0, ran |-> FALSE]
Attempt(l, i) == [submission |-> l[1], task |-> l[2], ordinal |-> i]
Vm(l, v) == <<l[1], v>>
AllVms == Submissions \X VMs

Init ==
  /\ BaselineInit
  /\ log = [l \in Lanes |-> <<>>] /\ over = {} /\ fresh = {}
  /\ uid \in [Submissions -> Submissions]
  /\ \A r, s \in Submissions : uid[r] = uid[s] => r = s
  /\ attempts = {} /\ started = {} /\ used = {}
  /\ reclassified = FALSE

-----------------------------------------------------------------------------
(* Google Cloud Batch. *)

Submitted == {l \in Lanes : log[l] # <<>>}
Active(l) == l \in Submitted /\ l[1] \notin over
Current(l) == log[l][Len(log[l])]
Retries == Cardinality({x \in Lanes \X (2 .. setting.retries + 1) : x[2] \in DOMAIN log[x[1]]})

Grows(l, entries) ==
  /\ log' = [log EXCEPT ![l] = entries] /\ fresh' = fresh \ {l}
  /\ UNCHANGED <<baselineVars, storedVars, over, uid, reclassified>>

Submit(s) ==
  /\ s > 1 => s - 1 \in over
  /\ \A t \in setting.tasks : log[<<s, t>>] = <<>>
  /\ log' = [l \in Lanes |-> IF l[1] = s THEN <<Waiting>> ELSE log[l]]
  /\ UNCHANGED <<baselineVars, storedVars, over, uid, fresh, reclassified>>

Assign(l, v) ==
  /\ Active(l) /\ Current(l).vm = 0
  /\ Grows(l, [log[l] EXCEPT ![Len(log[l])].vm = v])

Run(l) ==
  /\ Active(l) /\ Current(l).vm # 0 /\ ~Current(l).ran
  /\ Grows(l, [log[l] EXCEPT ![Len(log[l])].ran = TRUE])

\* Also of an attempt that its VM was lost under before it ran.
Retry(l) ==
  /\ Active(l) /\ Current(l).vm # 0
  /\ Retries < setting.retries
  /\ Grows(l, Append(log[l], Waiting))

End(s) ==
  /\ s \notin over /\ \A t \in setting.tasks : Active(<<s, t>>)
  /\ over' = over \cup {s}
  /\ UNCHANGED <<baselineVars, storedVars, log, uid, fresh, reclassified>>

-----------------------------------------------------------------------------
(* The collector: parse_task_attempts of one task's log, _lifetime_for and  *)
(* upsert_attempt of what it found.                                         *)

\* Mutation: an attempt that waits for its retry is not numbered on.
OrdinalOfTheRetried(l, i) == IF i = Len(log[l]) /\ i > 1 THEN i - 2 ELSE i - 1

\* A RETRIED event names the attempt that it closes.
Ordinal(l, i) == i - 1

NamedVms(l, i) == {j \in 1 .. i : log[l][j].vm # 0}

\* Mutation: the first VM that was named stands for all attempts.
FirstNamed(l, i) ==
  IF NamedVms(l, i) = {} THEN {} ELSE {Vm(l, log[l][Min(NamedVms(l, i))].vm)}

\* An attempt goes on with the VM of the one before, until an event names its own.
VmOf(l, i) ==
  IF NamedVms(l, i) = {} THEN {} ELSE {Vm(l, log[l][Max(NamedVms(l, i))].vm)}

\* Attempts of a job that has not been collected are skipped; to read a log
\* again that has not grown changes nothing.
Read(l) ==
  /\ collector.running /\ record[batchJob].collected
  /\ l \in Submitted \ fresh
  /\ LET at(i) == Attempt(l, Ordinal(l, i))
         parts == DOMAIN log[l] IN
     /\ attempts' = attempts \cup {at(i) : i \in parts}
     /\ started' = started \cup {at(i) : i \in {j \in parts : log[l][j].ran}}
     /\ used' = used \cup UNION {{at(i)} \X VmOf(l, i) : i \in parts}
  /\ fresh' = fresh \cup {l}
  /\ UNCHANGED <<baselineVars, log, over, uid, reclassified>>

-----------------------------------------------------------------------------
(* The report of the job: _executions and the repeats of _base_records.     *)

\* Mutation: by ordinal alone, whatever the submission.
BeforeByOrdinal(e, f) == e.ordinal < f.ordinal

\* Starts are ordered by submission, then ordinal.  Attempts without a start
\* come last, by their ordinals and then by the IDs of their submissions.
Before(e, f) ==
  CASE e \in started /\ f \in started ->
         \/ e.submission < f.submission
         \/ e.submission = f.submission /\ e.ordinal < f.ordinal
    [] e \in started /\ f \notin started -> TRUE
    [] e \notin started /\ f \in started -> FALSE
    [] OTHER -> \/ e.ordinal < f.ordinal
                \/ e.ordinal = f.ordinal /\ uid[e.submission] < uid[f.submission]

Repeats == {f \in attempts : \E e \in attempts : e.task = f.task /\ Before(e, f)}

\* Galaxy's record is an execution of its own when no provider has observed
\* one, and when it has a link of its own.
OwnExecution == record[batchJob].collected /\ (attempts = {} \/ links[batchJob] # {})
AttemptCount == Cardinality(attempts) + (IF OwnExecution THEN 1 ELSE 0)

Users(v) == {e \in attempts : <<e, v>> \in used}
LinkedVms == {v \in AllVms : Users(v) # {}}
RepeatVms == {v \in LinkedVms : Users(v) \subseteq Repeats}
SharedVms == {v \in LinkedVms \ RepeatVms : Users(v) \cap Repeats # {}}
RepeatsAreComplete ==
  SharedVms = {} /\ \A e \in Repeats : \E v \in LinkedVms : e \in Users(v)

-----------------------------------------------------------------------------
(* Baseline's steps, next to these. *)

Untouched == UNCHANGED <<providerVars, storedVars>>

\* placed_by_provider
Placed == IF used # {} THEN {batchJob} ELSE {}

Reconfigure == (\E p \in setting.profiles \cup {NoProfile} : Configure(p)) /\ reclassified' = FALSE /\ Untouched
ReclassifyBaseline == Reclassify(Placed) /\ reclassified' = TRUE /\ Untouched
StartsCollector == StartCollector /\ UNCHANGED reclassified /\ Untouched
StopsCollector == StopCollector /\ UNCHANGED reclassified /\ Untouched
Ticks == Tick /\ UNCHANGED reclassified /\ Untouched
Enrolls == Enroll /\ UNCHANGED reclassified /\ Untouched
GalaxyRecordsStart == (\E j \in Jobs : ToolStarts(j)) /\ UNCHANGED reclassified /\ Untouched
CollectsRecord == (\E j \in Jobs : CollectRecord(j)) /\ UNCHANGED reclassified /\ Untouched

Next ==
  \/ Reconfigure \/ ReclassifyBaseline \/ StartsCollector \/ StopsCollector
  \/ Ticks \/ Enrolls \/ GalaxyRecordsStart \/ CollectsRecord
  \/ \E s \in Submissions : Submit(s) \/ End(s)
  \/ \E l \in Lanes : Run(l) \/ Retry(l) \/ Read(l) \/ \E v \in VMs : Assign(l, v)

Spec == Init /\ [][Next]_vars

-----------------------------------------------------------------------------
(* Properties. *)

UpToDate == Submitted # {} /\ Submitted \subseteq fresh

\* What really happened: every part of a log is an attempt; the first of a
\* task in the first submission is its first, every other one is a repeat.
Parts == {x \in Lanes \X (1 .. setting.retries + 1) : x[2] \in DOMAIN log[x[1]]}
Part(x) == log[x[1]][x[2]]
RunOn(v) == {x \in Parts : Vm(x[1], Part(x).vm) = v}
UsedVms == {v \in AllVms : RunOn(v) # {}}
ReallyRepeats == {x \in Parts : x[1][1] > 1 \/ x[2] > 1}

\* A task whose first attempt was given a VM and never ran, while a later one
\* did, or is the first of a submission whose ID comes before.
FirstAttemptIsLost ==
  \E x \in Parts \ ReallyRepeats :
    /\ Part(x).vm # 0 /\ ~Part(x).ran
    /\ \E y \in ReallyRepeats :
         /\ y[1][2] = x[1][2]
         /\ Part(y).ran \/ (y[2] = 1 /\ uid[y[1][1]] < uid[x[1][1]])

SplitIsTrue ==
  UpToDate /\ RepeatsAreComplete =>
    RepeatVms = {v \in UsedVms : RunOn(v) \subseteq ReallyRepeats}

(* A read that comes between a retry and the event that names its VM leaves *)
(* a link to the VM of the attempt before, for good.  Such links cost the   *)
(* report its split between first attempts and repeats, and never its       *)
(* truth: when it calls the spend on repeats complete, it is exactly the    *)
(* VMs on which only repeats ran.  Except when a task's first attempt was   *)
(* lost between ASSIGNED and RUNNING: it sorts behind those that ran, and   *)
(* of two submissions that never ran either may come first.                 *)
RepeatSpendIsTrue == ~FirstAttemptIsLost => SplitIsTrue

(* However often and at whatever moment the logs were read: once they have  *)
(* been read to their ends, the job's VMs are charged for, all of them and  *)
(* no others.                                                               *)
TotalsSurviveStaleLinks == UpToDate => LinkedVms = UsedVms

(* Also after reads of unfinished logs, retries and submissions are counted *)
(* as they were; Galaxy's record of the same work is counted beside them    *)
(* only when a profile took it for work on the server.                      *)
ExecutionsAreCounted ==
  UpToDate =>
    /\ AttemptCount = Cardinality(Parts) + (IF links[batchJob] # {} THEN 1 ELSE 0)
    /\ Cardinality(Repeats) = Cardinality(ReallyRepeats)

(* From a reclassification on until the configuration changes, work that no *)
(* provider has placed is linked to the server exactly when the profile     *)
(* says so: also what was collected under earlier profiles, and what is     *)
(* collected later.                                                         *)
BaselineFollowsTheProfile ==
  reclassified => \A j \in Jobs \ Placed :
    record[j].collected => (links[j] # {} <=> Classified(Resolved(config), j, record[j].start))

(* No link is added to work outside the period that was saved with the      *)
(* configured version, whatever configurations said about it later.         *)
SavedPeriodGoverns ==
  [][\A j \in Jobs : ~(links'[j] \subseteq links[j]) /\ saved'[config.version] # Unsaved =>
       record'[j].start \in saved'[config.version].period]_vars

(* The first time a period is declared it is saved, and collection applies  *)
(* it (docs/deployment.md, on the effective period).                        *)
FirstDeclaredPeriodApplies ==
  collector.running /\ changes = 0 /\ config.period # {} => collector.profile = config
=============================================================================
