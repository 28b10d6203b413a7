------------------------------ MODULE Enrollment ------------------------------
(***************************************************************************)
(* Which fact namespace an observation goes to.  Enrollment binds a        *)
(* namespace to one Galaxy database; a release's initialization enrolls,   *)
(* checks and marks itself done; readiness lets the collector's pods start; *)
(* a collector verifies the source once, when it starts, and then collects *)
(* into the namespace it found, under an advisory lease.                   *)
(*                                                                         *)
(* A namespace is numbered in the order of opening: the first has the ID   *)
(* derived from the slug, the others a random one.                         *)
(***************************************************************************)
EXTENDS Naturals, FiniteSets

CONSTANTS
  Databases,      \* Galaxy databases that the endpoint may ever reach
  Pods,           \* collector processes
  MaxReleases,    \* bound: installs and upgrades of the chart
  MaxNamespaces,  \* bound: namespaces ever opened
  Settings        \* what may happen beside normal operation: sets out of MayHappen

MayHappen ==
  {"replaced_idle",      \* the database is replaced while no collector has looked at it
   "replaced_running",   \* ... or while one runs
   "empty_source",       \* a Galaxy has no job yet when it is enrolled
   "manual_replace",     \* an operator runs enroll --replace-source
   "reenroll_setting",   \* a release sets source_reenroll
   "lease_lost"}         \* the connection that holds the lease breaks

ASSUME SettingsAssumption == Settings \subseteq SUBSET MayHappen
ASSUME BoundsAssumption == MaxReleases \in Nat \ {0} /\ MaxNamespaces \in Nat \ {0}

None == 0
ASSUME NoneAssumption == None \notin Databases /\ None \notin Pods

VARIABLES
  may,        \* what may happen to this installation
  endpoint,   \* the database behind the configured endpoint
  withJobs,   \* databases with a job row, that have a fingerprint
  release,    \* the installed release and its source_reenroll
  job,        \* the next step of its initialization
  spaces,     \* namespace -> archived, the binding's fingerprint, whose facts it holds
  opened,     \* namespaces opened so far
  installed,  \* completion markers: release and namespace
  pods,       \* each collector: where it is, what it saw, where it collects
  lease       \* whose session holds the advisory lock

vars == <<may, endpoint, withJobs, release, job, spaces, opened, installed, pods, lease>>

Namespaces == 1 .. MaxNamespaces
Fingerprints == Databases \cup {None}
Unopened == [archived |-> FALSE, fingerprint |-> None, facts |-> {}]
Collecting == {"running", "read"}

Fingerprint(d) == IF d \in withJobs THEN d ELSE None

\* active_tenant: the one whose slug is the configured one.
Active == IF opened > 0 /\ ~spaces[opened].archived THEN opened ELSE None

\* Mutation: the evidence is recorded and never compared.
NeverContradicts(binding, seen) == FALSE

\* check_evidence: two fingerprints that are known and differ.
Contradicts(binding, seen) == binding # None /\ seen # None /\ binding # seen

\* record_evidence: a fingerprint that is not known replaces none.
Recorded(n, seen) ==
  [spaces EXCEPT ![n].fingerprint = IF seen # None THEN seen ELSE @]

-----------------------------------------------------------------------------
(* Outside Rainstone. *)

RunsAJob(d) ==
  /\ d \notin withJobs
  /\ withJobs' = withJobs \cup {d}
  /\ UNCHANGED <<may, endpoint, release, job, spaces, opened, installed, pods, lease>>

ReplaceDatabase(d) ==
  /\ d # endpoint
  /\ \/ "replaced_running" \in may
     \/ "replaced_idle" \in may /\ \A p \in Pods : pods[p].step \in {"waiting", "start"}
  /\ endpoint' = d
  /\ UNCHANGED <<may, withJobs, release, job, spaces, opened, installed, pods, lease>>

-----------------------------------------------------------------------------
(* ensure_enrollment and seed_instance, in one transaction. *)

Open(seen) ==
  /\ opened < MaxNamespaces
  /\ opened' = opened + 1
  /\ spaces' = [n \in Namespaces |->
       CASE n = Active -> [spaces[n] EXCEPT !.archived = TRUE]
         [] n = opened + 1 -> [Unopened EXCEPT !.fingerprint = seen]
         [] OTHER -> spaces[n]]

Resume(seen) ==
  /\ ~Contradicts(spaces[Active].fingerprint, seen)
  /\ spaces' = Recorded(Active, seen)
  /\ UNCHANGED opened

Enroll(reenroll, seen) ==
  IF Active = None \/ reenroll THEN Open(seen) ELSE Resume(seen)

\* rainstone enroll --replace-source.
ReplaceSource ==
  /\ "manual_replace" \in may
  /\ Active # None
  /\ Enroll(TRUE, Fingerprint(endpoint))
  /\ UNCHANGED <<may, endpoint, withJobs, release, job, installed, pods, lease>>

-----------------------------------------------------------------------------
(* Initialization of a release: its Job runs beside the deployments, whose *)
(* old pods may still run, and starts over when a step fails.              *)

Upgrade(reenroll) ==
  /\ release.number < MaxReleases
  /\ reenroll => "reenroll_setting" \in may
  /\ release' = [number |-> release.number + 1, reenroll |-> reenroll]
  /\ job' = "enroll"
  /\ UNCHANGED <<may, endpoint, withJobs, spaces, opened, installed, pods, lease>>

JobEnrolls ==
  /\ job = "enroll"
  /\ Enroll(release.reenroll, Fingerprint(endpoint))
  /\ job' = "check"
  /\ UNCHANGED <<may, endpoint, withJobs, release, installed, pods, lease>>

(* The self-check of the context; its report is for the status page only. *)
JobChecks ==
  /\ job = "check"
  /\ job' = "mark"
  /\ UNCHANGED <<may, endpoint, withJobs, release, spaces, opened, installed, pods, lease>>

\* Mutation: a namespace that was initialized before is not marked again.
JobMarksOnce ==
  /\ job = "mark"
  /\ installed' = IF \E r \in 1 .. MaxReleases : <<r, Active>> \in installed THEN installed
                  ELSE installed \cup {<<release.number, Active>>}
  /\ job' = "done"
  /\ UNCHANGED <<may, endpoint, withJobs, release, spaces, opened, pods, lease>>

JobMarks ==
  /\ job = "mark"
  /\ installed' = installed \cup {<<release.number, Active>>}
  /\ job' = "done"
  /\ UNCHANGED <<may, endpoint, withJobs, release, spaces, opened, pods, lease>>

JobFails ==
  /\ job \in {"check", "mark"}
  /\ job' = "enroll"
  /\ UNCHANGED <<may, endpoint, withJobs, release, spaces, opened, installed, pods, lease>>

\* doctor.readiness, of the web process and of wait-ready.
Ready == Active # None /\ <<release.number, Active>> \in installed

-----------------------------------------------------------------------------
(* A collector: build_collector, the lease, and its cycles. *)

WaitReady(p) ==
  /\ pods[p].step = "waiting"
  /\ Ready
  /\ pods' = [pods EXCEPT ![p].step = "start"]
  /\ UNCHANGED <<may, endpoint, withJobs, release, job, spaces, opened, installed, lease>>

Discover(p) ==
  /\ pods[p].step = "start"
  /\ pods' = [pods EXCEPT ![p].step = "discovered", ![p].seen = Fingerprint(endpoint)]
  /\ UNCHANGED <<may, endpoint, withJobs, release, job, spaces, opened, installed, lease>>

Verify(p) ==
  /\ pods[p].step = "discovered"
  /\ Active # None
  /\ ~Contradicts(spaces[Active].fingerprint, pods[p].seen)
  /\ spaces' = Recorded(Active, pods[p].seen)
  /\ pods' = [pods EXCEPT ![p].step = "verified"]
  /\ UNCHANGED <<may, endpoint, withJobs, release, job, opened, installed, lease>>

\* Collector.__init__ looks the namespace up once more and keeps it.
Build(p) ==
  /\ pods[p].step = "verified"
  /\ pods' = [pods EXCEPT ![p].step = "built", ![p].space = Active]
  /\ UNCHANGED <<may, endpoint, withJobs, release, job, spaces, opened, installed, lease>>

\* Mutation: the answer of pg_try_advisory_lock is not looked at.
AcquireAnyway(p) ==
  /\ pods[p].step = "built"
  /\ lease' = p
  /\ pods' = [pods EXCEPT ![p].step = "running"]
  /\ UNCHANGED <<may, endpoint, withJobs, release, job, spaces, opened, installed>>

Acquire(p) ==
  /\ pods[p].step = "built"
  /\ lease = None
  /\ lease' = p
  /\ pods' = [pods EXCEPT ![p].step = "running"]
  /\ UNCHANGED <<may, endpoint, withJobs, release, job, spaces, opened, installed>>

Read(p) ==
  /\ pods[p].step = "running"
  /\ endpoint \in withJobs
  /\ pods' = [pods EXCEPT ![p].step = "read", ![p].batch = endpoint]
  /\ UNCHANGED <<may, endpoint, withJobs, release, job, spaces, opened, installed, lease>>

Commit(p) ==
  /\ pods[p].step = "read"
  /\ spaces' = [spaces EXCEPT ![pods[p].space].facts = @ \cup {pods[p].batch}]
  /\ pods' = [pods EXCEPT ![p].step = "running", ![p].batch = None]
  /\ UNCHANGED <<may, endpoint, withJobs, release, job, opened, installed, lease>>

Off == [step |-> "waiting", seen |-> None, space |-> None, batch |-> None]

\* A refused or failed process starts again; a pod that is replaced, as an
\* upgrade replaces it, waits for readiness first.
Stop(p, step) ==
  /\ pods[p].step \notin {"waiting", "start"}
  /\ pods' = [pods EXCEPT ![p] = [Off EXCEPT !.step = step]]
  /\ lease' = IF lease = p THEN None ELSE lease
  /\ UNCHANGED <<may, endpoint, withJobs, release, job, spaces, opened, installed>>

LoseLease(p) ==
  /\ "lease_lost" \in may
  /\ lease = p
  /\ lease' = None
  /\ UNCHANGED <<may, endpoint, withJobs, release, job, spaces, opened, installed, pods>>

Init ==
  /\ may \in Settings
  /\ endpoint \in Databases
  /\ withJobs \in IF "empty_source" \in may THEN SUBSET Databases ELSE {Databases}
  /\ release = [number |-> 0, reenroll |-> FALSE]
  /\ job = "done"
  /\ spaces = [n \in Namespaces |-> Unopened]
  /\ opened = 0 /\ installed = {} /\ lease = None
  /\ pods = [p \in Pods |-> Off]

PodStep(p) ==
  WaitReady(p) \/ Discover(p) \/ Verify(p) \/ Build(p) \/ Acquire(p) \/ Read(p) \/ Commit(p)

Next ==
  \/ \E d \in Databases : RunsAJob(d) \/ ReplaceDatabase(d)
  \/ ReplaceSource
  \/ \E reenroll \in BOOLEAN : Upgrade(reenroll)
  \/ JobEnrolls \/ JobChecks \/ JobMarks \/ JobFails
  \/ \E p \in Pods : PodStep(p) \/ LoseLease(p) \/ \E step \in {"start", "waiting"} : Stop(p, step)

Spec == Init /\ [][Next]_vars

(* The Job is retried and some attempt reaches each of its steps; a pod that *)
(* waits asks again.                                                        *)
Fairness ==
  /\ WF_vars(JobEnrolls) /\ SF_vars(JobChecks) /\ SF_vars(JobMarks)
  /\ \A p \in Pods : WF_vars(WaitReady(p))

FairSpec == Spec /\ Fairness

-----------------------------------------------------------------------------
(* Every variable has its type; every namespace but the last is retired. *)
TypeOK ==
  /\ may \in Settings
  /\ endpoint \in Databases /\ withJobs \subseteq Databases
  /\ release \in [number : 0..MaxReleases, reenroll : BOOLEAN]
  /\ job \in {"enroll", "check", "mark", "done"}
  /\ spaces \in [Namespaces -> [archived : BOOLEAN, fingerprint : Fingerprints,
                                facts : SUBSET Databases]]
  /\ opened \in 0 .. MaxNamespaces
  /\ \A n \in Namespaces : spaces[n].archived <=> n < opened
  /\ installed \subseteq (1 .. MaxReleases) \X Namespaces
  /\ pods \in [Pods -> [step : {"waiting", "start", "discovered", "verified", "built",
                                "running", "read"},
                        seen : Fingerprints, space : Namespaces \cup {None},
                        batch : Fingerprints]]
  /\ lease \in Pods \cup {None}

(* "Collection stops rather than merging two databases' job IDs, attempts, *)
(* invocation memberships and cursors into one history" (enrollment.py).    *)
(* A collector verifies when it starts and a Galaxy without jobs has no     *)
(* fingerprint, so this is promised of databases that are replaced between  *)
(* two collectors and were enrolled with a job.                             *)
OneSourcePerNamespace ==
  (/\ "replaced_running" \notin may
   /\ ~({"replaced_idle", "empty_source"} \subseteq may)) =>
    \A n \in Namespaces : Cardinality(spaces[n].facts) <= 1

(* "One active collector per enrolled Galaxy instance": the lease of a      *)
(* process that goes on is never somebody else's, while its connection      *)
(* lasts (CollectorLease).                                                  *)
OneCollector ==
  "lease_lost" \notin may => Cardinality({p \in Pods : pods[p].step \in Collecting}) <= 1

(* The Job runs while the init containers wait, "so --wait converges",      *)
(* unless the source is replaced (docs/deployment.md, wait-ready).          *)
InstallsConverge ==
  \A p \in Pods :
    (may \subseteq {"empty_source", "lease_lost"} /\ release.number > 0 /\ pods[p].step = "waiting")
      ~> pods[p].step # "waiting"
=============================================================================
