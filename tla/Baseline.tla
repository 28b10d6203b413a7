-------------------------------- MODULE Baseline --------------------------------
(***************************************************************************)
(* Which of Galaxy's own execution records count as work on the server     *)
(* that is running anyway (baseline.py), and so add nothing to the cost of *)
(* a job.  A record is classified as it is collected, under the profile    *)
(* that its collector was started with; reclassify-baseline applies the    *)
(* configured profile to all records again, while no collector runs.  The  *)
(* period that a profile's assumptions hold for is saved with its version: *)
(* by an enrollment, which knows the version first and lets the period     *)
(* begin with itself, else when it is first declared.                      *)
(*                                                                         *)
(* A period is the set of the moments in it, {} when none is declared.     *)
(* Runner and destination of a job do not change: a profile lists the jobs *)
(* that it covers.                                                         *)
(***************************************************************************)
EXTENDS Naturals, FiniteSets

CONSTANTS
  Jobs,
  MaxTime,      \* bound: the clock goes from 1 to it
  Profiles,     \* what may be configured
  Settings      \* bounds, profiles: what one installation may configure,
                \* changes: how often it changes that,
                \* chart: whether a release enrolls with each configuration

Moments == 1 .. MaxTime

ASSUME ProfilesAssumption ==
  /\ MaxTime \in Nat \ {0}
  /\ Profiles \subseteq [version : Nat \ {0}, uid : Nat \ {0}, covers : SUBSET Jobs,
                         period : SUBSET Moments]
  /\ \A s \in Settings :
       s.profiles \subseteq Profiles /\ s.changes \in Nat /\ s.chart \in BOOLEAN

VARIABLES
  setting,     \* the bounds of this installation
  now,
  config,      \* the configured profile
  changes,     \* configurations so far
  enrolled,    \* whether the collector may start under this configuration
  saved,       \* deployment_policy: the period of each version, and its origin
  collector,   \* whether it runs, and the profile it was started with
  start,       \* when the tool of each job started, 0 before
  record,      \* Galaxy's record of each job, as collected
  links        \* the servers whose baseline lifetimes the record is linked to

baselineVars == <<setting, now, config, changes, enrolled, saved, collector, start, record, links>>

NoProfile == [version |-> 0, uid |-> 0, covers |-> {}, period |-> {}]
Versions == {p.version : p \in Profiles}
Stopped == [running |-> FALSE, profile |-> NoProfile]
Unsaved == [origin |-> "none", period |-> {}]
Declared(period) == [origin |-> "declared", period |-> period]
Absent == [collected |-> FALSE, start |-> 0]

BaselineTypeOK ==
  /\ config \in setting.profiles \cup {NoProfile} /\ changes \in 0 .. setting.changes
  /\ now \in Moments /\ enrolled \in BOOLEAN
  /\ saved \in [Versions -> [origin : {"none", "enrolled", "declared"}, period : SUBSET Moments]]
  /\ collector.running \in BOOLEAN
  /\ start \in [Jobs -> Moments \cup {0}]
  /\ record \in [Jobs -> [collected : BOOLEAN, start : Moments \cup {0}]]
  /\ links \in [Jobs -> SUBSET {p.uid : p \in Profiles}]

BaselineInit ==
  /\ setting \in Settings
  /\ config \in setting.profiles \cup {NoProfile} /\ changes = 0
  /\ now = 1 /\ enrolled = FALSE
  /\ saved = [v \in Versions |-> Unsaved]
  /\ collector = Stopped
  /\ start = [j \in Jobs |-> 0] /\ record = [j \in Jobs |-> Absent]
  /\ links = [j \in Jobs |-> {}]

-----------------------------------------------------------------------------
(* saved_policy_conflict and resolve_baseline_profile. *)

\* No declared moment is the very one of an enrollment.
Conflict(p) ==
  p # NoProfile /\ saved[p.version] # Unsaved /\ p.period # {} /\ saved[p.version] # Declared(p.period)

\* Mutation: what is configured counts, whatever was saved.
ConfiguredPeriod(p) == IF p.period # {} THEN p.period ELSE Moments

\* Without any period the assumptions hold for all time.
PeriodOf(p) ==
  CASE saved[p.version] # Unsaved -> saved[p.version].period
    [] saved[p.version] = Unsaved /\ p.period # {} -> p.period
    [] OTHER -> Moments

Resolved(p) ==
  IF p = NoProfile \/ Conflict(p) THEN NoProfile ELSE [p EXCEPT !.period = PeriodOf(p)]

\* The period that is saved for a version that has none yet.
Save(p, policy) ==
  saved' = IF p # NoProfile /\ saved[p.version] = Unsaved
           THEN [saved EXCEPT ![p.version] = policy] ELSE saved

SavePeriod(p) == Save(p, IF p.period # {} THEN Declared(p.period) ELSE Unsaved)

\* classify_job: only work with evidence that it ran.
Classified(p, j, started) == j \in p.covers /\ started # 0 /\ started \in p.period

-----------------------------------------------------------------------------
Tick ==
  /\ now < MaxTime
  /\ now' = now + 1
  /\ UNCHANGED <<setting, config, changes, enrolled, saved, collector, start, record, links>>

\* An upgrade replaces the collector's pod before a new one starts.
Configure(p) ==
  /\ changes < setting.changes
  /\ p # config
  /\ config' = p /\ changes' = changes + 1
  /\ enrolled' = (enrolled /\ ~setting.chart)
  /\ collector' = Stopped
  /\ UNCHANGED <<setting, now, saved, start, record, links>>

\* _seed_baseline, in every run of enroll.
Enroll ==
  /\ ~enrolled
  /\ enrolled' = TRUE
  /\ Save(config, [origin |-> "enrolled", period |-> now .. MaxTime])
  /\ UNCHANGED <<setting, now, config, changes, collector, start, record, links>>

StartCollector ==
  /\ ~collector.running /\ enrolled
  /\ collector' = [running |-> TRUE, profile |-> Resolved(config)]
  /\ SavePeriod(config)
  /\ UNCHANGED <<setting, now, config, changes, enrolled, start, record, links>>

\* A pod that is evicted, or scaled away for a command that needs the lease.
StopCollector ==
  /\ collector.running
  /\ collector' = Stopped
  /\ UNCHANGED <<setting, now, config, changes, enrolled, saved, start, record, links>>

ToolStarts(j) ==
  /\ start[j] = 0
  /\ start' = [start EXCEPT ![j] = now]
  /\ UNCHANGED <<setting, now, config, changes, enrolled, saved, collector, record, links>>

\* The first time, and again with every replay: links are only added.
CollectRecord(j) ==
  /\ collector.running
  /\ record' = [record EXCEPT ![j] = [collected |-> TRUE, start |-> start[j]]]
  /\ links' = [links EXCEPT ![j] =
       @ \cup {u \in {collector.profile.uid} : Classified(collector.profile, j, start[j])}]
  /\ UNCHANGED <<setting, now, config, changes, enrolled, saved, collector, start>>

\* Mutation: links are only ever added.
AfterwardsAdded(j, p) ==
  IF Classified(p, j, record[j].start) THEN links[j] \cup {p.uid} ELSE links[j]

\* A record that has a link keeps the one it has, also to another server.
Afterwards(j, p) ==
  CASE ~Classified(p, j, record[j].start) -> {}
    [] Classified(p, j, record[j].start) /\ links[j] = {} -> {p.uid}
    [] OTHER -> links[j]

\* A command in a pod of the release, which waits for its enrollment.  It holds
\* the collector's lease, refuses a conflict, and leaves alone the jobs that a
\* provider's observation has placed.
Reclassify(placed) ==
  /\ ~collector.running /\ enrolled
  /\ ~Conflict(config)
  /\ SavePeriod(config)
  /\ links' = [j \in Jobs |->
       IF record[j].collected /\ j \notin placed THEN Afterwards(j, Resolved(config))
       ELSE links[j]]
  /\ UNCHANGED <<setting, now, config, changes, enrolled, collector, start, record>>
=============================================================================
