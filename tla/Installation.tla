------------------------------ MODULE Installation ------------------------------
(***************************************************************************)
(* A release's initialization Job over the reader's credential and the     *)
(* price catalog, beside the collector, which mounts the one and refreshes *)
(* the other.  The Job is one shell sequence: bootstrap (where the chart   *)
(* provisions a reader), the DSN out of the file that bootstrap wrote,     *)
(* enroll, catalog refresh, mark-installed.  A step that fails ends the    *)
(* container, and the Job's next attempt starts over in an empty one.      *)
(*                                                                         *)
(* Which namespace an enrollment opens is the subject of Enrollment; here  *)
(* it succeeds when its credential opens a session.  Migrations and the    *)
(* self-check, whose failure the Job ignores, are left out.                *)
(***************************************************************************)
EXTENDS ReaderCredential, Catalog

CONSTANTS
  MaxReleases,     \* bound: installs and upgrades
  Settings,        \* installations: provisionReader.enabled, whether a price feed is
                   \* configured, and bounds for the faults (interruptions, lost answers,
                   \* lost Secrets) and the daily refreshes by collectors
  collector        \* the collector as an importer

Releases == 1 .. MaxReleases

ASSUME InstallationAssumption ==
  /\ MaxReleases \in Nat \ {0}
  /\ Settings \subseteq [provisions : BOOLEAN, feed : BOOLEAN, faults : Nat, refreshes : Nat]
  /\ Runs = Releases
  /\ Importers = Releases \cup {collector} /\ collector \notin Releases

VARIABLES
  setting,    \* the installation's
  release,    \* the installed release
  rendered,   \* the Secret's content in the manifests that helm is about to apply
  job,        \* each release's Job: its next step, and the DSN it exported
  marked,     \* releases with a completion marker
  pod,        \* the collector: where it is and the DSN it mounted
  faults,     \* faults so far
  refreshes,  \* refreshes by collectors so far
  events      \* "overlap": two Jobs were in bootstrap together; "disturbed": the Secret was
              \* changed by others, or a trial has failed a credential that works

installVars == <<setting, release, rendered, job, marked, pod, faults, refreshes, events>>
allVars == <<credentialVars, catalogVars, installVars>>

NotRendered == Deleted
Unreleased == [step |-> "absent", dsn |-> Empty]
Active(r) == job[r].step \notin {"absent", "done", "deleted"}

\* The application credential of the default profile always opens a session.
Works(dsn) == ~setting.provisions \/ Opens(dsn)

FirstStep == IF setting.provisions THEN "bootstrap" ELSE "enroll"
Attempt == [step |-> FirstStep, dsn |-> Empty]

Fault == faults < setting.faults /\ faults' = faults + 1
NoFault == UNCHANGED faults

\* Credentials that are held outside bootstrap.
Elsewhere == {pod.dsn, rendered} \cup {job[r].dsn : r \in Releases}

Overlap(r) == {e \in {"overlap"} : \E q \in Runs \ {r} : boot[q].step \in InProgress}

-----------------------------------------------------------------------------
(* Helm. *)

\* source-secret.yaml keeps what lookup finds when the chart is rendered.
Render ==
  /\ release < MaxReleases
  /\ rendered = NotRendered
  /\ rendered' = IF secret = Deleted THEN Empty ELSE secret
  /\ UNCHANGED <<credentialVars, catalogVars, setting, release, job, marked, pod, faults,
                 refreshes, events>>

Apply ==
  /\ rendered # NotRendered
  /\ secret' = rendered
  /\ rendered' = NotRendered
  /\ release' = release + 1
  /\ job' = [job EXCEPT ![release + 1] = Attempt]
  /\ events' = events \cup {e \in {"disturbed"} : secret \notin {rendered, Deleted}}
  /\ UNCHANGED <<role, boot, catalogVars, setting, marked, pod, faults, refreshes>>

\* The Job of the release before is no part of the new manifests.
DeleteJob(r) ==
  /\ r < release
  /\ Active(r)
  /\ job' = [job EXCEPT ![r] = [Unreleased EXCEPT !.step = "deleted"]]
  /\ boot' = [boot EXCEPT ![r] = NotRunning]
  /\ EndRefresh(r)
  /\ UNCHANGED <<role, secret, setting, release, rendered, marked, pod, faults,
                 refreshes, events>>

LoseSecret ==
  /\ secret \in Passwords
  /\ Fault
  /\ secret' \in {Empty, Deleted}
  /\ events' = events \cup {"disturbed"}
  /\ UNCHANGED <<role, boot, catalogVars, setting, release, rendered, job, marked,
                 pod, refreshes>>

-----------------------------------------------------------------------------
(* One attempt of a release's Job. *)

\* Nothing of an attempt is left to the next: the file is the container's.
NextAttempt(r) ==
  /\ job' = [job EXCEPT ![r] = Attempt]
  /\ boot' = [boot EXCEPT ![r] = NotRunning]

StartBootstrap(r) ==
  /\ job[r].step = "bootstrap"
  /\ At(r, "off")
  /\ Start(r)
  /\ events' = events \cup Overlap(r)
  /\ UNCHANGED <<catalogVars, setting, release, rendered, job, marked, pod, faults, refreshes>>

RunBootstrap(r) ==
  /\ job[r].step = "bootstrap"
  /\ BootstrapStep(r, Elsewhere)
  /\ UNCHANGED <<catalogVars, installVars>>

\* What goes wrong inside bootstrap without ending it.
Misfire(r) ==
  /\ job[r].step = "bootstrap"
  /\ Fault
  /\ \/ /\ TryPublished(r, FALSE, FALSE, Elsewhere)
        /\ events' = events \cup {"disturbed"}
     \/ /\ \/ \E landed \in BOOLEAN : Publish(r, landed, FALSE)
           \/ OpenSession(r, FALSE)
        /\ UNCHANGED events
  /\ UNCHANGED <<catalogVars, setting, release, rendered, job, marked, pod, refreshes>>

\* bootstrap has raised and sh -e ends the attempt.
BootstrapFails(r) ==
  /\ job[r].step = "bootstrap"
  /\ At(r, "failed")
  /\ NextAttempt(r)
  /\ UNCHANGED <<role, secret, catalogVars, setting, release, rendered, marked, pod,
                 faults, refreshes, events>>

\* "$(cat /tmp/source-dsn)": bootstrap wrote the file if it republished.
ReadDsn(r) ==
  /\ job[r].step = "bootstrap"
  /\ At(r, "done")
  /\ IF boot[r].file # Empty
     THEN /\ job' = [job EXCEPT ![r] = [step |-> "enroll", dsn |-> boot[r].file]]
          /\ boot' = [boot EXCEPT ![r] = NotRunning]
     ELSE NextAttempt(r)
  /\ UNCHANGED <<role, secret, catalogVars, setting, release, rendered, marked, pod,
                 faults, refreshes, events>>

JobEnrolls(r) ==
  /\ job[r].step = "enroll"
  /\ IF Works(job[r].dsn)
     THEN /\ job' = [job EXCEPT ![r].step = "catalog"]
          /\ UNCHANGED boot
     ELSE NextAttempt(r)
  /\ UNCHANGED <<role, secret, catalogVars, setting, release, rendered, marked, pod,
                 faults, refreshes, events>>

JobRefreshes(r) ==
  /\ job[r].step = "catalog"
  /\ \/ /\ BeginRefresh(r) \/ RefreshStep(r, setting.feed)
        /\ UNCHANGED <<job, boot>>
     \/ /\ import[r].step = "done"
        /\ job' = [job EXCEPT ![r].step = "mark"]
        /\ EndRefresh(r)
        /\ UNCHANGED boot
     \/ /\ import[r].step = "failed"
        /\ NextAttempt(r)
        /\ EndRefresh(r)
  /\ UNCHANGED <<role, secret, setting, release, rendered, marked, pod, faults,
                 refreshes, events>>

JobMarks(r) ==
  /\ job[r].step = "mark"
  /\ marked' = marked \cup {r}
  /\ job' = [job EXCEPT ![r].step = "done"]
  /\ UNCHANGED <<credentialVars, catalogVars, setting, release, rendered, pod, faults,
                 refreshes, events>>

\* The container ends between or within two steps.
JobCrashes(r) ==
  /\ Active(r)
  /\ Fault
  /\ NextAttempt(r)
  /\ EndRefresh(r)
  /\ UNCHANGED <<role, secret, setting, release, rendered, marked, pod, refreshes,
                 events>>

-----------------------------------------------------------------------------
(* The collector: its pod waits for the release once, and each start of its *)
(* container mounts the Secret as it is then.                              *)

Ready == release \in marked

CollectorWaits ==
  /\ pod.step = "waiting"
  /\ Ready
  /\ pod' = [pod EXCEPT !.step = "starting"]
  /\ UNCHANGED <<credentialVars, catalogVars, setting, release, rendered, job, marked, faults,
                 refreshes, events>>

\* build_collector reads the source; a process that cannot ends and starts again.
CollectorStarts ==
  /\ pod.step = "starting"
  /\ secret # Deleted
  /\ Works(secret)
  /\ pod' = [step |-> "running", dsn |-> IF setting.provisions THEN secret ELSE Empty]
  /\ UNCHANGED <<credentialVars, catalogVars, setting, release, rendered, job, marked, faults,
                 refreshes, events>>

CollectorRefreshes ==
  /\ pod.step = "running"
  /\ \/ /\ refreshes < setting.refreshes
        /\ BeginRefresh(collector)
        /\ refreshes' = refreshes + 1
        /\ UNCHANGED pod
     \/ /\ RefreshStep(collector, setting.feed)
        /\ UNCHANGED <<pod, refreshes>>
     \/ /\ import[collector].step \in {"done", "failed"}
        /\ pod' = IF import[collector].step = "failed"
                  THEN [step |-> "starting", dsn |-> Empty] ELSE pod
        /\ EndRefresh(collector)
        /\ UNCHANGED refreshes
  /\ UNCHANGED <<credentialVars, setting, release, rendered, job, marked, faults, events>>

\* An upgrade may replace the pod, and a node may lose it.
ReplacePod ==
  /\ pod.step # "waiting"
  /\ pod' = [step |-> "waiting", dsn |-> Empty]
  /\ EndRefresh(collector)
  /\ UNCHANGED <<credentialVars, setting, release, rendered, job, marked, faults, refreshes,
                 events>>

-----------------------------------------------------------------------------
Init ==
  /\ CredentialInit /\ CatalogInit
  /\ setting \in Settings
  /\ release = 0 /\ rendered = NotRendered
  /\ job = [r \in Releases |-> Unreleased] /\ marked = {}
  /\ pod = [step |-> "waiting", dsn |-> Empty]
  /\ faults = 0 /\ refreshes = 0 /\ events = {}

JobStep(r) ==
  StartBootstrap(r) \/ RunBootstrap(r) \/ BootstrapFails(r) \/ ReadDsn(r) \/ JobEnrolls(r)
    \/ JobRefreshes(r) \/ JobMarks(r)

Next ==
  \/ Render \/ Apply \/ LoseSecret
  \/ \E r \in Releases : JobStep(r) \/ Misfire(r) \/ JobCrashes(r) \/ DeleteJob(r)
  \/ CollectorWaits \/ CollectorStarts \/ CollectorRefreshes \/ ReplacePod

Spec == Init /\ [][Next]_allVars

(* The Job's pod goes on and its attempts are repeated; a collector's       *)
(* container is started again.  Faults, upgrades and deletions need not     *)
(* happen.                                                                  *)
Fairness ==
  /\ \A r \in Releases : WF_allVars(JobStep(r))
  /\ WF_allVars(CollectorWaits \/ CollectorStarts)

FairSpec == Spec /\ Fairness

-----------------------------------------------------------------------------
(* Every variable has its type. *)
TypeOK ==
  /\ CredentialTypeOK /\ CatalogTypeOK
  /\ setting \in Settings /\ release \in 0 .. MaxReleases
  /\ rendered \in Credentials \cup {NotRendered}
  /\ job \in [Releases -> [step : {"absent", "bootstrap", "enroll", "catalog", "mark", "done",
                                    "deleted"}, dsn : Credentials]]
  /\ marked \subseteq Releases
  /\ pod \in [step : {"waiting", "starting", "running"}, dsn : Credentials]
  /\ faults \in 0 .. setting.faults /\ refreshes \in 0 .. setting.refreshes
  /\ events \subseteq {"overlap", "disturbed"}

(* bootstrap "fails rather than reporting success without a working         *)
(* credential" (docs/deployment.md): when a release is marked as installed, *)
(* the Secret that its collector mounts opens a session, wherever earlier   *)
(* attempts were interrupted, unless the Secret was changed by somebody     *)
(* else, two Jobs were in bootstrap together, or a trial found a credential *)
(* wanting that works.                                                      *)
MarkedReleasesCanCollect ==
  (setting.provisions /\ release \in marked /\ events = {}) => Opens(secret)

(* "A healthy installation re-runs without rotating anything": a collector  *)
(* that runs through an upgrade, and through every interrupted attempt of   *)
(* its Job, keeps a credential that opens sessions.                         *)
RunningCollectorsKeepTheirs ==
  (setting.provisions /\ pod.step = "running" /\ events = {}) => Opens(pod.dsn)

(* Once a catalog is active there always is one: importers that deactivate  *)
(* each other's version cannot both commit (import_catalog).                *)
NeverWithoutCatalog == [][ActiveIn(versions) # {} => ActiveIn(versions') # {}]_versions

(* "A published catalog ID cannot be replaced with different content": not  *)
(* by an overlapping import of the same new ID either.                      *)
PublishedVersionsAreImmutable ==
  [][\A i \in CatalogIds :
       versions[i].digest # 0 => versions'[i].digest = versions[i].digest]_versions

(* "An interrupted run leaves either a working published credential or a    *)
(* state the next run repairs" (bootstrap): a Job in its bootstrap step     *)
(* sees to a Secret that works, whatever was interrupted or lost before.    *)
(* Only a Secret that is gone waits for the next release: the chart's role  *)
(* may patch it, not create it (rbac.yaml).                                 *)
CredentialIsRepaired ==
  \A r \in Releases :
    (setting.provisions /\ job[r].step = "bootstrap")
      ~> (Opens(secret) \/ secret = Deleted \/ job[r].step # "bootstrap" \/ "overlap" \in events)

Finishes(r) == (release = r) ~> (r \in marked \/ release # r)

(* "Every step is idempotent, so an interrupted run is re-run by the Job's   *)
(* own retries": with an application credential every release is marked in  *)
(* the end, also when its catalog import meets the collector's.             *)
DefaultInstallationsFinish == \A r \in Releases : ~setting.provisions => Finishes(r)

(* The same of every installation (init-job.yaml).  Not so.                 *)
InterruptedInstallationsFinish == \A r \in Releases : Finishes(r)
=============================================================================
