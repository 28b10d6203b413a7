--------------------------- MODULE InstallationProofs ---------------------------
(***************************************************************************)
(* What installations promise of the credential and of the catalog, for    *)
(* any number of releases, passwords, artifacts, faults and refreshes.     *)
(*                                                                         *)
(* Catalog: what an importer's snapshot shows of a row is what is          *)
(* committed, unless somebody has written it since, and then the importer  *)
(* that writes it fails.  Credential: a Secret that opens a session stays  *)
(* as it is, because a run rotates only what does not open one, and        *)
(* everything that counts as finished was finished with such a Secret.     *)
(***************************************************************************)
EXTENDS Installation, TLAPS

Importing == {"fetch", "import"}

(* An importer's transaction. *)
Import == [step : {"idle", "fetch", "import", "done", "failed"},
           snapshot : [CatalogIds -> Version], written : SUBSET CatalogIds, artifact : Artifacts]

(* A row of a snapshot that nobody has written since is current. *)
SnapshotsAreSound ==
  \A p \in Importers, i \in CatalogIds :
    import[p].step \in Importing /\ i \notin import[p].written => import[p].snapshot[i] = versions[i]

(* What a run of bootstrap knows at its step, as long as nobody interferes.  *)
RunIsSound(r) ==
  /\ At(r, "try") => boot[r].found = secret
  /\ At(r, "provision") => IF boot[r].rotates
                           THEN ~Opens(secret) /\ boot[r].password \in Passwords \ {secret}
                           ELSE boot[r].found = secret /\ Opens(secret)
  /\ At(r, "publish") => ~Opens(secret) /\ boot[r].rotates /\ boot[r].password = role
  /\ At(r, "verify") => boot[r].rotates
  /\ At(r, "session") => CredentialOf(r) = secret

(* Something has been finished with the Secret as it is. *)
Settled ==
  \/ marked # {} \/ pod.step = "running"
  \/ \E r \in Releases : At(r, "done") \/ job[r].step \in {"enroll", "catalog", "mark", "done"}

Undisturbed == setting.provisions /\ events = {}

CredentialsAreSound ==
  Undisturbed =>
    /\ secret # Deleted
    /\ \A q, r \in Runs : boot[q].step \in InProgress /\ boot[r].step \in InProgress => q = r
    /\ \A r \in Runs : RunIsSound(r)
    /\ Settled => Opens(secret)
    /\ pod.step = "running" => pod.dsn = secret

(* What helm has rendered, it applies as the next release. *)
RenderedIsNext == rendered # NotRendered => release < MaxReleases

IInv == TypeOK /\ SnapshotsAreSound /\ RenderedIsNext /\ CredentialsAreSound

-----------------------------------------------------------------------------
(* The steps of Next that are one of the catalog. *)
CatalogStep ==
  \/ UNCHANGED catalogVars
  \/ \E p \in Importers : \/ BeginRefresh(p) \/ EndRefresh(p)
                          \/ \E feed \in BOOLEAN : RefreshStep(p, feed)

(* Every step of Next is one of the catalog or leaves it alone. *)
LEMMA NextIsACatalogStep ==
  ASSUME TypeOK, [Next]_allVars PROVE CatalogStep
<1>1. Releases \subseteq Importers /\ collector \in Importers /\ setting.feed \in BOOLEAN
  BY InstallationAssumption DEF TypeOK
<1>2. CASE UNCHANGED allVars
  BY <1>2 DEF allVars, CatalogStep
<1>3. CASE \/ Render \/ Apply \/ LoseSecret \/ CollectorWaits \/ CollectorStarts
  BY <1>3 DEF Render, Apply, LoseSecret, CollectorWaits, CollectorStarts, CatalogStep
<1>4. CASE CollectorRefreshes \/ ReplacePod
  BY <1>1, <1>4 DEF CollectorRefreshes, ReplacePod, CatalogStep
<1>5. ASSUME NEW r \in Releases, JobStep(r) \/ Misfire(r) \/ JobCrashes(r) \/ DeleteJob(r)
      PROVE  CatalogStep
  BY <1>1, <1>5 DEF JobStep, StartBootstrap, RunBootstrap, BootstrapFails, ReadDsn, JobEnrolls,
     JobRefreshes, JobMarks, Misfire, JobCrashes, DeleteJob, CatalogStep
<1>. QED
  BY <1>2, <1>3, <1>4, <1>5 DEF Next

(* Rows an importer has not seen written since it began are the committed   *)
(* ones, after every step of every importer.                                *)
LEMMA CatalogStepsKeepSnapshots ==
  ASSUME CatalogTypeOK, SnapshotsAreSound, CatalogStep
  PROVE  CatalogTypeOK' /\ SnapshotsAreSound'
<1>1. CASE UNCHANGED catalogVars
  BY <1>1 DEF catalogVars, CatalogTypeOK, SnapshotsAreSound
<1>2. ASSUME NEW p \in Importers, BeginRefresh(p) \/ EndRefresh(p)
      PROVE  CatalogTypeOK' /\ SnapshotsAreSound'
  <2>1. versions' = versions /\ CatalogIds # {}
    BY <1>2, ArtifactsAssumption DEF BeginRefresh, EndRefresh
  <2> DEFINE mine == [step |-> "fetch", snapshot |-> versions, written |-> {}, artifact |-> Bundled]
  <2>2. \A q \in Importers : q # p => import'[q] = import[q]
    BY <1>2 DEF BeginRefresh, EndRefresh, CatalogTypeOK
  <2>3. import'[p] \in {mine, NoImport} /\ import' = [import EXCEPT ![p] = import'[p]]
    BY <1>2 DEF BeginRefresh, EndRefresh, CatalogTypeOK, NoImport
  <2>4. NoVersion \in Version /\ Bundled \in Artifacts
    BY ArtifactsAssumption DEF NoVersion, Version, Artifacts
  <2>5. mine \in Import /\ NoImport \in Import
    BY <2>4 DEF Import, NoImport, CatalogTypeOK
  <2>6. mine.snapshot = versions /\ NoImport.step = "idle"
    BY DEF NoImport
  <2> HIDE DEF mine
  <2>7. CatalogTypeOK'
    BY <2>1, <2>3, <2>5 DEF CatalogTypeOK, Import
  <2>8. SnapshotsAreSound'
    BY <2>1, <2>2, <2>3, <2>6 DEF SnapshotsAreSound, Importing
  <2>. QED
    BY <2>7, <2>8
<1>3. ASSUME NEW p \in Importers, FetchFails(p) \/ \E a \in Feed : Fetch(p, a)
      PROVE  CatalogTypeOK' /\ SnapshotsAreSound'
  <2>1. versions' = versions /\ import' = [import EXCEPT ![p] = import'[p]]
        /\ import[p] \in Import /\ import[p].step = "fetch"
    BY <1>3 DEF FetchFails, Fetch, CatalogTypeOK, Import
  <2>2. PICK a \in Artifacts :
          import'[p] \in {FallBack(p), [import[p] EXCEPT !.step = "import", !.artifact = a]}
    BY <1>3, ArtifactsAssumption DEF FetchFails, Fetch, CatalogTypeOK, Artifacts
  <2> DEFINE mine == import'[p]
  <2>3. /\ mine \in Import
        /\ \/ mine.snapshot = versions
           \/ mine.snapshot = import[p].snapshot /\ mine.written = import[p].written
    <3>1. CASE mine = [import[p] EXCEPT !.step = "import", !.artifact = a]
      BY <2>1, <3>1 DEF Import
    <3>2. CASE mine = [import[p] EXCEPT !.step = "done"]
      BY <2>1, <3>2 DEF Import
    <3>3. CASE mine = [import[p] EXCEPT !.step = "import", !.artifact = Bundled,
                                        !.snapshot = versions, !.written = {}]
      <4>1. versions \in [CatalogIds -> Version] /\ Bundled \in Artifacts
        BY DEF CatalogTypeOK, Artifacts
      <4>2. mine = [step |-> "import", snapshot |-> versions, written |-> {}, artifact |-> Bundled]
        BY <2>1, <3>3 DEF Import
      <4>. QED
        BY <4>1, <4>2 DEF Import
    <3>. QED
      BY <2>2, <3>1, <3>2, <3>3 DEF FallBack
  <2>4. \A q \in Importers : q # p => import'[q] = import[q]
    BY <2>1 DEF CatalogTypeOK
  <2> HIDE DEF mine
  <2>5. CatalogTypeOK'
    BY <2>1, <2>3 DEF CatalogTypeOK, Import, mine
  <2>6. SnapshotsAreSound'
    BY <2>1, <2>3, <2>4 DEF SnapshotsAreSound, Importing, mine
  <2>. QED
    BY <2>5, <2>6
<1>4. ASSUME NEW p \in Importers, FailImport(p)
      PROVE  CatalogTypeOK' /\ SnapshotsAreSound'
  BY <1>4, ArtifactsAssumption
     DEF FailImport, CatalogTypeOK, SnapshotsAreSound, NoImport, NoVersion, Version, Artifacts, Importing
<1>5. ASSUME NEW p \in Importers, CommitImport(p)
      PROVE  CatalogTypeOK' /\ SnapshotsAreSound'
  <2>1. Writes(p) \subseteq CatalogIds
    BY ArtifactsAssumption DEF CatalogTypeOK, Writes, ActiveIn, Artifacts
  <2>2. versions' \in [CatalogIds -> Version]
    BY <1>5, ArtifactsAssumption DEF CommitImport, CatalogTypeOK, Version, Artifacts
  <2>3. CatalogTypeOK'
    <3>1. \A q \in Importers : import'[q] \in Import
      <4>1. \A q \in Importers : import[q] \in Import
        BY DEF CatalogTypeOK, Import
      <4>. QED
        BY <1>5, <2>1, <4>1 DEF CommitImport, Import
    <3>. QED
      BY <1>5, <2>2, <3>1 DEF CommitImport, CatalogTypeOK, Import
  <2>4. \A i \in CatalogIds : i \notin Writes(p) => versions'[i] = versions[i]
    BY <1>5 DEF CommitImport
  <2>5. SnapshotsAreSound'
    BY <1>5, <2>4 DEF CommitImport, CatalogTypeOK, SnapshotsAreSound, Importing
  <2>. QED
    BY <2>3, <2>5
<1>. QED
  BY <1>1, <1>2, <1>3, <1>4, <1>5 DEF CatalogStep, RefreshStep

(* A commit does not change the digest of a version that exists, and leaves *)
(* an active one behind.                                                    *)
LEMMA CatalogStepsKeepVersions ==
  ASSUME CatalogTypeOK, SnapshotsAreSound, CatalogStep
  PROVE  /\ \A i \in CatalogIds :
              versions[i].digest # 0 => versions'[i].digest = versions[i].digest
         /\ ActiveIn(versions) # {} => ActiveIn(versions') # {}
<1>1. CASE versions' = versions
  BY <1>1
<1>2. ASSUME NEW p \in Importers, CommitImport(p)
      PROVE  /\ \A i \in CatalogIds :
                  versions[i].digest # 0 => versions'[i].digest = versions[i].digest
             /\ ActiveIn(versions') # {}
  <2> DEFINE a == import[p].artifact
  <2>1. a.id \in Writes(p) /\ a.id \in CatalogIds
    BY ArtifactsAssumption DEF Writes, CatalogTypeOK, Artifacts
  <2>2. \A i \in CatalogIds : versions'[i] =
          IF i \in Writes(p)
          THEN [digest |-> IF i = a.id THEN a.digest ELSE versions[i].digest, active |-> i = a.id]
          ELSE versions[i]
    BY <1>2 DEF CommitImport
  <2>3. import[p].snapshot[a.id] = versions[a.id]
    BY <1>2, <2>1 DEF CommitImport, Conflicts, SnapshotsAreSound, Importing
  <2>4. versions[a.id].digest \in {0, a.digest}
    BY <1>2, <2>3 DEF CommitImport, Refused
  <2> HIDE DEF a
  <2>5. versions'[a.id] = [digest |-> a.digest, active |-> TRUE]
    <3>1. versions'[a.id] = [digest |-> IF a.id = a.id THEN a.digest ELSE versions[a.id].digest,
                             active |-> a.id = a.id]
      BY <2>1, <2>2, Zenon
    <3>2. (a.id = a.id) = TRUE
      OBVIOUS
    <3>. QED
      BY <3>1, <3>2
  <2>6. ASSUME NEW i \in CatalogIds, i # a.id PROVE versions'[i].digest = versions[i].digest
    <3>1. CASE i \in Writes(p)
      <4>1. versions'[i] = [digest |-> versions[i].digest, active |-> FALSE]
        <5>1. (i = a.id) = FALSE
          BY <2>6
        <5>2. versions'[i] = [digest |-> IF i = a.id THEN a.digest ELSE versions[i].digest,
                              active |-> i = a.id]
          BY <2>2, <3>1, Zenon
        <5>. QED
          BY <5>1, <5>2
      <4>. QED
        BY <4>1
    <3>2. CASE i \notin Writes(p)
      BY <2>2, <3>2
    <3>. QED
      BY <3>1, <3>2
  <2>. QED
    BY <2>1, <2>4, <2>5, <2>6 DEF ActiveIn
<1>3. CASE UNCHANGED versions \/ \E p \in Importers : CommitImport(p)
  BY <1>1, <1>2, <1>3
<1>. QED
  BY <1>3 DEF CatalogStep, catalogVars, BeginRefresh, EndRefresh, RefreshStep, FetchFails, Fetch,
              FailImport

-----------------------------------------------------------------------------
(* Types. *)

Run == [step : InProgress \cup {"off", "done", "failed"}, found : Credentials, rotates : BOOLEAN,
        password : Credentials, file : Credentials]

(* A run that is not in progress. *)
LEMMA NotRunningIsTyped ==
  /\ NotRunning \in Run /\ Failed \in Run /\ Empty \in Credentials
  /\ NotRunning.step = "off" /\ Failed.step = "failed"
BY DEF NotRunning, Failed, Run, Credentials, Empty

(* No password is the empty or the deleted credential. *)
LEMMA PasswordsAreDifferent ==
  /\ Empty \notin Passwords /\ Deleted \notin Credentials /\ Passwords \subseteq Credentials
BY PasswordsAssumption DEF Empty, Passwords, Deleted, Credentials

(* One step of a run of bootstrap, whatever is answered. *)
AnyBootstrapStep(r) ==
  \/ Start(r) \/ ReadPublished(r) \/ Provision(r) \/ VerifyStored(r)
  \/ \E answered \in BOOLEAN : TryPublished(r, FALSE, answered, Elsewhere) \/ OpenSession(r, answered)
  \/ \E landed, answered \in BOOLEAN : Publish(r, landed, answered)

(* A step of a run keeps the types, whatever it is answered. *)
LEMMA BootstrapStepsAreTyped ==
  ASSUME CredentialTypeOK, NEW r \in Runs, AnyBootstrapStep(r)
  PROVE  CredentialTypeOK'
<1> USE NotRunningIsTyped, PasswordsAreDifferent
<1>1. boot \in [Runs -> Run] /\ role \in Credentials /\ secret \in Credentials \cup {Deleted}
      /\ CredentialOf(r) \in Credentials
  BY DEF CredentialTypeOK, Run, CredentialOf
<1>2. boot'[r] \in Run /\ boot' = [boot EXCEPT ![r] = boot'[r]]
  <2>1. CASE Start(r)
    BY <1>1, <2>1 DEF Start, Run, InProgress
  <2>2. CASE ReadPublished(r)
    BY <1>1, <2>2 DEF ReadPublished, Run, InProgress
  <2>3. CASE Provision(r)
    <3>1. \E step \in InProgress : boot' \in {[boot EXCEPT ![r] = Failed], To(r, step)}
      BY <2>3 DEF Provision, InProgress
    <3>. QED
      BY <1>1, <3>1 DEF To, Run, InProgress
  <2>4. CASE VerifyStored(r)
    BY <1>1, <2>4 DEF VerifyStored, To, Run, InProgress
  <2>5. ASSUME NEW answered \in BOOLEAN, TryPublished(r, FALSE, answered, Elsewhere)
        PROVE  boot'[r] \in Run /\ boot' = [boot EXCEPT ![r] = boot'[r]]
    <3>1. MustRotate(r, FALSE, answered) \in BOOLEAN
      BY DEF MustRotate
    <3>2. Fresh(Elsewhere) \subseteq Credentials
      BY DEF Fresh
    <3>3. PICK rotates \in BOOLEAN, password \in Credentials :
            boot' = [boot EXCEPT ![r].step = "provision", ![r].rotates = rotates,
                                 ![r].password = password,
                                 ![r].found = IF rotates THEN Empty ELSE @]
      BY <2>5, <3>1, <3>2 DEF TryPublished
    <3>. QED
      BY <1>1, <3>3 DEF Run, InProgress
  <2>6. ASSUME NEW answered \in BOOLEAN, OpenSession(r, answered)
        PROVE  boot'[r] \in Run /\ boot' = [boot EXCEPT ![r] = boot'[r]]
    BY <1>1, <2>6 DEF OpenSession, Run, InProgress
  <2>7. ASSUME NEW landed \in BOOLEAN, NEW answered \in BOOLEAN, Publish(r, landed, answered)
        PROVE  boot'[r] \in Run /\ boot' = [boot EXCEPT ![r] = boot'[r]]
    BY <1>1, <2>7 DEF Publish, Run, InProgress
  <2>. QED
    BY <2>1, <2>2, <2>3, <2>4, <2>5, <2>6, <2>7 DEF AnyBootstrapStep
<1>3. role' \in Credentials /\ secret' \in Credentials \cup {Deleted}
  BY <1>1 DEF AnyBootstrapStep, Start, ReadPublished, Provision, VerifyStored, TryPublished,
              OpenSession, Publish, Run
<1>. QED
  BY <1>1, <1>2, <1>3 DEF CredentialTypeOK, Run

Job == [step : {"absent", "bootstrap", "enroll", "catalog", "mark", "done", "deleted"}, dsn : Credentials]
Pod == [step : {"waiting", "starting", "running"}, dsn : Credentials]

(* What TypeOK says of single variables, and of a fresh attempt. *)
LEMMA JobsAreTyped ==
  ASSUME TypeOK
  PROVE  /\ Runs = Releases /\ boot \in [Runs -> Run] /\ job \in [Releases -> Job] /\ pod \in Pod
         /\ role \in Credentials /\ secret \in Credentials \cup {Deleted}
         /\ Attempt \in Job /\ Attempt.step \in {"bootstrap", "enroll"}
         /\ Unreleased \in Job
         /\ Unreleased.step = "absent" /\ [Unreleased EXCEPT !.step = "deleted"] \in Job
         /\ setting.provisions \in BOOLEAN
BY InstallationAssumption, NotRunningIsTyped
   DEF TypeOK, CredentialTypeOK, Run, Job, Pod, Attempt, FirstStep, Unreleased

(* Every step keeps the types, the snapshots and what helm has rendered. *)
LEMMA StepsKeepTypes ==
  ASSUME IInv, [Next]_allVars PROVE TypeOK' /\ SnapshotsAreSound' /\ RenderedIsNext'
<1> USE JobsAreTyped, NotRunningIsTyped, PasswordsAreDifferent DEF IInv
<1>1. CatalogTypeOK' /\ SnapshotsAreSound'
  BY NextIsACatalogStep, CatalogStepsKeepSnapshots DEF TypeOK
<1>2. CASE UNCHANGED allVars
  BY <1>1, <1>2 DEF TypeOK, CredentialTypeOK, RenderedIsNext, allVars, credentialVars, installVars
<1>3. CASE Render
  BY <1>1, <1>3 DEF Render, TypeOK, CredentialTypeOK, RenderedIsNext, credentialVars
<1>4. CASE Apply
  <2>1. release + 1 \in Releases /\ release + 1 \in 0 .. MaxReleases
    BY <1>4, InstallationAssumption DEF Apply, RenderedIsNext, TypeOK, Releases
  <2>2. job' \in [Releases -> Job] /\ rendered \in Credentials
    BY <1>4 DEF Apply, TypeOK, NotRendered
  <2>. QED
    BY <1>1, <1>4, <2>1, <2>2 DEF Apply, TypeOK, CredentialTypeOK, RenderedIsNext, Job, NotRendered
<1>5. CASE LoseSecret
  BY <1>1, <1>5, InstallationAssumption
     DEF LoseSecret, Fault, TypeOK, CredentialTypeOK, RenderedIsNext
<1>6. CASE CollectorWaits \/ CollectorStarts \/ CollectorRefreshes \/ ReplacePod
  <2>1. pod' \in Pod
    BY <1>6 DEF CollectorWaits, CollectorStarts, CollectorRefreshes, ReplacePod, Pod
  <2>2. refreshes' \in 0 .. setting.refreshes
    BY <1>6, InstallationAssumption
       DEF CollectorWaits, CollectorStarts, CollectorRefreshes, ReplacePod, TypeOK
  <2>. QED
    BY <1>1, <1>6, <2>1, <2>2
       DEF CollectorWaits, CollectorStarts, CollectorRefreshes, ReplacePod, TypeOK, CredentialTypeOK,
           RenderedIsNext, credentialVars, Pod
<1>7. ASSUME NEW r \in Releases, StartBootstrap(r) \/ RunBootstrap(r) \/ Misfire(r)
      PROVE  TypeOK' /\ RenderedIsNext'
  <2>1. AnyBootstrapStep(r)
    BY <1>7 DEF StartBootstrap, RunBootstrap, Misfire, BootstrapStep, AnyBootstrapStep
  <2>2. CredentialTypeOK'
    BY <2>1, BootstrapStepsAreTyped DEF TypeOK
  <2>3. faults' \in 0 .. setting.faults
    <3>1. faults \in 0 .. setting.faults /\ setting.faults \in Nat
      BY InstallationAssumption DEF TypeOK
    <3>2. faults' = faults \/ (faults < setting.faults /\ faults' = faults + 1)
      <4>1. CASE StartBootstrap(r) \/ RunBootstrap(r)
        BY <4>1 DEF StartBootstrap, RunBootstrap, installVars
      <4>2. CASE Misfire(r)
        BY <4>2 DEF Misfire, Fault
      <4>. QED
        BY <1>7, <4>1, <4>2
    <3>. QED
      BY <3>1, <3>2
  <2>4. events' \subseteq {"overlap", "disturbed"}
    <3>1. CASE StartBootstrap(r) \/ RunBootstrap(r)
      BY <3>1 DEF StartBootstrap, RunBootstrap, TypeOK, Overlap, installVars
    <3>2. CASE Misfire(r)
      BY <3>2 DEF Misfire, TypeOK
    <3>. QED
      BY <1>7, <3>1, <3>2
  <2>. QED
    BY <1>1, <1>7, <2>2, <2>3, <2>4
       DEF StartBootstrap, RunBootstrap, Misfire, TypeOK, RenderedIsNext, installVars
<1>8. ASSUME NEW r \in Releases,
             \/ BootstrapFails(r) \/ ReadDsn(r) \/ JobEnrolls(r) \/ JobRefreshes(r) \/ JobMarks(r)
             \/ JobCrashes(r) \/ DeleteJob(r)
      PROVE  TypeOK' /\ RenderedIsNext'
  <2>1. boot' \in [Runs -> Run] /\ role' = role /\ secret' = secret
    BY <1>8 DEF BootstrapFails, ReadDsn, JobEnrolls, JobRefreshes, JobMarks, JobCrashes, DeleteJob,
                NextAttempt, credentialVars
  <2>2. job' \in [Releases -> Job]
    BY <1>8 DEF BootstrapFails, ReadDsn, JobEnrolls, JobRefreshes, JobMarks, JobCrashes, DeleteJob,
                NextAttempt, Job, Run
  <2>3. faults' \in 0 .. setting.faults /\ marked' \subseteq Releases
    BY <1>8, InstallationAssumption
       DEF BootstrapFails, ReadDsn, JobEnrolls, JobRefreshes, JobMarks, JobCrashes, DeleteJob, Fault, TypeOK
  <2>. QED
    BY <1>1, <1>8, <2>1, <2>2, <2>3
       DEF BootstrapFails, ReadDsn, JobEnrolls, JobRefreshes, JobMarks, JobCrashes, DeleteJob, TypeOK,
           CredentialTypeOK, Run, Job, RenderedIsNext
<1>. QED
  BY <1>1, <1>2, <1>3, <1>4, <1>5, <1>6, <1>7, <1>8 DEF Next, JobStep

-----------------------------------------------------------------------------
(* Steps that leave role and Secret alone and end runs at most. *)
LEMMA EndingRunsIsSound ==
  ASSUME IInv, UNCHANGED <<role, secret, setting, events>>,
         \A r \in Runs : boot'[r] = boot[r] \/ boot'[r].step \notin InProgress,
         Settled' => Settled,
         pod'.step = "running" => pod' = pod
  PROVE  CredentialsAreSound'
<1> SUFFICES ASSUME Undisturbed' PROVE CredentialsAreSound'
  BY DEF CredentialsAreSound
<1>1. Undisturbed /\ (Opens(secret)' <=> Opens(secret))
  BY DEF Undisturbed, Opens
<1>2. secret' # Deleted /\ (Settled' => Opens(secret)') /\ (pod'.step = "running" => pod'.dsn = secret')
  BY <1>1 DEF IInv, CredentialsAreSound
<1>3. \A q, r \in Runs : boot'[q].step \in InProgress /\ boot'[r].step \in InProgress => q = r
  BY <1>1 DEF IInv, CredentialsAreSound
<1>4. ASSUME NEW r \in Runs PROVE RunIsSound(r)'
  <2>1. CASE boot'[r] = boot[r]
    BY <1>1, <2>1 DEF IInv, CredentialsAreSound, RunIsSound, At, CredentialOf, Opens
  <2>2. CASE boot'[r].step \notin InProgress
    BY <2>2 DEF RunIsSound, At, InProgress
  <2>. QED
    BY <2>1, <2>2
<1>. QED
  BY <1>2, <1>3, <1>4 DEF CredentialsAreSound

(* One run's step in bootstrap while it is the only one: it is enough to    *)
(* look at this run, and at whether the Secret is still good for those who  *)
(* have finished.                                                           *)
LEMMA OneRunsStepIsSound ==
  ASSUME IInv, NEW r \in Runs, boot' \in [Runs -> Run],
         UNCHANGED <<setting, events, job, marked, pod>>,
         boot[r].step \in InProgress,
         \A q \in Runs \ {r} : boot'[q] = boot[q],
         Undisturbed => /\ secret' # Deleted /\ RunIsSound(r)'
                        /\ Settled => secret' = secret /\ Opens(secret)'
                        /\ boot'[r].step = "done" => Opens(secret)'
  PROVE  CredentialsAreSound'
<1> SUFFICES ASSUME Undisturbed' PROVE CredentialsAreSound'
  BY DEF CredentialsAreSound
<1>1. Undisturbed
  BY DEF Undisturbed
<1>2. \A q \in Runs \ {r} : boot'[q].step \notin InProgress
  BY <1>1 DEF IInv, CredentialsAreSound
<1>3. \A q \in Runs : RunIsSound(q)'
  BY <1>1, <1>2 DEF RunIsSound, At, InProgress
<1>4. Settled' => Settled \/ boot'[r].step = "done"
  BY JobsAreTyped DEF IInv, Settled, At
<1>5. Settled' => Opens(secret)'
  BY <1>1, <1>4
<1>6. pod'.step = "running" => pod'.dsn = secret'
  BY <1>1 DEF IInv, CredentialsAreSound, Settled
<1>. QED
  BY <1>1, <1>2, <1>3, <1>5, <1>6 DEF CredentialsAreSound

(* What TypeOK says of one run's record. *)
LEMMA RunIsTyped ==
  ASSUME TypeOK, NEW r \in Runs
  PROVE  /\ boot[r].found \in Credentials /\ boot[r].password \in Credentials
         /\ boot[r].rotates \in BOOLEAN /\ boot[r] \in Run
BY JobsAreTyped DEF Run

(* A write of the Secret that lands, fails or is not answered: the run had  *)
(* rotated, so nothing had been finished with the Secret before.            *)
LEMMA PublishIsSound ==
  ASSUME IInv, NEW r \in Releases, UNCHANGED <<setting, events, job, marked, pod>>,
         NEW landed \in BOOLEAN, NEW answered \in BOOLEAN, Publish(r, landed, answered)
  PROVE  CredentialsAreSound'
<1> USE JobsAreTyped, RunIsTyped, NotRunningIsTyped, PasswordsAreDifferent
<1>1. r \in Runs /\ TypeOK /\ boot' \in [Runs -> Run] /\ boot[r].step \in InProgress
  BY BootstrapStepsAreTyped DEF IInv, AnyBootstrapStep, TypeOK, CredentialTypeOK, Run, Publish, At, InProgress
<1>2. \A q \in Runs \ {r} : boot'[q] = boot[q]
  BY <1>1 DEF Publish
<1>3. ASSUME Undisturbed
      PROVE  /\ secret' # Deleted /\ RunIsSound(r)' /\ boot'[r].step # "done" /\ ~Settled
  <2>1. secret # Deleted /\ ~Opens(secret) /\ boot[r].rotates /\ ~Settled
    BY <1>1, <1>3 DEF IInv, CredentialsAreSound, RunIsSound, At, Publish
  <2>2. secret' # Deleted
    BY <1>1, <2>1 DEF Publish, CredentialOf
  <2>3. CASE landed /\ answered
    <3>1. boot'[r].step = "verify" /\ boot'[r].rotates
      BY <1>1, <2>1, <2>3 DEF Publish
    <3>. QED
      BY <2>1, <2>2, <3>1 DEF RunIsSound, At
  <2>4. CASE ~(landed /\ answered)
    <3>1. boot'[r].step = "failed"
      BY <1>1, <2>4 DEF Publish
    <3>. QED
      BY <2>1, <2>2, <3>1 DEF RunIsSound, At
  <2>. QED
    BY <2>3, <2>4
<1>. QED
  BY <1>1, <1>2, <1>3, OneRunsStepIsSound

(* A run ends as done only if the Secret opens a session. *)
LEMMA SessionIsSound ==
  ASSUME IInv, NEW r \in Releases, UNCHANGED <<setting, events, job, marked, pod>>,
         NEW answered \in BOOLEAN, OpenSession(r, answered)
  PROVE  CredentialsAreSound'
<1> USE JobsAreTyped, RunIsTyped, NotRunningIsTyped, PasswordsAreDifferent
<1>1. r \in Runs /\ TypeOK /\ boot' \in [Runs -> Run] /\ boot[r].step \in InProgress
  BY BootstrapStepsAreTyped DEF IInv, AnyBootstrapStep, TypeOK, CredentialTypeOK, Run, OpenSession, At, InProgress
<1>2. /\ \A q \in Runs \ {r} : boot'[q] = boot[q]
      /\ boot'[r].step \in {"done", "failed"}
      /\ boot'[r].step = "done" => Opens(CredentialOf(r))
  BY <1>1 DEF OpenSession
<1>3. secret' = secret /\ (Opens(secret)' <=> Opens(secret))
  BY DEF OpenSession, Opens
<1>4. RunIsSound(r)'
  BY <1>2 DEF RunIsSound, At
<1>5. ASSUME Undisturbed
      PROVE  /\ secret # Deleted /\ (Settled => Opens(secret))
             /\ boot'[r].step = "done" => Opens(secret)
  <2>1. CredentialOf(r) = secret
    BY <1>1, <1>5 DEF IInv, CredentialsAreSound, RunIsSound, At, OpenSession
  <2>. QED
    BY <1>2, <1>5, <2>1 DEF IInv, CredentialsAreSound
<1>. QED
  BY <1>1, <1>2, <1>3, <1>4, <1>5, OneRunsStepIsSound

(* Each step in which everything answers. *)
LEMMA RunBootstrapIsSound ==
  ASSUME IInv, NEW r \in Releases, RunBootstrap(r)
  PROVE  CredentialsAreSound'
<1> USE JobsAreTyped, RunIsTyped, NotRunningIsTyped, PasswordsAreDifferent
<1>0. /\ r \in Runs /\ TypeOK /\ UNCHANGED <<setting, events, job, marked, pod>>
  BY DEF IInv, RunBootstrap, installVars
<1>1. boot' \in [Runs -> Run]
  BY <1>0, BootstrapStepsAreTyped DEF RunBootstrap, BootstrapStep, AnyBootstrapStep, TypeOK,
     CredentialTypeOK, Run
<1>2. Undisturbed => secret # Deleted /\ RunIsSound(r) /\ (Settled => Opens(secret))
  BY <1>0 DEF IInv, CredentialsAreSound
<1>3. CASE ReadPublished(r)
  <2>1. Undisturbed => RunIsSound(r)'
    BY <1>0, <1>2, <1>3 DEF ReadPublished, RunIsSound, At
  <2>. QED
    BY <1>0, <1>1, <1>2, <1>3, <2>1, OneRunsStepIsSound DEF ReadPublished, At, InProgress, Opens
<1>4. CASE TryPublished(r, FALSE, TRUE, Elsewhere)
  <2>1. Fresh(Elsewhere) \subseteq Passwords \ {secret}
    BY DEF Fresh, Held
  <2>2. ASSUME Undisturbed PROVE RunIsSound(r)'
    <3>1. boot[r].found = secret
      BY <1>2, <1>4, <2>2 DEF TryPublished, RunIsSound, At
    <3>2. CASE MustRotate(r, FALSE, TRUE)
      <4>1. ~Opens(secret)
        BY <3>1, <3>2 DEF MustRotate, Opens, NoRole, Empty
      <4>2. PICK password \in Passwords \ {secret} :
              boot' = [boot EXCEPT ![r].step = "provision", ![r].rotates = TRUE,
                                   ![r].password = password, ![r].found = Empty]
        <5>1. MustRotate(r, FALSE, TRUE) = TRUE
          BY <3>2 DEF MustRotate
        <5>. QED
          BY <1>0, <1>4, <2>1, <5>1 DEF TryPublished
      <4>3. /\ boot'[r].step = "provision" /\ boot'[r].rotates = TRUE
            /\ boot'[r].password = password
        BY <1>0, <4>2 DEF Run
      <4>4. secret' = secret /\ ~Opens(secret)'
        BY <1>4, <4>1 DEF TryPublished, Opens
      <4>. QED
        BY <4>3, <4>4 DEF RunIsSound, At
    <3>3. CASE ~MustRotate(r, FALSE, TRUE)
      <4>1. Opens(secret)
        BY <3>1, <3>3 DEF MustRotate
      <4>2. boot' = [boot EXCEPT ![r].step = "provision", ![r].rotates = FALSE,
                                 ![r].password = Empty]
        <5>1. MustRotate(r, FALSE, TRUE) = FALSE
          BY <3>3 DEF MustRotate
        <5>2. boot' = [boot EXCEPT ![r].step = "provision", ![r].rotates = FALSE,
                                   ![r].password = Empty, ![r].found = @]
          BY <1>4, <5>1 DEF TryPublished
        <5>. QED
          BY <1>0, <5>2 DEF Run
      <4>3. /\ boot'[r].step = "provision" /\ boot'[r].rotates = FALSE
            /\ boot'[r].found = secret
        BY <1>0, <3>1, <4>2 DEF Run
      <4>4. secret' = secret /\ Opens(secret)'
        BY <1>4, <4>1 DEF TryPublished, Opens
      <4>. QED
        BY <4>3, <4>4 DEF RunIsSound, At
    <3>. QED
      BY <3>2, <3>3
  <2>3. boot'[r].step = "provision" /\ \A q \in Runs \ {r} : boot'[q] = boot[q]
    BY <1>0, <1>4 DEF TryPublished
  <2>. QED
    BY <1>0, <1>1, <1>2, <1>4, <2>2, <2>3, OneRunsStepIsSound DEF TryPublished, At, InProgress, Opens
<1>5. CASE Provision(r)
  <2>1. ASSUME Undisturbed PROVE RunIsSound(r)' /\ (Settled => Opens(secret)') /\ secret' = secret
                                 /\ boot'[r].step # "done"
    <3>1. CASE boot[r].rotates
      <4>1. ~Opens(secret) /\ boot[r].password \in Passwords \ {secret}
        BY <1>2, <1>5, <2>1, <3>1 DEF Provision, RunIsSound, At
      <4>2. /\ role' = boot[r].password /\ secret' = secret
            /\ boot' = [boot EXCEPT ![r].step = "publish"]
        BY <1>5, <3>1, <4>1 DEF Provision, CredentialOf, To
      <4>. QED
        BY <1>0, <1>2, <2>1, <3>1, <4>1, <4>2 DEF RunIsSound, At, Opens
    <3>2. CASE ~boot[r].rotates
      <4>1. boot[r].found = secret /\ Opens(secret)
        BY <1>2, <1>5, <2>1, <3>2 DEF Provision, RunIsSound, At
      <4>2. /\ role' = role /\ secret' = secret
            /\ boot' = [boot EXCEPT ![r].step = "session"]
        BY <1>5, <3>2, <4>1 DEF Provision, CredentialOf, To, Opens, NoRole, Empty
      <4>. QED
        BY <1>0, <3>2, <4>1, <4>2 DEF RunIsSound, At, Opens, CredentialOf
    <3>. QED
      BY <1>0, <3>1, <3>2
  <2>2. \A q \in Runs \ {r} : boot'[q] = boot[q]
    BY <1>0, <1>5 DEF Provision, To
  <2>. QED
    BY <1>0, <1>1, <1>2, <1>5, <2>1, <2>2, OneRunsStepIsSound DEF Provision, At, InProgress
<1>6. CASE VerifyStored(r)
  <2>1. ASSUME Undisturbed PROVE RunIsSound(r)' /\ boot'[r].step # "done"
    <3>1. CASE secret = CredentialOf(r)
      <4>1. boot'[r] = [boot[r] EXCEPT !.step = "session"]
        BY <1>0, <1>6, <3>1 DEF VerifyStored, To
      <4>2. /\ boot'[r].step = "session" /\ boot'[r].rotates = boot[r].rotates
            /\ boot'[r].password = boot[r].password /\ boot'[r].found = boot[r].found
        BY <1>0, <4>1 DEF Run
      <4>3. CredentialOf(r)' = CredentialOf(r) /\ secret' = secret
        BY <1>6, <4>2 DEF VerifyStored, CredentialOf
      <4>. QED
        BY <3>1, <4>2, <4>3 DEF RunIsSound, At
    <3>2. CASE secret # CredentialOf(r)
      <4>1. boot'[r] = Failed
        BY <1>0, <1>6, <3>2 DEF VerifyStored
      <4>. QED
        BY <4>1 DEF RunIsSound, At
    <3>. QED
      BY <3>1, <3>2
  <2>2. \A q \in Runs \ {r} : boot'[q] = boot[q]
    BY <1>0, <1>6 DEF VerifyStored, To
  <2>3. secret' = secret /\ (Opens(secret)' <=> Opens(secret)) /\ boot[r].step \in InProgress
    BY <1>6 DEF VerifyStored, Opens, At, InProgress
  <2>. QED
    BY <1>0, <1>1, <1>2, <2>1, <2>2, <2>3, OneRunsStepIsSound DEF IInv
<1>7. CASE Publish(r, secret # Deleted, TRUE)
  <2>1. (secret # Deleted) \in BOOLEAN
    OBVIOUS
  <2>. QED
    BY <1>0, <1>7, <2>1, PublishIsSound
<1>8. CASE OpenSession(r, TRUE)
  BY <1>0, <1>8, SessionIsSound
<1>. QED
  BY <1>3, <1>4, <1>5, <1>6, <1>7, <1>8 DEF RunBootstrap, BootstrapStep

(* A run that starts is the only one, or the overlap is recorded. *)
LEMMA StartIsSound ==
  ASSUME IInv, NEW r \in Releases, StartBootstrap(r)
  PROVE  CredentialsAreSound'
<1> USE JobsAreTyped, NotRunningIsTyped
<1>1. /\ r \in Runs /\ TypeOK /\ UNCHANGED <<role, secret, setting, job, marked, pod>>
      /\ \A q \in Runs \ {r} : boot'[q] = boot[q]
  BY DEF IInv, StartBootstrap, Start
<1>2. boot'[r].step = "read"
  BY <1>1 DEF StartBootstrap, Start, NotRunning
<1> SUFFICES ASSUME Undisturbed' PROVE CredentialsAreSound'
  BY DEF CredentialsAreSound
<1>3. Undisturbed /\ Overlap(r) = {}
  BY <1>1 DEF StartBootstrap, Undisturbed
<1>4. \A q \in Runs \ {r} : boot'[q].step \notin InProgress
  BY <1>1, <1>3 DEF Overlap
<1>5. \A q \in Runs : RunIsSound(q)'
  BY <1>2, <1>4 DEF RunIsSound, At, InProgress
<1>6. Settled' => Settled
  BY <1>1, <1>2 DEF Settled, At
<1>7. /\ secret' # Deleted /\ (Settled' => Opens(secret)')
      /\ pod'.step = "running" => pod'.dsn = secret'
  BY <1>1, <1>3, <1>6 DEF IInv, CredentialsAreSound, Opens
<1>. QED
  BY <1>4, <1>5, <1>7 DEF CredentialsAreSound

(* A step in which something does not answer. *)
LEMMA MisfireIsSound ==
  ASSUME IInv, NEW r \in Releases, Misfire(r)
  PROVE  CredentialsAreSound'
<1>1. CASE "disturbed" \in events'
  BY <1>1 DEF CredentialsAreSound, Undisturbed
<1>2. CASE "disturbed" \notin events'
  <2>1. /\ UNCHANGED <<setting, events, job, marked, pod>>
        /\ (\E landed \in BOOLEAN : Publish(r, landed, FALSE)) \/ OpenSession(r, FALSE)
    BY <1>2 DEF Misfire
  <2>. QED
    BY <2>1, PublishIsSound, SessionIsSound
<1>. QED
  BY <1>1, <1>2

-----------------------------------------------------------------------------
(* Every step of Next. *)
LEMMA StepsKeepCredentials ==
  ASSUME IInv, [Next]_allVars PROVE CredentialsAreSound'
<1> USE JobsAreTyped, NotRunningIsTyped, PasswordsAreDifferent
<1>0. TypeOK
  BY DEF IInv
<1> SUFFICES ASSUME Undisturbed' PROVE CredentialsAreSound'
  BY DEF CredentialsAreSound
<1>1. CASE UNCHANGED allVars
  <2>1. UNCHANGED <<role, secret, boot, setting, job, marked, pod, events>>
    BY <1>1 DEF allVars, credentialVars, installVars
  <2>. QED
    BY <2>1, EndingRunsIsSound DEF Settled, At
<1>2. CASE Render
  <2>1. UNCHANGED <<role, secret, boot, setting, job, marked, pod, events>>
    BY <1>2 DEF Render, credentialVars
  <2>. QED
    BY <2>1, EndingRunsIsSound DEF Settled, At
<1>3. CASE Apply
  <2>1. Undisturbed /\ setting' = setting /\ events' = events /\ secret \in {rendered, Deleted}
    BY <1>3 DEF Apply, Undisturbed
  <2>2. UNCHANGED <<role, secret, boot, setting, marked, pod, events>>
    BY <1>3, <2>1 DEF Apply, IInv, CredentialsAreSound
  <2>3. Attempt.step = "bootstrap"
    BY <2>1 DEF Undisturbed, Attempt, FirstStep
  <2>4. \A r \in Releases : job'[r] \in {job[r], Attempt}
    BY <1>0, <1>3 DEF Apply
  <2>5. Settled' => Settled
    BY <2>2, <2>3, <2>4 DEF Settled, At
  <2>. QED
    BY <2>2, <2>5, EndingRunsIsSound
<1>4. CASE LoseSecret
  BY <1>4 DEF LoseSecret, Undisturbed
<1>5. CASE CollectorWaits \/ ReplacePod \/ CollectorRefreshes
  <2>1. UNCHANGED <<role, secret, boot, setting, job, marked, events>>
    BY <1>5 DEF CollectorWaits, ReplacePod, CollectorRefreshes, credentialVars
  <2>2. pod'.step = "running" => pod' = pod
    BY <1>0, <1>5 DEF CollectorWaits, ReplacePod, CollectorRefreshes, Pod
  <2>3. Settled' => Settled
    BY <2>1, <2>2 DEF Settled, At
  <2>. QED
    BY <2>1, <2>2, <2>3, EndingRunsIsSound
<1>6. CASE CollectorStarts
  <2>1. UNCHANGED <<role, secret, boot, setting, job, marked, events>>
    BY <1>6 DEF CollectorStarts, credentialVars
  <2>2. Undisturbed /\ setting.provisions /\ Opens(secret) /\ Opens(secret)'
    BY <1>6, <2>1 DEF CollectorStarts, Works, Undisturbed, Opens
  <2>3. pod' = [step |-> "running", dsn |-> secret]
    BY <1>6, <2>2 DEF CollectorStarts
  <2>4. \A r \in Runs : RunIsSound(r)'
    BY <2>1, <2>2 DEF IInv, CredentialsAreSound, RunIsSound, At, CredentialOf, Opens
  <2>. QED
    BY <2>1, <2>2, <2>3, <2>4 DEF IInv, CredentialsAreSound
<1>7. ASSUME NEW r \in Releases, StartBootstrap(r) \/ RunBootstrap(r) \/ Misfire(r)
      PROVE  CredentialsAreSound'
  BY <1>7, StartIsSound, RunBootstrapIsSound, MisfireIsSound
<1>8. ASSUME NEW r \in Releases,
             \/ BootstrapFails(r) \/ ReadDsn(r) \/ JobEnrolls(r) \/ JobRefreshes(r) \/ JobMarks(r)
             \/ JobCrashes(r) \/ DeleteJob(r)
      PROVE  CredentialsAreSound'
  <2>1. UNCHANGED <<role, secret, setting, pod, events>>
    BY <1>8 DEF BootstrapFails, ReadDsn, JobEnrolls, JobRefreshes, JobMarks, JobCrashes, DeleteJob,
                credentialVars
  <2>2. Attempt.step = "bootstrap"
    BY <2>1 DEF Undisturbed, Attempt, FirstStep
  <2>3. \A q \in Runs : boot'[q] = boot[q] \/ boot'[q] = NotRunning
    BY <1>0, <1>8 DEF BootstrapFails, ReadDsn, JobEnrolls, JobRefreshes, JobMarks, JobCrashes,
                      DeleteJob, NextAttempt, credentialVars
  <2>4. Settled' => Settled
    <3>1. \A q \in Releases \ {r} : job'[q] = job[q]
      BY <1>0, <1>8 DEF BootstrapFails, ReadDsn, JobEnrolls, JobRefreshes, JobMarks, JobCrashes,
                        DeleteJob, NextAttempt
    <3>2. \/ marked' = marked /\ job'[r].step \in {job[r].step, "bootstrap", "deleted"}
          \/ At(r, "done") \/ job[r].step \in {"enroll", "catalog", "mark"}
      BY <1>0, <1>8, <2>2
         DEF BootstrapFails, ReadDsn, JobEnrolls, JobRefreshes, JobMarks, JobCrashes, DeleteJob,
             NextAttempt, Unreleased
    <3>3. CASE At(r, "done") \/ job[r].step \in {"enroll", "catalog", "mark"}
      BY <3>3 DEF Settled
    <3>4. CASE marked' = marked /\ job'[r].step \in {job[r].step, "bootstrap", "deleted"}
      <4>1. \A q \in Releases : At(q, "done")' => At(q, "done")
        BY <1>0, <2>3 DEF At
      <4>2. \A q \in Releases : job'[q].step \in {"enroll", "catalog", "mark", "done"}
                               => job'[q].step = job[q].step
        BY <3>1, <3>4
      <4>. QED
        BY <2>1, <3>4, <4>1, <4>2 DEF Settled
    <3>. QED
      BY <3>2, <3>3, <3>4
  <2>. QED
    BY <2>1, <2>3, <2>4, EndingRunsIsSound DEF InProgress
<1>. QED
  BY <1>1, <1>2, <1>3, <1>4, <1>5, <1>6, <1>7, <1>8 DEF Next, JobStep

(* The invariant holds at first. *)
LEMMA InitIsSound ==
  ASSUME Init PROVE IInv
<1> USE NotRunningIsTyped, PasswordsAreDifferent, InstallationAssumption, ArtifactsAssumption
<1>1. CredentialTypeOK
  BY DEF Init, CredentialInit, CredentialTypeOK, Run, NoRole, Empty
<1>2. CatalogTypeOK
  BY DEF Init, CatalogInit, CatalogTypeOK, NoVersion, NoImport, Version, Artifacts
<1>3. TypeOK
  BY <1>1, <1>2 DEF Init, TypeOK, NotRendered, Unreleased
<1>4. SnapshotsAreSound /\ RenderedIsNext
  BY DEF Init, CatalogInit, SnapshotsAreSound, Importing, NoImport, RenderedIsNext
<1>5. CredentialsAreSound
  <2>1. \A r \in Runs : boot[r].step = "off"
    BY DEF Init, CredentialInit
  <2>2. ~Settled
    BY <2>1 DEF Init, Settled, At, Unreleased
  <2>3. secret # Deleted
    BY DEF Init, CredentialInit
  <2>. QED
    BY <2>1, <2>2, <2>3 DEF Init, CredentialsAreSound, RunIsSound, At, InProgress
<1>. QED
  BY <1>3, <1>4, <1>5 DEF IInv

(* The invariant holds for good. *)
LEMMA IInvHolds == Spec => []IInv
<1>1. IInv /\ [Next]_allVars => IInv'
  BY StepsKeepTypes, StepsKeepCredentials DEF IInv
<1>. QED
  BY <1>1, InitIsSound, PTL DEF Spec

(* Every variable has its type. *)
THEOREM TypeCorrect == Spec => []TypeOK
<1>1. IInv => TypeOK
  BY DEF IInv
<1>. QED
  BY <1>1, IInvHolds, PTL

(* A release that is marked has a Secret that opens a session, however many *)
(* attempts of the Job were interrupted, and where (bootstrap).             *)
THEOREM MarkedReleasesCollect == Spec => []MarkedReleasesCanCollect
<1>1. IInv => MarkedReleasesCanCollect
  BY DEF IInv, CredentialsAreSound, Undisturbed, Settled, MarkedReleasesCanCollect
<1>. QED
  BY <1>1, IInvHolds, PTL

(* A collector that runs keeps a credential that opens sessions through     *)
(* every attempt of every upgrade's Job (bootstrap: nothing is rotated in a *)
(* healthy installation).                                                   *)
THEOREM CollectorsKeepCredentials == Spec => []RunningCollectorsKeepTheirs
<1>1. IInv => RunningCollectorsKeepTheirs
  BY DEF IInv, CredentialsAreSound, Undisturbed, Settled, RunningCollectorsKeepTheirs
<1>. QED
  BY <1>1, IInvHolds, PTL

(* The content of a published catalog version never changes, with any       *)
(* number of importers of the same new ID (import_catalog).                 *)
THEOREM CatalogsAreImmutable == Spec => PublishedVersionsAreImmutable
<1>1. IInv /\ [Next]_allVars =>
        [\A i \in CatalogIds :
           versions[i].digest # 0 => versions'[i].digest = versions[i].digest]_versions
  BY NextIsACatalogStep, CatalogStepsKeepVersions DEF IInv, TypeOK
<1>. QED
  BY <1>1, IInvHolds, PTL DEF Spec, PublishedVersionsAreImmutable

(* Importers never deactivate each other's versions so that none is left    *)
(* (import_catalog).                                                        *)
THEOREM CatalogStaysActive == Spec => NeverWithoutCatalog
<1>1. IInv /\ [Next]_allVars => [ActiveIn(versions) # {} => ActiveIn(versions') # {}]_versions
  BY NextIsACatalogStep, CatalogStepsKeepVersions DEF IInv, TypeOK
<1>. QED
  BY <1>1, IInvHolds, PTL DEF Spec, NeverWithoutCatalog
=============================================================================
