--------------------------- MODULE ExecutionsProofs ---------------------------
(***************************************************************************)
(* That baseline links follow the profile and its saved period, and that   *)
(* executions, repeats and their VMs are reported as they were (Executions *)
(* over Baseline), for any jobs, profiles, bounds and task logs.           *)
(*                                                                         *)
(* The first argument: once a period is saved for the configured version,  *)
(* or no period is declared, the steps that may save one change nothing;   *)
(* and nothing else is saved while a collector runs, or after a            *)
(* reclassification, until the configuration changes.  So the profile that *)
(* a process resolved at its start stays the one that anybody would        *)
(* resolve.                                                                *)
(*                                                                         *)
(* The second: every stored row is founded in a part of a log, a link in   *)
(* the same part or one before, and logs only grow.  A log that was read   *)
(* to its end has all of its parts stored, each with its own VM.  So a     *)
(* stale link is to a VM that worked, and a first attempt has none.        *)
(***************************************************************************)
EXTENDS Executions, FiniteSetTheorems, WellFoundedInduction, TLAPS

Policies == [origin : {"none", "enrolled", "declared"}, period : SUBSET Moments]
Instants == Moments \cup {0}

(* As much of the types as the argument needs. *)
Typed ==
  /\ setting \in Settings /\ now \in Moments
  /\ config \in Profiles \cup {NoProfile}
  /\ saved \in [Versions -> Policies]
  /\ start \in [Jobs -> Instants]
  /\ record \in [Jobs -> [collected : BOOLEAN, start : Instants]]
  /\ links \in [Jobs -> SUBSET {p.uid : p \in Profiles \cup {NoProfile}}]
  /\ reclassified \in BOOLEAN

(* A collector was enrolled under this configuration, and its profile has   *)
(* not been overtaken by what was saved since it started.                   *)
ProfileIsCurrent == collector.running => enrolled /\ collector.profile = Resolved(config)

(* What was collected before a tool started has no start; what was not      *)
(* collected has no link.                                                   *)
RecordsAreTrue ==
  \A j \in Jobs : IF record[j].collected THEN record[j].start \in {0, start[j]} ELSE links[j] = {}

IInv ==
  /\ Typed /\ ProfileIsCurrent /\ RecordsAreTrue
  /\ reclassified => enrolled
  /\ BaselineFollowsTheProfile

-----------------------------------------------------------------------------
(* To classify nothing is none of the profiles. *)
LEMMA NoProfileIsDifferent == NoProfile \notin Profiles
BY ProfilesAssumption DEF NoProfile

(* The profiles of a setting are profiles. *)
LEMMA SettingsAreTyped ==
  ASSUME Typed PROVE setting.profiles \subseteq Profiles
BY ProfilesAssumption DEF Typed

(* To save the declared period of a profile does not change what the        *)
(* profile is resolved to.                                                  *)
LEMMA SavingKeepsTheProfile ==
  ASSUME saved \in [Versions -> Policies], NEW p \in Profiles \cup {NoProfile}, SavePeriod(p)
  PROVE  /\ saved' \in [Versions -> Policies]
         /\ Resolved(p)' = Resolved(p)
         /\ Conflict(p)' <=> Conflict(p)
         /\ p # NoProfile /\ p.period # {} => saved'[p.version] # Unsaved
<1>1. CASE p = NoProfile \/ saved[p.version] # Unsaved
  <2>1. saved' = saved
    BY <1>1 DEF SavePeriod, Save
  <2>. QED
    BY <1>1, <2>1 DEF Resolved, Conflict, PeriodOf
<1>2. CASE p # NoProfile /\ saved[p.version] = Unsaved /\ p.period = {}
  <2>1. p.version \in Versions
    BY <1>2 DEF Versions
  <2>2. saved' = [saved EXCEPT ![p.version] = Unsaved]
    BY <1>2 DEF SavePeriod, Save
  <2>3. saved' = saved
    BY <1>2, <2>1, <2>2
  <2>. QED
    BY <1>2, <2>3 DEF Resolved, Conflict, PeriodOf
<1>3. CASE p # NoProfile /\ saved[p.version] = Unsaved /\ p.period # {}
  <2>1. p.version \in Versions /\ p.period \in SUBSET Moments
    BY <1>3, ProfilesAssumption DEF Versions
  <2>2. saved' = [saved EXCEPT ![p.version] = Declared(p.period)]
    BY <1>3 DEF SavePeriod, Save
  <2>3. Declared(p.period) \in Policies /\ Declared(p.period) # Unsaved
        /\ Declared(p.period).period = p.period
    BY <2>1 DEF Declared, Policies, Unsaved
  <2>4. saved'[p.version] = Declared(p.period) /\ saved' \in [Versions -> Policies]
    BY <2>1, <2>2, <2>3
  <2>5. ~Conflict(p) /\ ~Conflict(p)'
    BY <1>3, <2>4 DEF Conflict
  <2>6. PeriodOf(p) = p.period /\ PeriodOf(p)' = p.period
    BY <1>3, <2>3, <2>4 DEF PeriodOf
  <2>. QED
    BY <2>3, <2>4, <2>5, <2>6 DEF Resolved
<1>. QED
  BY <1>1, <1>2, <1>3

(* The invariant holds at first. *)
LEMMA InitSound == Init => IInv
<1> SUFFICES ASSUME Init PROVE IInv
  OBVIOUS
<1>1. Unsaved \in Policies /\ Absent \in [collected : BOOLEAN, start : Instants]
      /\ ~Absent.collected /\ ~Stopped.running
  BY DEF Unsaved, Policies, Absent, Instants, Stopped
<1>2. Typed
  <2>1. setting \in Settings /\ now \in Moments /\ 0 \in Instants
    BY ProfilesAssumption DEF Init, BaselineInit, Moments, Instants
  <2>2. config \in Profiles \cup {NoProfile}
    BY ProfilesAssumption DEF Init, BaselineInit
  <2>3. saved \in [Versions -> Policies]
    BY <1>1 DEF Init, BaselineInit
  <2>4. start \in [Jobs -> Instants] /\ reclassified \in BOOLEAN
    BY <2>1 DEF Init, BaselineInit
  <2>5. record \in [Jobs -> [collected : BOOLEAN, start : Instants]]
    BY <1>1 DEF Init, BaselineInit
  <2>6. links \in [Jobs -> SUBSET {p.uid : p \in Profiles \cup {NoProfile}}]
    BY DEF Init, BaselineInit
  <2>. QED
    BY <2>1, <2>2, <2>3, <2>4, <2>5, <2>6 DEF Typed
<1>. QED
  BY <1>1, <1>2 DEF Init, BaselineInit, IInv, ProfileIsCurrent, RecordsAreTrue, BaselineFollowsTheProfile

-----------------------------------------------------------------------------
(* What a provider has placed stays placed. *)
LEMMA PlacedOnlyGrows ==
  ASSUME used \subseteq used' PROVE Placed \subseteq Placed'
BY DEF Placed

(* The clock and the steps of task logs leave the baseline alone. *)
LEMMA QuietStepsKeepIInv ==
  ASSUME IInv, used \subseteq used',
         UNCHANGED <<setting, config, enrolled, saved, collector, start, record, links, reclassified>>,
         now' \in Moments
  PROVE  IInv'
<1>1. Typed'
  BY DEF IInv, Typed
<1>2. Resolved(config)' = Resolved(config)
  BY DEF Resolved, Conflict, PeriodOf
<1>3. ProfileIsCurrent' /\ RecordsAreTrue' /\ (reclassified' => enrolled')
  BY <1>2 DEF IInv, ProfileIsCurrent, RecordsAreTrue
<1>4. BaselineFollowsTheProfile'
  BY <1>2, PlacedOnlyGrows DEF IInv, BaselineFollowsTheProfile, Classified
<1>. QED
  BY <1>1, <1>3, <1>4 DEF IInv

(* A new configuration stops the collector and asks for an enrollment. *)
LEMMA ConfigureKeepsIInv ==
  ASSUME IInv, Reconfigure PROVE IInv'
<1> PICK p \in setting.profiles \cup {NoProfile} : Configure(p)
  BY DEF Reconfigure
<1>1. config' \in Profiles \cup {NoProfile}
  BY SettingsAreTyped DEF IInv, Configure
<1>2. Typed'
  BY <1>1 DEF IInv, Typed, Configure, Reconfigure
<1>3. ~collector'.running
  BY DEF Configure, Stopped
<1>. QED
  BY <1>2, <1>3 DEF IInv, Configure, Reconfigure, ProfileIsCurrent, RecordsAreTrue,
                    BaselineFollowsTheProfile

(* An enrollment saves nothing behind a collector that runs, or behind a    *)
(* reclassification: both were enrolled.                                    *)
LEMMA EnrollKeepsIInv ==
  ASSUME IInv, Enrolls PROVE IInv'
<1>1. ~collector.running /\ ~reclassified
  BY DEF IInv, ProfileIsCurrent, Enrolls, Enroll
<1>2. saved' \in [Versions -> Policies]
  <2> DEFINE policy == [origin |-> "enrolled", period |-> now .. MaxTime]
  <2>1. policy \in Policies
    BY DEF IInv, Typed, Policies, Moments
  <2>2. Save(config, policy)
    BY DEF Enrolls, Enroll
  <2> HIDE DEF policy
  <2>3. CASE config # NoProfile /\ saved[config.version] = Unsaved
    <3>1. config.version \in Versions
      BY <2>3 DEF IInv, Typed, Versions
    <3>. QED
      BY <2>1, <2>2, <2>3, <3>1 DEF IInv, Typed, Save
  <2>4. CASE ~(config # NoProfile /\ saved[config.version] = Unsaved)
    BY <2>2, <2>4 DEF IInv, Typed, Save
  <2>. QED
    BY <2>3, <2>4
<1>3. Typed'
  BY <1>2 DEF IInv, Typed, Enrolls, Enroll
<1>. QED
  BY <1>1, <1>3 DEF IInv, Enrolls, Enroll, ProfileIsCurrent, RecordsAreTrue, BaselineFollowsTheProfile

(* The same of the configured profile. *)
LEMMA SavingKeepsTheConfigured ==
  ASSUME Typed, SavePeriod(config), config' = config
  PROVE  /\ saved' \in [Versions -> Policies]
         /\ Resolved(config)' = Resolved(config)
         /\ Conflict(config)' <=> Conflict(config)
<1> PICK p \in Profiles \cup {NoProfile} : p = config
  BY DEF Typed
<1>1. /\ saved' \in [Versions -> Policies]
      /\ Resolved(p)' = Resolved(p)
      /\ Conflict(p)' <=> Conflict(p)
  BY SavingKeepsTheProfile DEF Typed
<1>2. Resolved(config)' = Resolved(p)' /\ (Conflict(config)' <=> Conflict(p)')
  BY DEF Resolved, Conflict, PeriodOf
<1>. QED
  BY <1>1, <1>2

(* A collector starts with the profile that anybody would resolve. *)
LEMMA StartKeepsIInv ==
  ASSUME IInv, StartsCollector PROVE IInv'
<1>1. saved' \in [Versions -> Policies] /\ Resolved(config)' = Resolved(config)
  BY SavingKeepsTheConfigured DEF IInv, StartsCollector, StartCollector
<1>2. Typed'
  BY <1>1 DEF IInv, Typed, StartsCollector, StartCollector
<1>3. ProfileIsCurrent'
  BY <1>1 DEF ProfileIsCurrent, StartsCollector, StartCollector
<1>4. RecordsAreTrue' /\ (reclassified' => enrolled')
  BY DEF IInv, RecordsAreTrue, StartsCollector, StartCollector
<1>5. BaselineFollowsTheProfile'
  BY <1>1 DEF IInv, BaselineFollowsTheProfile, Classified, Placed, StartsCollector, StartCollector,
              Untouched, storedVars
<1>. QED
  BY <1>2, <1>3, <1>4, <1>5 DEF IInv

(* A collector that stops forgets its profile. *)
LEMMA StopKeepsIInv ==
  ASSUME IInv, StopsCollector PROVE IInv'
<1>1. Resolved(config)' = Resolved(config)
  BY DEF StopsCollector, StopCollector, Resolved, Conflict, PeriodOf
<1>2. ~collector'.running
  BY DEF StopsCollector, StopCollector, Stopped
<1>3. Typed' /\ RecordsAreTrue' /\ (reclassified' => enrolled')
  BY DEF IInv, Typed, RecordsAreTrue, StopsCollector, StopCollector
<1>4. BaselineFollowsTheProfile'
  BY <1>1 DEF IInv, BaselineFollowsTheProfile, Classified, Placed, StopsCollector, StopCollector,
              Untouched, storedVars
<1>. QED
  BY <1>2, <1>3, <1>4 DEF IInv, ProfileIsCurrent

(* A tool that starts after its record was collected changes no link. *)
LEMMA ToolStartsKeepsIInv ==
  ASSUME IInv, GalaxyRecordsStart PROVE IInv'
<1> PICK j \in Jobs : ToolStarts(j)
  BY DEF GalaxyRecordsStart
<1>1. Resolved(config)' = Resolved(config)
  BY DEF ToolStarts, Resolved, Conflict, PeriodOf
<1>2. Typed'
  BY DEF IInv, Typed, ToolStarts, GalaxyRecordsStart, Instants
<1>3. RecordsAreTrue'
  BY DEF IInv, Typed, RecordsAreTrue, ToolStarts
<1>4. ProfileIsCurrent' /\ (reclassified' => enrolled')
  BY <1>1 DEF IInv, ProfileIsCurrent, ToolStarts, GalaxyRecordsStart
<1>5. BaselineFollowsTheProfile'
  BY <1>1 DEF IInv, BaselineFollowsTheProfile, Classified, Placed, ToolStarts, GalaxyRecordsStart,
              Untouched, storedVars
<1>. QED
  BY <1>2, <1>3, <1>4, <1>5 DEF IInv

(* A record that had a start before has the same now, so it is classified   *)
(* the same under the same profile; one that had none had no link.          *)
LEMMA CollectKeepsIInv ==
  ASSUME IInv, CollectsRecord PROVE IInv'
<1> PICK j \in Jobs : CollectRecord(j)
  BY DEF CollectsRecord
<1> DEFINE profile == Resolved(config)
           added == {u \in {profile.uid} : Classified(profile, j, start[j])}
<1>1. profile' = profile /\ collector.profile = profile
  BY DEF IInv, CollectRecord, ProfileIsCurrent, Resolved, Conflict, PeriodOf
<1>2. /\ record' = [record EXCEPT ![j] = [collected |-> TRUE, start |-> start[j]]]
      /\ links' = [links EXCEPT ![j] = @ \cup added]
  BY <1>1 DEF CollectRecord
<1>3. profile.uid \in {p.uid : p \in Profiles \cup {NoProfile}}
  <2> PICK p \in Profiles \cup {NoProfile} : p = config
    BY DEF IInv, Typed
  <2>1. Resolved(p).uid = p.uid \/ Resolved(p) = NoProfile
    BY ProfilesAssumption DEF Resolved
  <2>. QED
    BY <2>1
<1>4. Typed'
  <2>1. record' \in [Jobs -> [collected : BOOLEAN, start : Instants]]
    BY <1>2 DEF IInv, Typed
  <2>2. links' \in [Jobs -> SUBSET {p.uid : p \in Profiles \cup {NoProfile}}]
    BY <1>2, <1>3 DEF IInv, Typed
  <2>. QED
    BY <2>1, <2>2 DEF IInv, Typed, CollectRecord, CollectsRecord
<1>5. RecordsAreTrue'
  BY <1>2 DEF IInv, Typed, RecordsAreTrue, CollectRecord
<1>6. ProfileIsCurrent' /\ (reclassified' => enrolled')
  BY <1>1 DEF IInv, ProfileIsCurrent, CollectRecord, CollectsRecord
<1>7. BaselineFollowsTheProfile'
  <2> SUFFICES ASSUME reclassified, NEW i \in Jobs \ Placed, record'[i].collected
               PROVE  links'[i] # {} <=> Classified(profile, i, record'[i].start)
    BY <1>1 DEF BaselineFollowsTheProfile, Placed, CollectsRecord, Untouched, storedVars, Classified
  <2>1. CASE i # j
    BY <1>2, <2>1 DEF IInv, Typed, BaselineFollowsTheProfile
  <2>2. CASE i = j
    <3>1. links'[j] = links[j] \cup added /\ record'[j].start = start[j]
      BY <1>2 DEF IInv, Typed
    <3>2. added # {} <=> Classified(profile, j, start[j])
      OBVIOUS
    <3>3. links[j] # {} => Classified(profile, j, start[j])
      <4>1. CASE record[j].collected
        BY <2>2, <4>1 DEF IInv, RecordsAreTrue, BaselineFollowsTheProfile, Classified
      <4>2. CASE ~record[j].collected
        BY <4>2 DEF IInv, RecordsAreTrue
      <4>. QED
        BY <4>1, <4>2
    <3> HIDE DEF added
    <3>. QED
      BY <2>2, <3>1, <3>2, <3>3
  <2>. QED
    BY <2>1, <2>2
<1>. QED
  BY <1>4, <1>5, <1>6, <1>7 DEF IInv

(* A record without a link gets one if it is classified, and one with a     *)
(* link loses it if it is not.                                              *)
LEMMA ReclassifyKeepsIInv ==
  ASSUME IInv, ReclassifyBaseline PROVE IInv'
<1> DEFINE profile == Resolved(config)
<1>1. saved' \in [Versions -> Policies] /\ profile' = profile
  BY SavingKeepsTheConfigured DEF IInv, ReclassifyBaseline, Reclassify
<1>2. links' = [j \in Jobs |-> IF record[j].collected /\ j \notin Placed
                              THEN Afterwards(j, profile) ELSE links[j]]
  BY DEF ReclassifyBaseline, Reclassify
<1>3. \A j \in Jobs : Afterwards(j, profile) \in SUBSET {p.uid : p \in Profiles \cup {NoProfile}}
  <2> TAKE j \in Jobs
  <2>1. profile.uid \in {p.uid : p \in Profiles \cup {NoProfile}}
    <3> PICK p \in Profiles \cup {NoProfile} : p = config
      BY DEF IInv, Typed
    <3>1. Resolved(p).uid = p.uid \/ Resolved(p) = NoProfile
      BY ProfilesAssumption DEF Resolved
    <3>. QED
      BY <3>1
  <2> HIDE DEF profile
  <2>2. links[j] \in SUBSET {p.uid : p \in Profiles \cup {NoProfile}}
    BY DEF IInv, Typed
  <2>. QED
    BY <2>1, <2>2 DEF Afterwards
<1>4. Typed'
  <2>1. links' \in [Jobs -> SUBSET {p.uid : p \in Profiles \cup {NoProfile}}]
    BY <1>2, <1>3 DEF IInv, Typed
  <2>. QED
    BY <1>1, <2>1 DEF IInv, Typed, ReclassifyBaseline, Reclassify
<1>5. RecordsAreTrue'
  BY <1>2 DEF IInv, Typed, RecordsAreTrue, ReclassifyBaseline, Reclassify
<1>6. ProfileIsCurrent' /\ (reclassified' => enrolled')
  BY DEF ProfileIsCurrent, ReclassifyBaseline, Reclassify
<1>7. BaselineFollowsTheProfile'
  <2> SUFFICES ASSUME NEW j \in Jobs \ Placed, record[j].collected
               PROVE  links'[j] # {} <=> Classified(profile, j, record[j].start)
    BY <1>1 DEF BaselineFollowsTheProfile, Placed, ReclassifyBaseline, Reclassify, Untouched,
                storedVars, Classified
  <2>1. links'[j] = Afterwards(j, profile)
    BY <1>2
  <2>. HIDE DEF profile
  <2>. QED
    BY <2>1 DEF Afterwards
<1>. QED
  BY <1>4, <1>5, <1>6, <1>7 DEF IInv

(* Every step keeps the invariant. *)
LEMMA StepsKeepIInv == IInv /\ [Next]_vars => IInv'
<1> SUFFICES ASSUME IInv, [Next]_vars PROVE IInv'
  OBVIOUS
<1>1. CASE UNCHANGED vars
  BY <1>1, QuietStepsKeepIInv DEF IInv, Typed, vars, baselineVars, storedVars
<1>2. CASE Ticks
  <2>1. now' \in Moments
    BY <1>2, ProfilesAssumption DEF IInv, Typed, Ticks, Tick, Moments
  <2>. QED
    BY <1>2, <2>1, QuietStepsKeepIInv DEF Ticks, Tick, Untouched, storedVars
<1>3. CASE \/ \E s \in Submissions : Submit(s) \/ End(s)
           \/ \E l \in Lanes : Run(l) \/ Retry(l) \/ \E v \in VMs : Assign(l, v)
  <2>1. UNCHANGED <<baselineVars, storedVars, reclassified>>
    BY <1>3 DEF Submit, End, Run, Retry, Assign, Grows
  <2>. QED
    BY <2>1, QuietStepsKeepIInv DEF IInv, Typed, baselineVars, storedVars
<1>4. ASSUME NEW l \in Lanes, Read(l) PROVE IInv'
  BY <1>4, QuietStepsKeepIInv DEF IInv, Typed, Read, baselineVars
<1>. QED
  BY <1>1, <1>2, <1>3, <1>4, ConfigureKeepsIInv, EnrollKeepsIInv, StartKeepsIInv, StopKeepsIInv,
     ToolStartsKeepsIInv, CollectKeepsIInv, ReclassifyKeepsIInv DEF Next

(* The invariant holds for good. *)
LEMMA IInvHolds == Spec => []IInv
BY InitSound, StepsKeepIInv, PTL DEF Spec

-----------------------------------------------------------------------------
(* Types.  The rest of the baseline's types: a link is to a server that a   *)
(* profile names, since to classify nothing covers no job.                  *)
Servers == {p.uid : p \in Profiles}

Bounded ==
  /\ config \in setting.profiles \cup {NoProfile} /\ changes \in 0 .. setting.changes
  /\ enrolled \in BOOLEAN /\ collector.running \in BOOLEAN
  /\ links \in [Jobs -> SUBSET Servers]

LEMMA ClassifiedNameServers ==
  ASSUME Typed, NEW j \in Jobs, NEW t, Classified(Resolved(config), j, t)
  PROVE  Resolved(config).uid \in Servers
<1> PICK p \in Profiles \cup {NoProfile} : p = config
  BY DEF Typed
<1>1. Resolved(p) # NoProfile
  BY DEF Classified, NoProfile
<1>2. p \in Profiles /\ Resolved(p).uid = p.uid
  BY <1>1, ProfilesAssumption DEF Resolved
<1>. QED
  BY <1>2 DEF Servers

LEMMA ChangesAreCounted == \A s \in Settings : s.changes \in Nat
BY ProfilesAssumption

LEMMA InitBounded == Init => Bounded
<1> SUFFICES ASSUME Init PROVE Bounded
  OBVIOUS
<1>1. setting \in Settings
  BY DEF Init, BaselineInit
<1>2. setting.changes \in Nat
  BY <1>1, ChangesAreCounted
<1>3. /\ config \in setting.profiles \cup {NoProfile} /\ changes = 0
      /\ enrolled = FALSE /\ collector = Stopped /\ links = [j \in Jobs |-> {}]
  BY DEF Init, BaselineInit
<1>4. changes \in 0 .. setting.changes
  BY <1>2, <1>3
<1>5. enrolled \in BOOLEAN /\ collector.running \in BOOLEAN
  BY <1>3 DEF Stopped
<1>6. links \in [Jobs -> SUBSET Servers]
  BY <1>3
<1>. QED
  BY <1>3, <1>4, <1>5, <1>6 DEF Bounded

(* What a collection or a reclassification adds is such a server. *)
LEMMA CollectStaysBounded ==
  ASSUME IInv, Bounded, CollectsRecord PROVE Bounded'
<1> PICK j \in Jobs : CollectRecord(j)
  BY DEF CollectsRecord
<1> DEFINE added == {u \in {Resolved(config).uid} : Classified(Resolved(config), j, start[j])}
<1>1. added \in SUBSET Servers
  BY ClassifiedNameServers DEF IInv
<1>2. links' = [links EXCEPT ![j] = @ \cup added]
  BY DEF IInv, ProfileIsCurrent, CollectRecord
<1> HIDE DEF added
<1>3. links' \in [Jobs -> SUBSET Servers]
  BY <1>1, <1>2 DEF Bounded
<1>. QED
  BY <1>3 DEF Bounded, CollectRecord

LEMMA ReclassifyStaysBounded ==
  ASSUME IInv, Bounded, ReclassifyBaseline PROVE Bounded'
<1>1. links' = [j \in Jobs |-> IF record[j].collected /\ j \notin Placed
                              THEN Afterwards(j, Resolved(config)) ELSE links[j]]
  BY DEF ReclassifyBaseline, Reclassify
<1>2. ASSUME NEW j \in Jobs PROVE Afterwards(j, Resolved(config)) \in SUBSET Servers
  <2>1. links[j] \in SUBSET Servers
    BY DEF Bounded
  <2>2. Classified(Resolved(config), j, record[j].start) => Resolved(config).uid \in Servers
    BY ClassifiedNameServers DEF IInv
  <2>. QED
    BY <2>1, <2>2 DEF Afterwards
<1>3. links' \in [Jobs -> SUBSET Servers]
  BY <1>1, <1>2 DEF Bounded
<1>. QED
  BY <1>3 DEF Bounded, ReclassifyBaseline, Reclassify

LEMMA StepsStayBounded == IInv /\ Bounded /\ [Next]_vars => Bounded'
<1> SUFFICES ASSUME IInv, Bounded, [Next]_vars PROVE Bounded'
  OBVIOUS
<1>1. CASE Reconfigure
  <2> PICK p \in setting.profiles \cup {NoProfile} : Configure(p)
    BY <1>1 DEF Reconfigure
  <2>1. setting \in Settings
    BY DEF IInv, Typed
  <2>2. setting.changes \in Nat
    BY <2>1, ChangesAreCounted
  <2>3. /\ changes < setting.changes /\ changes' = changes + 1 /\ UNCHANGED <<setting, links>>
        /\ config' = p /\ enrolled' = (enrolled /\ ~setting.chart) /\ collector' = Stopped
    BY DEF Configure
  <2>4. changes' \in 0 .. setting'.changes
    BY <2>2, <2>3 DEF Bounded
  <2>5. enrolled' \in BOOLEAN /\ collector'.running \in BOOLEAN
    BY <2>3 DEF Stopped
  <2>6. config' \in setting'.profiles \cup {NoProfile}
    BY <2>3
  <2>7. links' \in [Jobs -> SUBSET Servers]
    BY <2>3 DEF Bounded
  <2>. QED
    BY <2>4, <2>5, <2>6, <2>7 DEF Bounded
<1>2. CASE Enrolls
  BY <1>2 DEF Bounded, Enrolls, Enroll
<1>3. CASE StartsCollector \/ StopsCollector
  <2>1. UNCHANGED <<setting, config, changes, enrolled, links>>
    BY <1>3 DEF StartsCollector, StartCollector, StopsCollector, StopCollector
  <2>2. CASE StartsCollector
    <3>1. collector'.running = TRUE
      BY <2>2 DEF StartsCollector, StartCollector
    <3>. QED
      BY <2>1, <3>1 DEF Bounded
  <2>3. CASE StopsCollector
    <3>1. collector'.running = FALSE
      BY <2>3 DEF StopsCollector, StopCollector, Stopped
    <3>. QED
      BY <2>1, <3>1 DEF Bounded
  <2>. QED
    BY <1>3, <2>2, <2>3
<1>4. CASE Ticks \/ GalaxyRecordsStart
  BY <1>4 DEF Bounded, Ticks, Tick, GalaxyRecordsStart, ToolStarts
<1>5. CASE \/ \E s \in Submissions : Submit(s) \/ End(s)
           \/ \E l \in Lanes : Run(l) \/ Retry(l) \/ Read(l) \/ \E v \in VMs : Assign(l, v)
  <2>1. UNCHANGED baselineVars
    BY <1>5 DEF Submit, End, Run, Retry, Assign, Grows, Read
  <2>. QED
    BY <2>1 DEF Bounded, baselineVars
<1>6. CASE UNCHANGED vars
  BY <1>6 DEF Bounded, vars, baselineVars
<1>. QED
  BY <1>1, <1>2, <1>3, <1>4, <1>5, <1>6, CollectStaysBounded, ReclassifyStaysBounded DEF Next

(* The baseline's variables keep their types: whatever is configured,       *)
(* saved and collected, a link is to the server of a profile.               *)
THEOREM BaselineIsTyped == Spec => []BaselineTypeOK
<1>1. Spec => []Bounded
  BY InitBounded, StepsStayBounded, IInvHolds, PTL DEF Spec
<1>2. IInv /\ Bounded => BaselineTypeOK
  BY DEF IInv, Typed, Bounded, BaselineTypeOK, Policies, Instants, Servers
<1>. QED
  BY <1>1, <1>2, IInvHolds, PTL

-----------------------------------------------------------------------------
(* From a reclassification on until the configuration changes, links of     *)
(* work that no provider has placed follow the profile.                     *)
THEOREM LinksFollowTheProfile == Spec => []BaselineFollowsTheProfile
<1>1. IInv => BaselineFollowsTheProfile
  BY DEF IInv
<1>. QED
  BY IInvHolds, <1>1, PTL

(* No link is added to work outside the period that was saved with the      *)
(* configured version.                                                      *)
THEOREM SavedPeriodIsKept == Spec => SavedPeriodGoverns
<1>1. IInv /\ IInv' /\ [Next]_vars =>
        [\A j \in Jobs : ~(links'[j] \subseteq links[j]) /\ saved'[config.version] # Unsaved =>
           record'[j].start \in saved'[config.version].period]_vars
  <2> SUFFICES ASSUME IInv, IInv', Next, NEW j \in Jobs, ~(links'[j] \subseteq links[j]),
                      saved'[config.version] # Unsaved
               PROVE  record'[j].start \in saved'[config.version].period
    OBVIOUS
  <2>1. /\ config' = config
        /\ Resolved(config)' = Resolved(config)
        /\ Classified(Resolved(config), j, record'[j].start)
    <3>1. CASE CollectsRecord
      <4> PICK i \in Jobs : CollectRecord(i)
        BY <3>1 DEF CollectsRecord
      <4>1. UNCHANGED <<config, saved>> /\ collector.profile = Resolved(config)
        BY DEF CollectRecord, IInv, ProfileIsCurrent
      <4>2. /\ links' = [links EXCEPT ![i] =
                 @ \cup {u \in {Resolved(config).uid} : Classified(Resolved(config), i, start[i])}]
            /\ record'[i].start = start[i]
        BY <4>1 DEF CollectRecord, IInv, Typed
      <4>3. j = i /\ Classified(Resolved(config), i, start[i])
        BY <4>2 DEF IInv, Typed
      <4>. QED
        BY <4>1, <4>2, <4>3 DEF Resolved, Conflict, PeriodOf
    <3>2. CASE ReclassifyBaseline
      <4>1. config' = config /\ record' = record /\ Resolved(config)' = Resolved(config)
        BY <3>2, SavingKeepsTheConfigured DEF IInv, ReclassifyBaseline, Reclassify
      <4>2. links'[j] = links[j] \/ links'[j] = Afterwards(j, Resolved(config))
        BY <3>2 DEF IInv, Typed, ReclassifyBaseline, Reclassify
      <4>3. Classified(Resolved(config), j, record[j].start)
        BY <4>2 DEF Afterwards
      <4>. QED
        BY <4>1, <4>3
    <3>3. CollectsRecord \/ ReclassifyBaseline
      <4>1. links' # links
        OBVIOUS
      <4>. QED
        BY <4>1 DEF Next, Reconfigure, Configure, StartsCollector, StartCollector, StopsCollector,
                    StopCollector, Ticks, Tick, Enrolls, Enroll, GalaxyRecordsStart, ToolStarts,
                    Submit, End, Run, Retry, Read, Assign, Grows, baselineVars
    <3>. QED
      BY <3>1, <3>2, <3>3
  <2>2. config # NoProfile /\ Resolved(config) # NoProfile
    BY <2>1 DEF Classified, Resolved, NoProfile
  <2>3. Resolved(config)'.period = saved'[config.version].period
    <3> PICK p \in Profiles : p = config
      BY <2>2 DEF IInv, Typed
    <3>1. Resolved(p)' = Resolved(config)' /\ Resolved(p)' # NoProfile
      BY <2>1, <2>2 DEF Resolved, Conflict, PeriodOf
    <3>2. Resolved(p)' = [p EXCEPT !.period = PeriodOf(p)']
      BY <3>1 DEF Resolved
    <3>3. PeriodOf(p)' = saved'[p.version].period
      BY DEF PeriodOf
    <3>4. p \in [version : Nat \ {0}, uid : Nat \ {0}, covers : SUBSET Jobs, period : SUBSET Moments]
      BY ProfilesAssumption
    <3>. QED
      BY <3>1, <3>2, <3>3, <3>4
  <2>. QED
    BY <2>1, <2>3 DEF Classified
<1>. QED
  BY IInvHolds, <1>1, PTL DEF Spec, SavedPeriodGoverns

-----------------------------------------------------------------------------
(* The attempt that a part of a log is stored as. *)
Row(x) == Attempt(x[1], x[2] - 1)

Entries == [vm : VMs \cup {0}, ran : BOOLEAN]

LogsTyped ==
  /\ setting \in Settings
  /\ log \in [Lanes -> Seq(Entries)]
  /\ \A l \in Lanes : Len(log[l]) <= setting.retries + 1

(* All tasks are submitted together, and first of all in the first          *)
(* submission.                                                              *)
FirstComesFirst ==
  /\ over # {} => \A t \in setting.tasks : <<1, t>> \in Submitted
  /\ \A l \in Submitted, t \in setting.tasks : <<1, t>> \in Submitted

(* What is stored was in a log, and logs only grow: a link may be to the VM *)
(* of an earlier part of the same log.                                      *)
RowsAreFounded ==
  /\ \A e \in attempts : \E x \in Parts : e = Row(x)
  /\ \A e \in started : \E x \in Parts : e = Row(x) /\ Part(x).ran
  /\ \A u \in used : \E x, y \in Parts :
       /\ x[1] = y[1] /\ y[2] <= x[2] /\ Part(y).vm # 0
       /\ u = <<Row(x), Vm(y[1], Part(y).vm)>> /\ Row(x) \in attempts

(* A log that was read to its end has all of its parts stored. *)
FreshIsRead ==
  /\ fresh \subseteq Submitted
  /\ \A x \in Parts : x[1] \in fresh =>
       /\ Row(x) \in attempts
       /\ Part(x).ran => Row(x) \in started
       /\ Part(x).vm # 0 => <<Row(x), Vm(x[1], Part(x).vm)>> \in used

LogIInv == LogsTyped /\ FirstComesFirst /\ RowsAreFounded /\ FreshIsRead

(* Batch's IDs put the submissions into some order.                         *)
IdsAreDistinct ==
  /\ uid \in [Submissions -> Submissions]
  /\ \A r, s \in Submissions : uid[r] = uid[s] => r = s

-----------------------------------------------------------------------------
(* The bounds of a setting. *)
LEMMA BoundsAreTyped ==
  ASSUME LogsTyped
  PROVE  /\ setting.submissions \in Nat /\ setting.retries \in Nat
         /\ setting.tasks \subseteq Nat /\ IsFiniteSet(setting.tasks)
         /\ IsFiniteSet(Lanes)
<1>1. /\ setting.submissions \in Nat /\ setting.retries \in Nat
      /\ setting.tasks \subseteq Nat /\ IsFiniteSet(setting.tasks)
  BY ExecutionsAssumption DEF LogsTyped
<1>2. IsFiniteSet(Submissions)
  <2>1. 1 \in Int /\ setting.submissions \in Int
    BY <1>1
  <2>2. IsFiniteSet(1 .. setting.submissions)
    BY ONLY <2>1, FS_Interval
  <2>. QED
    BY <2>2 DEF Submissions
<1>. QED
  BY <1>1, <1>2, FS_Product DEF Lanes

(* The parts of the logs are what is in them. *)
LEMMA PartsAreAll ==
  ASSUME LogsTyped
  PROVE  /\ \A l \in Lanes : DOMAIN log[l] = 1 .. Len(log[l]) /\ Len(log[l]) \in Nat
         /\ \A l \in Lanes, i \in Nat : <<l, i>> \in Parts <=> i \in 1 .. Len(log[l])
         /\ \A x \in Parts : /\ x[1] \in Lanes /\ x[2] \in Nat \ {0}
                             /\ x = <<x[1], x[2]>> /\ x[2] \in DOMAIN log[x[1]]
         /\ \A l \in Lanes : /\ l = <<l[1], l[2]>>
                             /\ l[1] \in Nat \ {0} /\ l[2] \in setting.tasks /\ l[2] \in Nat
         /\ \A l \in Lanes : l \in Submitted <=> <<l, 1>> \in Parts
         /\ \A x \in Parts : Part(x) \in Entries /\ x[1] \in Submitted
<1>1. setting.submissions \in Nat /\ setting.retries \in Nat /\ setting.tasks \subseteq Nat
  BY BoundsAreTyped
<1>2. \A l \in Lanes : DOMAIN log[l] = 1 .. Len(log[l]) /\ Len(log[l]) \in Nat /\ log[l] \in Seq(Entries)
  BY DEF LogsTyped
<1>3. \A l \in Lanes, i \in Nat : <<l, i>> \in Parts <=> i \in 1 .. Len(log[l])
  <2> SUFFICES ASSUME NEW l \in Lanes, NEW i \in Nat PROVE <<l, i>> \in Parts <=> i \in 1 .. Len(log[l])
    OBVIOUS
  <2>1. Len(log[l]) <= setting.retries + 1
    BY DEF LogsTyped
  <2>2. i \in 1 .. Len(log[l]) => i \in 1 .. (setting.retries + 1)
    BY <1>1, <1>2, <2>1
  <2>. QED
    BY <1>2, <2>2 DEF Parts
<1>4. \A x \in Parts : /\ x[1] \in Lanes /\ x[2] \in Nat \ {0}
                       /\ x = <<x[1], x[2]>> /\ x[2] \in DOMAIN log[x[1]]
  BY <1>1 DEF Parts
<1>5. \A l \in Lanes : /\ l = <<l[1], l[2]>>
                       /\ l[1] \in Nat \ {0} /\ l[2] \in setting.tasks /\ l[2] \in Nat
  BY <1>1 DEF Lanes, Submissions
<1>6. \A l \in Lanes : l \in Submitted <=> <<l, 1>> \in Parts
  BY <1>2, <1>3 DEF Submitted
<1>7. \A x \in Parts : Part(x) \in Entries /\ x[1] \in Submitted
  <2> SUFFICES ASSUME NEW x \in Parts PROVE Part(x) \in Entries /\ x[1] \in Submitted
    OBVIOUS
  <2>1. log[x[1]][x[2]] \in Entries
    BY <1>2, <1>4
  <2>2. log[x[1]] # <<>>
    BY <1>2, <1>4
  <2>. QED
    BY <1>4, <2>1, <2>2 DEF Part, Submitted
<1>. QED
  BY <1>2, <1>3, <1>4, <1>5, <1>6, <1>7

(* A task that has been retried so often has a log that long. *)
LEMMA RetriesAreCounted ==
  ASSUME LogsTyped, NEW l \in Lanes, Retries < setting.retries
  PROVE  Len(log[l]) <= setting.retries
<1> DEFINE R == setting.retries
           all == Lanes \X (2 .. R + 1)
           retried == {x \in all : x[2] \in DOMAIN log[x[1]]}
           n == Len(log[l])
           f == [i \in 2 .. n |-> <<l, i>>]
<1>1. R \in Nat /\ n \in Nat /\ n <= R + 1 /\ DOMAIN log[l] = 1 .. n
  BY BoundsAreTyped, PartsAreAll DEF LogsTyped
<1>2. IsFiniteSet(retried)
  <2>1. IsFiniteSet(2 .. R + 1)
    <3>1. 2 \in Int /\ R + 1 \in Int
      BY <1>1
    <3> HIDE DEF R
    <3>. QED
      BY ONLY <3>1, FS_Interval
  <2>2. IsFiniteSet(all)
    BY <2>1, BoundsAreTyped, FS_Product
  <2>3. retried \in SUBSET all
    OBVIOUS
  <2> HIDE DEF all, retried
  <2>. QED
    BY <2>2, <2>3, FS_Subset
<1>3. \A i \in 2 .. n : <<l, i>> \in retried
  <2> SUFFICES ASSUME NEW i \in 2 .. n PROVE <<l, i>> \in retried
    OBVIOUS
  <2>1. i \in 2 .. R + 1 /\ i \in DOMAIN log[l]
    BY <1>1
  <2>. QED
    BY <2>1
<1>4. f \in Injection(2 .. n, retried)
  <2> HIDE DEF retried
  <2>. QED
    BY <1>3 DEF Injection, IsInjective
<1>5. Cardinality(2 .. n) <= Cardinality(retried)
  <2> HIDE DEF f, retried
  <2>. QED
    BY <1>2, <1>4, FS_Injection
<1>6. Cardinality(2 .. n) = IF 2 > n THEN 0 ELSE n - 1
  <2>1. Cardinality(2 .. n) = IF 2 > n THEN 0 ELSE n - 2 + 1
    <3>1. 2 \in Int /\ n \in Int
      BY <1>1
    <3> HIDE DEF n
    <3>. QED
      BY <3>1, FS_Interval
  <2>. QED
    BY <1>1, <2>1
<1>7. Cardinality(retried) \in Nat /\ Cardinality(retried) < R
  <2>1. Cardinality(retried) = Retries
    BY DEF Retries
  <2>. QED
    BY <1>2, <2>1, FS_CardinalityType
<1> HIDE DEF retried, n, R
<1>8. n <= R
  BY <1>1, <1>5, <1>6, <1>7
<1>. QED
  BY <1>8 DEF n, R

-----------------------------------------------------------------------------
(* Logs that only grow, among them the ones that were read to their end,    *)
(* leave what is stored founded.                                            *)
LEMMA GrowthKeepsRows ==
  ASSUME LogIInv, LogsTyped', UNCHANGED <<setting, storedVars>>,
         fresh' \subseteq fresh,
         \A l \in fresh' : log'[l] = log[l],
         \A l \in Lanes, i \in Nat : i \in 1 .. Len(log[l]) =>
           /\ i <= Len(log'[l])
           /\ log[l][i].vm # 0 => log'[l][i].vm = log[l][i].vm
           /\ log[l][i].ran => log'[l][i].ran
  PROVE  RowsAreFounded' /\ FreshIsRead'
<1> USE DEF storedVars
<1>1. Lanes' = Lanes
  BY DEF Lanes, Submissions
<1>2. LogsTyped
  BY DEF LogIInv
<1>3. /\ \A l \in Lanes : Len(log'[l]) \in Nat
      /\ \A l \in Lanes, i \in Nat : <<l, i>> \in Parts' <=> i \in 1 .. Len(log'[l])
      /\ \A x \in Parts' : /\ x[1] \in Lanes /\ x[2] \in Nat \ {0} /\ x = <<x[1], x[2]>>
      /\ \A l \in Lanes : l \in Submitted' <=> <<l, 1>> \in Parts'
  <2>1. (LogsTyped => /\ \A l \in Lanes : DOMAIN log[l] = 1 .. Len(log[l]) /\ Len(log[l]) \in Nat
                      /\ \A l \in Lanes, i \in Nat : <<l, i>> \in Parts <=> i \in 1 .. Len(log[l])
                      /\ \A x \in Parts : /\ x[1] \in Lanes /\ x[2] \in Nat \ {0}
                                          /\ x = <<x[1], x[2]>> /\ x[2] \in DOMAIN log[x[1]]
                      /\ \A l \in Lanes : l \in Submitted <=> <<l, 1>> \in Parts)'
    BY PartsAreAll, PTL
  <2>. QED
    BY <1>1, <2>1
<1>4. \A x \in Parts : /\ x \in Parts'
                       /\ Part(x).vm # 0 => Part(x)'.vm = Part(x).vm
                       /\ Part(x).ran => Part(x)'.ran
  <2> SUFFICES ASSUME NEW x \in Parts
               PROVE  /\ x \in Parts'
                      /\ Part(x).vm # 0 => Part(x)'.vm = Part(x).vm
                      /\ Part(x).ran => Part(x)'.ran
    OBVIOUS
  <2>1. /\ x[1] \in Lanes /\ x[2] \in Nat \ {0} /\ x = <<x[1], x[2]>>
        /\ x[2] \in 1 .. Len(log[x[1]])
    BY <1>2, PartsAreAll
  <2>2. x[2] \in 1 .. Len(log'[x[1]])
    BY <1>3, <2>1
  <2>. QED
    BY <1>3, <2>1, <2>2 DEF Part
<1>5. \A x \in Parts : Row(x)' = Row(x)
  BY DEF Row, Attempt
<1>6. RowsAreFounded'
  <2>1. \A e \in attempts' : \E x \in Parts' : e = Row(x)'
    BY <1>4, <1>5 DEF LogIInv, RowsAreFounded
  <2>2. \A e \in started' : \E x \in Parts' : e = Row(x)' /\ Part(x)'.ran
    BY <1>4, <1>5 DEF LogIInv, RowsAreFounded
  <2>3. ASSUME NEW u \in used'
        PROVE  \E x, y \in Parts' :
                 /\ x[1] = y[1] /\ y[2] <= x[2] /\ Part(y)'.vm # 0
                 /\ u = <<Row(x)', Vm(y[1], Part(y)'.vm)>> /\ Row(x)' \in attempts'
    <3>1. PICK x \in Parts, y \in Parts :
            /\ x[1] = y[1] /\ y[2] <= x[2] /\ Part(y).vm # 0
            /\ u = <<Row(x), Vm(y[1], Part(y).vm)>> /\ Row(x) \in attempts
      BY DEF LogIInv, RowsAreFounded
    <3>2. x \in Parts' /\ y \in Parts' /\ Part(y)'.vm = Part(y).vm /\ Row(x)' = Row(x)
      BY <1>4, <1>5, <3>1
    <3>3. Row(x)' \in attempts'
      BY <3>1, <3>2
    <3>. QED
      BY <3>1, <3>2, <3>3
  <2>. QED
    BY <2>1, <2>2, <2>3 DEF RowsAreFounded, Row, Attempt, Vm
<1>7. FreshIsRead'
  <2>1. ASSUME NEW l \in fresh' PROVE l \in Submitted'
    <3>1. l \in Submitted /\ l \in Lanes
      BY <2>1 DEF LogIInv, FreshIsRead, Submitted
    <3>. QED
      BY <1>1, <2>1, <3>1 DEF Submitted
  <2>2. ASSUME NEW x \in Parts', x[1] \in fresh'
        PROVE  /\ Row(x)' \in attempts'
               /\ Part(x)'.ran => Row(x)' \in started'
               /\ Part(x)'.vm # 0 => <<Row(x)', Vm(x[1], Part(x)'.vm)>> \in used'
    <3>1. /\ x[1] \in Lanes /\ x[2] \in Nat /\ x = <<x[1], x[2]>>
          /\ x[2] \in 1 .. Len(log[x[1]]) /\ log'[x[1]] = log[x[1]] /\ x[1] \in fresh
      BY <1>3, <2>2
    <3>2. x \in Parts
      BY <1>2, <3>1, PartsAreAll
    <3>3. Part(x)' = Part(x) /\ Row(x)' = Row(x)
      BY <1>5, <3>1, <3>2 DEF Part
    <3>. QED
      BY <3>1, <3>2, <3>3 DEF LogIInv, FreshIsRead
  <2>. QED
    BY <2>1, <2>2 DEF FreshIsRead, Row, Attempt, Vm
<1>. QED
  BY <1>6, <1>7

(* Nothing but logs, rows and links matters. *)
LEMMA OtherStepsKeepLogs ==
  ASSUME LogIInv, UNCHANGED <<setting, providerVars, storedVars>>
  PROVE  LogIInv'
<1>1. /\ setting' = setting /\ log' = log /\ over' = over
      /\ attempts' = attempts /\ started' = started /\ used' = used /\ fresh' = fresh
  BY DEF providerVars, storedVars
<1>2. Lanes' = Lanes /\ Submitted' = Submitted /\ Parts' = Parts
  BY <1>1 DEF Lanes, Submissions, Submitted, Parts
<1>3. \A x : Part(x)' = Part(x) /\ Row(x)' = Row(x)
  BY <1>1 DEF Part, Row, Attempt
<1>4. LogsTyped' /\ FirstComesFirst'
  BY <1>1, <1>2 DEF LogIInv, LogsTyped, FirstComesFirst
<1>5. RowsAreFounded'
  BY <1>1, <1>2, <1>3 DEF LogIInv, RowsAreFounded, Vm
<1>6. FreshIsRead'
  BY <1>1, <1>2, <1>3 DEF LogIInv, FreshIsRead, Vm
<1>. QED
  BY <1>4, <1>5, <1>6 DEF LogIInv

(* A log that goes on. *)
LEMMA GrowsKeepsLogs ==
  ASSUME LogIInv, NEW l \in Lanes, l \in Submitted, NEW entries, Grows(l, entries),
         entries \in Seq(Entries),
         Len(log[l]) <= Len(entries), Len(entries) <= setting.retries + 1,
         \A i \in 1 .. Len(log[l]) :
           /\ log[l][i].vm # 0 => entries[i].vm = log[l][i].vm
           /\ log[l][i].ran => entries[i].ran
  PROVE  LogIInv'
<1>1. /\ log' = [log EXCEPT ![l] = entries] /\ fresh' = fresh \ {l}
      /\ UNCHANGED <<setting, over, attempts, started, used>>
  BY DEF Grows, baselineVars, storedVars
<1>2. LogsTyped
  BY DEF LogIInv
<1>3. /\ Len(log[l]) \in Nat /\ DOMAIN log[l] = 1 .. Len(log[l])
      /\ log[l] # <<>> /\ Len(log[l]) # 0
  BY <1>2, PartsAreAll DEF Submitted, LogsTyped
<1>4. Lanes' = Lanes
  BY <1>1 DEF Lanes, Submissions
<1>5. \A m \in Lanes : log'[m] = IF m = l THEN entries ELSE log[m]
  BY <1>1, <1>2 DEF LogsTyped
<1>6. LogsTyped'
  <2>1. log' \in [Lanes -> Seq(Entries)]
    BY <1>1, <1>2 DEF LogsTyped
  <2>. QED
    BY <1>1, <1>2, <1>4, <1>5, <2>1 DEF LogsTyped, Entries
<1>7. Submitted' = Submitted
  <2>1. entries # <<>>
    BY <1>3
  <2>. QED
    BY <1>4, <1>5, <2>1 DEF Submitted
<1>8. FirstComesFirst'
  BY <1>1, <1>7 DEF LogIInv, FirstComesFirst
<1>9. RowsAreFounded' /\ FreshIsRead'
  <2>1. UNCHANGED <<setting, storedVars>>
    BY <1>1 DEF storedVars
  <2>2. fresh' \subseteq fresh /\ \A m \in fresh' : log'[m] = log[m]
    <3>1. \A m \in fresh : m \in Lanes
      BY DEF LogIInv, FreshIsRead, Submitted
    <3>. QED
      BY <1>1, <1>5, <3>1
  <2>3. \A m \in Lanes, i \in Nat : i \in 1 .. Len(log[m]) =>
           /\ i <= Len(log'[m])
           /\ log[m][i].vm # 0 => log'[m][i].vm = log[m][i].vm
           /\ log[m][i].ran => log'[m][i].ran
    <3> SUFFICES ASSUME NEW m \in Lanes, NEW i \in Nat, i \in 1 .. Len(log[m])
                 PROVE  /\ i <= Len(log'[m])
                        /\ log[m][i].vm # 0 => log'[m][i].vm = log[m][i].vm
                        /\ log[m][i].ran => log'[m][i].ran
      OBVIOUS
    <3>1. Len(log[m]) \in Nat
      BY <1>2, PartsAreAll
    <3>2. CASE m # l
      BY <1>5, <3>1, <3>2
    <3>3. CASE m = l
      <4>1. log'[m] = entries
        BY <1>5, <3>3
      <4>2. Len(entries) \in Nat
        OBVIOUS
      <4>. QED
        BY <3>1, <3>3, <4>1, <4>2
    <3>. QED
      BY <3>2, <3>3
  <2>. QED
    BY <1>6, <2>1, <2>2, <2>3, GrowthKeepsRows
<1>. QED
  BY <1>6, <1>8, <1>9 DEF LogIInv

(* The events of the task that is under way. *)
LEMMA EventsKeepLogs ==
  ASSUME LogIInv, NEW l \in Lanes,
         Run(l) \/ Retry(l) \/ \E v \in VMs : Assign(l, v)
  PROVE  LogIInv'
<1> DEFINE n == Len(log[l])
<1>1. LogsTyped /\ l \in Submitted
  BY DEF LogIInv, Run, Retry, Assign, Active
<1>2. /\ log[l] \in Seq(Entries) /\ n \in Nat /\ n # 0 /\ n <= setting.retries + 1
      /\ setting.retries \in Nat
  BY <1>1, PartsAreAll, BoundsAreTyped DEF LogsTyped, Submitted
<1>3. log[l][n] \in Entries
  BY <1>2
<1>4. ASSUME NEW entry \in Entries, Grows(l, [log[l] EXCEPT ![n] = entry]),
             log[l][n].vm # 0 => entry.vm = log[l][n].vm,
             log[l][n].ran => entry.ran
      PROVE  LogIInv'
  <2> DEFINE entries == [log[l] EXCEPT ![n] = entry]
  <2>1. /\ entries \in Seq(Entries) /\ Len(entries) = n
        /\ \A i \in 1 .. n : entries[i] = IF i = n THEN entry ELSE log[l][i]
    BY <1>2
  <2>2. \A i \in 1 .. n : /\ log[l][i].vm # 0 => entries[i].vm = log[l][i].vm
                          /\ log[l][i].ran => entries[i].ran
    BY <1>4, <2>1
  <2>3. Grows(l, entries)
    BY <1>4
  <2> HIDE DEF entries
  <2>. QED
    BY <1>1, <1>2, <2>1, <2>2, <2>3, GrowsKeepsLogs
<1>5. ASSUME NEW v \in VMs, Assign(l, v) PROVE LogIInv'
  <2> DEFINE entry == [log[l][n] EXCEPT !.vm = v]
  <2>1. entry \in Entries /\ entry.ran = log[l][n].ran
    BY <1>3 DEF Entries
  <2>2. [log[l] EXCEPT ![n].vm = v] = [log[l] EXCEPT ![n] = entry]
    OBVIOUS
  <2>3. Grows(l, [log[l] EXCEPT ![n] = entry]) /\ log[l][n].vm = 0
    BY <1>5, <2>2 DEF Assign, Current
  <2>4. log[l][n].ran => entry.ran
    BY <2>1
  <2> HIDE DEF entry
  <2>. QED
    BY <1>4, <2>1, <2>3, <2>4
<1>6. CASE Run(l)
  <2> DEFINE entry == [log[l][n] EXCEPT !.ran = TRUE]
  <2>1. entry \in Entries /\ entry.vm = log[l][n].vm /\ entry.ran
    BY <1>3 DEF Entries
  <2>2. [log[l] EXCEPT ![n].ran = TRUE] = [log[l] EXCEPT ![n] = entry]
    OBVIOUS
  <2>3. Grows(l, [log[l] EXCEPT ![n] = entry])
    BY <1>6, <2>2 DEF Run
  <2> HIDE DEF entry
  <2>. QED
    BY <1>4, <2>1, <2>3
<1>7. CASE Retry(l)
  <2> DEFINE entries == Append(log[l], Waiting)
  <2>1. Waiting \in Entries
    BY DEF Waiting, Entries
  <2>2. /\ entries \in Seq(Entries) /\ Len(entries) = n + 1
        /\ \A i \in 1 .. n : entries[i] = log[l][i]
    BY <1>2, <2>1
  <2>3. Grows(l, entries) /\ n <= setting.retries
    BY <1>1, <1>7, RetriesAreCounted DEF Retry
  <2>4. n <= Len(entries) /\ Len(entries) <= setting.retries + 1
    BY <1>2, <2>2, <2>3
  <2> HIDE DEF entries
  <2>. QED
    BY <1>1, <2>2, <2>3, <2>4, GrowsKeepsLogs
<1>. QED
  BY <1>5, <1>6, <1>7

(* A submission begins the logs of all of its tasks. *)
LEMMA SubmitKeepsLogs ==
  ASSUME LogIInv, NEW s \in Submissions, Submit(s) PROVE LogIInv'
<1>1. /\ log' = [l \in Lanes |-> IF l[1] = s THEN <<Waiting>> ELSE log[l]]
      /\ s > 1 => s - 1 \in over
      /\ \A t \in setting.tasks : log[<<s, t>>] = <<>>
      /\ UNCHANGED <<setting, over, fresh, attempts, started, used>>
  BY DEF Submit, baselineVars, storedVars
<1>2. LogsTyped /\ Lanes' = Lanes
  BY <1>1 DEF LogIInv, Lanes, Submissions
<1>3. \A l \in Lanes : l[1] = s => log[l] = <<>>
  <2> SUFFICES ASSUME NEW l \in Lanes, l[1] = s PROVE log[l] = <<>>
    OBVIOUS
  <2>1. l = <<s, l[2]>> /\ l[2] \in setting.tasks
    BY <1>2, PartsAreAll
  <2>. QED
    BY <1>1, <2>1
<1>4. /\ <<Waiting>> \in Seq(Entries) /\ Len(<<Waiting>>) = 1 /\ <<Waiting>> # <<>>
      /\ setting.retries \in Nat /\ setting.submissions \in Nat
  BY <1>2, BoundsAreTyped DEF Waiting, Entries
<1>5. LogsTyped'
  <2>1. log' \in [Lanes -> Seq(Entries)]
    BY <1>1, <1>2, <1>4 DEF LogsTyped
  <2>2. \A l \in Lanes : Len(log'[l]) <= setting.retries + 1
    BY <1>1, <1>2, <1>4 DEF LogsTyped
  <2>. QED
    BY <1>1, <1>2, <2>1, <2>2 DEF LogsTyped, Entries
<1>6. Submitted' = Submitted \cup {l \in Lanes : l[1] = s}
  BY <1>1, <1>2, <1>4 DEF Submitted
<1>7. FirstComesFirst'
  <2>1. over # {} => \A t \in setting.tasks : <<1, t>> \in Submitted
    BY DEF LogIInv, FirstComesFirst
  <2>2. ASSUME over = {} PROVE \A t \in setting.tasks : <<1, t>> \in Submitted'
    <3>1. s = 1
      BY <1>1, <1>4, <2>2 DEF Submissions
    <3>. QED
      BY <1>6, <3>1 DEF Lanes
  <2>3. \A t \in setting.tasks : <<1, t>> \in Submitted'
    BY <1>6, <2>1, <2>2
  <2>. QED
    BY <1>1, <2>3 DEF FirstComesFirst
<1>8. RowsAreFounded' /\ FreshIsRead'
  <2>1. UNCHANGED <<setting, storedVars>>
    BY <1>1 DEF storedVars
  <2>2. fresh' \subseteq fresh /\ \A l \in fresh' : log'[l] = log[l]
    BY <1>1, <1>3 DEF LogIInv, FreshIsRead, Submitted
  <2>3. \A l \in Lanes, i \in Nat : i \in 1 .. Len(log[l]) =>
           /\ i <= Len(log'[l])
           /\ log[l][i].vm # 0 => log'[l][i].vm = log[l][i].vm
           /\ log[l][i].ran => log'[l][i].ran
    <3> SUFFICES ASSUME NEW l \in Lanes, NEW i \in Nat, i \in 1 .. Len(log[l])
                 PROVE  i <= Len(log[l]) /\ log'[l] = log[l]
      OBVIOUS
    <3>1. Len(log[l]) \in Nat
      BY <1>2, PartsAreAll
    <3>2. log[l] # <<>>
      BY <3>1
    <3>. QED
      BY <1>1, <1>3, <3>1, <3>2
  <2>. QED
    BY <1>5, <2>1, <2>2, <2>3, GrowthKeepsRows
<1>. QED
  BY <1>5, <1>7, <1>8 DEF LogIInv

(* A submission that ends has begun. *)
LEMMA EndKeepsLogs ==
  ASSUME LogIInv, NEW s \in Submissions, End(s) PROVE LogIInv'
<1>1. UNCHANGED <<setting, log, fresh, attempts, started, used>> /\ over' = over \cup {s}
  BY DEF End, baselineVars, storedVars
<1>2. \A t \in setting.tasks : <<1, t>> \in Submitted
  BY DEF End, Active, LogIInv, FirstComesFirst
<1>3. LogsTyped' /\ RowsAreFounded' /\ FreshIsRead'
  BY <1>1 DEF LogIInv, LogsTyped, RowsAreFounded, FreshIsRead, Submitted, Parts, Part,
              Row, Attempt, Vm, Lanes, Submissions
<1>4. FirstComesFirst'
  BY <1>1, <1>2 DEF LogIInv, FirstComesFirst, Submitted, Lanes, Submissions
<1>. QED
  BY <1>3, <1>4 DEF LogIInv

(* A set of numbers has a least element. *)
LEMMA Smallest ==
  ASSUME NEW S \in SUBSET Nat, S # {}
  PROVE  \E m \in S : \A y \in S : m <= y
<1> DEFINE R == OpToRel(<, Nat)
<1>1. IsWellFoundedOn(R, Nat)
  BY NatLessThanWellFounded
<1>2. \A x, y \in Nat : y < x => <<y, x>> \in R
  BY DEF OpToRel
<1> HIDE DEF R
<1>3. PICK m \in S : \A y \in S : <<y, m>> \notin R
  BY <1>1, WFMin
<1>4. \A y \in S : ~(y < m)
  BY <1>2, <1>3
<1>. QED
  BY <1>3, <1>4

(* The greatest of a set of numbers up to another is in it. *)
LEMMA GreatestUpTo ==
  ASSUME NEW n \in Nat, NEW S \in SUBSET (1 .. n), S # {}
  PROVE  Max(S) \in S /\ \A y \in S : y <= Max(S)
<1> DEFINE T == {n - p : p \in S}
<1>1. T \in SUBSET Nat /\ T # {}
  <2>1. \A p \in 1 .. n : n - p \in Nat
    OBVIOUS
  <2>. QED
    BY <2>1
<1>2. PICK m \in T : \A y \in T : m <= y
  BY <1>1, Smallest
<1>3. PICK x \in S : m = n - x
  OBVIOUS
<1>4. \A y \in S : x >= y
  <2> SUFFICES ASSUME NEW y \in S PROVE x >= y
    OBVIOUS
  <2>1. n - x <= n - y
    BY <1>2, <1>3
  <2>. QED
    BY <2>1
<1>. QED
  BY <1>4 DEF Max

(* To read a log stores its parts, each with the VM that was named last. *)
LEMMA ReadKeepsLogs ==
  ASSUME LogIInv, NEW l \in Lanes, Read(l) PROVE LogIInv'
<1> DEFINE parts == DOMAIN log[l]
<1>1. /\ attempts' = attempts \cup {Attempt(l, Ordinal(l, i)) : i \in parts}
      /\ started' = started \cup {Attempt(l, Ordinal(l, i)) : i \in {j \in parts : log[l][j].ran}}
      /\ used' = used \cup UNION {{Attempt(l, Ordinal(l, i))} \X VmOf(l, i) : i \in parts}
      /\ fresh' = fresh \cup {l} /\ l \in Submitted
      /\ UNCHANGED <<setting, log, over>>
  BY DEF Read, baselineVars
<1>2. LogsTyped /\ Len(log[l]) \in Nat /\ parts = 1 .. Len(log[l])
  BY PartsAreAll DEF LogIInv
<1>3. /\ Lanes' = Lanes /\ Parts' = Parts /\ Submitted' = Submitted
      /\ \A x \in Parts : Part(x)' = Part(x)
  BY <1>1 DEF Lanes, Submissions, Parts, Part, Submitted
<1>4. \A i \in parts : /\ <<l, i>> \in Parts /\ Row(<<l, i>>) = Attempt(l, Ordinal(l, i))
                       /\ Part(<<l, i>>) = log[l][i]
  BY <1>2, PartsAreAll DEF Row, Ordinal, Part
<1>5. ASSUME NEW i \in parts, NEW v \in VmOf(l, i)
      PROVE  \E j \in parts : j <= i /\ log[l][j].vm # 0 /\ v = Vm(l, log[l][j].vm)
  <2>1. i \in Nat /\ NamedVms(l, i) # {} /\ v = Vm(l, log[l][Max(NamedVms(l, i))].vm)
    BY <1>2, <1>5 DEF VmOf
  <2>2. NamedVms(l, i) \in SUBSET (1 .. i)
    BY DEF NamedVms
  <2>3. PICK j \in NamedVms(l, i) : j = Max(NamedVms(l, i))
    BY <1>2, <2>1, <2>2, GreatestUpTo
  <2>4. j \in 1 .. i /\ log[l][j].vm # 0
    BY DEF NamedVms
  <2>5. j \in parts /\ j <= i
    BY <1>2, <2>1, <2>4
  <2> HIDE DEF parts
  <2>. QED
    BY <2>1, <2>3, <2>4, <2>5
<1>6. ASSUME NEW i \in parts, log[l][i].vm # 0
      PROVE  Vm(l, log[l][i].vm) \in VmOf(l, i)
  <2>1. i \in Nat /\ i \in NamedVms(l, i) /\ NamedVms(l, i) \in SUBSET (1 .. i)
    BY <1>2, <1>6 DEF NamedVms
  <2>2. Max(NamedVms(l, i)) = i
    <3>1. PICK j : j = Max(NamedVms(l, i))
      OBVIOUS
    <3>2. j \in NamedVms(l, i) /\ i <= j
      BY <2>1, <3>1, GreatestUpTo
    <3>3. j \in 1 .. i
      BY <2>1, <3>2
    <3>. QED
      BY <2>1, <3>1, <3>2, <3>3
  <2>. QED
    BY <2>1, <2>2 DEF VmOf
<1>7. RowsAreFounded'
  <2>1. ASSUME NEW e \in attempts' PROVE \E x \in Parts' : e = Row(x)'
    <3>1. CASE e \in attempts
      BY <1>3, <3>1 DEF LogIInv, RowsAreFounded, Row, Attempt
    <3>2. CASE e \notin attempts
      <4>1. PICK i \in parts : e = Attempt(l, Ordinal(l, i))
        BY <1>1, <2>1, <3>2
      <4>2. <<l, i>> \in Parts' /\ e = Row(<<l, i>>)'
        BY <1>3, <1>4, <4>1 DEF Row, Attempt
      <4>. QED
        BY <4>2
    <3>. QED
      BY <3>1, <3>2
  <2>2. ASSUME NEW e \in started' PROVE \E x \in Parts' : e = Row(x)' /\ Part(x)'.ran
    <3>1. CASE e \in started
      BY <1>3, <3>1 DEF LogIInv, RowsAreFounded, Row, Attempt
    <3>2. CASE e \notin started
      <4>1. PICK i \in parts : log[l][i].ran /\ e = Attempt(l, Ordinal(l, i))
        BY <1>1, <2>2, <3>2
      <4>2. <<l, i>> \in Parts' /\ e = Row(<<l, i>>)' /\ Part(<<l, i>>)'.ran
        BY <1>3, <1>4, <4>1 DEF Row, Attempt
      <4>. QED
        BY <4>2
    <3>. QED
      BY <3>1, <3>2
  <2>3. ASSUME NEW u \in used'
        PROVE  \E x, y \in Parts' :
                 /\ x[1] = y[1] /\ y[2] <= x[2] /\ Part(y)'.vm # 0
                 /\ u = <<Row(x)', Vm(y[1], Part(y)'.vm)>> /\ Row(x)' \in attempts'
    <3>1. CASE u \in used
      <4>1. PICK x \in Parts, y \in Parts :
              /\ x[1] = y[1] /\ y[2] <= x[2] /\ Part(y).vm # 0
              /\ u = <<Row(x), Vm(y[1], Part(y).vm)>> /\ Row(x) \in attempts
        BY <3>1 DEF LogIInv, RowsAreFounded
      <4>2. x \in Parts' /\ y \in Parts' /\ Part(y)' = Part(y) /\ Row(x)' = Row(x)
        BY <1>3 DEF Row, Attempt
      <4>. QED
        BY <1>1, <4>1, <4>2
    <3>2. CASE u \notin used
      <4>1. PICK i \in parts : u \in {Attempt(l, Ordinal(l, i))} \X VmOf(l, i)
        BY <1>1, <2>3, <3>2
      <4>2. PICK v \in VmOf(l, i) : u = <<Attempt(l, Ordinal(l, i)), v>>
        BY <4>1
      <4>3. PICK j \in parts : j <= i /\ log[l][j].vm # 0 /\ v = Vm(l, log[l][j].vm)
        BY <1>5
      <4>4. /\ <<l, i>> \in Parts' /\ <<l, j>> \in Parts'
            /\ Part(<<l, j>>)' = log[l][j] /\ Row(<<l, i>>)' = Attempt(l, Ordinal(l, i))
            /\ Row(<<l, i>>)' \in attempts'
        BY <1>1, <1>3, <1>4 DEF Row, Attempt
      <4>. QED
        BY <4>2, <4>3, <4>4
    <3>. QED
      BY <3>1, <3>2
  <2>. QED
    BY <2>1, <2>2, <2>3 DEF RowsAreFounded, Row, Attempt, Vm
<1>8. FreshIsRead'
  <2>1. fresh' \subseteq Submitted'
    BY <1>1, <1>3 DEF LogIInv, FreshIsRead
  <2>2. ASSUME NEW x \in Parts', x[1] \in fresh'
        PROVE  /\ Row(x)' \in attempts'
               /\ Part(x)'.ran => Row(x)' \in started'
               /\ Part(x)'.vm # 0 => <<Row(x)', Vm(x[1], Part(x)'.vm)>> \in used'
    <3>1. x \in Parts /\ Part(x)' = Part(x) /\ Row(x)' = Row(x)
      BY <1>3 DEF Row, Attempt
    <3>2. CASE x[1] \in fresh
      BY <1>1, <3>1, <3>2 DEF LogIInv, FreshIsRead
    <3>3. CASE x[1] \notin fresh
      <4>1. PICK i \in parts : x = <<l, i>>
        BY <1>1, <1>2, <2>2, <3>1, <3>3, PartsAreAll
      <4>2. Row(x) = Attempt(l, Ordinal(l, i)) /\ Part(x) = log[l][i] /\ x[1] = l
        BY <1>4, <4>1
      <4>3. Row(x) \in attempts'
        BY <1>1, <4>2
      <4>4. Part(x).ran => Row(x) \in started'
        BY <1>1, <4>2
      <4>5. ASSUME Part(x).vm # 0 PROVE <<Row(x), Vm(x[1], Part(x).vm)>> \in used'
        <5>1. Vm(l, log[l][i].vm) \in VmOf(l, i)
          BY <1>6, <4>2, <4>5
        <5>2. <<Row(x), Vm(x[1], Part(x).vm)>> \in {Attempt(l, Ordinal(l, i))} \X VmOf(l, i)
          BY <4>2, <5>1
        <5>. QED
          BY <1>1, <5>2
      <4>. QED
        BY <3>1, <4>3, <4>4, <4>5
    <3>. QED
      BY <3>2, <3>3
  <2>. QED
    BY <2>1, <2>2 DEF FreshIsRead, Row, Attempt, Vm
<1>9. LogsTyped' /\ FirstComesFirst'
  BY <1>1, <1>3 DEF LogIInv, LogsTyped, FirstComesFirst, Entries
<1>. QED
  BY <1>7, <1>8, <1>9 DEF LogIInv

(* Before anything is submitted. *)
LEMMA LogInitSound == Init => LogIInv
<1> SUFFICES ASSUME Init PROVE LogIInv
  OBVIOUS
<1>1. /\ setting \in Settings /\ log = [l \in Lanes |-> <<>>]
      /\ over = {} /\ fresh = {} /\ attempts = {} /\ started = {} /\ used = {}
  BY DEF Init, BaselineInit
<1>2. setting.retries \in Nat
  BY <1>1, ExecutionsAssumption
<1>3. LogsTyped
  BY <1>1, <1>2 DEF LogsTyped
<1>4. Submitted = {} /\ Parts = {}
  BY <1>1 DEF Submitted, Parts
<1>. QED
  BY <1>1, <1>3, <1>4 DEF LogIInv, FirstComesFirst, RowsAreFounded, FreshIsRead

(* Every step keeps it. *)
LEMMA StepsKeepLogs == LogIInv /\ [Next]_vars => LogIInv'
<1> SUFFICES ASSUME LogIInv, [Next]_vars PROVE LogIInv'
  OBVIOUS
<1>1. CASE \/ Reconfigure \/ ReclassifyBaseline \/ StartsCollector \/ StopsCollector
           \/ Ticks \/ Enrolls \/ GalaxyRecordsStart \/ CollectsRecord \/ UNCHANGED vars
  <2>1. UNCHANGED <<setting, providerVars, storedVars>>
    BY <1>1 DEF Reconfigure, Configure, ReclassifyBaseline, Reclassify, StartsCollector,
                StartCollector, StopsCollector, StopCollector, Ticks, Tick, Enrolls, Enroll,
                GalaxyRecordsStart, ToolStarts, CollectsRecord, CollectRecord, Untouched,
                vars, baselineVars, providerVars, storedVars
  <2>. QED
    BY <2>1, OtherStepsKeepLogs
<1>2. ASSUME NEW s \in Submissions, Submit(s) \/ End(s) PROVE LogIInv'
  BY <1>2, SubmitKeepsLogs, EndKeepsLogs
<1>3. ASSUME NEW l \in Lanes, Run(l) \/ Retry(l) \/ Read(l) \/ \E v \in VMs : Assign(l, v)
      PROVE  LogIInv'
  BY <1>3, EventsKeepLogs, ReadKeepsLogs
<1>. QED
  BY <1>1, <1>2, <1>3 DEF Next

(* What is stored follows the logs. *)
LEMMA LogIInvHolds == Spec => []LogIInv
BY LogInitSound, StepsKeepLogs, PTL DEF Spec

(* No step draws an ID again.                                               *)
LEMMA IdsStayDistinct == Spec => []IdsAreDistinct
<1>1. Init => IdsAreDistinct
  BY DEF Init, IdsAreDistinct
<1>2. [Next]_vars => UNCHANGED <<setting, uid>>
  BY DEF Next, Reconfigure, Configure, ReclassifyBaseline, Reclassify, StartsCollector,
         StartCollector, StopsCollector, StopCollector, Ticks, Tick, Enrolls, Enroll,
         GalaxyRecordsStart, ToolStarts, CollectsRecord, CollectRecord, Untouched, Submit, End,
         Run, Retry, Read, Assign, Grows, vars, baselineVars, providerVars, storedVars
<1>3. IdsAreDistinct /\ [Next]_vars => IdsAreDistinct'
  BY <1>2 DEF IdsAreDistinct, Submissions
<1>. QED
  BY <1>1, <1>3, PTL DEF Spec

(* They can be compared.                                                    *)
LEMMA IdsAreNumbers ==
  ASSUME LogIInv, IdsAreDistinct
  PROVE  /\ \A s \in Submissions : uid[s] \in Nat
         /\ \A r, s \in Submissions : uid[r] = uid[s] => r = s
BY BoundsAreTyped DEF LogIInv, IdsAreDistinct, Submissions

-----------------------------------------------------------------------------
(* What the rows of logs that were read to their ends say. *)
LEMMA RowsOfReadLogs ==
  ASSUME LogIInv, UpToDate
  PROVE  /\ attempts = {Row(x) : x \in Parts}
         /\ \A x \in Parts : Row(x) \in started <=> Part(x).ran
         /\ \A x, y \in Parts : Row(x) = Row(y) => x = y
         /\ \A x \in Parts : Part(x).vm # 0 => <<Row(x), Vm(x[1], Part(x).vm)>> \in used
         /\ \A x \in Parts : /\ Row(x).submission = x[1][1] /\ x[1][1] \in Nat \ {0}
                             /\ Row(x).task = x[1][2] /\ x[1][2] \in setting.tasks
                             /\ Row(x).ordinal = x[2] - 1 /\ x[2] \in Nat \ {0}
                             /\ x = <<<<x[1][1], x[1][2]>>, x[2]>>
         /\ \A t \in setting.tasks : <<<<1, t>>, 1>> \in Parts
<1>1. LogsTyped
  BY DEF LogIInv
<1>2. \A x \in Parts : /\ Row(x) \in attempts
                       /\ Part(x).ran => Row(x) \in started
                       /\ Part(x).vm # 0 => <<Row(x), Vm(x[1], Part(x).vm)>> \in used
  BY <1>1, PartsAreAll DEF LogIInv, FreshIsRead, UpToDate
<1>3. \A x \in Parts : /\ Row(x).submission = x[1][1] /\ x[1][1] \in Nat \ {0}
                       /\ Row(x).task = x[1][2] /\ x[1][2] \in setting.tasks
                       /\ Row(x).ordinal = x[2] - 1 /\ x[2] \in Nat \ {0}
                       /\ x = <<<<x[1][1], x[1][2]>>, x[2]>>
  BY <1>1, PartsAreAll DEF Row, Attempt
<1>4. \A x, y \in Parts : Row(x) = Row(y) => x = y
  <2> SUFFICES ASSUME NEW x \in Parts, NEW y \in Parts, Row(x) = Row(y) PROVE x = y
    OBVIOUS
  <2>1. x[1][1] = y[1][1] /\ x[1][2] = y[1][2] /\ x[2] - 1 = y[2] - 1
    BY <1>3
  <2>2. x[2] = y[2]
    BY <1>3, <2>1
  <2>. QED
    BY <1>3, <2>1, <2>2
<1>5. attempts = {Row(x) : x \in Parts}
  BY <1>2 DEF LogIInv, RowsAreFounded
<1>6. \A x \in Parts : Row(x) \in started => Part(x).ran
  <2> SUFFICES ASSUME NEW x \in Parts, Row(x) \in started PROVE Part(x).ran
    OBVIOUS
  <2>1. PICK y \in Parts : Row(x) = Row(y) /\ Part(y).ran
    BY DEF LogIInv, RowsAreFounded
  <2>2. x = y
    BY <1>4, <2>1
  <2>. QED
    BY <2>1, <2>2
<1>7. \A t \in setting.tasks : <<<<1, t>>, 1>> \in Parts
  <2> SUFFICES ASSUME NEW t \in setting.tasks PROVE <<<<1, t>>, 1>> \in Parts
    OBVIOUS
  <2>1. <<1, t>> \in Submitted
    BY DEF UpToDate, LogIInv, FirstComesFirst
  <2>2. <<1, t>> \in Lanes
    BY <2>1 DEF Submitted
  <2>. QED
    BY <1>1, <2>1, <2>2, PartsAreAll
<1>. QED
  BY <1>2, <1>3, <1>4, <1>5, <1>6, <1>7

(* The VM of a link worked for the submission, for the same task, in this   *)
(* part of its log or in one before.                                        *)
LEMMA LinksAreFounded ==
  ASSUME LogIInv, UpToDate, NEW x \in Parts, NEW v, <<Row(x), v>> \in used
  PROVE  \E y \in Parts : /\ y[1] = x[1] /\ y[2] <= x[2] /\ Part(y).vm # 0
                          /\ v = Vm(y[1], Part(y).vm) /\ y \in RunOn(v)
<1>1. PICK z \in Parts, y \in Parts :
        /\ z[1] = y[1] /\ y[2] <= z[2] /\ Part(y).vm # 0
        /\ <<Row(x), v>> = <<Row(z), Vm(y[1], Part(y).vm)>>
  BY DEF LogIInv, RowsAreFounded
<1>2. x = z
  BY <1>1, RowsOfReadLogs
<1>. QED
  BY <1>1, <1>2 DEF RunOn

(* The VMs that are charged are the ones that worked. *)
LEMMA LinkedAreUsed ==
  ASSUME LogIInv PROVE TotalsSurviveStaleLinks
<1> SUFFICES ASSUME UpToDate PROVE LinkedVms = UsedVms
  BY DEF TotalsSurviveStaleLinks
<1>1. ASSUME NEW v \in LinkedVms PROVE v \in UsedVms
  <2>1. PICK e \in attempts : <<e, v>> \in used
    BY DEF LinkedVms, Users
  <2>2. PICK x \in Parts : e = Row(x)
    BY RowsOfReadLogs
  <2>3. RunOn(v) # {}
    BY <2>1, <2>2, LinksAreFounded
  <2>. QED
    BY <2>3 DEF UsedVms, LinkedVms
<1>2. ASSUME NEW v \in UsedVms PROVE v \in LinkedVms
  <2>1. PICK x \in Parts : Vm(x[1], Part(x).vm) = v
    BY DEF UsedVms, RunOn
  <2>2. Part(x).vm # 0
    <3>1. PICK s \in Submissions, w \in VMs : v = <<s, w>>
      BY DEF UsedVms, AllVms
    <3>. QED
      BY <2>1, <3>1, ExecutionsAssumption DEF Vm
  <2>3. <<Row(x), v>> \in used /\ Row(x) \in attempts
    BY <2>1, <2>2, RowsOfReadLogs
  <2>. QED
    BY <2>3 DEF LinkedVms, UsedVms, Users
<1>. QED
  BY <1>1, <1>2

-----------------------------------------------------------------------------
(* Unless a first attempt was lost, the attempts that are reported as       *)
(* repeats are the ones that were, if each of those has a VM.               *)
LEMMA RepeatsAreTrue ==
  ASSUME LogIInv, IdsAreDistinct, UpToDate, RepeatsAreComplete, ~FirstAttemptIsLost,
         NEW x \in Parts
  PROVE  Row(x) \in Repeats <=> x \in ReallyRepeats
<1> DEFINE t == x[1][2]
           first == <<<<1, t>>, 1>>
<1>1. first \in Parts /\ t \in setting.tasks
  BY RowsOfReadLogs
<1>2. /\ Row(first).submission = 1 /\ Row(first).task = t /\ Row(first).ordinal = 0
      /\ first[1][1] = 1 /\ first[1][2] = t /\ first[1] = <<1, t>> /\ first[2] = 1
      /\ Row(first) \in attempts /\ Row(x) \in attempts
  <2>1. /\ Row(first).submission = first[1][1] /\ Row(first).task = first[1][2]
        /\ Row(first).ordinal = first[2] - 1
    BY <1>1, RowsOfReadLogs
  <2>2. first[1][1] = 1 /\ first[1][2] = t /\ first[2] = 1 /\ first[1] = <<1, t>>
    OBVIOUS
  <2>3. Row(first) \in attempts /\ Row(x) \in attempts
    BY <1>1, RowsOfReadLogs
  <2>. QED
    BY <2>1, <2>2, <2>3
<1>3. /\ Row(x).submission = x[1][1] /\ x[1][1] \in Nat \ {0} /\ Row(x).task = t
      /\ Row(x).ordinal = x[2] - 1 /\ x[2] \in Nat \ {0}
      /\ x = <<<<x[1][1], t>>, x[2]>>
  BY RowsOfReadLogs
<1>4. x \notin ReallyRepeats <=> x = first
  <2>1. x \notin ReallyRepeats <=> x[1][1] = 1 /\ x[2] = 1
    BY <1>3 DEF ReallyRepeats
  <2>. QED
    BY <1>2, <1>3, <2>1
<1>5. first \notin ReallyRepeats
  BY <1>2 DEF ReallyRepeats
<1> HIDE DEF first
\* A first attempt without a VM that sorts behind another has no charge.
<1>6. ASSUME Row(first) \in Repeats PROVE Part(first).vm # 0
  <2>1. PICK v \in LinkedVms : Row(first) \in Users(v)
    BY <1>6 DEF RepeatsAreComplete
  <2>2. PICK y \in Parts : y[1] = first[1] /\ y[2] <= first[2] /\ Part(y).vm # 0
    BY <1>1, <2>1, LinksAreFounded DEF Users
  <2>3. y = first
    <3>1. y[1] = <<1, t>> /\ y[2] = 1
      BY <1>2, <2>2, RowsOfReadLogs
    <3>2. y = <<y[1], y[2]>>
      BY RowsOfReadLogs
    <3>. QED
      BY <3>1, <3>2 DEF first
  <2>. QED
    BY <2>2, <2>3
<1>7. ASSUME NEW y \in Parts, y[1][2] = t, y # first, Row(first) \notin started,
             Part(y).ran \/ (y[2] = 1 /\ uid[y[1][1]] < uid[1]),
             Row(first) \in Repeats
      PROVE  FALSE
  <2>1. ~Part(first).ran /\ Part(first).vm # 0
    BY <1>1, <1>6, <1>7, RowsOfReadLogs
  <2>2. y \in ReallyRepeats
    <3>1. /\ y[1][1] \in Nat \ {0} /\ y[2] \in Nat \ {0} /\ y = <<<<y[1][1], t>>, y[2]>>
      BY <1>7, RowsOfReadLogs
    <3>. QED
      BY <1>7, <3>1 DEF ReallyRepeats, first
  <2>3. first \in Parts \ ReallyRepeats /\ y[1][2] = first[1][2]
    BY <1>1, <1>2, <1>5, <1>7
  <2>4. Part(y).ran \/ (y[2] = 1 /\ uid[y[1][1]] < uid[first[1][1]])
    BY <1>2, <1>7
  <2>. QED
    BY <2>1, <2>2, <2>3, <2>4 DEF FirstAttemptIsLost
<1>8. ASSUME Row(first) \in Repeats PROVE FALSE
  <2>1. PICK e \in attempts : e.task = t /\ Before(e, Row(first))
    BY <1>2, <1>8 DEF Repeats
  <2>2. PICK y \in Parts : e = Row(y)
    BY RowsOfReadLogs
  <2>3. /\ e.submission = y[1][1] /\ e.ordinal = y[2] - 1 /\ y[1][2] = t
        /\ y[1][1] \in Nat \ {0} /\ y[2] \in Nat \ {0}
    BY <2>1, <2>2, RowsOfReadLogs
  <2>4. Row(first) \notin started
    BY <1>2, <2>1, <2>3 DEF Before
  <2>5. CASE e \in started
    <3>1. Part(y).ran
      BY <2>2, <2>5, RowsOfReadLogs
    <3>2. y # first
      BY <2>2, <2>4, <2>5
    <3>. QED
      BY <1>7, <1>8, <2>3, <2>4, <3>1, <3>2
  <2>6. CASE e \notin started
    <3>1. y[2] = 1 /\ uid[y[1][1]] < uid[1]
      BY <1>2, <2>1, <2>3, <2>4, <2>6 DEF Before
    <3>2. 1 \in Submissions
      BY <1>1, <1>2, PartsAreAll DEF LogIInv, Lanes
    <3>3. uid[1] \in Nat
      BY <3>2, IdsAreNumbers
    <3>4. y # first
      BY <1>2, <3>1, <3>3
    <3>. QED
      BY <1>7, <1>8, <2>3, <2>4, <3>1, <3>4
  <2>. QED
    BY <2>5, <2>6
<1>9. ASSUME x \in ReallyRepeats PROVE Row(x) \in Repeats
  <2>1. x[1][1] > 1 \/ x[2] > 1
    BY <1>9 DEF ReallyRepeats
  <2>2. 1 \in Submissions /\ x[1][1] \in Submissions
    BY <1>1, <1>2, PartsAreAll DEF LogIInv, Lanes
  <2>3. /\ uid[1] \in Nat /\ uid[x[1][1]] \in Nat
        /\ uid[1] = uid[x[1][1]] => x[1][1] = 1
    BY <2>2, IdsAreNumbers
  <2>4. Before(Row(first), Row(x)) \/ Before(Row(x), Row(first))
    BY <1>2, <1>3, <2>1, <2>3 DEF Before
  <2>5. ~Before(Row(x), Row(first))
    BY <1>2, <1>3, <1>8 DEF Repeats
  <2>. QED
    BY <1>2, <1>3, <2>4, <2>5 DEF Repeats
<1>. QED
  BY <1>4, <1>8, <1>9

(* A VM is charged to repeats if and only if nothing but repeats ran on it. *)
LEMMA RepeatVmsAreTrue ==
  ASSUME LogIInv, IdsAreDistinct PROVE RepeatSpendIsTrue
<1> SUFFICES ASSUME UpToDate, RepeatsAreComplete, ~FirstAttemptIsLost
             PROVE  RepeatVms = {v \in UsedVms : RunOn(v) \subseteq ReallyRepeats}
  BY DEF RepeatSpendIsTrue, SplitIsTrue
<1>1. LinkedVms = UsedVms
  BY LinkedAreUsed DEF TotalsSurviveStaleLinks
<1>2. ASSUME NEW v \in LinkedVms, Users(v) \subseteq Repeats, NEW x \in RunOn(v)
      PROVE  x \in ReallyRepeats
  <2>1. x \in Parts /\ v = Vm(x[1], Part(x).vm)
    BY DEF RunOn
  <2>2. Part(x).vm # 0
    <3>1. PICK s \in Submissions, w \in VMs : v = <<s, w>>
      BY DEF LinkedVms, AllVms
    <3>. QED
      BY <2>1, <3>1, ExecutionsAssumption DEF Vm
  <2>3. Row(x) \in Users(v)
    BY <2>1, <2>2, RowsOfReadLogs DEF Users
  <2>. QED
    BY <1>2, <2>1, <2>3, RepeatsAreTrue
<1>3. ASSUME NEW v \in LinkedVms, RunOn(v) \subseteq ReallyRepeats, NEW e \in Users(v)
      PROVE  e \in Repeats
  <2>1. PICK x \in Parts : e = Row(x) /\ <<e, v>> \in used
    BY RowsOfReadLogs DEF Users
  <2>2. PICK y \in Parts : y[1] = x[1] /\ y[2] <= x[2] /\ y \in RunOn(v)
    BY <2>1, LinksAreFounded
  <2>3. y[1][1] > 1 \/ y[2] > 1
    BY <1>3, <2>2 DEF ReallyRepeats
  <2>4. y[2] \in Nat /\ x[2] \in Nat /\ y[1][1] = x[1][1]
    BY <2>2, RowsOfReadLogs
  <2>5. x \in ReallyRepeats
    BY <2>2, <2>3, <2>4 DEF ReallyRepeats
  <2>. QED
    BY <2>1, <2>5, RepeatsAreTrue
<1>. QED
  BY <1>1, <1>2, <1>3 DEF RepeatVms

-----------------------------------------------------------------------------
(* Some element of a set comes first, by a number and then by another.      *)
LEMMA FirstInOrder ==
  ASSUME NEW S, S # {}, NEW a \in [S -> Nat], NEW b \in [S -> Nat]
  PROVE  \E m \in S : \A y \in S : a[m] < a[y] \/ (a[m] = a[y] /\ b[m] <= b[y])
<1> DEFINE A == {a[x] : x \in S}
<1>1. A \in SUBSET Nat /\ A # {}
  OBVIOUS
<1>2. PICK i \in A : \A y \in A : i <= y
  BY <1>1, Smallest
<1> DEFINE T == {x \in S : a[x] = i}
           B == {b[x] : x \in T}
<1>3. B \in SUBSET Nat /\ B # {}
  OBVIOUS
<1>4. PICK j \in B : \A y \in B : j <= y
  <2> HIDE DEF B
  <2>. QED
    BY <1>3, Smallest
<1>5. PICK m \in T : b[m] = j
  OBVIOUS
<1>6. ASSUME NEW y \in S PROVE a[m] < a[y] \/ (a[m] = a[y] /\ b[m] <= b[y])
  <2>1. a[m] = i /\ i <= a[y] /\ a[y] \in Nat /\ i \in Nat
    BY <1>1, <1>2
  <2>2. a[y] = i => b[m] <= b[y]
    BY <1>4, <1>5
  <2>. QED
    BY <2>1, <2>2
<1>. QED
  BY <1>6

(* Of the attempts at a task exactly one comes before all others.           *)
LEMMA OneAttemptIsFirst ==
  ASSUME LogIInv, IdsAreDistinct, UpToDate, NEW t \in setting.tasks
  PROVE  /\ \E f \in attempts \ Repeats : f.task = t
         /\ \A f, g \in attempts \ Repeats : f.task = t /\ g.task = t => f = g
<1> DEFINE ofTask == {e \in attempts : e.task = t}
<1>1. \A e \in attempts :
        /\ e.submission \in Nat /\ e.ordinal \in Nat /\ e.submission \in Submissions
        /\ e = [submission |-> e.submission, task |-> e.task, ordinal |-> e.ordinal]
  <2> SUFFICES ASSUME NEW e \in attempts
               PROVE  /\ e.submission \in Nat /\ e.ordinal \in Nat
                      /\ e.submission \in Submissions
                      /\ e = [submission |-> e.submission, task |-> e.task, ordinal |-> e.ordinal]
    OBVIOUS
  <2>1. PICK x \in Parts : e = Row(x)
    BY RowsOfReadLogs
  <2>2. e.submission \in Nat /\ e.ordinal \in Nat
    BY <2>1, RowsOfReadLogs
  <2>4. e.submission \in Submissions
    BY <2>1, RowsOfReadLogs, PartsAreAll DEF LogIInv, Lanes
  <2>3. e = [submission |-> x[1][1], task |-> x[1][2], ordinal |-> x[2] - 1]
    BY <2>1 DEF Row, Attempt
  <2>. QED
    BY <2>2, <2>3, <2>4
<1>2. ofTask # {}
  <2>1. <<<<1, t>>, 1>> \in Parts
    BY RowsOfReadLogs
  <2>2. Row(<<<<1, t>>, 1>>) \in attempts /\ Row(<<<<1, t>>, 1>>).task = t
    BY <2>1, RowsOfReadLogs
  <2>. QED
    BY <2>2
<1>3. \E f \in ofTask : \A e \in ofTask : ~Before(e, f)
  <2>1. CASE ofTask \cap started # {}
    <3> DEFINE S == ofTask \cap started
               a == [e \in S |-> e.submission]
               b == [e \in S |-> e.ordinal]
    <3>1. a \in [S -> Nat] /\ b \in [S -> Nat]
      BY <1>1
    <3>2. PICK m \in S : \A y \in S : a[m] < a[y] \/ (a[m] = a[y] /\ b[m] <= b[y])
      <4>1. S # {}
        BY <2>1
      <4> HIDE DEF S, a, b
      <4>. QED
        BY ONLY <3>1, <4>1, FirstInOrder
    <3>3. \A y \in S : m.submission < y.submission
                       \/ (m.submission = y.submission /\ m.ordinal <= y.ordinal)
      BY <3>2
    <3>4. ASSUME NEW e \in ofTask PROVE ~Before(e, m)
      <4>1. e \in attempts /\ m \in attempts /\ m \in started
        OBVIOUS
      <4>2. CASE e \in started
        <5>1. m.submission < e.submission \/ (m.submission = e.submission /\ m.ordinal <= e.ordinal)
          BY <3>3, <4>2
        <5>. QED
          BY <1>1, <4>1, <4>2, <5>1 DEF Before
      <4>3. CASE e \notin started
        BY <4>1, <4>3 DEF Before
      <4>. QED
        BY <4>2, <4>3
    <3>. QED
      BY <3>4
  <2>2. CASE ofTask \cap started = {}
    <3> DEFINE a == [e \in ofTask |-> e.ordinal]
               b == [e \in ofTask |-> uid[e.submission]]
    <3>1. a \in [ofTask -> Nat] /\ b \in [ofTask -> Nat]
      BY <1>1, IdsAreNumbers
    <3>2. PICK m \in ofTask : \A y \in ofTask : a[m] < a[y] \/ (a[m] = a[y] /\ b[m] <= b[y])
      <4> HIDE DEF ofTask, a, b
      <4>. QED
        BY <1>2, <3>1, FirstInOrder
    <3>3. \A y \in ofTask : m.ordinal < y.ordinal
                            \/ (m.ordinal = y.ordinal /\ uid[m.submission] <= uid[y.submission])
      BY <3>2
    <3>4. ASSUME NEW e \in ofTask PROVE ~Before(e, m)
      <4>1. e \in attempts /\ m \in attempts /\ m \notin started /\ e \notin started
        BY <2>2
      <4>2. m.ordinal < e.ordinal \/ (m.ordinal = e.ordinal /\ uid[m.submission] <= uid[e.submission])
        BY <3>3
      <4>3. uid[m.submission] \in Nat /\ uid[e.submission] \in Nat
        BY <1>1, <4>1, IdsAreNumbers
      <4>. QED
        BY <1>1, <4>1, <4>2, <4>3 DEF Before
    <3>. QED
      BY <3>4
  <2>. QED
    BY <2>1, <2>2
<1>4. \E f \in attempts \ Repeats : f.task = t
  <2>1. PICK f \in ofTask : \A e \in ofTask : ~Before(e, f)
    BY <1>3
  <2>2. f \in attempts /\ f.task = t
    OBVIOUS
  <2>3. f \notin Repeats
    BY <2>1, <2>2 DEF Repeats
  <2>. QED
    BY <2>2, <2>3
<1>5. ASSUME NEW f \in attempts \ Repeats, NEW g \in attempts \ Repeats, f.task = t, g.task = t
      PROVE  f = g
  <2>1. ~Before(f, g) /\ ~Before(g, f)
    BY <1>5 DEF Repeats
  <2>3. /\ uid[f.submission] \in Nat /\ uid[g.submission] \in Nat
        /\ uid[f.submission] = uid[g.submission] => f.submission = g.submission
    BY <1>1, IdsAreNumbers
  <2>2. f.submission = g.submission /\ f.ordinal = g.ordinal
    BY <1>1, <2>1, <2>3 DEF Before
  <2>. QED
    BY <1>1, <1>5, <2>2
<1>. QED
  BY <1>4, <1>5

(* The parts of the logs are finitely many.                                 *)
LEMMA PartsAreFinite ==
  ASSUME LogIInv
  PROVE  IsFiniteSet(Parts)
<1>1. setting.retries + 1 \in Int /\ IsFiniteSet(Lanes)
  BY BoundsAreTyped DEF LogIInv
<1>2. IsFiniteSet(Lanes \X (1 .. setting.retries + 1))
  <2>1. IsFiniteSet(1 .. setting.retries + 1)
    BY <1>1, FS_Interval
  <2>. QED
    BY <1>1, <2>1, FS_Product
<1>3. Parts \in SUBSET (Lanes \X (1 .. setting.retries + 1))
  BY DEF Parts
<1>. QED
  BY <1>2, <1>3, FS_Subset

(* Each part of a log is one attempt. *)
LEMMA AttemptsAreCounted ==
  ASSUME LogIInv, UpToDate
  PROVE  IsFiniteSet(attempts) /\ Cardinality(attempts) = Cardinality(Parts)
<1> DEFINE f == [x \in Parts |-> Row(x)]
<1>1. f \in Bijection(Parts, attempts)
  BY RowsOfReadLogs DEF Bijection, Injection, Surjection, IsInjective
<1>2. ExistsBijection(Parts, attempts)
  BY <1>1 DEF ExistsBijection
<1>. QED
  BY <1>2, PartsAreFinite, FS_Bijection

(* Each task has one first attempt, in the report as in truth. *)
LEMMA FirstsAreCounted ==
  ASSUME LogIInv, IdsAreDistinct, UpToDate
  PROVE  Cardinality(attempts \ Repeats) = Cardinality(Parts \ ReallyRepeats)
<1> DEFINE tasks == setting.tasks
           g == [t \in tasks |-> CHOOSE f \in attempts \ Repeats : f.task = t]
           h == [t \in tasks |-> <<<<1, t>>, 1>>]
<1>1. IsFiniteSet(tasks)
  BY BoundsAreTyped DEF LogIInv
<1>2. \A e \in attempts : e.task \in tasks
  BY RowsOfReadLogs
<1>3. \A t \in tasks : g[t] \in attempts \ Repeats /\ g[t].task = t
  BY OneAttemptIsFirst
<1>4. \A e \in attempts \ Repeats : e = g[e.task]
  <2> SUFFICES ASSUME NEW e \in attempts \ Repeats PROVE e = g[e.task]
    OBVIOUS
  <2>1. e.task \in tasks
    BY <1>2
  <2>2. g[e.task] \in attempts \ Repeats /\ g[e.task].task = e.task
    BY <1>3, <2>1
  <2> HIDE DEF g
  <2>. QED
    BY <2>1, <2>2, OneAttemptIsFirst
<1>5. g \in Bijection(tasks, attempts \ Repeats)
  <2>1. g = [t \in tasks |-> g[t]]
    OBVIOUS
  <2> HIDE DEF g
  <2>2. g \in [tasks -> attempts \ Repeats]
    BY <1>3, <2>1
  <2>. QED
    BY <1>2, <1>3, <1>4, <2>2 DEF Bijection, Injection, Surjection, IsInjective
<1>6. h \in Bijection(tasks, Parts \ ReallyRepeats)
  <2>1. \A t \in tasks : h[t] \in Parts \ ReallyRepeats
    <3> SUFFICES ASSUME NEW t \in tasks PROVE <<<<1, t>>, 1>> \in Parts \ ReallyRepeats
      OBVIOUS
    <3>1. <<<<1, t>>, 1>> \in Parts
      BY RowsOfReadLogs
    <3>. QED
      BY <3>1 DEF ReallyRepeats
  <2>2. \A t, u \in tasks : h[t] = h[u] => t = u
    OBVIOUS
  <2>3. ASSUME NEW x \in Parts \ ReallyRepeats PROVE \E t \in tasks : h[t] = x
    <3>1. /\ x[1][1] \in Nat \ {0} /\ x[1][2] \in tasks /\ x[2] \in Nat \ {0}
          /\ x = <<<<x[1][1], x[1][2]>>, x[2]>>
      BY RowsOfReadLogs
    <3>2. x[1][1] = 1 /\ x[2] = 1
      BY <3>1 DEF ReallyRepeats
    <3>. QED
      BY <3>1, <3>2
  <2>4. h \in [tasks -> Parts \ ReallyRepeats]
    BY <2>1
  <2> HIDE DEF h
  <2>. QED
    BY <2>2, <2>3, <2>4 DEF Bijection, Injection, Surjection, IsInjective
<1>7. Cardinality(attempts \ Repeats) = Cardinality(tasks)
  <2> HIDE DEF g, tasks
  <2>. QED
    BY <1>1, <1>5, FS_Bijection DEF ExistsBijection
<1>8. Cardinality(Parts \ ReallyRepeats) = Cardinality(tasks)
  <2> HIDE DEF h, tasks
  <2>. QED
    BY <1>1, <1>6, FS_Bijection DEF ExistsBijection
<1>. QED
  BY <1>7, <1>8

(* Of a finite set and some of it, what is left has the rest of the number. *)
LEMMA RestOfTheNumber ==
  ASSUME NEW S, IsFiniteSet(S), NEW T \in SUBSET S
  PROVE  /\ Cardinality(S) \in Nat /\ Cardinality(T) \in Nat /\ Cardinality(S \ T) \in Nat
         /\ Cardinality(S \ T) = Cardinality(S) - Cardinality(T)
<1>1. S \cap T = T
  OBVIOUS
<1>2. IsFiniteSet(T) /\ IsFiniteSet(S \ T)
  BY FS_Subset, FS_Difference
<1>3. Cardinality(S \ T) = Cardinality(S) - Cardinality(S \cap T)
  BY FS_Difference
<1>. QED
  BY <1>1, <1>2, <1>3, FS_CardinalityType

(* Attempts and repeats are as many as they were. *)
LEMMA CountsAreTrue ==
  ASSUME LogIInv, IdsAreDistinct, IInv PROVE ExecutionsAreCounted
<1> SUFFICES ASSUME UpToDate
             PROVE  /\ AttemptCount = Cardinality(Parts) + (IF links[batchJob] # {} THEN 1 ELSE 0)
                    /\ Cardinality(Repeats) = Cardinality(ReallyRepeats)
  BY DEF ExecutionsAreCounted
<1>1. attempts # {}
  <2>1. PICK l \in Lanes : l \in Submitted
    BY DEF UpToDate, Submitted
  <2>2. <<l, 1>> \in Parts
    BY <2>1, PartsAreAll DEF LogIInv
  <2>. QED
    BY <2>2, RowsOfReadLogs
<1>2. OwnExecution <=> links[batchJob] # {}
  BY <1>1, ExecutionsAssumption DEF OwnExecution, IInv, RecordsAreTrue
<1>3. AttemptCount = Cardinality(Parts) + (IF links[batchJob] # {} THEN 1 ELSE 0)
  BY <1>2, AttemptsAreCounted DEF AttemptCount
<1>4. Repeats \in SUBSET attempts /\ ReallyRepeats \in SUBSET Parts
  BY DEF Repeats, ReallyRepeats
<1>5. /\ Cardinality(attempts) \in Nat /\ Cardinality(Repeats) \in Nat
      /\ Cardinality(attempts \ Repeats) = Cardinality(attempts) - Cardinality(Repeats)
  BY <1>4, AttemptsAreCounted, RestOfTheNumber
<1>6. /\ Cardinality(Parts) \in Nat /\ Cardinality(ReallyRepeats) \in Nat
      /\ Cardinality(Parts \ ReallyRepeats) = Cardinality(Parts) - Cardinality(ReallyRepeats)
  BY <1>4, PartsAreFinite, RestOfTheNumber
<1>7. Cardinality(Repeats) = Cardinality(ReallyRepeats)
  BY <1>5, <1>6, AttemptsAreCounted, FirstsAreCounted
<1>. QED
  BY <1>3, <1>7

-----------------------------------------------------------------------------
(* Whenever the logs have been read to their ends, however often and at     *)
(* whatever moments before: the VMs that are charged are the ones that      *)
(* worked (parse_task_attempts, upsert_attempt).                            *)
THEOREM TotalsAreTrue == Spec => []TotalsSurviveStaleLinks
<1>1. LogIInv => TotalsSurviveStaleLinks
  BY LinkedAreUsed
<1>. QED
  BY LogIInvHolds, <1>1, PTL

(* And what is charged to repeats ran nothing else (_base_records), where   *)
(* the report calls that spend complete and no first attempt was lost,      *)
(* whatever the order of Batch's IDs.                                       *)
THEOREM RepeatsAreChargedRight == Spec => []RepeatSpendIsTrue
<1>1. LogIInv /\ IdsAreDistinct => RepeatSpendIsTrue
  BY RepeatVmsAreTrue
<1>. QED
  BY LogIInvHolds, IdsStayDistinct, <1>1, PTL

(* Attempts, submissions and repeats are counted as they were, and Galaxy's *)
(* record beside them when a profile linked it (_executions).               *)
THEOREM CountsStayTrue == Spec => []ExecutionsAreCounted
<1>1. LogIInv /\ IdsAreDistinct /\ IInv => ExecutionsAreCounted
  BY CountsAreTrue
<1>. QED
  BY LogIInvHolds, IdsStayDistinct, IInvHolds, <1>1, PTL
=============================================================================
