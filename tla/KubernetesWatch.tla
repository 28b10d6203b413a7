-------------------------- MODULE KubernetesWatch --------------------------
(***************************************************************************)
(* How the collector follows the pods of Galaxy's jobs: it lists them, in  *)
(* pages of one snapshot, and then watches from the snapshot's resource    *)
(* version, a bounded cycle at a time.  The cluster forgets old versions;  *)
(* a watch that cannot resume is replaced by a new list, and a gap says    *)
(* when pods may have been deleted unseen.  A pod's observation is kept    *)
(* only if Galaxy's job is known by then.                                  *)
(*                                                                         *)
(* The resource version serves as the clock: an event's version is its     *)
(* time.  Pods go on between any two steps of a cycle.                     *)
(***************************************************************************)
EXTENDS Naturals, FiniteSets, FiniteSetsExt

CONSTANTS
  PodCount,     \* bound: pods are 1..PodCount, listed in this order
  MaxVersion,   \* bound: the last resource version
  PageLimits,   \* the HttpKubernetesClient._page_limit to consider
  KnownJobs     \* the pods whose Galaxy job is collected before they start

Pods == 1 .. PodCount

ASSUME WatchAssumption ==
  /\ {PodCount, MaxVersion} \cup PageLimits \subseteq Nat \ {0}
  /\ KnownJobs \subseteq Pods

VARIABLES
  pageLimit,  \* HttpKubernetesClient._page_limit
  version,    \* the cluster's latest resource version
  life,       \* the versions of a pod's events, 0: not yet
  oldest,     \* the oldest version a watch or a list can resume from
  jobs,       \* the pods whose Galaxy job Rainstone has
  cursor,     \* the durable cursor of the source
  cycle,      \* the running cycle
  known,      \* what is recorded of a pod: "nothing", "running", "ended"
  gaps,       \* the ObservationGaps, and the version each relist was made at
  since       \* history: the version of the first list, 0 before

vars == <<pageLimit, version, life, oldest, jobs, cursor, cycle, known, gaps, since>>
cluster == <<pageLimit, version, life, oldest, jobs>>

Versions == 1 .. MaxVersion
Stages == <<"added", "ended", "deleted">>
Idle == [step |-> "idle"]

-----------------------------------------------------------------------------
(* The cluster, and Galaxy's own source. *)

Unborn == [added |-> 0, ended |-> 0, deleted |-> 0]

(* A pod may be deleted before its object ever showed an end: a forced      *)
(* deletion, or a node that is lost.                                        *)
PodEvent(p, i) ==
  /\ version < MaxVersion
  /\ life[p][Stages[i]] = 0
  /\ i > 1 => life[p].added # 0
  /\ i = 2 => life[p].deleted = 0
  /\ version' = version + 1
  /\ life' = [life EXCEPT ![p][Stages[i]] = version + 1]
  /\ UNCHANGED <<pageLimit, oldest, jobs, cursor, cycle, known, gaps, since>>

Compact(v) ==
  /\ oldest < v
  /\ oldest' = v
  /\ UNCHANGED <<pageLimit, version, life, jobs, cursor, cycle, known, gaps, since>>

JobArrives(p) ==
  /\ p \notin jobs
  /\ jobs' = jobs \cup {p}
  /\ UNCHANGED <<pageLimit, version, life, oldest, cursor, cycle, known, gaps, since>>

HappenedBy(v, p, stage) == life[p][stage] # 0 /\ life[p][stage] <= v
Present(v) == {p \in Pods : HappenedBy(v, p, "added") /\ ~HappenedBy(v, p, "deleted")}

(* What a pod's object says of it at a version. *)
Observed(v, p) == IF HappenedBy(v, p, "ended") THEN "ended" ELSE "running"

-----------------------------------------------------------------------------
(* One cycle.  "started" is read from the clock before any request. *)

Start ==
  /\ cycle = Idle
  /\ cycle' = [step |-> "started", at |-> version]
  /\ UNCHANGED <<cluster, cursor, known, gaps, since>>

MustList == cursor.resourceVersion = 0 \/ cursor.snapshot # 0
Expired(v) == v < oldest

\* Mutation: a page that is cut off by the limit ends the list.
RelistOnePage(newGaps) ==
  LET page == {p \in Present(version) : Cardinality({q \in Present(version) : q < p}) < pageLimit}
  IN  cycle' = [step |-> "read", seen |-> [p \in page |-> Observed(version, p)],
                cursor |-> [resourceVersion |-> version, snapshot |-> 0, listed |-> 0,
                            watchedAt |-> cycle.at],
                gaps |-> newGaps]

(* A page of the list: the first one takes the snapshot that the others    *)
(* continue, and the last one makes the snapshot's version the one to      *)
(* watch from.                                                             *)
Relist(newGaps) ==
  LET snapshot == IF cursor.snapshot # 0 THEN cursor.snapshot ELSE version
      left == {p \in Present(snapshot) : p > cursor.listed}
      page == {p \in left : Cardinality({q \in left : q < p}) < pageLimit}
      next == IF page # left
              THEN [cursor EXCEPT !.resourceVersion = 0, !.snapshot = snapshot, !.listed = Max(page)]
              ELSE [resourceVersion |-> snapshot, snapshot |-> 0, listed |-> 0, watchedAt |-> cycle.at]
  IN  cycle' = [step |-> "read", seen |-> [p \in page |-> Observed(snapshot, p)],
                cursor |-> next, gaps |-> newGaps]

List ==
  /\ cycle.step = "started"
  /\ MustList
  /\ ~Expired(cursor.snapshot) \/ cursor.snapshot = 0
  /\ Relist({})
  /\ UNCHANGED <<cluster, cursor, known, gaps, since>>

(* A page whose snapshot is gone: the request fails like any other. *)
ListFails ==
  /\ cycle.step = "started"
  /\ cursor.snapshot # 0
  /\ Expired(cursor.snapshot)
  /\ cycle' = Idle
  /\ UNCHANGED <<cluster, cursor, known, gaps, since>>

\* Mutation: the version to resume from is asked for after the stream ended.
WatchToPresent(upTo) ==
  LET from == cursor.resourceVersion
      changed == {p \in Pods : \E i \in 1 .. 3 :
                    HappenedBy(upTo, p, Stages[i]) /\ ~HappenedBy(from, p, Stages[i])}
  IN  /\ cycle.step = "started"
      /\ ~MustList
      /\ ~Expired(from)
      /\ cycle.at <= upTo
      /\ cycle' = [step |-> "read", seen |-> [p \in changed |-> Observed(upTo, p)],
                   cursor |-> [cursor EXCEPT !.resourceVersion = version, !.watchedAt = cycle.at],
                   gaps |-> {}]
      /\ UNCHANGED <<cluster, cursor, known, gaps, since>>

\* Mutation: only the pods that the stream added are taken from it.
WatchAdditions(upTo) ==
  LET from == cursor.resourceVersion
      added == {p \in Pods : HappenedBy(upTo, p, "added") /\ ~HappenedBy(from, p, "added")}
  IN  /\ cycle.step = "started"
      /\ ~MustList
      /\ ~Expired(from)
      /\ cycle.at <= upTo
      /\ cycle' = [step |-> "read", seen |-> [p \in added |-> Observed(upTo, p)],
                   cursor |-> [cursor EXCEPT !.resourceVersion = upTo, !.watchedAt = cycle.at],
                   gaps |-> {}]
      /\ UNCHANGED <<cluster, cursor, known, gaps, since>>

(* A watch delivers what happened from the cursor's version up to where its *)
(* stream ends, which is not before the request was made; the last event of *)
(* a pod decides what is recorded of it.  A deletion is read like any other *)
(* event: a pod deleted without an end is recorded as running.              *)
Watch(upTo) ==
  LET from == cursor.resourceVersion
      changed == {p \in Pods : \E i \in 1 .. 3 :
                    HappenedBy(upTo, p, Stages[i]) /\ ~HappenedBy(from, p, Stages[i])}
  IN  /\ cycle.step = "started"
      /\ ~MustList
      /\ ~Expired(from)
      /\ cycle.at <= upTo
      /\ cycle' = [step |-> "read", seen |-> [p \in changed |-> Observed(upTo, p)],
                   cursor |-> [cursor EXCEPT !.resourceVersion = upTo, !.watchedAt = cycle.at],
                   gaps |-> {}]
      /\ UNCHANGED <<cluster, cursor, known, gaps, since>>

\* Mutation: a watch that cannot resume is relisted like a first list.
ResumeSilently ==
  /\ cycle.step = "started"
  /\ ~MustList
  /\ Expired(cursor.resourceVersion)
  /\ Relist({})
  /\ UNCHANGED <<cluster, cursor, known, gaps, since>>

(* A watch that cannot resume becomes a relist, with a gap from the cycle   *)
(* that last watched to the start of this one.                              *)
Resume ==
  /\ cycle.step = "started"
  /\ ~MustList
  /\ Expired(cursor.resourceVersion)
  /\ Relist({[start |-> cursor.watchedAt, end |-> cycle.at, relisted |-> version]})
  /\ UNCHANGED <<cluster, cursor, known, gaps, since>>

(* apply_batch and the commit: an observation without a job is dropped, and *)
(* the cursor advances all the same.                                        *)
Apply ==
  /\ cycle.step = "read"
  /\ known' = [p \in Pods |-> IF p \in DOMAIN cycle.seen \cap jobs THEN cycle.seen[p] ELSE known[p]]
  /\ gaps' = gaps \cup cycle.gaps
  /\ cursor' = cycle.cursor
  /\ cycle' = Idle
  /\ since' = IF since # 0 THEN since ELSE Max({cursor'.resourceVersion, cursor'.snapshot})
  /\ UNCHANGED cluster

Fail ==
  /\ cycle # Idle
  /\ cycle' = Idle
  /\ UNCHANGED <<cluster, cursor, known, gaps, since>>

Init ==
  /\ pageLimit \in PageLimits
  /\ version = 1
  /\ life = [p \in Pods |-> Unborn]
  /\ oldest = 1
  /\ jobs = KnownJobs
  /\ cursor = [resourceVersion |-> 0, snapshot |-> 0, listed |-> 0, watchedAt |-> 0]
  /\ cycle = Idle
  /\ known = [p \in Pods |-> "nothing"]
  /\ gaps = {}
  /\ since = 0

Environment ==
  \/ \E p \in Pods, i \in 1 .. 3 : PodEvent(p, i)
  \/ \E v \in 1 .. version : Compact(v)
  \/ \E p \in Pods : JobArrives(p)

ReadStep == List \/ ListFails \/ (\E v \in 1 .. version : Watch(v)) \/ Resume

Next == Environment \/ Start \/ ReadStep \/ Apply \/ Fail

Spec == Init /\ [][Next]_vars

(* Cycles follow each other, not all of them fail, and every job reaches    *)
(* Rainstone.                                                               *)
FairSpec ==
  /\ Spec
  /\ WF_vars(Start)
  /\ SF_vars(ReadStep)
  /\ SF_vars(Apply)
  /\ \A p \in Pods : WF_vars(JobArrives(p))

-----------------------------------------------------------------------------
(* Every variable has its type. *)
CursorType ==
  [resourceVersion : {0} \cup Versions, snapshot : {0} \cup Versions,
   listed : 0 .. PodCount, watchedAt : {0} \cup Versions]
GapType == [start : Versions, end : Versions, relisted : Versions]

TypeOK ==
  /\ pageLimit \in PageLimits
  /\ version \in Versions
  /\ life \in [Pods -> [added : 0 .. version, ended : 0 .. version, deleted : 0 .. version]]
  /\ oldest \in 1 .. version
  /\ KnownJobs \subseteq jobs /\ jobs \subseteq Pods
  /\ cursor \in CursorType
  /\ cursor.snapshot = 0 <=> cursor.listed = 0
  /\ cycle.step \in {"idle", "started", "read"}
  /\ cycle.step = "read" => cycle.cursor \in CursorType /\ cycle.gaps \subseteq GapType
  /\ known \in [Pods -> {"nothing", "running", "ended"}]
  /\ gaps \subseteq GapType

(* The cursor is past a pod's deletion, and no end of it is recorded. *)
Lost(p) ==
  /\ since # 0 /\ life[p].deleted > since
  /\ cursor.resourceVersion >= life[p].deleted
  /\ known[p] # "ended"

(* A pod whose job is known can only be lost where a gap is recorded: by a *)
(* relist that comes after a watch could not resume, for a time since the   *)
(* last cycle that did watch (KubernetesCollector.collect).  Of a pod that  *)
(* had an end to record, and of a list that fits on a page: the gap after a *)
(* longer one starts too late.                                              *)
DeletedInAGap(p) == \E g \in gaps : g.start < life[p].deleted /\ life[p].deleted <= g.relisted

EveryLossHasAGap ==
  PodCount <= pageLimit =>
    \A p \in KnownJobs : Lost(p) /\ life[p].ended # 0 => DeletedInAGap(p)

(* Without that condition: a pod is not left running, with no gap to say    *)
(* so, once the cursor is past its deletion.  A watch that reads the        *)
(* deletion of a pod that never ended leaves it so: the README's known      *)
(* exceptions.                                                              *)
NoDeletedPodRuns ==
  PodCount <= pageLimit => \A p \in KnownJobs : Lost(p) => DeletedInAGap(p)

(* The cursor and the facts are committed together: what is recorded of a   *)
(* pod whose job is known is what its object said at the version the cursor *)
(* stands at, however many pages, failures and relists there were           *)
(* (apply_batch).                                                           *)
CursorMeansRecorded ==
  cursor.resourceVersion # 0 =>
    \A p \in Present(cursor.resourceVersion) \cap KnownJobs :
      known[p] = Observed(cursor.resourceVersion, p)

Ended(p) == since # 0 /\ life[p].ended > since
EndIsSettled(p) ==
  \/ known[p] = "ended"
  \/ DeletedInAGap(p)

(* A pod that ended while collection was going on is recorded as ended, or  *)
(* was deleted in a gap, if its job is known before the cursor passes the   *)
(* end.  Of lists that fit on a page: a longer one may never get its rest.  *)
KnownEndsAreRecorded ==
  \A p \in Pods :
    (/\ PodCount <= pageLimit
     /\ Ended(p) /\ p \in jobs
     /\ cursor.snapshot = 0 /\ cursor.resourceVersion < life[p].ended) ~> EndIsSettled(p)

(* "The next cycle retries once the job exists": the order in which the job *)
(* and the end of its pod arrive makes no difference.  It does make one:    *)
(* the README's known exceptions.                                           *)
EndsAreRecorded == \A p \in Pods : Ended(p) ~> EndIsSettled(p)
=============================================================================
