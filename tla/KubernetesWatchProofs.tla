------------------------ MODULE KubernetesWatchProofs ------------------------
(***************************************************************************)
(* What the durable cursor means, for any pods, versions and page limits.  *)
(*                                                                         *)
(* A version of the cluster never changes, so what a list or a watch read  *)
(* stays true of its version whatever happens before it is applied.  Hence *)
(* the argument speaks of a cursor and of what is recorded beside it       *)
(* (Recorded), once for the durable cursor and once for the one that the   *)
(* running cycle would commit (CycleIsRecorded).                           *)
(***************************************************************************)
EXTENDS KubernetesWatch, FiniteSetTheorems, WellFoundedInduction, TLAPS

(* A pod is added, may end, and is deleted. *)
LifeIsOrdered ==
  \A p \in Pods :
    /\ life[p].ended # 0 => life[p].added # 0 /\ life[p].added < life[p].ended
    /\ life[p].deleted # 0 => life[p].added # 0 /\ life[p].added < life[p].deleted
    /\ life[p].deleted # 0 => life[p].ended < life[p].deleted

(* A cursor stands at a version or at a place in the list of one, and the   *)
(* cycle that made it began no later.                                      *)
GoodCursor(c) ==
  /\ c \in CursorType
  /\ c.snapshot = 0 <=> c.listed = 0
  /\ c.resourceVersion <= version /\ c.snapshot <= version
  /\ c.resourceVersion # 0 => c.watchedAt # 0
  /\ PodCount <= pageLimit => c.snapshot = 0 /\ c.watchedAt <= c.resourceVersion

(* What is recorded is what the pods said at the cursor's version, and of   *)
(* the pods listed so far at the snapshot's.                                *)
Recorded(c, k) ==
  \A p \in KnownJobs :
    /\ (c.resourceVersion # 0 /\ p \in Present(c.resourceVersion))
         => k[p] = Observed(c.resourceVersion, p)
    /\ (c.snapshot # 0 /\ p \in Present(c.snapshot) /\ p <= c.listed)
         => k[p] = Observed(c.snapshot, p)

(* A cycle starts after what the cursor has seen. *)
StartIsLater ==
  cycle.step = "started" =>
    /\ cycle.at \in 1 .. version
    /\ cursor.resourceVersion <= cycle.at /\ cursor.snapshot <= cycle.at

(* What a cycle has read, and what is recorded once it is applied. *)
Seen == [p \in Pods |-> IF p \in DOMAIN cycle.seen THEN cycle.seen[p] ELSE known[p]]

CycleIsRecorded ==
  cycle.step = "read" =>
    /\ \A p \in DOMAIN cycle.seen : cycle.seen[p] \in {"running", "ended"}
    /\ cycle.gaps \subseteq GapType
    /\ GoodCursor(cycle.cursor)
    /\ Recorded(cycle.cursor, Seen)

(* Of lists that fit on a page. *)
GapFor(v, set) == \E g \in set : g.start < v /\ v <= g.relisted

(* Of the pods that had an end: one deleted between the cursor and the one  *)
(* to commit is seen to have ended, or in a gap, and one deleted before it  *)
(* is not seen to run again.                                                *)
Settled(p) == life[p].ended # 0 /\ life[p].deleted # 0

DeletionsAreSeen ==
  (cycle.step = "read" /\ PodCount <= pageLimit) =>
    /\ cycle.cursor.resourceVersion # 0
    /\ \A p \in KnownJobs : Settled(p) =>
         /\ (/\ cursor.resourceVersion # 0
             /\ cursor.resourceVersion < life[p].deleted
             /\ life[p].deleted <= cycle.cursor.resourceVersion)
              => \/ p \in DOMAIN cycle.seen /\ cycle.seen[p] = "ended"
                 \/ GapFor(life[p].deleted, cycle.gaps)
         /\ (life[p].deleted <= cursor.resourceVersion /\ p \in DOMAIN cycle.seen)
              => cycle.seen[p] = "ended"

(* The first list is over as soon as there is a version to watch from. *)
FirstListIsWhole ==
  PodCount <= pageLimit => (since = 0 <=> cursor.resourceVersion = 0)

(* since is a version, or 0 before the first list. *)
SinceIsTyped == since \in Nat

IInv ==
  /\ TypeOK
  /\ LifeIsOrdered
  /\ GoodCursor(cursor)
  /\ Recorded(cursor, known)
  /\ StartIsLater
  /\ CycleIsRecorded
  /\ DeletionsAreSeen
  /\ FirstListIsWhole
  /\ SinceIsTyped
  /\ EveryLossHasAGap

-----------------------------------------------------------------------------
(* Numbers. *)
LEMMA Smallest ==
  ASSUME NEW S \in SUBSET Nat, S # {}
  PROVE  \E m \in S : \A y \in S : m <= y
<1> DEFINE R == OpToRel(<, Nat)
<1>1. IsWellFoundedOn(R, Nat)
  BY NatLessThanWellFounded
<1>2. \A x, y \in Nat : y < x => <<y, x>> \in R
  BY DEF OpToRel
<1> HIDE DEF R
<1>3. PICK m \in S : \A y \in S : <<y, m>> \notin R
  BY <1>1, WFMin
<1>4. \A y \in S : ~(y < m)
  BY <1>2, <1>3
<1>. QED
  BY <1>3, <1>4

LEMMA MaxOfPods ==
  ASSUME NEW S \in SUBSET Pods, S # {}
  PROVE  Max(S) \in S /\ \A y \in S : y <= Max(S)
<1> DEFINE T == {PodCount - p : p \in S}
<1>1. PodCount \in Nat
  BY WatchAssumption
<1>2. T \in SUBSET Nat /\ T # {}
  <2>1. \A p \in Pods : PodCount - p \in Nat
    BY <1>1 DEF Pods
  <2>. QED
    BY <2>1
<1>3. PICK m \in T : \A y \in T : m <= y
  BY <1>2, Smallest
<1>4. PICK x \in S : m = PodCount - x
  OBVIOUS
<1>5. \A y \in S : x >= y
  <2>1. \A y \in S : PodCount - x <= PodCount - y
    BY <1>3, <1>4
  <2>2. \A y \in S : y \in Nat
    BY <1>1 DEF Pods
  <2>. QED
    BY <1>1, <2>1, <2>2
<1>. QED
  BY <1>5 DEF Max, Pods

LEMMA MaxOfTwo ==
  ASSUME NEW a \in Nat, NEW b \in Nat
  PROVE  Max({a, b}) = IF a >= b THEN a ELSE b
BY DEF Max

-----------------------------------------------------------------------------
Life == [added : 0 .. version, ended : 0 .. version, deleted : 0 .. version]

(* What a version of the cluster shows, stage by stage. *)
LEMMA Stage ==
  ASSUME NEW v, NEW p
  PROVE  /\ HappenedBy(v, p, "added") <=> life[p].added # 0 /\ life[p].added <= v
         /\ HappenedBy(v, p, "ended") <=> life[p].ended # 0 /\ life[p].ended <= v
         /\ HappenedBy(v, p, "deleted") <=> life[p].deleted # 0 /\ life[p].deleted <= v
BY DEF HappenedBy

(* An event is of the version it makes. *)
LEMMA EventIsNew ==
  ASSUME IInv, NEW p \in Pods, NEW i \in 1 .. 3, PodEvent(p, i)
  PROVE  /\ \A q \in Pods \ {p} : life'[q] = life[q]
         /\ \/ /\ life[p].added = 0 /\ life'[p].added = version + 1
               /\ life'[p].ended = life[p].ended /\ life'[p].deleted = life[p].deleted
            \/ /\ life[p].added # 0 /\ life[p].ended = 0 /\ life[p].deleted = 0
               /\ life'[p].ended = version + 1
               /\ life'[p].added = life[p].added /\ life'[p].deleted = life[p].deleted
            \/ /\ life[p].added # 0 /\ life[p].deleted = 0 /\ life'[p].deleted = version + 1
               /\ life'[p].added = life[p].added /\ life'[p].ended = life[p].ended
         /\ life' \in [Pods -> [added : 0 .. version + 1, ended : 0 .. version + 1,
                                deleted : 0 .. version + 1]]
<1>1. life \in [Pods -> Life] /\ life[p] \in Life /\ version \in Nat
  BY WatchAssumption DEF IInv, TypeOK, Life, Versions
<1>2. life' = [life EXCEPT ![p][Stages[i]] = version + 1]
  BY DEF PodEvent
<1>3. CASE i = 1
  <2>1. Stages[i] = "added" 
    BY <1>3 DEF Stages
  <2>2. life' = [life EXCEPT ![p]["added"] = version + 1]
    BY <1>2, <2>1
  <2>3. life[p].added = 0
    BY <1>3, <2>1 DEF PodEvent
  <2>. QED
    BY <1>1, <2>2, <2>3 DEF Life
<1>4. CASE i = 2
  <2>1. Stages[i] = "ended"
    BY <1>4 DEF Stages
  <2>2. life' = [life EXCEPT ![p]["ended"] = version + 1]
    BY <1>2, <2>1
  <2>3. life[p].ended = 0 /\ life[p].added # 0 /\ life[p].deleted = 0
    BY <1>4, <2>1 DEF PodEvent
  <2>. QED
    BY <1>1, <2>2, <2>3 DEF Life
<1>5. CASE i = 3
  <2>1. Stages[i] = "deleted"
    BY <1>5 DEF Stages
  <2>2. life' = [life EXCEPT ![p]["deleted"] = version + 1]
    BY <1>2, <2>1
  <2>3. life[p].deleted = 0 /\ life[p].added # 0
    BY <1>5, <2>1 DEF PodEvent
  <2>. QED
    BY <1>1, <2>2, <2>3 DEF Life
<1>. QED
  BY <1>3, <1>4, <1>5

(* What is read of a version stays true: events are of later ones. *)
LEMMA ViewsStay ==
  ASSUME IInv, NEW p \in Pods, NEW i \in 1 .. 3, PodEvent(p, i), NEW q \in Pods,
         NEW v \in 0 .. version
  PROVE  /\ q \in Present(v)' <=> q \in Present(v)
         /\ Observed(v, q)' = Observed(v, q)
         /\ life'[q].deleted # life[q].deleted =>
              life[q].deleted = 0 /\ life'[q].deleted = version + 1
         /\ life[q].deleted # 0 => life'[q].ended = life[q].ended
<1>1. version \in Nat /\ v \in Nat /\ v <= version
  BY WatchAssumption DEF IInv, TypeOK, Versions
<1>2. /\ \A r \in Pods \ {p} : life'[r] = life[r]
      /\ \/ /\ life[p].added = 0 /\ life'[p].added = version + 1
            /\ life'[p].ended = life[p].ended /\ life'[p].deleted = life[p].deleted
         \/ /\ life[p].added # 0 /\ life[p].ended = 0 /\ life[p].deleted = 0
            /\ life'[p].ended = version + 1
            /\ life'[p].added = life[p].added /\ life'[p].deleted = life[p].deleted
         \/ /\ life[p].added # 0 /\ life[p].deleted = 0 /\ life'[p].deleted = version + 1
            /\ life'[p].added = life[p].added /\ life'[p].ended = life[p].ended
  BY EventIsNew
<1>3. /\ (life'[q].added # 0 /\ life'[q].added <= v) <=> (life[q].added # 0 /\ life[q].added <= v)
      /\ (life'[q].ended # 0 /\ life'[q].ended <= v) <=> (life[q].ended # 0 /\ life[q].ended <= v)
      /\ (life'[q].deleted # 0 /\ life'[q].deleted <= v)
           <=> (life[q].deleted # 0 /\ life[q].deleted <= v)
  BY <1>1, <1>2
<1>4. /\ life'[q].deleted # life[q].deleted =>
           life[q].deleted = 0 /\ life'[q].deleted = version + 1
      /\ life[q].deleted # 0 => life'[q].ended = life[q].ended
  BY <1>1, <1>2
<1>5. /\ HappenedBy(v, q, "added")' <=> HappenedBy(v, q, "added")
      /\ HappenedBy(v, q, "ended")' <=> HappenedBy(v, q, "ended")
      /\ HappenedBy(v, q, "deleted")' <=> HappenedBy(v, q, "deleted")
  BY <1>3 DEF HappenedBy
<1>. QED
  BY <1>4, <1>5 DEF Present, Observed

(* So a cursor goes on meaning what it meant, and its losses stay the same. *)
LEMMA RecordsStay ==
  ASSUME IInv, NEW p \in Pods, NEW i \in 1 .. 3, PodEvent(p, i),
         NEW c, GoodCursor(c), NEW k, Recorded(c, k)
  PROVE  /\ GoodCursor(c)'
         /\ Recorded(c, k)'
<1>1. version' = version + 1 /\ version \in Nat /\ pageLimit' = pageLimit
  BY WatchAssumption DEF PodEvent, IInv, TypeOK, Versions
<1>2. c \in CursorType /\ c.resourceVersion \in 0 .. version /\ c.snapshot \in 0 .. version
  <2>1. c.resourceVersion \in Nat /\ c.snapshot \in Nat
    BY DEF GoodCursor, CursorType, Versions
  <2>. QED
    BY <1>1, <2>1 DEF GoodCursor
<1>3. GoodCursor(c)'
  BY <1>1, <1>2 DEF GoodCursor, CursorType, Versions
<1>4. Recorded(c, k)'
  <2> SUFFICES ASSUME NEW q \in KnownJobs
               PROVE  /\ (c.resourceVersion # 0 /\ q \in Present(c.resourceVersion)')
                           => k[q] = Observed(c.resourceVersion, q)'
                      /\ (c.snapshot # 0 /\ q \in Present(c.snapshot)' /\ q <= c.listed)
                           => k[q] = Observed(c.snapshot, q)'
    BY DEF Recorded
  <2>1. q \in Pods
    BY WatchAssumption
  <2>2. /\ q \in Present(c.resourceVersion)' <=> q \in Present(c.resourceVersion)
        /\ Observed(c.resourceVersion, q)' = Observed(c.resourceVersion, q)
        /\ q \in Present(c.snapshot)' <=> q \in Present(c.snapshot)
        /\ Observed(c.snapshot, q)' = Observed(c.snapshot, q)
    BY <1>2, <2>1, ViewsStay
  <2>. QED
    BY <2>2 DEF Recorded
<1>. QED
  BY <1>3, <1>4

LEMMA PodEventIInv == ASSUME IInv, NEW p \in Pods, NEW i \in 1 .. 3, PodEvent(p, i) PROVE IInv'
<1>1. /\ version' = version + 1 /\ version \in Nat /\ version < MaxVersion
      /\ MaxVersion \in Nat
      /\ UNCHANGED <<pageLimit, oldest, jobs, cursor, cycle, known, gaps, since>>
  BY WatchAssumption DEF PodEvent, IInv, TypeOK, Versions
<1>2. TypeOK'
  <2>1. life' \in [Pods -> Life]'
    BY <1>1, EventIsNew DEF Life
  <2>2. version' \in Versions' /\ oldest' \in 1 .. version'
    BY <1>1 DEF Versions, IInv, TypeOK
  <2>3. CursorType' = CursorType /\ GapType' = GapType
    BY <1>1 DEF CursorType, GapType, Versions
  <2>. QED
    BY <1>1, <2>1, <2>2, <2>3 DEF IInv, TypeOK, Life
<1>3. LifeIsOrdered'
  <2>1. \A q \in Pods : life[q] \in Life
    BY DEF IInv, TypeOK, Life
  <2>. QED
    BY <1>1, <2>1, EventIsNew DEF IInv, LifeIsOrdered, Life
<1>4. GoodCursor(cursor)' /\ Recorded(cursor, known)'
  BY <1>1, RecordsStay DEF IInv, GoodCursor, Recorded
<1>5. StartIsLater'
  BY <1>1 DEF IInv, StartIsLater
<1>6. CycleIsRecorded'
  <2> SUFFICES ASSUME cycle.step = "read" PROVE CycleIsRecorded'
    BY <1>1 DEF CycleIsRecorded
  <2>1. PICK c : c = cycle.cursor
    OBVIOUS
  <2>2. PICK k : k = Seen
    OBVIOUS
  <2>3. GoodCursor(c) /\ Recorded(c, k)
    BY <2>1, <2>2 DEF IInv, CycleIsRecorded
  <2>4. GoodCursor(c)' /\ Recorded(c, k)'
    BY <2>3, RecordsStay
  <2>5. cycle'.cursor = c /\ Seen' = k
    BY <1>1, <2>1, <2>2 DEF Seen
  <2>6. GoodCursor(cycle.cursor)' /\ Recorded(cycle.cursor, Seen)'
    BY <2>4, <2>5 DEF GoodCursor, Recorded
  <2>7. GapType' = GapType
    BY <1>1 DEF GapType, Versions
  <2>. QED
    BY <1>1, <2>6, <2>7 DEF IInv, CycleIsRecorded
<1>7. /\ cursor.resourceVersion \in Nat /\ cursor.resourceVersion <= version
      /\ cycle.step = "read" =>
           /\ cycle.cursor.resourceVersion \in Nat
           /\ cycle.cursor.resourceVersion <= version
  BY DEF IInv, CycleIsRecorded, GoodCursor, CursorType, Versions
<1>8. \A q \in KnownJobs :
        \/ life'[q].deleted = version + 1
        \/ life'[q].deleted = life[q].deleted /\ life[q].deleted = 0
        \/ life'[q].deleted = life[q].deleted /\ life'[q].ended = life[q].ended
  <2>1. \A q \in KnownJobs : q \in Pods
    BY WatchAssumption
  <2>2. 0 \in 0 .. version
    BY <1>1
  <2>. QED
    BY <2>1, <2>2, ViewsStay
<1>9. DeletionsAreSeen'
  BY <1>1, <1>7, <1>8 DEF IInv, DeletionsAreSeen, Settled, GapFor
<1>10. FirstListIsWhole' /\ SinceIsTyped'
  BY <1>1 DEF IInv, FirstListIsWhole, SinceIsTyped
<1>11. EveryLossHasAGap'
  BY <1>1, <1>7, <1>8 DEF IInv, EveryLossHasAGap, DeletedInAGap, Lost, SinceIsTyped
<1>. QED
  BY <1>2, <1>3, <1>4, <1>5, <1>6, <1>9, <1>10, <1>11 DEF IInv

LEMMA OtherEventsIInv ==
  ASSUME IInv, (\E v \in 1 .. version : Compact(v)) \/ (\E p \in Pods : JobArrives(p))
  PROVE  IInv'
<1>1. /\ UNCHANGED <<pageLimit, version, life, cursor, cycle, known, gaps, since>>
      /\ oldest' \in 1 .. version /\ jobs \subseteq jobs' /\ jobs' \subseteq Pods
  BY DEF Compact, JobArrives, IInv, TypeOK
<1>2. TypeOK'
  BY <1>1 DEF IInv, TypeOK, CursorType, GapType, Versions
<1>3. /\ LifeIsOrdered' /\ GoodCursor(cursor)' /\ Recorded(cursor, known)' /\ StartIsLater'
      /\ DeletionsAreSeen' /\ FirstListIsWhole' /\ SinceIsTyped' /\ EveryLossHasAGap'
  BY <1>1 DEF IInv, LifeIsOrdered, GoodCursor, Recorded, StartIsLater, DeletionsAreSeen, Settled,
              FirstListIsWhole, SinceIsTyped, EveryLossHasAGap, DeletedInAGap, Lost, GapFor,
              Present, Observed, HappenedBy,
              CursorType, Versions
<1>4. CycleIsRecorded'
  BY <1>1 DEF IInv, CycleIsRecorded, GoodCursor, Recorded, Seen, Present, Observed, HappenedBy,
              CursorType, GapType, Versions
<1>. QED
  BY <1>2, <1>3, <1>4 DEF IInv

-----------------------------------------------------------------------------
(* Cycles.  Until a cycle is applied, nothing but itself changes. *)

LEMMA IdleIInv ==
  ASSUME IInv, cycle' = Idle, UNCHANGED <<cluster, cursor, known, gaps, since>>
  PROVE  IInv'
<1> USE DEF cluster
<1>1. cycle'.step = "idle"
  BY DEF Idle
<1>2. TypeOK'
  BY <1>1 DEF IInv, TypeOK, CursorType, GapType, Versions
<1>3. /\ LifeIsOrdered' /\ GoodCursor(cursor)' /\ Recorded(cursor, known)'
      /\ FirstListIsWhole' /\ SinceIsTyped' /\ EveryLossHasAGap'
  BY DEF IInv, LifeIsOrdered, GoodCursor, Recorded, FirstListIsWhole, SinceIsTyped, EveryLossHasAGap,
         DeletedInAGap, Lost, Present, Observed, HappenedBy, CursorType, Versions
<1>4. StartIsLater' /\ CycleIsRecorded' /\ DeletionsAreSeen'
  BY <1>1 DEF StartIsLater, CycleIsRecorded, DeletionsAreSeen
<1>. QED
  BY <1>2, <1>3, <1>4 DEF IInv

LEMMA StartIInv == ASSUME IInv, Start PROVE IInv'
<1> USE DEF cluster
<1>1. /\ cycle'.step = "started" /\ cycle'.at = version
      /\ UNCHANGED <<cluster, cursor, known, gaps, since>>
  BY DEF Start
<1>2. TypeOK'
  BY <1>1 DEF IInv, TypeOK, CursorType, GapType, Versions
<1>3. /\ LifeIsOrdered' /\ GoodCursor(cursor)' /\ Recorded(cursor, known)'
      /\ FirstListIsWhole' /\ SinceIsTyped' /\ EveryLossHasAGap'
  BY <1>1 DEF IInv, LifeIsOrdered, GoodCursor, Recorded, FirstListIsWhole, SinceIsTyped, EveryLossHasAGap,
         DeletedInAGap, Lost, Present, Observed, HappenedBy, CursorType, Versions
<1>4. version \in 1 .. version
  BY WatchAssumption DEF IInv, TypeOK, Versions
<1>5. StartIsLater' /\ CycleIsRecorded' /\ DeletionsAreSeen'
  BY <1>1, <1>4 DEF IInv, GoodCursor, StartIsLater, CycleIsRecorded, DeletionsAreSeen
<1>. QED
  BY <1>2, <1>3, <1>5 DEF IInv

(* What was read, by a list or by a watch. *)
LEMMA ReadIInv ==
  ASSUME IInv, NEW seen, NEW c, NEW newGaps, NEW k,
         cycle' = [step |-> "read", seen |-> seen, cursor |-> c, gaps |-> newGaps],
         UNCHANGED <<cluster, cursor, known, gaps, since>>,
         \A p \in DOMAIN seen : seen[p] \in {"running", "ended"},
         newGaps \subseteq GapType,
         GoodCursor(c),
         k = [p \in Pods |-> IF p \in DOMAIN seen THEN seen[p] ELSE known[p]],
         Recorded(c, k),
         PodCount <= pageLimit =>
           /\ c.resourceVersion # 0
           /\ \A p \in KnownJobs : Settled(p) =>
                /\ (/\ cursor.resourceVersion # 0
                    /\ cursor.resourceVersion < life[p].deleted
                    /\ life[p].deleted <= c.resourceVersion)
                     => \/ p \in DOMAIN seen /\ seen[p] = "ended"
                        \/ GapFor(life[p].deleted, newGaps)
                /\ (life[p].deleted <= cursor.resourceVersion /\ p \in DOMAIN seen)
                     => seen[p] = "ended"
  PROVE  IInv'
<1> USE DEF cluster
<1>1. /\ cycle'.step = "read" /\ cycle'.seen = seen
      /\ cycle'.cursor = c /\ cycle'.gaps = newGaps
  OBVIOUS
<1>2. TypeOK'
  BY <1>1 DEF IInv, TypeOK, CursorType, GapType, Versions, GoodCursor
<1>3. /\ LifeIsOrdered' /\ GoodCursor(cursor)' /\ Recorded(cursor, known)'
      /\ FirstListIsWhole' /\ SinceIsTyped' /\ EveryLossHasAGap'
  BY DEF IInv, LifeIsOrdered, GoodCursor, Recorded, FirstListIsWhole, SinceIsTyped, EveryLossHasAGap,
         DeletedInAGap, Lost, Present, Observed, HappenedBy, CursorType, Versions
<1>4. StartIsLater'
  BY <1>1 DEF StartIsLater
<1>5. CycleIsRecorded'
  <2>1. Seen' = k
    BY <1>1 DEF Seen
  <2>2. GoodCursor(c)' /\ Recorded(c, k)' /\ GapType' = GapType
    BY DEF GoodCursor, Recorded, Present, Observed, HappenedBy, CursorType, GapType, Versions
  <2>3. GoodCursor(cycle.cursor)' /\ Recorded(cycle.cursor, Seen)'
    BY <1>1, <2>1, <2>2 DEF GoodCursor, Recorded
  <2>. QED
    BY <1>1, <2>2, <2>3 DEF CycleIsRecorded
<1>6. DeletionsAreSeen'
  BY <1>1 DEF DeletionsAreSeen, Settled, GapFor
<1>. QED
  BY <1>2, <1>3, <1>4, <1>5, <1>6 DEF IInv

-----------------------------------------------------------------------------
(* The version that is listed, the pods left to list of it, and those of    *)
(* them that fit on a page.                                                 *)
Snapshot == IF cursor.snapshot # 0 THEN cursor.snapshot ELSE version
Left == {p \in Present(Snapshot) : p > cursor.listed}
PageOf(left) == {p \in left : Cardinality({q \in left : q < p}) < pageLimit}

(* A page begins with the first pod left, leaves out none before one it     *)
(* has, and has them all if no more exist than fit.                         *)
LEMMA Pages ==
  ASSUME IInv, NEW left \in SUBSET Pods
  PROVE  /\ left # {} => PageOf(left) # {}
         /\ \A m \in PageOf(left), q \in left : q < m => q \in PageOf(left)
         /\ PodCount <= pageLimit => PageOf(left) = left
<1>1. pageLimit \in Nat \ {0} /\ PodCount \in Nat
  BY WatchAssumption DEF IInv, TypeOK
<1>2. \A p \in left : p \in Nat /\ p >= 1 /\ p <= PodCount
  BY <1>1 DEF Pods
<1> DEFINE Before(p) == {q \in left : q < p}
<1>3. ASSUME NEW p \in left
      PROVE  /\ IsFiniteSet(Before(p)) /\ Cardinality(Before(p)) \in Nat
             /\ Cardinality(Before(p)) < PodCount
  <2>1. /\ IsFiniteSet(1 .. p - 1)
        /\ Cardinality(1 .. p - 1) = IF 1 > p - 1 THEN 0 ELSE p - 1
    <3>1. 1 \in Int /\ p - 1 \in Int
      BY <1>2
    <3>2. (p - 1) - 1 + 1 = p - 1
      BY <1>2
    <3>. QED
      BY <3>1, <3>2, FS_Interval
  <2>2. Before(p) \in SUBSET (1 .. p - 1)
    BY <1>2
  <2>3. IsFiniteSet(Before(p)) /\ Cardinality(Before(p)) <= Cardinality(1 .. p - 1)
    BY <2>1, <2>2, FS_Subset
  <2>4. Cardinality(Before(p)) \in Nat
    BY <2>3, FS_CardinalityType
  <2>5. Cardinality(1 .. p - 1) <= PodCount - 1 /\ Cardinality(1 .. p - 1) \in Nat
    BY <1>1, <1>2, <2>1
  <2>. QED
    BY <1>1, <2>3, <2>4, <2>5
<1>4. left # {} => PageOf(left) # {}
  <2> SUFFICES ASSUME left # {} PROVE PageOf(left) # {}
    OBVIOUS
  <2>1. PICK m \in left : \A y \in left : m <= y
    <3>1. left \in SUBSET Nat
      BY <1>2
    <3>. QED
      BY <3>1, Smallest
  <2>2. Before(m) = {}
    BY <1>2, <2>1
  <2>3. Cardinality({q \in left : q < m}) = 0
    BY <2>2, FS_EmptySet
  <2>. QED
    BY <1>1, <2>3 DEF PageOf
<1>5. ASSUME NEW m \in PageOf(left), NEW q \in left, q < m
      PROVE  q \in PageOf(left)
  <2>1. m \in left /\ Cardinality(Before(m)) < pageLimit
    BY DEF PageOf
  <2>2. Before(q) \in SUBSET Before(m)
    BY <1>2, <1>5, <2>1
  <2>3. Cardinality(Before(q)) <= Cardinality(Before(m))
    BY <1>3, <2>1, <2>2, FS_Subset
  <2>4. Cardinality(Before(q)) < pageLimit
    BY <1>1, <1>3, <2>1, <2>3
  <2>. QED
    BY <2>4 DEF PageOf
<1>6. PodCount <= pageLimit => PageOf(left) = left
  <2>1. PodCount <= pageLimit => \A p \in left : Cardinality(Before(p)) < pageLimit
    BY <1>1, <1>3
  <2>. QED
    BY <2>1 DEF PageOf
<1>. QED
  BY <1>4, <1>5, <1>6

(* A page of a list; the gap is the caller's.                               *)
LEMMA RelistIInv ==
  ASSUME IInv, cycle.step = "started", NEW newGaps, newGaps \subseteq GapType,
         Relist(newGaps), UNCHANGED <<cluster, cursor, known, gaps, since>>,
         (PodCount <= pageLimit /\ cursor.resourceVersion # 0) =>
           \A p \in KnownJobs :
             (cursor.resourceVersion < life[p].deleted /\ life[p].deleted <= version)
               => GapFor(life[p].deleted, newGaps)
  PROVE  IInv'
<1> DEFINE page == PageOf(Left)
           part == [cursor EXCEPT !.resourceVersion = 0, !.snapshot = Snapshot, !.listed = Max(page)]
           end == [resourceVersion |-> Snapshot, snapshot |-> 0, listed |-> 0, watchedAt |-> cycle.at]
           seen == [p \in page |-> Observed(Snapshot, p)]
           k == [p \in Pods |-> IF p \in DOMAIN seen THEN seen[p] ELSE known[p]]
<1>1. /\ version \in Nat \ {0} /\ version \in Versions
      /\ \A v \in 1 .. version : v \in Versions
      /\ PodCount \in Nat \ {0}
  BY WatchAssumption DEF IInv, TypeOK, Versions
<1>2. /\ cursor \in CursorType /\ (cursor.snapshot = 0 <=> cursor.listed = 0)
      /\ cursor.resourceVersion \in Nat /\ cursor.resourceVersion <= version
      /\ cursor.snapshot \in Nat /\ cursor.snapshot <= version
      /\ cursor.listed \in Nat
      /\ PodCount <= pageLimit => cursor.snapshot = 0
  BY DEF IInv, GoodCursor, CursorType, Versions
<1>3. cycle.at \in 1 .. version
  BY DEF IInv, StartIsLater
<1>4. /\ Snapshot \in 1 .. version
      /\ cursor.snapshot = 0 => Snapshot = version
      /\ cursor.snapshot # 0 => Snapshot = cursor.snapshot
  BY <1>1, <1>2 DEF Snapshot
<1>5. /\ Left \in SUBSET Pods /\ page \in SUBSET Left
      /\ \A p \in Left : p \in Present(Snapshot) /\ p > cursor.listed
  BY DEF Left, PageOf, Present
<1>6. /\ Left # {} => page # {}
      /\ \A m \in page, q \in Left : q < m => q \in page
      /\ PodCount <= pageLimit => page = Left
  BY <1>5, Pages
<1>7. cycle' = [step |-> "read", seen |-> seen,
                cursor |-> IF page # Left THEN part ELSE end, gaps |-> newGaps]
  BY DEF Relist, Snapshot, Left, PageOf
<1> HIDE DEF page
<1>8. \A p \in Pods : p \in Nat /\ p # 0 /\ p <= PodCount
  BY <1>1 DEF Pods
<1>9. /\ DOMAIN seen = page
      /\ \A p \in page : seen[p] = Observed(Snapshot, p)
      /\ \A p \in DOMAIN seen : seen[p] \in {"running", "ended"}
  BY DEF Observed
<1>10. /\ \A p \in page : k[p] = Observed(Snapshot, p)
       /\ \A p \in Pods \ page : k[p] = known[p]
  BY <1>5
<1> HIDE DEF seen, k
<1>11. ASSUME NEW p \in KnownJobs, p \in Present(Snapshot),
              p \in page \/ p \notin Left
       PROVE  k[p] = Observed(Snapshot, p)
  <2>1. CASE p \in page
    BY <1>10, <2>1
  <2>2. CASE p \notin page
    <3>1. p \in Pods /\ p <= cursor.listed
      BY <1>2, <1>8, <1>11, <2>2, WatchAssumption DEF Left
    <3>2. cursor.snapshot # 0
      BY <1>2, <1>8, <3>1
    <3>3. known[p] = Observed(Snapshot, p)
      BY <1>4, <1>11, <3>1, <3>2 DEF IInv, Recorded
    <3>. QED
      BY <1>10, <2>2, <3>1, <3>3
  <2>. QED
    BY <2>1, <2>2
<1>12. CASE page # Left
  <2>1. page # {} /\ ~(PodCount <= pageLimit)
    BY <1>5, <1>6, <1>12
  <2>2. Max(page) \in page /\ Max(page) \in Pods
    BY <1>5, <2>1, MaxOfPods
  <2>3. /\ part.resourceVersion = 0 /\ part.snapshot = Snapshot
        /\ part.listed = Max(page) /\ part.watchedAt = cursor.watchedAt
        /\ part \in CursorType
    <3>1. Snapshot \in {0} \cup Versions /\ Max(page) \in 0 .. PodCount
      BY <1>1, <1>4, <1>8, <2>2
    <3>2. PICK m : m = Max(page)
      OBVIOUS
    <3>3. /\ part.resourceVersion = 0 /\ part.snapshot = Snapshot
          /\ part.listed = m /\ part.watchedAt = cursor.watchedAt
          /\ part \in CursorType
      BY <1>2, <3>1, <3>2 DEF CursorType
    <3>. QED
      BY <3>2, <3>3
  <2> HIDE DEF part
  <2>4. GoodCursor(part)
    BY <1>1, <1>4, <1>8, <2>1, <2>2, <2>3 DEF GoodCursor
  <2>5. Recorded(part, k)
    <3> SUFFICES ASSUME NEW p \in KnownJobs, p \in Present(Snapshot), p <= Max(page)
                 PROVE  k[p] = Observed(Snapshot, p)
      BY <2>3 DEF Recorded
    <3>1. p \in Left => p \in page
      <4>1. p \in Pods /\ p \in Nat /\ Max(page) \in Nat
        BY <1>8, <2>2, WatchAssumption
      <4>2. p = Max(page) \/ p < Max(page)
        BY <4>1
      <4>. QED
        BY <1>6, <2>2, <4>2
    <3>. QED
      BY <1>11, <3>1
  <2>6. cycle' = [step |-> "read", seen |-> seen, cursor |-> part, gaps |-> newGaps]
    BY <1>7, <1>12
  <2>. QED
    BY <1>9, <2>1, <2>4, <2>5, <2>6, ReadIInv DEF k
<1>13. CASE page = Left
  <2>1. /\ end.resourceVersion = Snapshot /\ end.snapshot = 0
        /\ end.listed = 0 /\ end.watchedAt = cycle.at
        /\ end \in CursorType
    BY <1>1, <1>3, <1>4 DEF CursorType
  <2> HIDE DEF end
  <2>2. GoodCursor(end)
    BY <1>1, <1>2, <1>3, <1>4, <2>1 DEF GoodCursor
  <2>3. Recorded(end, k)
    BY <1>11, <1>13, <2>1 DEF Recorded
  <2>4. cycle' = [step |-> "read", seen |-> seen, cursor |-> end, gaps |-> newGaps]
    BY <1>7, <1>13
  <2>5. ASSUME PodCount <= pageLimit
        PROVE  /\ end.resourceVersion # 0
               /\ \A p \in KnownJobs : Settled(p) =>
                    /\ (/\ cursor.resourceVersion # 0
                        /\ cursor.resourceVersion < life[p].deleted
                        /\ life[p].deleted <= end.resourceVersion)
                         => GapFor(life[p].deleted, newGaps)
                    /\ (life[p].deleted <= cursor.resourceVersion /\ p \in DOMAIN seen)
                         => seen[p] = "ended"
    <3>1. Snapshot = version
      BY <1>2, <1>4, <2>5
    <3>2. \A p \in KnownJobs : (life[p].deleted # 0 /\ life[p].deleted <= version) => p \notin page
      BY <1>5, <3>1 DEF Present, HappenedBy
    <3>3. \A p \in KnownJobs : life[p].deleted \in Nat
      BY <1>1, WatchAssumption DEF IInv, TypeOK
    <3>4. \A p \in KnownJobs :
            (life[p].deleted # 0 /\ life[p].deleted <= cursor.resourceVersion) => p \notin page
      BY <1>1, <1>2, <3>2, <3>3
    <3>. QED
      BY <1>1, <1>9, <2>1, <2>5, <3>1, <3>4 DEF Settled
  <2>. QED
    BY <1>9, <2>2, <2>3, <2>4, <2>5, ReadIInv DEF k
<1>. QED
  BY <1>12, <1>13

LEMMA ListIInv == ASSUME IInv, List PROVE IInv'
<1>1. (PodCount <= pageLimit) => cursor.resourceVersion = 0
  BY DEF IInv, GoodCursor, List, MustList
<1>. QED
  BY <1>1, RelistIInv DEF List

(* The gap covers what happened since the cycle that watched last. *)
LEMMA ResumeIInv == ASSUME IInv, Resume PROVE IInv'
<1> DEFINE gap == [start |-> cursor.watchedAt, end |-> cycle.at, relisted |-> version]
<1>1. cycle.step = "started" /\ cursor.resourceVersion # 0 /\ Relist({gap})
  BY DEF Resume, MustList
<1>2. gap.start = cursor.watchedAt /\ gap.relisted = version
  OBVIOUS
<1>3. {gap} \subseteq GapType
  <2>1. /\ cursor.watchedAt \in Versions
        /\ version \in Versions /\ version \in Nat /\ cycle.at \in 1 .. version
    BY <1>1, WatchAssumption DEF IInv, TypeOK, GoodCursor, CursorType, StartIsLater, Versions
  <2>2. cycle.at \in Versions
    BY <2>1, WatchAssumption DEF IInv, TypeOK, Versions
  <2>. QED
    BY <2>1, <2>2 DEF GapType
<1> HIDE DEF gap
<1>4. ASSUME PodCount <= pageLimit, NEW p \in KnownJobs,
             cursor.resourceVersion < life[p].deleted, life[p].deleted <= version
      PROVE  GapFor(life[p].deleted, {gap})
  <2>1. /\ cursor.watchedAt <= cursor.resourceVersion
        /\ cursor.watchedAt \in Nat /\ cursor.resourceVersion \in Nat
    BY <1>4 DEF IInv, GoodCursor, CursorType, Versions
  <2>2. life[p].deleted \in Nat
    BY WatchAssumption DEF IInv, TypeOK, Versions
  <2>. QED
    BY <1>2, <1>4, <2>1, <2>2 DEF GapFor
<1>. QED
  BY <1>1, <1>3, <1>4, RelistIInv DEF Resume

(* A watch tells of every pod that changed since the cursor's version; the  *)
(* others are still as they were recorded.                                  *)
LEMMA WatchIInv == ASSUME IInv, NEW upTo \in 1 .. version, Watch(upTo) PROVE IInv'
<1> DEFINE from == cursor.resourceVersion
           changed == {p \in Pods : \E i \in 1 .. 3 :
                         HappenedBy(upTo, p, Stages[i]) /\ ~HappenedBy(from, p, Stages[i])}
           seen == [p \in changed |-> Observed(upTo, p)]
           c == [cursor EXCEPT !.resourceVersion = upTo, !.watchedAt = cycle.at]
           k == [p \in Pods |-> IF p \in DOMAIN seen THEN seen[p] ELSE known[p]]
<1>1. /\ cycle.step = "started" /\ cycle.at <= upTo
      /\ from # 0 /\ cursor.snapshot = 0
      /\ cycle' = [step |-> "read", seen |-> seen, cursor |-> c, gaps |-> {}]
      /\ UNCHANGED <<cluster, cursor, known, gaps, since>>
  BY DEF Watch, MustList
<1>2. /\ version \in Nat /\ version \in Versions /\ upTo \in Versions /\ upTo \in Nat
      /\ upTo <= version /\ upTo # 0
  BY WatchAssumption DEF IInv, TypeOK, Versions
<1>3. /\ cursor \in CursorType /\ cursor.listed = 0
      /\ from \in Nat /\ from <= cycle.at /\ from <= upTo
      /\ cycle.at \in 1 .. version /\ cycle.at \in Versions
  <2>1. /\ cursor \in CursorType /\ cursor.listed = 0
        /\ from \in Nat /\ from <= cycle.at /\ cycle.at \in 1 .. version
    BY <1>1 DEF IInv, GoodCursor, CursorType, StartIsLater, Versions
  <2>2. cycle.at \in Versions
    BY <1>2, <2>1, WatchAssumption DEF IInv, TypeOK, Versions
  <2>. QED
    BY <1>1, <1>2, <2>1, <2>2
<1>4. /\ c.resourceVersion = upTo /\ c.snapshot = 0
      /\ c.listed = 0 /\ c.watchedAt = cycle.at
      /\ c \in CursorType
  BY <1>1, <1>2, <1>3 DEF CursorType
<1>5. /\ DOMAIN seen = changed
      /\ \A p \in changed : seen[p] = Observed(upTo, p)
      /\ \A p \in DOMAIN seen : seen[p] \in {"running", "ended"}
  BY DEF Observed
<1>6. /\ \A p \in changed : k[p] = Observed(upTo, p)
      /\ \A p \in Pods \ changed : k[p] = known[p]
  OBVIOUS
<1>7. ASSUME NEW p \in Pods
      PROVE  /\ p \notin changed =>
                  /\ HappenedBy(upTo, p, "added") => HappenedBy(from, p, "added")
                  /\ HappenedBy(upTo, p, "ended") => HappenedBy(from, p, "ended")
                  /\ HappenedBy(upTo, p, "deleted") => HappenedBy(from, p, "deleted")
             /\ HappenedBy(from, p, "added") => HappenedBy(upTo, p, "added")
             /\ HappenedBy(from, p, "ended") => HappenedBy(upTo, p, "ended")
             /\ HappenedBy(from, p, "deleted") => HappenedBy(upTo, p, "deleted")
  <2>1. Stages[1] = "added" /\ Stages[2] = "ended" /\ Stages[3] = "deleted"
    BY DEF Stages
  <2>2. p \notin changed => \A i \in 1 .. 3 :
          HappenedBy(upTo, p, Stages[i]) => HappenedBy(from, p, Stages[i])
    OBVIOUS
  <2>3. 1 \in 1 .. 3 /\ 2 \in 1 .. 3 /\ 3 \in 1 .. 3
    OBVIOUS
  <2>4. /\ life[p].added \in Nat /\ life[p].ended \in Nat /\ life[p].deleted \in Nat
    BY <1>2 DEF IInv, TypeOK
  <2>5. /\ HappenedBy(from, p, "added") => HappenedBy(upTo, p, "added")
        /\ HappenedBy(from, p, "ended") => HappenedBy(upTo, p, "ended")
        /\ HappenedBy(from, p, "deleted") => HappenedBy(upTo, p, "deleted")
    BY <1>2, <1>3, <2>4 DEF HappenedBy
  <2>. QED
    BY <2>1, <2>2, <2>3, <2>5
<1> HIDE DEF changed, seen, c, k
<1>8. GoodCursor(c)
  BY <1>1, <1>2, <1>3, <1>4 DEF GoodCursor
<1>9. Recorded(c, k)
  <2> SUFFICES ASSUME NEW p \in KnownJobs, p \in Present(upTo)
               PROVE  k[p] = Observed(upTo, p)
    BY <1>4 DEF Recorded
  <2>1. p \in Pods
    BY WatchAssumption
  <2>2. CASE p \notin changed
    <3>1. p \in Present(from) /\ Observed(upTo, p) = Observed(from, p)
      BY <1>7, <2>1, <2>2 DEF Present, Observed
    <3>2. known[p] = Observed(from, p)
      BY <1>1, <3>1 DEF IInv, Recorded
    <3>. QED
      BY <1>6, <2>1, <2>2, <3>1, <3>2
  <2>. QED
    BY <1>6, <2>2
<1>10. ASSUME NEW p \in KnownJobs, Settled(p), life[p].deleted <= upTo
       PROVE  /\ from < life[p].deleted => p \in changed
              /\ p \in changed => seen[p] = "ended"
  <2>1. p \in Pods
    BY WatchAssumption
  <2>2. /\ life[p].ended \in Nat /\ life[p].deleted \in Nat
        /\ life[p].ended # 0 /\ life[p].ended < life[p].deleted
    BY <1>2, <1>10, <2>1 DEF IInv, TypeOK, LifeIsOrdered, Settled
  <2>3. HappenedBy(upTo, p, "ended") /\ HappenedBy(upTo, p, "deleted")
    BY <1>2, <1>10, <2>2 DEF HappenedBy
  <2>4. from < life[p].deleted => ~HappenedBy(from, p, "deleted")
    BY <1>3, <2>2 DEF HappenedBy
  <2>. QED
    BY <1>5, <1>7, <2>1, <2>3, <2>4 DEF Observed
<1>11. PodCount <= pageLimit =>
         /\ c.resourceVersion # 0
         /\ \A p \in KnownJobs : Settled(p) =>
              /\ (/\ cursor.resourceVersion # 0
                  /\ cursor.resourceVersion < life[p].deleted
                  /\ life[p].deleted <= c.resourceVersion)
                   => \/ p \in DOMAIN seen /\ seen[p] = "ended"
                      \/ GapFor(life[p].deleted, {})
              /\ (life[p].deleted <= cursor.resourceVersion /\ p \in DOMAIN seen)
                   => seen[p] = "ended"
  <2>1. \A p \in KnownJobs : life[p].deleted \in Nat
    BY <1>2, WatchAssumption DEF IInv, TypeOK
  <2>2. \A p \in KnownJobs : life[p].deleted <= from => life[p].deleted <= upTo
    BY <1>2, <1>3, <2>1
  <2>3. \A p \in KnownJobs : Settled(p) => life[p].deleted # 0
    BY DEF Settled
  <2>. QED
    BY <1>2, <1>4, <1>5, <1>10, <2>2, <2>3
<1>12. k = [p \in Pods |-> IF p \in DOMAIN seen THEN seen[p] ELSE known[p]] /\ {} \subseteq GapType
  BY DEF k
<1>13. PICK none : none = {}
  OBVIOUS
<1>14. /\ cycle' = [step |-> "read", seen |-> seen, cursor |-> c, gaps |-> none]
       /\ UNCHANGED <<cluster, cursor, known, gaps, since>>
  BY <1>1, <1>13
<1>15. none \subseteq GapType
  BY <1>13
<1>16. PodCount <= pageLimit =>
         /\ c.resourceVersion # 0
         /\ \A p \in KnownJobs : Settled(p) =>
              /\ (/\ cursor.resourceVersion # 0
                  /\ cursor.resourceVersion < life[p].deleted
                  /\ life[p].deleted <= c.resourceVersion)
                   => \/ p \in DOMAIN seen /\ seen[p] = "ended"
                      \/ GapFor(life[p].deleted, none)
              /\ (life[p].deleted <= cursor.resourceVersion /\ p \in DOMAIN seen)
                   => seen[p] = "ended"
  BY <1>11, <1>13
<1>. QED
  BY <1>5, <1>8, <1>9, <1>12, <1>14, <1>15, <1>16, ReadIInv

LEMMA ApplyIInv == ASSUME IInv, Apply PROVE IInv'
<1> USE DEF cluster
<1> DEFINE c == cycle.cursor
<1>1. /\ cycle.step = "read" /\ cursor' = c /\ cycle' = Idle
      /\ known' = [p \in Pods |-> IF p \in DOMAIN cycle.seen \cap jobs THEN cycle.seen[p] ELSE known[p]]
      /\ gaps' = gaps \cup cycle.gaps
      /\ since' = IF since # 0 THEN since ELSE Max({c.resourceVersion, c.snapshot})
      /\ UNCHANGED cluster
  BY DEF Apply
<1>2. /\ \A p \in DOMAIN cycle.seen : cycle.seen[p] \in {"running", "ended"}
      /\ cycle.gaps \subseteq GapType /\ GoodCursor(c) /\ Recorded(c, Seen)
  BY <1>1 DEF IInv, CycleIsRecorded
<1>3. cycle'.step = "idle"
  BY <1>1 DEF Idle
<1>4. \A p \in KnownJobs : known'[p] = Seen[p]
  BY <1>1, WatchAssumption DEF IInv, TypeOK, Seen
<1>5. TypeOK'
  BY <1>1, <1>2, <1>3 DEF IInv, TypeOK, GoodCursor, CursorType, GapType, Versions
<1>6. LifeIsOrdered' /\ StartIsLater' /\ CycleIsRecorded' /\ DeletionsAreSeen'
  BY <1>1, <1>3 DEF IInv, LifeIsOrdered, StartIsLater, CycleIsRecorded, DeletionsAreSeen
<1>7. GoodCursor(cursor)'
  BY <1>1, <1>2 DEF GoodCursor, CursorType, Versions
<1>8. Recorded(cursor, known)'
  BY <1>1, <1>2, <1>4 DEF Recorded, Present, Observed, HappenedBy
<1>9. /\ c.resourceVersion \in Nat /\ c.snapshot \in Nat /\ cursor.resourceVersion \in Nat
      /\ since \in Nat
      /\ \A p \in KnownJobs : life[p].deleted \in Nat
  BY <1>2, WatchAssumption DEF IInv, GoodCursor, CursorType, Versions, TypeOK, SinceIsTyped
<1>10. PodCount <= pageLimit =>
         /\ c.resourceVersion # 0 /\ c.snapshot = 0
         /\ since # 0 => since' = since /\ cursor.resourceVersion # 0
         /\ since = 0 => since' = c.resourceVersion
  <2>1. since = 0 => since' = IF c.resourceVersion >= c.snapshot THEN c.resourceVersion ELSE c.snapshot
    BY <1>1, <1>9, MaxOfTwo
  <2>2. PodCount <= pageLimit => c.resourceVersion # 0 /\ c.snapshot = 0
    BY <1>1, <1>2 DEF IInv, DeletionsAreSeen, GoodCursor
  <2>. QED
    BY <1>1, <1>9, <2>1, <2>2 DEF IInv, FirstListIsWhole
<1>11. FirstListIsWhole' /\ SinceIsTyped'
  <2>1. FirstListIsWhole'
    BY <1>1, <1>9, <1>10 DEF FirstListIsWhole
  <2>2. SinceIsTyped'
    BY <1>1, <1>9, MaxOfTwo DEF SinceIsTyped
  <2>. QED
    BY <2>1, <2>2
<1>12. EveryLossHasAGap'
  <2> SUFFICES ASSUME PodCount <= pageLimit, NEW p \in KnownJobs, Lost(p)', life[p].ended # 0
               PROVE  GapFor(life[p].deleted, gaps')
    BY <1>1 DEF EveryLossHasAGap, DeletedInAGap, GapFor
  <2>1. /\ since' # 0 /\ life[p].deleted > since'
        /\ c.resourceVersion >= life[p].deleted /\ known'[p] # "ended"
    BY <1>1 DEF Lost
  <2>2. since # 0 /\ since' = since /\ cursor.resourceVersion # 0 /\ life[p].deleted # 0
    BY <1>9, <1>10, <2>1
  <2>3. p \in Pods /\ known'[p] = IF p \in DOMAIN cycle.seen THEN cycle.seen[p] ELSE known[p]
    BY <1>4, WatchAssumption DEF Seen
  <2>4. CASE life[p].deleted <= cursor.resourceVersion
    <3>1. p \notin DOMAIN cycle.seen
      BY <1>1, <2>1, <2>2, <2>3, <2>4 DEF IInv, DeletionsAreSeen, Settled
    <3>2. Lost(p)
      BY <1>9, <2>1, <2>2, <2>3, <2>4, <3>1 DEF Lost
    <3>. QED
      BY <1>1, <3>2 DEF IInv, EveryLossHasAGap, DeletedInAGap, GapFor
  <2>5. CASE cursor.resourceVersion < life[p].deleted
    <3>1. GapFor(life[p].deleted, cycle.gaps)
      BY <1>1, <1>9, <2>1, <2>2, <2>3, <2>5 DEF IInv, DeletionsAreSeen, Settled
    <3>. QED
      BY <1>1, <3>1 DEF GapFor
  <2>. QED
    BY <1>9, <2>4, <2>5
<1>. QED
  BY <1>5, <1>6, <1>7, <1>8, <1>11, <1>12 DEF IInv

LEMMA InitIInv == Init => IInv
<1> SUFFICES ASSUME Init PROVE IInv
  OBVIOUS
<1>1. /\ cursor.resourceVersion = 0 /\ cursor.snapshot = 0
      /\ cursor.listed = 0 /\ cursor.watchedAt = 0
      /\ cursor \in CursorType
      /\ cycle.step = "idle" /\ version = 1
      /\ \A p \in Pods : life[p].added = 0 /\ life[p].ended = 0 /\ life[p].deleted = 0
  BY WatchAssumption DEF Init, CursorType, Idle, Unborn
<1>2. TypeOK
  BY <1>1, WatchAssumption DEF Init, TypeOK, Unborn, Versions
<1>3. LifeIsOrdered /\ GoodCursor(cursor) /\ Recorded(cursor, known) /\ StartIsLater
  BY <1>1 DEF LifeIsOrdered, GoodCursor, Recorded, StartIsLater
<1>4. /\ CycleIsRecorded /\ DeletionsAreSeen /\ FirstListIsWhole /\ SinceIsTyped
      /\ EveryLossHasAGap
  BY <1>1 DEF Init, CycleIsRecorded, DeletionsAreSeen, FirstListIsWhole, SinceIsTyped,
              EveryLossHasAGap, DeletedInAGap, Lost
<1>. QED
  BY <1>2, <1>3, <1>4 DEF IInv

LEMMA NextIInv == IInv /\ [Next]_vars => IInv'
<1> SUFFICES ASSUME IInv, [Next]_vars PROVE IInv'
  OBVIOUS
<1>1. CASE UNCHANGED vars
  <2>1. TypeOK' /\ LifeIsOrdered' /\ GoodCursor(cursor)' /\ Recorded(cursor, known)' /\ StartIsLater'
    BY <1>1 DEF vars, IInv, TypeOK, LifeIsOrdered, GoodCursor, Recorded, StartIsLater,
                Present, Observed, HappenedBy, CursorType, GapType, Versions
  <2>2. CycleIsRecorded'
    BY <1>1 DEF vars, IInv, CycleIsRecorded, GoodCursor, Recorded, Seen,
                Present, Observed, HappenedBy, CursorType, GapType, Versions
  <2>3. DeletionsAreSeen' /\ FirstListIsWhole' /\ SinceIsTyped' /\ EveryLossHasAGap'
    BY <1>1 DEF vars, IInv, DeletionsAreSeen, Settled, FirstListIsWhole, SinceIsTyped,
                EveryLossHasAGap, DeletedInAGap, Lost, GapFor
  <2>. QED
    BY <2>1, <2>2, <2>3 DEF IInv
<1>2. CASE Environment
  BY <1>2, PodEventIInv, OtherEventsIInv DEF Environment
<1>3. CASE ListFails \/ Fail
  BY <1>3, IdleIInv DEF ListFails, Fail
<1>4. CASE List \/ (\E v \in 1 .. version : Watch(v)) \/ Resume
  BY <1>4, ListIInv, WatchIInv, ResumeIInv
<1>. QED
  BY <1>1, <1>2, <1>3, <1>4, StartIInv, ApplyIInv DEF Next, ReadStep

(* The strengthened invariant holds of every reachable state. *)
THEOREM IInvHolds == Spec => []IInv
<1>1. Init => IInv
  BY InitIInv
<1>2. IInv /\ [Next]_vars => IInv'
  BY NextIInv
<1>. QED
  BY <1>1, <1>2, PTL DEF Spec

(* Types: among them, that the cursor is never at a place in a list without *)
(* the version of the list.                                                 *)
THEOREM TypeCorrect == Spec => []TypeOK
<1>1. IInv => TypeOK
  BY DEF IInv
<1>. QED
  BY <1>1, IInvHolds, PTL

(* What is recorded is what the pods said at the cursor's version, through  *)
(* any pages, failures, expiries and relists (ingestion.apply_batch).       *)
THEOREM CursorIsTrue == Spec => []CursorMeansRecorded
<1>1. IInv => CursorMeansRecorded
  BY DEF IInv, Recorded, CursorMeansRecorded
<1>. QED
  BY <1>1, IInvHolds, PTL

(* A pod whose end is lost to a relist is lost in a recorded gap, whatever  *)
(* the cluster forgets and whenever (KubernetesCollector.collect).          *)
THEOREM LossesAreInGaps == Spec => []EveryLossHasAGap
<1>1. IInv => EveryLossHasAGap
  BY DEF IInv
<1>. QED
  BY <1>1, IInvHolds, PTL
=============================================================================
