--------------------------- MODULE EnrollmentProofs ---------------------------
(***************************************************************************)
(* Which facts may meet in a namespace, for any databases, collectors and  *)
(* number of releases and namespaces.                                      *)
(*                                                                         *)
(* A collector looks at its source once, so what keeps a namespace to one  *)
(* source differs with what may happen.  Where no database is replaced,    *)
(* everything is read from the same one.  Where one is replaced between    *)
(* two collectors, every enrollment knows a fingerprint, and a collector   *)
(* that goes on has the one of its namespace and of the endpoint.          *)
(***************************************************************************)
EXTENDS Enrollment, FiniteSetTheorems, TLAPS

(* The database is never replaced. *)
Kept == "replaced_running" \notin may /\ "replaced_idle" \notin may

(* It is replaced only between two collectors, and has jobs when enrolled. *)
Known == "replaced_running" \notin may /\ "empty_source" \notin may

Resting == {"waiting", "start"}
Bound == {"built", "running", "read"}

(* A release is enrolled before it is checked, and checked before it is     *)
(* marked.                                                                 *)
JobIsInOrder ==
  /\ job # "done" => release.number \in 1 .. MaxReleases
  /\ job \in {"check", "mark"} => opened > 0

(* A collector that passed the check collects into an opened namespace. *)
PodsAreBound ==
  \A p \in Pods :
    /\ pods[p].step = "verified" => opened > 0
    /\ pods[p].step \in Bound => pods[p].space \in 1 .. opened

LeaseIsHeld ==
  "lease_lost" \notin may => \A p \in Pods : pods[p].step \in Collecting => lease = p

(* A batch is of some database. *)
BatchIsRead == \A p \in Pods : pods[p].step = "read" => pods[p].batch \in Databases

(* What is read is committed before another database is there. *)
BatchIsCurrent ==
  "replaced_running" \notin may =>
    \A p \in Pods : pods[p].step = "read" => pods[p].batch = endpoint

FactsAreTheEndpoints == Kept => \A n \in Namespaces : spaces[n].facts \subseteq {endpoint}

(* Every opened namespace has a fingerprint, and no facts but its own. *)
FactsAreTheBindings ==
  Known =>
    /\ withJobs = Databases
    /\ \A n \in 1 .. opened : spaces[n].fingerprint \in Databases
    /\ \A n \in Namespaces : spaces[n].facts \subseteq {spaces[n].fingerprint}

(* A collector that has looked has seen what is there, and where it         *)
(* collects, or is about to, is a namespace of that database.               *)
PodsSawTheEndpoint ==
  Known =>
    \A p \in Pods :
      /\ pods[p].step \notin Resting => pods[p].seen = endpoint
      /\ pods[p].step = "verified" => spaces[opened].fingerprint = endpoint
      /\ pods[p].step \in Bound => spaces[pods[p].space].fingerprint = endpoint

IInv ==
  /\ TypeOK
  /\ JobIsInOrder
  /\ PodsAreBound
  /\ LeaseIsHeld
  /\ BatchIsRead
  /\ BatchIsCurrent
  /\ FactsAreTheEndpoints
  /\ FactsAreTheBindings
  /\ PodsSawTheEndpoint

-----------------------------------------------------------------------------
(* The namespaces' and a collector's part of TypeOK. *)
Space == [archived : BOOLEAN, fingerprint : Fingerprints, facts : SUBSET Databases]
Pod == [step : {"waiting", "start", "discovered", "verified", "built", "running", "read"},
        seen : Fingerprints, space : Namespaces \cup {None}, batch : Fingerprints]

(* The active namespace is the one opened last. *)
LEMMA ActiveIsLast == TypeOK => Active = opened
<1> SUFFICES ASSUME TypeOK PROVE Active = opened
  OBVIOUS
<1>1. CASE opened = 0
  BY <1>1 DEF Active, None
<1>2. CASE opened > 0
  <2>1. opened \in Namespaces /\ ~(opened < opened)
    BY <1>2, BoundsAssumption DEF TypeOK, Namespaces
  <2>2. ~spaces[opened].archived
    BY <2>1 DEF TypeOK
  <2>. QED
    BY <1>2, <2>2 DEF Active
<1>. QED
  BY <1>1, <1>2 DEF TypeOK

LEMMA EndpointHasAFingerprint ==
  ASSUME IInv
  PROVE  /\ Fingerprint(endpoint) \in Fingerprints
         /\ Known => Fingerprint(endpoint) = endpoint
         /\ endpoint # None
BY NoneAssumption DEF IInv, TypeOK, FactsAreTheBindings, Fingerprint, Fingerprints

(* An enrollment opens a namespace for what is there, or finds that the     *)
(* active one has no other fingerprint.                                     *)
LEMMA EnrollmentKeepsSpaces ==
  ASSUME IInv, NEW reenroll, Enroll(reenroll, Fingerprint(endpoint))
  PROVE  /\ opened' \in 1 .. MaxNamespaces /\ opened <= opened'
         /\ spaces' \in [Namespaces -> Space]
         /\ \A n \in Namespaces : spaces'[n].archived <=> n < opened'
         /\ \A n \in Namespaces : spaces'[n].facts \subseteq spaces[n].facts
         /\ \A n \in Namespaces :
              n > opened => spaces'[n] = spaces[n] \/ spaces'[n].facts = {}
         /\ Known => \A n \in 1 .. opened : spaces'[n].fingerprint = spaces[n].fingerprint
         /\ Known => spaces'[opened'].fingerprint = endpoint
<1> DEFINE seen == Fingerprint(endpoint)
<1>1. seen \in Fingerprints /\ (Known => seen = endpoint) /\ endpoint # None
  BY EndpointHasAFingerprint
<1> HIDE DEF seen
<1>2. /\ Active = opened /\ opened \in 0 .. MaxNamespaces /\ MaxNamespaces \in Nat
      /\ spaces \in [Namespaces -> Space]
      /\ \A n \in Namespaces : spaces[n].archived <=> n < opened
  BY ActiveIsLast, BoundsAssumption DEF IInv, TypeOK, Space
<1>3. CASE Open(seen)
  <2>1. /\ opened < MaxNamespaces /\ opened' = opened + 1
        /\ spaces' = [n \in Namespaces |->
             CASE n = opened -> [spaces[n] EXCEPT !.archived = TRUE]
               [] n = opened + 1 -> [Unopened EXCEPT !.fingerprint = seen]
               [] OTHER -> spaces[n]]
    BY <1>2, <1>3 DEF Open
  <2>2. ASSUME NEW n \in Namespaces
        PROVE  /\ spaces'[n] \in Space
               /\ spaces'[n].archived <=> n < opened'
               /\ spaces'[n].facts \subseteq spaces[n].facts
               /\ n > opened => spaces'[n] = spaces[n] \/ spaces'[n].facts = {}
               /\ n = opened + 1 => spaces'[n].fingerprint = seen
               /\ n # opened + 1 => spaces'[n].fingerprint = spaces[n].fingerprint
    <3>1. n \in Nat /\ spaces[n] \in Space /\ (spaces[n].archived <=> n < opened)
      BY <1>2 DEF Namespaces
    <3>2. CASE n = opened
      <4>1. n < opened' /\ n # opened + 1
        BY <1>2, <2>1, <3>2
      <4>2. spaces'[n] = [spaces[n] EXCEPT !.archived = TRUE]
        BY <2>1, <3>2, <4>1
      <4>3. /\ spaces'[n] \in Space /\ spaces'[n].archived = TRUE
            /\ spaces'[n].facts = spaces[n].facts
            /\ spaces'[n].fingerprint = spaces[n].fingerprint
        BY <3>1, <4>2 DEF Space
      <4>4. spaces'[n].archived <=> n < opened'
        BY <4>3, <4>1
      <4>5. ~(n > opened)
        BY <3>1, <3>2
      <4>. QED
        BY <4>3, <4>1, <4>4, <4>5
    <3>3. CASE n = opened + 1
      <4>1. n # opened /\ ~(n < opened')
        BY <1>2, <2>1, <3>3
      <4>2. spaces'[n] = [Unopened EXCEPT !.fingerprint = seen]
        BY <2>1, <3>3, <4>1
      <4>3. /\ spaces'[n] \in Space /\ spaces'[n].archived = FALSE
            /\ spaces'[n].facts = {} /\ spaces'[n].fingerprint = seen
        BY <1>1, <4>2 DEF Space, Unopened
      <4>. QED
        BY <3>3, <4>1, <4>3
    <3>4. CASE n # opened /\ n # opened + 1
      <4>1. spaces'[n] = spaces[n]
        BY <2>1, <3>4
      <4>2. n < opened <=> n < opened'
        BY <1>2, <2>1, <3>1, <3>4
      <4>. QED
        BY <3>1, <3>4, <4>1, <4>2
    <3>. QED
      BY <3>2, <3>3, <3>4
  <2>3. opened' \in 1 .. MaxNamespaces /\ opened <= opened'
    BY <1>2, <2>1
  <2>4. \A n \in 1 .. opened : n \in Namespaces /\ n # opened + 1
    BY <1>2 DEF Namespaces
  <2>5. opened' \in Namespaces
    BY <2>3 DEF Namespaces
  <2>6. spaces' \in [Namespaces -> Space]
    <3>1. spaces' = [n \in Namespaces |-> spaces'[n]]
      BY <2>1
    <3>. QED
      BY <2>2, <3>1
  <2>. QED
    BY <1>1, <2>1, <2>2, <2>3, <2>4, <2>5, <2>6
<1>4. CASE Active # None /\ Resume(seen)
  <2>1. /\ ~Contradicts(spaces[opened].fingerprint, seen)
        /\ spaces' = [spaces EXCEPT ![opened].fingerprint =
                        IF seen # None THEN seen ELSE @]
        /\ opened' = opened
    BY <1>2, <1>4 DEF Resume, Recorded
  <2>2. opened \in 1 .. MaxNamespaces /\ opened \in Namespaces
    BY <1>2, <1>4 DEF None, Namespaces
  <2>3. spaces[opened] \in Space
    BY <1>2, <2>2
  <2>4. /\ spaces' \in [Namespaces -> Space]
        /\ spaces'[opened].fingerprint = IF seen # None THEN seen ELSE spaces[opened].fingerprint
        /\ spaces'[opened].facts = spaces[opened].facts
        /\ spaces'[opened].archived = spaces[opened].archived
        /\ \A n \in Namespaces \ {opened} : spaces'[n] = spaces[n]
    BY <1>1, <1>2, <2>1, <2>2, <2>3 DEF Space
  <2>5. Known => spaces[opened].fingerprint = endpoint /\ spaces'[opened].fingerprint = endpoint
    <3> SUFFICES ASSUME Known
                 PROVE  spaces[opened].fingerprint = endpoint /\ spaces'[opened].fingerprint = endpoint
      OBVIOUS
    <3>1. opened \in 1 .. opened
      BY <1>2, <2>2
    <3>2. spaces[opened].fingerprint # None
      BY <3>1, NoneAssumption DEF IInv, FactsAreTheBindings
    <3>. QED
      BY <1>1, <2>1, <2>4, <3>2 DEF Contradicts
  <2>6. \A n \in 1 .. opened : n \in Namespaces
    BY <1>2 DEF Namespaces
  <2>. QED
    BY <1>2, <2>1, <2>2, <2>4, <2>5, <2>6
<1>. QED
  BY <1>2, <1>3, <1>4 DEF Enroll, seen

(* ... so the collectors that run beside it stay where they belong. *)
LEMMA EnrollmentKeepsPods ==
  ASSUME IInv, NEW reenroll, Enroll(reenroll, Fingerprint(endpoint)),
         UNCHANGED <<may, endpoint, withJobs, pods, lease>>
  PROVE  /\ PodsAreBound' /\ LeaseIsHeld' /\ BatchIsRead' /\ BatchIsCurrent'
         /\ FactsAreTheEndpoints' /\ FactsAreTheBindings' /\ PodsSawTheEndpoint'
<1>1. /\ opened' \in 1 .. MaxNamespaces /\ opened <= opened'
      /\ \A n \in Namespaces : spaces'[n].facts \subseteq spaces[n].facts
      /\ Known => \A n \in 1 .. opened : spaces'[n].fingerprint = spaces[n].fingerprint
      /\ Known => spaces'[opened'].fingerprint = endpoint
  BY EnrollmentKeepsSpaces
<1>2. opened \in Nat /\ MaxNamespaces \in Nat
  BY BoundsAssumption DEF IInv, TypeOK
<1>3. \A n \in 1 .. opened : n \in 1 .. opened'
  BY <1>1, <1>2
<1>4. (Known' <=> Known) /\ (Kept' <=> Kept)
  BY DEF Known, Kept
<1>5. PodsAreBound'
  BY <1>1, <1>2, <1>3 DEF IInv, PodsAreBound
<1>6. LeaseIsHeld' /\ BatchIsRead' /\ BatchIsCurrent'
  BY DEF IInv, LeaseIsHeld, BatchIsRead, BatchIsCurrent
<1>7. FactsAreTheEndpoints'
  BY <1>1, <1>4 DEF IInv, FactsAreTheEndpoints
<1>8. FactsAreTheBindings'
  <2> SUFFICES ASSUME Known PROVE FactsAreTheBindings'
    BY <1>4 DEF FactsAreTheBindings
  <2>1. ASSUME NEW n \in 1 .. opened' PROVE spaces'[n].fingerprint \in Databases
    <3>1. CASE n \in 1 .. opened
      BY <1>1, <3>1 DEF IInv, FactsAreTheBindings
    <3>2. CASE n = opened'
      BY <1>1, <3>2 DEF IInv, TypeOK
    <3>3. n \in 1 .. opened \/ n = opened'
      <4>1. opened' = opened \/ opened' = opened + 1
        BY DEF Enroll, Open, Resume
      <4>. QED
        BY <1>2, <4>1
    <3>. QED
      BY <3>1, <3>2, <3>3
  <2>2. ASSUME NEW n \in Namespaces PROVE spaces'[n].facts \subseteq {spaces'[n].fingerprint}
    <3>1. CASE n \in 1 .. opened
      BY <1>1, <3>1 DEF IInv, FactsAreTheBindings
    <3>2. CASE n \notin 1 .. opened
      <4>1. n > opened
        BY <1>2, <3>2 DEF Namespaces
      <4>2. spaces'[n].fingerprint = spaces[n].fingerprint \/ spaces'[n].facts = {}
        BY <4>1, EnrollmentKeepsSpaces
      <4>. QED
        BY <1>1, <4>2 DEF IInv, FactsAreTheBindings
    <3>. QED
      BY <3>1, <3>2
  <2>. QED
    BY <1>4, <2>1, <2>2 DEF IInv, FactsAreTheBindings
<1>9. PodsSawTheEndpoint'
  BY <1>1, <1>4 DEF IInv, PodsSawTheEndpoint, PodsAreBound
<1>. QED
  BY <1>5, <1>6, <1>7, <1>8, <1>9

-----------------------------------------------------------------------------
(* What the invariant asks of one collector's record. *)
GoodPod(c) ==
  /\ c.step = "verified" => opened > 0
  /\ c.step \in Bound => c.space \in 1 .. opened
  /\ c.step = "read" => c.batch \in Databases
  /\ ("replaced_running" \notin may /\ c.step = "read") => c.batch = endpoint
  /\ Known =>
       /\ c.step \notin Resting => c.seen = endpoint
       /\ c.step = "verified" => spaces[opened].fingerprint = endpoint
       /\ c.step \in Bound => spaces[c.space].fingerprint = endpoint

LEMMA PodsAreGood ==
  ASSUME IInv, NEW p \in Pods
  PROVE  pods[p] \in Pod /\ GoodPod(pods[p])
BY DEF IInv, TypeOK, Pod, GoodPod, PodsAreBound, BatchIsRead, BatchIsCurrent, PodsSawTheEndpoint

(* A collector's step changes its own record and the namespace it holds:    *)
(* its fingerprint once, its facts as often as it commits.                  *)
LEMMA OnePodMoves ==
  ASSUME IInv, NEW p \in Pods, NEW c \in Pod, GoodPod(c),
         pods' = [pods EXCEPT ![p] = c],
         UNCHANGED <<may, endpoint, withJobs, release, job, opened, installed>>,
         lease' \in Pods \cup {None},
         "lease_lost" \notin may =>
           /\ c.step \in Collecting => lease' = p
           /\ \A q \in Pods \ {p} : pods[q].step \in Collecting => lease' = q,
         spaces' \in [Namespaces -> Space],
         \A n \in Namespaces : spaces'[n].archived <=> spaces[n].archived,
         Known => \A n \in 1 .. opened : spaces'[n].fingerprint = spaces[n].fingerprint,
         FactsAreTheEndpoints', FactsAreTheBindings'
  PROVE  IInv'
<1>1. /\ pods'[p] = c /\ \A q \in Pods \ {p} : pods'[q] = pods[q]
      /\ pods' \in [Pods -> Pod]
  BY DEF IInv, TypeOK, Pod
<1>2. TypeOK'
  <2>1. \A n \in Namespaces : spaces'[n].archived <=> n < opened'
    BY DEF IInv, TypeOK
  <2>. QED
    BY <1>1, <2>1 DEF IInv, TypeOK, Pod, Space, Namespaces
<1>3. JobIsInOrder'
  BY DEF IInv, JobIsInOrder
<1>4. LeaseIsHeld'
  BY <1>1 DEF LeaseIsHeld
<1>5. ASSUME NEW q \in Pods
      PROVE  /\ pods'[q].step = "verified" => opened > 0
             /\ pods'[q].step \in Bound => pods'[q].space \in 1 .. opened
             /\ pods'[q].step = "read" => pods'[q].batch \in Databases
             /\ ("replaced_running" \notin may /\ pods'[q].step = "read") => pods'[q].batch = endpoint
             /\ Known =>
                  /\ pods'[q].step \notin Resting => pods'[q].seen = endpoint
                  /\ pods'[q].step = "verified" => spaces'[opened].fingerprint = endpoint
                  /\ pods'[q].step \in Bound => spaces'[pods'[q].space].fingerprint = endpoint
  <2>1. GoodPod(pods'[q])
    BY <1>1, PodsAreGood
  <2>2. opened \in Nat
    BY DEF IInv, TypeOK
  <2>3. opened > 0 => opened \in 1 .. opened
    BY <2>2
  <2>. QED
    BY <2>1, <2>3 DEF GoodPod
<1>6. PodsAreBound' /\ BatchIsRead' /\ BatchIsCurrent' /\ PodsSawTheEndpoint'
  BY <1>5 DEF PodsAreBound, BatchIsRead, BatchIsCurrent, PodsSawTheEndpoint, Known
<1>. QED
  BY <1>2, <1>3, <1>4, <1>6 DEF IInv

(* A step that leaves the namespaces alone. *)
LEMMA PodStepsAlone ==
  ASSUME IInv, NEW p \in Pods, NEW c \in Pod, GoodPod(c),
         pods' = [pods EXCEPT ![p] = c],
         UNCHANGED <<may, endpoint, withJobs, release, job, spaces, opened, installed>>,
         lease' \in Pods \cup {None},
         "lease_lost" \notin may =>
           /\ c.step \in Collecting => lease' = p
           /\ \A q \in Pods \ {p} : pods[q].step \in Collecting => lease' = q
  PROVE  IInv'
<1>1. FactsAreTheEndpoints' /\ FactsAreTheBindings'
  BY DEF IInv, FactsAreTheEndpoints, FactsAreTheBindings, Kept, Known
<1>2. spaces' \in [Namespaces -> Space]
  BY DEF IInv, TypeOK, Space
<1>3. /\ \A n \in Namespaces : spaces'[n].archived <=> spaces[n].archived
      /\ Known => \A n \in 1 .. opened : spaces'[n].fingerprint = spaces[n].fingerprint
  OBVIOUS
<1>. QED
  BY <1>1, <1>2, <1>3, OnePodMoves

(* The leases of the collectors that do not move. *)
LEMMA OthersKeepTheLease ==
  ASSUME IInv, NEW p \in Pods, lease' = lease
  PROVE  "lease_lost" \notin may =>
           \A q \in Pods \ {p} : pods[q].step \in Collecting => lease' = q
BY DEF IInv, LeaseIsHeld

LEMMA WaitReadyIInv == ASSUME IInv, NEW p \in Pods, WaitReady(p) PROVE IInv'
<1> DEFINE c == [pods[p] EXCEPT !.step = "start"]
<1>1. pods[p] \in Pod /\ GoodPod(pods[p])
  BY PodsAreGood
<1>2. c \in Pod /\ c.step = "start"
  BY <1>1 DEF Pod
<1>3. pods' = [pods EXCEPT ![p] = c]
  BY DEF WaitReady
<1> HIDE DEF c
<1>4. GoodPod(c) /\ c.step \notin Collecting
  BY <1>2 DEF GoodPod, Bound, Resting, Collecting
<1>5. lease' = lease /\ lease \in Pods \cup {None}
  BY DEF WaitReady, IInv, TypeOK
<1>. QED
  BY <1>2, <1>3, <1>4, <1>5, OthersKeepTheLease, PodStepsAlone DEF WaitReady

LEMMA DiscoverIInv == ASSUME IInv, NEW p \in Pods, Discover(p) PROVE IInv'
<1> DEFINE c == [pods[p] EXCEPT !.step = "discovered", !.seen = Fingerprint(endpoint)]
<1>1. pods[p] \in Pod /\ GoodPod(pods[p])
  BY PodsAreGood
<1>2. c \in Pod /\ c.step = "discovered" /\ c.seen = Fingerprint(endpoint)
  BY <1>1, EndpointHasAFingerprint DEF Pod
<1>3. pods' = [pods EXCEPT ![p] = c]
  BY DEF Discover
<1> HIDE DEF c
<1>4. GoodPod(c) /\ c.step \notin Collecting
  BY <1>2, EndpointHasAFingerprint DEF GoodPod, Bound, Resting, Collecting
<1>5. lease' = lease /\ lease \in Pods \cup {None}
  BY DEF Discover, IInv, TypeOK
<1>. QED
  BY <1>2, <1>3, <1>4, <1>5, OthersKeepTheLease, PodStepsAlone DEF Discover

(* The check that a collector passes once, and the fingerprint it leaves. *)
LEMMA VerifyIInv == ASSUME IInv, NEW p \in Pods, Verify(p) PROVE IInv'
<1> DEFINE c == [pods[p] EXCEPT !.step = "verified"]
           seen == pods[p].seen
<1>1. pods[p] \in Pod /\ GoodPod(pods[p]) /\ pods[p].step = "discovered"
  BY PodsAreGood DEF Verify
<1>2. c \in Pod /\ c.step = "verified" /\ c.seen = seen
  BY <1>1 DEF Pod
<1>3. pods' = [pods EXCEPT ![p] = c]
  BY DEF Verify
<1> HIDE DEF c
<1>4. /\ Active = opened /\ opened \in 1 .. MaxNamespaces
      /\ opened \in 1 .. opened /\ opened \in Namespaces
  BY ActiveIsLast, BoundsAssumption DEF IInv, TypeOK, Verify, None, Namespaces
<1>5. seen \in Fingerprints /\ (Known => seen = endpoint /\ seen # None)
  BY <1>1, EndpointHasAFingerprint DEF Pod, GoodPod, Resting
<1>6. /\ ~Contradicts(spaces[opened].fingerprint, seen)
      /\ spaces' = [spaces EXCEPT ![opened].fingerprint = IF seen # None THEN seen ELSE @]
      /\ UNCHANGED <<may, endpoint, withJobs, release, job, opened, installed, lease>>
  BY <1>4 DEF Verify, Recorded
<1> HIDE DEF seen
<1>7. spaces \in [Namespaces -> Space] /\ spaces[opened] \in Space
  BY <1>4 DEF IInv, TypeOK, Space
<1>8. /\ spaces' \in [Namespaces -> Space]
      /\ spaces'[opened].fingerprint = IF seen # None THEN seen ELSE spaces[opened].fingerprint
      /\ spaces'[opened].facts = spaces[opened].facts
      /\ spaces'[opened].archived = spaces[opened].archived
      /\ \A n \in Namespaces \ {opened} : spaces'[n] = spaces[n]
  BY <1>4, <1>5, <1>6, <1>7 DEF Space
<1>9. Known => spaces[opened].fingerprint = endpoint /\ spaces'[opened].fingerprint = endpoint
  <2> SUFFICES ASSUME Known
               PROVE  spaces[opened].fingerprint = endpoint /\ spaces'[opened].fingerprint = endpoint
    OBVIOUS
  <2>1. spaces[opened].fingerprint # None
    BY <1>4, NoneAssumption DEF IInv, FactsAreTheBindings
  <2>. QED
    BY <1>5, <1>6, <1>8, <2>1 DEF Contradicts
<1>10. Known => \A n \in Namespaces : spaces'[n].fingerprint = spaces[n].fingerprint
  BY <1>8, <1>9
<1>11. \A n \in Namespaces : spaces'[n].facts = spaces[n].facts
  BY <1>8
<1>12. \A n \in 1 .. opened : n \in Namespaces
  BY <1>4, BoundsAssumption DEF Namespaces
<1>13. (Known' <=> Known) /\ (Kept' <=> Kept)
  BY <1>6 DEF Known, Kept
<1>14. FactsAreTheEndpoints'
  BY <1>6, <1>11, <1>13 DEF IInv, FactsAreTheEndpoints
<1>15. FactsAreTheBindings'
  BY <1>6, <1>10, <1>11, <1>12, <1>13 DEF IInv, FactsAreTheBindings
<1>16. \A n \in Namespaces : spaces'[n].archived <=> spaces[n].archived
  BY <1>8
<1>17. GoodPod(c)
  BY <1>2, <1>4, <1>5, <1>9 DEF GoodPod, Bound
<1>18. lease \in Pods \cup {None} /\ c.step \notin Collecting
  BY <1>2 DEF IInv, TypeOK, Collecting
<1>. QED
  BY <1>2, <1>3, <1>6, <1>8, <1>10, <1>12, <1>14, <1>15, <1>16, <1>17, <1>18,
     OthersKeepTheLease, OnePodMoves

LEMMA BuildIInv == ASSUME IInv, NEW p \in Pods, Build(p) PROVE IInv'
<1> DEFINE c == [pods[p] EXCEPT !.step = "built", !.space = Active]
<1>1. pods[p] \in Pod /\ GoodPod(pods[p]) /\ pods[p].step = "verified"
  BY PodsAreGood DEF Build
<1>2. Active = opened /\ opened \in 1 .. opened /\ opened \in Namespaces
  BY <1>1, ActiveIsLast, BoundsAssumption DEF IInv, TypeOK, GoodPod, Namespaces
<1>3. c \in Pod /\ c.step = "built" /\ c.space = opened /\ c.seen = pods[p].seen
  BY <1>1, <1>2 DEF Pod
<1>4. pods' = [pods EXCEPT ![p] = c]
  BY DEF Build
<1> HIDE DEF c
<1>5. GoodPod(c) /\ c.step \notin Collecting
  BY <1>1, <1>2, <1>3 DEF GoodPod, Bound, Resting, Collecting
<1>6. lease' = lease /\ lease \in Pods \cup {None}
  BY DEF Build, IInv, TypeOK
<1>7. UNCHANGED <<may, endpoint, withJobs, release, job, spaces, opened, installed>>
  BY DEF Build
<1>8. "lease_lost" \notin may =>
        \A q \in Pods \ {p} : pods[q].step \in Collecting => lease' = q
  BY <1>6, OthersKeepTheLease
<1>. QED
  BY <1>3, <1>4, <1>5, <1>6, <1>7, <1>8, PodStepsAlone

LEMMA AcquireIInv == ASSUME IInv, NEW p \in Pods, Acquire(p) PROVE IInv'
<1> DEFINE c == [pods[p] EXCEPT !.step = "running"]
<1>1. pods[p] \in Pod /\ GoodPod(pods[p]) /\ pods[p].step = "built"
  BY PodsAreGood DEF Acquire
<1>2. c \in Pod /\ c.step = "running" /\ c.space = pods[p].space /\ c.seen = pods[p].seen
  BY <1>1 DEF Pod
<1>3. pods' = [pods EXCEPT ![p] = c] /\ lease = None /\ lease' = p
  BY DEF Acquire
<1> HIDE DEF c
<1>4. GoodPod(c)
  BY <1>1, <1>2 DEF GoodPod, Bound, Resting
<1>5. "lease_lost" \notin may => \A q \in Pods : pods[q].step \notin Collecting
  BY <1>3, NoneAssumption DEF IInv, LeaseIsHeld
<1>. QED
  BY <1>2, <1>3, <1>4, <1>5, PodStepsAlone DEF Acquire

LEMMA ReadIInv == ASSUME IInv, NEW p \in Pods, Read(p) PROVE IInv'
<1> DEFINE c == [pods[p] EXCEPT !.step = "read", !.batch = endpoint]
<1>1. pods[p] \in Pod /\ GoodPod(pods[p]) /\ pods[p].step = "running"
  BY PodsAreGood DEF Read
<1>2. /\ c \in Pod /\ c.step = "read" /\ c.batch = endpoint
      /\ c.space = pods[p].space /\ c.seen = pods[p].seen
  BY <1>1 DEF Pod, IInv, TypeOK, Fingerprints
<1>3. pods' = [pods EXCEPT ![p] = c] /\ lease' = lease
  BY DEF Read
<1> HIDE DEF c
<1>4. GoodPod(c)
  BY <1>1, <1>2 DEF GoodPod, Bound, Resting, IInv, TypeOK
<1>5. lease \in Pods \cup {None} /\ ("lease_lost" \notin may => lease = p)
  BY <1>1 DEF IInv, TypeOK, LeaseIsHeld, Collecting
<1>6. UNCHANGED <<may, endpoint, withJobs, release, job, spaces, opened, installed>>
  BY DEF Read
<1>7. "lease_lost" \notin may =>
        \A q \in Pods \ {p} : pods[q].step \in Collecting => lease' = q
  BY <1>3, OthersKeepTheLease
<1>. QED
  BY <1>2, <1>3, <1>4, <1>5, <1>6, <1>7, PodStepsAlone

(* The batch joins the facts of the namespace that the collector found when *)
(* it started: it is of the same source as what is there.                   *)
LEMMA CommitIInv == ASSUME IInv, NEW p \in Pods, Commit(p) PROVE IInv'
<1> DEFINE c == [pods[p] EXCEPT !.step = "running", !.batch = None]
           n == pods[p].space
<1>1. pods[p] \in Pod /\ GoodPod(pods[p]) /\ pods[p].step = "read"
  BY PodsAreGood DEF Commit
<1>2. c \in Pod /\ c.step = "running" /\ c.space = n /\ c.seen = pods[p].seen
  BY <1>1 DEF Pod, Fingerprints
<1>3. /\ pods' = [pods EXCEPT ![p] = c]
      /\ spaces' = [spaces EXCEPT ![n].facts = @ \cup {pods[p].batch}]
      /\ UNCHANGED <<may, endpoint, withJobs, release, job, opened, installed, lease>>
  BY DEF Commit
<1> HIDE DEF c
<1>4. n \in 1 .. opened /\ n \in Namespaces
  BY <1>1, BoundsAssumption DEF GoodPod, Bound, IInv, TypeOK, Namespaces
<1> HIDE DEF n
<1>5. spaces \in [Namespaces -> Space] /\ spaces[n] \in Space /\ endpoint \in Databases
  BY <1>4 DEF IInv, TypeOK, Space
<1>6. /\ spaces'[n].facts = spaces[n].facts \cup {pods[p].batch}
      /\ spaces'[n].fingerprint = spaces[n].fingerprint
      /\ spaces'[n].archived = spaces[n].archived
      /\ \A m \in Namespaces \ {n} : spaces'[m] = spaces[m]
  BY <1>3, <1>4, <1>5 DEF Space
<1>7. spaces' \in [Namespaces -> Space]
  <2>1. pods[p].batch \in Databases
    BY <1>1 DEF IInv, BatchIsRead
  <2>. QED
    BY <1>3, <1>4, <1>5, <2>1 DEF Space
<1>8. /\ \A m \in Namespaces : spaces'[m].archived <=> spaces[m].archived
      /\ \A m \in Namespaces : spaces'[m].fingerprint = spaces[m].fingerprint
  BY <1>6
<1>9. \A m \in 1 .. opened : m \in Namespaces
  BY BoundsAssumption DEF Namespaces, IInv, TypeOK
<1>10. (Known' <=> Known) /\ (Kept' <=> Kept)
  BY <1>3 DEF Known, Kept
<1>11. (Known \/ Kept) => pods[p].batch = endpoint
  BY <1>1 DEF Known, Kept, GoodPod
<1>12. FactsAreTheEndpoints'
  BY <1>3, <1>6, <1>10, <1>11 DEF IInv, FactsAreTheEndpoints
<1>13. FactsAreTheBindings'
  <2>1. Known => spaces[n].fingerprint = endpoint
    BY <1>1 DEF GoodPod, Bound, n
  <2>2. Known => \A m \in Namespaces : spaces'[m].facts \subseteq {spaces'[m].fingerprint}
    BY <1>6, <1>11, <2>1 DEF IInv, FactsAreTheBindings
  <2>. QED
    BY <1>3, <1>8, <1>9, <1>10, <2>2 DEF IInv, FactsAreTheBindings
<1>14. GoodPod(c)
  BY <1>1, <1>2 DEF GoodPod, Bound, Resting, n
<1>15. lease \in Pods \cup {None} /\ ("lease_lost" \notin may => lease = p)
  BY <1>1 DEF IInv, TypeOK, LeaseIsHeld, Collecting
<1>. QED
  BY <1>2, <1>3, <1>7, <1>8, <1>9, <1>12, <1>13, <1>14, <1>15,
     OthersKeepTheLease, OnePodMoves

LEMMA StopIInv ==
  ASSUME IInv, NEW p \in Pods, NEW step \in Resting, Stop(p, step)
  PROVE  IInv'
<1> DEFINE c == [Off EXCEPT !.step = step]
<1>1. c \in Pod /\ c.step = step
  BY DEF Off, Pod, Resting, Fingerprints
<1>2. pods' = [pods EXCEPT ![p] = c]
  BY DEF Stop
<1> HIDE DEF c
<1>3. GoodPod(c) /\ c.step \notin Collecting
  BY <1>1 DEF GoodPod, Bound, Resting, Collecting
<1>4. lease' \in Pods \cup {None}
  BY DEF Stop, IInv, TypeOK
<1>5. "lease_lost" \notin may =>
        \A q \in Pods \ {p} : pods[q].step \in Collecting => lease' = q
  BY DEF Stop, IInv, LeaseIsHeld
<1>. QED
  BY <1>1, <1>2, <1>3, <1>4, <1>5, PodStepsAlone DEF Stop

-----------------------------------------------------------------------------
(* What happens beside the collectors. *)

LEMMA OutsideIInv ==
  ASSUME IInv, NEW d \in Databases, RunsAJob(d) \/ ReplaceDatabase(d)
  PROVE  IInv'
<1>1. /\ UNCHANGED <<may, release, job, spaces, opened, installed, pods, lease>>
      /\ endpoint' \in Databases /\ withJobs' \subseteq Databases
  BY DEF IInv, TypeOK, RunsAJob, ReplaceDatabase
<1>2. TypeOK' /\ JobIsInOrder' /\ PodsAreBound' /\ LeaseIsHeld' /\ BatchIsRead'
  BY <1>1 DEF IInv, TypeOK, JobIsInOrder, PodsAreBound, LeaseIsHeld, BatchIsRead
<1>3. CASE RunsAJob(d)
  <2>1. endpoint' = endpoint /\ (Known => withJobs' = withJobs)
    BY <1>3 DEF RunsAJob, IInv, FactsAreTheBindings
  <2>2. BatchIsCurrent' /\ FactsAreTheEndpoints'
    BY <1>1, <2>1 DEF IInv, BatchIsCurrent, FactsAreTheEndpoints, Kept
  <2>3. FactsAreTheBindings' /\ PodsSawTheEndpoint'
    BY <1>1, <2>1 DEF IInv, FactsAreTheBindings, PodsSawTheEndpoint, Known
  <2>. QED
    BY <1>2, <2>2, <2>3 DEF IInv
<1>4. CASE ReplaceDatabase(d)
  <2>1. /\ withJobs' = withJobs /\ ~Kept'
        /\ "replaced_running" \notin may => \A p \in Pods : pods[p].step \in Resting
    BY <1>4 DEF ReplaceDatabase, Kept, Resting
  <2>2. BatchIsCurrent' /\ FactsAreTheEndpoints'
    BY <1>1, <2>1 DEF BatchIsCurrent, FactsAreTheEndpoints, Resting
  <2>3. FactsAreTheBindings' /\ PodsSawTheEndpoint'
    BY <1>1, <2>1 DEF IInv, FactsAreTheBindings, PodsSawTheEndpoint, Known, Resting, Bound
  <2>. QED
    BY <1>2, <2>2, <2>3 DEF IInv
<1>. QED
  BY <1>3, <1>4

LEMMA LoseLeaseIInv == ASSUME IInv, NEW p \in Pods, LoseLease(p) PROVE IInv'
<1>1. /\ UNCHANGED <<may, endpoint, withJobs, release, job, spaces, opened, installed, pods>>
      /\ lease' = None /\ "lease_lost" \in may
  BY DEF LoseLease
<1>2. TypeOK' /\ JobIsInOrder' /\ PodsAreBound' /\ LeaseIsHeld' /\ BatchIsRead'
  BY <1>1 DEF IInv, TypeOK, JobIsInOrder, PodsAreBound, LeaseIsHeld, BatchIsRead
<1>3. BatchIsCurrent' /\ FactsAreTheEndpoints' /\ FactsAreTheBindings' /\ PodsSawTheEndpoint'
  BY <1>1 DEF IInv, BatchIsCurrent, FactsAreTheEndpoints, FactsAreTheBindings,
              PodsSawTheEndpoint, Kept, Known
<1>. QED
  BY <1>2, <1>3 DEF IInv

(* Steps of the initialization that enroll nothing. *)
LEMMA ReleaseStepsIInv ==
  ASSUME IInv,
         UNCHANGED <<may, endpoint, withJobs, spaces, opened, pods, lease>>,
         release' \in [number : 0 .. MaxReleases, reenroll : BOOLEAN],
         job' \in {"enroll", "check", "mark", "done"},
         JobIsInOrder',
         installed' \subseteq (1 .. MaxReleases) \X Namespaces
  PROVE  IInv'
<1>1. TypeOK' /\ PodsAreBound' /\ LeaseIsHeld' /\ BatchIsRead'
  BY DEF IInv, TypeOK, PodsAreBound, LeaseIsHeld, BatchIsRead, Namespaces
<1>2. BatchIsCurrent' /\ FactsAreTheEndpoints' /\ FactsAreTheBindings' /\ PodsSawTheEndpoint'
  BY DEF IInv, BatchIsCurrent, FactsAreTheEndpoints, FactsAreTheBindings,
         PodsSawTheEndpoint, Kept, Known
<1>. QED
  BY <1>1, <1>2 DEF IInv

LEMMA UpgradeIInv == ASSUME IInv, NEW reenroll \in BOOLEAN, Upgrade(reenroll) PROVE IInv'
<1> DEFINE next == [number |-> release.number + 1, reenroll |-> reenroll]
<1>1. /\ release' = next /\ job' = "enroll"
      /\ UNCHANGED <<may, endpoint, withJobs, spaces, opened, installed, pods, lease>>
      /\ release.number \in 0 .. MaxReleases /\ release.number < MaxReleases
  BY DEF Upgrade, IInv, TypeOK
<1>2. release.number + 1 \in 1 .. MaxReleases
  BY <1>1, BoundsAssumption
<1>3. next \in [number : 0 .. MaxReleases, reenroll : BOOLEAN] /\ next.number \in 1 .. MaxReleases
  BY <1>2, BoundsAssumption
<1> HIDE DEF next
<1>4. JobIsInOrder'
  BY <1>1, <1>3 DEF JobIsInOrder
<1>5. installed' \subseteq (1 .. MaxReleases) \X Namespaces
  BY <1>1 DEF IInv, TypeOK
<1>. QED
  BY <1>1, <1>3, <1>4, <1>5, ReleaseStepsIInv

LEMMA JobEnrollsIInv == ASSUME IInv, JobEnrolls PROVE IInv'
<1>1. /\ Enroll(release.reenroll, Fingerprint(endpoint))
      /\ job = "enroll" /\ job' = "check"
      /\ UNCHANGED <<may, endpoint, withJobs, release, installed, pods, lease>>
  BY DEF JobEnrolls
<1>2. /\ opened' \in 1 .. MaxNamespaces
      /\ spaces' \in [Namespaces -> Space]
      /\ \A n \in Namespaces : spaces'[n].archived <=> n < opened'
  BY <1>1, EnrollmentKeepsSpaces
<1>3. /\ PodsAreBound' /\ LeaseIsHeld' /\ BatchIsRead' /\ BatchIsCurrent'
      /\ FactsAreTheEndpoints' /\ FactsAreTheBindings' /\ PodsSawTheEndpoint'
  BY <1>1, EnrollmentKeepsPods
<1>4. opened' \in 0 .. MaxNamespaces /\ opened' > 0
  BY <1>2, BoundsAssumption
<1>5. TypeOK' /\ JobIsInOrder'
  BY <1>1, <1>2, <1>4 DEF IInv, TypeOK, JobIsInOrder, Space, Namespaces
<1>. QED
  BY <1>3, <1>5 DEF IInv

LEMMA ReplaceSourceIInv == ASSUME IInv, ReplaceSource PROVE IInv'
<1>1. /\ Enroll(TRUE, Fingerprint(endpoint))
      /\ UNCHANGED <<may, endpoint, withJobs, release, job, installed, pods, lease>>
  BY DEF ReplaceSource
<1>2. /\ opened' \in 1 .. MaxNamespaces
      /\ spaces' \in [Namespaces -> Space]
      /\ \A n \in Namespaces : spaces'[n].archived <=> n < opened'
  BY <1>1, EnrollmentKeepsSpaces
<1>3. /\ PodsAreBound' /\ LeaseIsHeld' /\ BatchIsRead' /\ BatchIsCurrent'
      /\ FactsAreTheEndpoints' /\ FactsAreTheBindings' /\ PodsSawTheEndpoint'
  BY <1>1, EnrollmentKeepsPods
<1>4. opened' \in 0 .. MaxNamespaces /\ opened' > 0
  BY <1>2, BoundsAssumption
<1>5. TypeOK' /\ JobIsInOrder'
  BY <1>1, <1>2, <1>4 DEF IInv, TypeOK, JobIsInOrder, Space, Namespaces
<1>. QED
  BY <1>3, <1>5 DEF IInv

(* Marks are of releases and of opened namespaces, in the order of the Job. *)
LEMMA JobStepsIInv == ASSUME IInv, JobChecks \/ JobMarks \/ JobFails PROVE IInv'
<1>1. /\ UNCHANGED <<may, endpoint, withJobs, release, spaces, opened, pods, lease>>
      /\ job \in {"check", "mark"} /\ job' \in {"enroll", "mark", "done"}
  BY DEF JobChecks, JobMarks, JobFails
<1>2. release.number \in 1 .. MaxReleases /\ opened > 0
  BY <1>1 DEF IInv, JobIsInOrder
<1>3. JobIsInOrder'
  BY <1>1, <1>2 DEF JobIsInOrder
<1>4. installed' \subseteq (1 .. MaxReleases) \X Namespaces
  <2>1. Active \in Namespaces
    BY <1>2, ActiveIsLast, BoundsAssumption DEF IInv, TypeOK, Namespaces
  <2>2. installed' = installed \/ installed' = installed \cup {<<release.number, Active>>}
    BY DEF JobChecks, JobMarks, JobFails
  <2>. QED
    BY <1>2, <2>1, <2>2 DEF IInv, TypeOK
<1>5. release' \in [number : 0 .. MaxReleases, reenroll : BOOLEAN]
  BY <1>1 DEF IInv, TypeOK
<1>. QED
  BY <1>1, <1>3, <1>4, <1>5, ReleaseStepsIInv

-----------------------------------------------------------------------------
LEMMA InitIInv == Init => IInv
<1> SUFFICES ASSUME Init PROVE IInv
  OBVIOUS
<1>1. Off \in Pod /\ Off.step = "waiting"
  BY DEF Off, Pod, Fingerprints
<1>2. /\ \A p \in Pods : pods[p] = Off
      /\ pods \in [Pods -> Pod]
  BY <1>1 DEF Init
<1>3. Unopened \in Space /\ Unopened.facts = {} /\ Unopened.archived = FALSE
  BY DEF Unopened, Space, Fingerprints
<1>4. /\ \A n \in Namespaces : spaces[n] = Unopened
      /\ spaces \in [Namespaces -> Space]
  BY <1>3 DEF Init
<1>5. \A n \in Namespaces : ~(n < opened) /\ n > 0
  BY BoundsAssumption DEF Init, Namespaces
<1>6. \A n \in Namespaces : spaces[n].archived <=> n < opened
  BY <1>3, <1>4, <1>5
<1>7. release \in [number : 0 .. MaxReleases, reenroll : BOOLEAN] /\ opened \in 0 .. MaxNamespaces
  BY BoundsAssumption DEF Init
<1>8. withJobs \subseteq Databases /\ ("empty_source" \notin may => withJobs = Databases)
  BY DEF Init
<1>9. TypeOK
  BY <1>2, <1>4, <1>6, <1>7, <1>8 DEF Init, TypeOK, Pod, Space
<1>10. JobIsInOrder /\ PodsAreBound /\ LeaseIsHeld /\ BatchIsRead /\ BatchIsCurrent
  BY <1>1, <1>2 DEF Init, JobIsInOrder, PodsAreBound, LeaseIsHeld, BatchIsRead,
                    BatchIsCurrent, Bound, Collecting
<1>11. FactsAreTheEndpoints /\ FactsAreTheBindings
  BY <1>3, <1>4, <1>8 DEF Init, FactsAreTheEndpoints, FactsAreTheBindings, Known
<1>12. PodsSawTheEndpoint
  BY <1>1, <1>2 DEF PodsSawTheEndpoint, Resting, Bound
<1>. QED
  BY <1>9, <1>10, <1>11, <1>12 DEF IInv

LEMMA NextIInv == IInv /\ [Next]_vars => IInv'
<1> SUFFICES ASSUME IInv, [Next]_vars PROVE IInv'
  OBVIOUS
<1>1. CASE UNCHANGED vars
  BY <1>1 DEF vars, IInv, TypeOK, JobIsInOrder, PodsAreBound, LeaseIsHeld, BatchIsRead,
              BatchIsCurrent, FactsAreTheEndpoints, FactsAreTheBindings,
              PodsSawTheEndpoint, Kept, Known
<1>2. ASSUME NEW p \in Pods, PodStep(p) PROVE IInv'
  BY <1>2, WaitReadyIInv, DiscoverIInv, VerifyIInv, BuildIInv, AcquireIInv,
     ReadIInv, CommitIInv DEF PodStep
<1>3. CASE Next
  BY <1>2, <1>3, OutsideIInv, ReplaceSourceIInv, UpgradeIInv, JobEnrollsIInv,
     JobStepsIInv, LoseLeaseIInv, StopIInv DEF Next, Resting
<1>. QED
  BY <1>1, <1>3

(* The strengthened invariant holds of every reachable state. *)
THEOREM IInvHolds == Spec => []IInv
<1>1. Init => IInv
  BY InitIInv
<1>2. IInv /\ [Next]_vars => IInv'
  BY NextIInv
<1>. QED
  BY <1>1, <1>2, PTL DEF Spec

(* Types, and that every namespace but the last is retired: active_tenant   *)
(* never has two answers.                                                   *)
THEOREM TypeCorrect == Spec => []TypeOK
<1>1. IInv => TypeOK
  BY DEF IInv
<1>. QED
  BY <1>1, IInvHolds, PTL

(* A set with at most one member, whatever it is a set of. *)
LEMMA AtMostOne ==
  ASSUME NEW S, \A x, y \in S : x = y
  PROVE  Cardinality(S) <= 1
<1>1. CASE S = {}
  BY <1>1, FS_EmptySet
<1>2. CASE S # {}
  <2>1. PICK x : x \in S
    BY <1>2
  <2>2. S = {x}
    BY <2>1
  <2>. QED
    BY <2>2, FS_Singleton
<1>. QED
  BY <1>1, <1>2

(* No namespace mixes two databases, however enrollments, releases and      *)
(* collectors interleave (enrollment.check_evidence).                       *)
THEOREM NamespacesHaveOneSource == Spec => []OneSourcePerNamespace
<1>1. IInv => OneSourcePerNamespace
  <2> SUFFICES ASSUME IInv,
                      "replaced_running" \notin may,
                      ~({"replaced_idle", "empty_source"} \subseteq may),
                      NEW n \in Namespaces
               PROVE  Cardinality(spaces[n].facts) <= 1
    BY DEF OneSourcePerNamespace
  <2>1. Known \/ Kept
    BY DEF Known, Kept
  <2>2. \A x, y \in spaces[n].facts : x = y
    BY <2>1 DEF IInv, FactsAreTheEndpoints, FactsAreTheBindings
  <2>. QED
    BY <2>2, AtMostOne
<1>. QED
  BY <1>1, IInvHolds, PTL

(* Two collectors never collect at once while the lease's connection lasts  *)
(* (collector.CollectorLease).                                              *)
THEOREM CollectorsAreAlone == Spec => []OneCollector
<1>1. IInv => OneCollector
  <2> SUFFICES ASSUME IInv, "lease_lost" \notin may
               PROVE  Cardinality({p \in Pods : pods[p].step \in Collecting}) <= 1
    BY DEF OneCollector
  <2>1. \A p, q \in {p \in Pods : pods[p].step \in Collecting} : p = q
    BY DEF IInv, LeaseIsHeld
  <2>. QED
    BY <2>1, AtMostOne
<1>. QED
  BY <1>1, IInvHolds, PTL
=============================================================================
