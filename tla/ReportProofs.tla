---------------------------- MODULE ReportProofs ----------------------------
(***************************************************************************)
(* Proofs about ReportSnapshot and ReportPages, for any writers, readers,  *)
(* facts, parts and bounds.                                                *)
(*                                                                         *)
(* The database.  MarkerMeansCurrent is not inductive: whether a commit    *)
(* keeps it depends on what the committing transaction saw when it began,  *)
(* on whether anybody else has written since, and on what its pending row  *)
(* records.  IInv names those facts, one conjunct each.                    *)
(*                                                                         *)
(* The pages.  A page is put together from answers of different instants.  *)
(* What makes them one snapshot is not the instant but the pin: every      *)
(* answer is that of the pinned revision, a committed revision keeps its   *)
(* contents, and one that may be served was calculated from the facts      *)
(* beside it (IInv).  So the page being loaded is described by one         *)
(* committed revision, and to the contract its later parts are stutters.   *)
(***************************************************************************)
EXTENDS ReportPages, TLAPS

\* A snapshot is not newer than the database, and a transaction that has not
\* written and whose snapshot is current still sees the current contents.
SnapshotsAreSound ==
  \A w \in Writers :
    /\ txn[w].base <= generation \/ ~IsOpen(w)
    /\ txn[w].base <= txn[w].gen
    /\ (IsOpen(w) /\ ~HasWritten(w) /\ txn[w].base = generation)
         => txn[w].content = facts
    /\ \A r \in txn[w].seen : r.marker <= txn[w].base

\* Only one transaction has written, and it began from the current generation.
OneWriter ==
  \A w \in Writers : HasWritten(w) =>
    /\ txn[w].base = generation
    /\ \A v \in Writers \ {w} : ~HasWritten(v)

\* A pending row records its own transaction's generation and contents.
PendingIsOwn ==
  \A w \in Writers :
    /\ \A p \in txn[w].pending : p.marker = txn[w].gen /\ p.content = txn[w].content
    /\ \A p, q \in txn[w].pending : p = q
    /\ txn[w].status # "calculated" => txn[w].pending = {}

\* Pending rows of different transactions are different rows of different contents.
PendingIsExclusive ==
  \A w, v \in Writers : w # v =>
    \A p \in txn[w].pending, q \in txn[v].pending :
      p.created # q.created /\ p.content # q.content

\* A pending row either joins the committed ones, or moves one of them forward.
PendingFits ==
  \A w \in Writers : \A p \in txn[w].pending, r \in revisions :
    /\ p.created = r.created <=> p.content = r.content
    /\ p.created = r.created => r.marker <= p.marker

MarkersAreBounded == \A r \in revisions : r.marker <= generation

IInv ==
  /\ TypeOK
  /\ MarkerMeansCurrent
  /\ OneRevisionPerContent
  /\ SnapshotsAreSound
  /\ OneWriter
  /\ PendingIsOwn
  /\ PendingIsExclusive
  /\ PendingFits
  /\ MarkersAreBounded
-----------------------------------------------------------------------------
LEMMA IdleIsTransaction == Idle \in Transaction /\ Idle.status = "idle" /\ Idle.pending = {}
  BY FactsAssumption DEF Idle, Transaction

LEMMA InitIInv == Init => IInv
<1> SUFFICES ASSUME Init PROVE IInv
  OBVIOUS
<1>1. TypeOK
  BY IdleIsTransaction, FactsAssumption DEF Init, TypeOK
<1>2. \A w \in Writers : txn[w] = Idle
  BY DEF Init
<1>3. SnapshotsAreSound /\ OneWriter /\ PendingIsOwn /\ PendingIsExclusive /\ PendingFits
  BY <1>2 DEF SnapshotsAreSound, OneWriter, PendingIsOwn, PendingIsExclusive,
              PendingFits, HasWritten, IsOpen, Idle
<1>4. MarkerMeansCurrent /\ OneRevisionPerContent /\ MarkersAreBounded
  BY DEF Init, MarkerMeansCurrent, OneRevisionPerContent, MarkersAreBounded
<1> QED
  BY <1>1, <1>3, <1>4 DEF IInv

LEMMA BeginIInv == ASSUME IInv, NEW w \in Writers, Begin(w) PROVE IInv'
<1> DEFINE t == [status |-> "open", base |-> generation, gen |-> generation,
                 content |-> facts, seen |-> revisions, pending |-> {}]
<1>1. /\ txn' = [txn EXCEPT ![w] = t]
      /\ UNCHANGED <<facts, generation, revisions>>
  BY DEF Begin
<1>2. t \in Transaction
  BY DEF Transaction, IInv, TypeOK
<1>3. TypeOK'
  BY <1>1, <1>2 DEF IInv, TypeOK
<1>4. txn'[w] = t /\ \A v \in Writers \ {w} : txn'[v] = txn[v]
  BY <1>1 DEF IInv, TypeOK
<1> HIDE DEF t
<1>5. /\ t.status = "open" /\ t.base = generation /\ t.gen = generation
      /\ t.content = facts /\ t.seen = revisions /\ t.pending = {}
  BY DEF t
<1>6. SnapshotsAreSound'
  BY <1>1, <1>4, <1>5 DEF IInv, TypeOK, SnapshotsAreSound, MarkersAreBounded, IsOpen, HasWritten
<1>7. OneWriter'
  BY <1>1, <1>4, <1>5 DEF IInv, TypeOK, OneWriter, IsOpen, HasWritten
<1>8. PendingIsOwn' /\ PendingIsExclusive' /\ PendingFits'
  BY <1>1, <1>4, <1>5 DEF IInv, PendingIsOwn, PendingIsExclusive, PendingFits, IsOpen
<1>9. MarkerMeansCurrent' /\ OneRevisionPerContent' /\ MarkersAreBounded'
  BY <1>1 DEF IInv, MarkerMeansCurrent, OneRevisionPerContent, MarkersAreBounded
<1> QED
  BY <1>3, <1>6, <1>7, <1>8, <1>9 DEF IInv

LEMMA WriteIInv == ASSUME IInv, NEW w \in Writers, Write(w) PROVE IInv'
<1>1. /\ txn[w].status = "open"
      /\ GenerationRowIsFree(w)
      /\ UNCHANGED <<facts, generation, revisions>>
  BY DEF Write
<1>2. PICK f \in Facts : txn' = [txn EXCEPT ![w].content = f, ![w].gen = @ + 1]
  BY DEF Write
<1>3. txn[w] \in Transaction /\ txn[w].gen \in Nat
  BY DEF IInv, TypeOK, Transaction
<1>4. /\ txn'[w].status = txn[w].status
      /\ txn'[w].base = txn[w].base
      /\ txn'[w].gen = txn[w].gen + 1
      /\ txn'[w].content = f
      /\ txn'[w].seen = txn[w].seen
      /\ txn'[w].pending = txn[w].pending
      /\ \A v \in Writers \ {w} : txn'[v] = txn[v]
  BY <1>2, <1>3 DEF IInv, TypeOK, Transaction
<1>5. TypeOK'
  <2>1. \A g \in Nat : [txn[w] EXCEPT !.content = f, !.gen = g] \in Transaction
    BY <1>3 DEF Transaction
  <2>2. txn[w].gen + 1 \in Nat
    BY <1>3
  <2>3. [txn[w] EXCEPT !.content = f, !.gen = txn[w].gen + 1] \in Transaction
    BY <2>1, <2>2
  <2> QED
    BY <1>1, <1>2, <2>3 DEF IInv, TypeOK
<1>6. \A v \in Writers : txn[v].base \in Nat /\ txn[v].gen \in Nat
  BY DEF IInv, TypeOK, Transaction
<1>7. SnapshotsAreSound'
  BY <1>1, <1>4, <1>6 DEF IInv, SnapshotsAreSound, IsOpen, HasWritten
<1>8. OneWriter'
  BY <1>1, <1>4, <1>6 DEF IInv, OneWriter, GenerationRowIsFree, IsOpen, HasWritten
<1>9. txn[w].pending = {}
  BY <1>1 DEF IInv, PendingIsOwn
<1>10. PendingIsOwn' /\ PendingIsExclusive' /\ PendingFits'
  BY <1>1, <1>4, <1>9 DEF IInv, PendingIsOwn, PendingIsExclusive, PendingFits
<1>11. MarkerMeansCurrent' /\ OneRevisionPerContent' /\ MarkersAreBounded'
  BY <1>1 DEF IInv, MarkerMeansCurrent, OneRevisionPerContent, MarkersAreBounded
<1> QED
  BY <1>5, <1>7, <1>8, <1>10, <1>11 DEF IInv

\* What a transaction's pending rows must satisfy, as a set that w may take.
PendingFor(w, set) ==
  /\ \A p, q \in set : p = q
  /\ \A p \in set : p.marker = txn[w].gen /\ p.content = txn[w].content
  /\ \A v \in Writers \ {w} : \A p \in set, q \in txn[v].pending :
       p.created # q.created /\ p.content # q.content
  /\ \A p \in set, r \in revisions :
       /\ p.created = r.created <=> p.content = r.content
       /\ p.created = r.created => r.marker <= p.marker

Calculated(w, set) ==
  txn' = [txn EXCEPT ![w].status = "calculated", ![w].pending = set]

\* A calculation leaves the transaction as it was, but for its status and the
\* row it makes pending.
LEMMA CalculatedIInv ==
  ASSUME IInv, NEW w \in Writers, txn[w].status = "open",
         UNCHANGED <<facts, generation, revisions>>,
         NEW set \in SUBSET Revision, PendingFor(w, set), Calculated(w, set)
  PROVE  IInv'
<1>1. txn[w] \in Transaction
  BY DEF IInv, TypeOK
<1>2. /\ txn'[w].status = "calculated"
      /\ txn'[w].base = txn[w].base
      /\ txn'[w].gen = txn[w].gen
      /\ txn'[w].content = txn[w].content
      /\ txn'[w].seen = txn[w].seen
      /\ txn'[w].pending = set
      /\ \A v \in Writers \ {w} : txn'[v] = txn[v]
  BY <1>1 DEF IInv, TypeOK, Transaction, Calculated
<1>3. TypeOK'
  <2>1. [txn[w] EXCEPT !.status = "calculated", !.pending = set] \in Transaction
    BY <1>1 DEF Transaction
  <2> QED
    BY <2>1 DEF IInv, TypeOK, Calculated
<1>4. SnapshotsAreSound' /\ OneWriter'
  BY <1>2 DEF IInv, SnapshotsAreSound, OneWriter, IsOpen, HasWritten
<1>5. PendingIsOwn'
  BY <1>2 DEF IInv, PendingIsOwn, PendingFor
<1>6. PendingIsExclusive'
  BY <1>2 DEF IInv, PendingIsExclusive, PendingFor
<1>7. PendingFits'
  BY <1>2 DEF IInv, PendingFits, PendingFor
<1>8. MarkerMeansCurrent' /\ OneRevisionPerContent' /\ MarkersAreBounded'
  BY DEF IInv, MarkerMeansCurrent, OneRevisionPerContent, MarkersAreBounded
<1> QED
  BY <1>3, <1>4, <1>5, <1>6, <1>7, <1>8 DEF IInv

LEMMA CalculateIInv == ASSUME IInv, NEW w \in Writers, Calculate(w) PROVE IInv'
<1>1. txn[w].status = "open" /\ UNCHANGED <<facts, generation, revisions>>
  BY DEF Calculate
<1>2. txn[w] \in Transaction /\ \A v \in Writers : txn[v] \in Transaction
  BY DEF IInv, TypeOK
<1>3. CASE Reuse(w)
  <2>1. txn[w].pending = {}
    BY <1>1 DEF IInv, PendingIsOwn
  <2>2. Calculated(w, {})
    BY <1>2, <1>3, <2>1 DEF Reuse, Transaction, IInv, TypeOK, Calculated
  <2>3. PendingFor(w, {})
    BY DEF PendingFor
  <2> QED
    BY <1>1, <2>2, <2>3, CalculatedIInv
<1>4. CASE Revive(w)
  <2>1. PICK r \in txn[w].seen :
          /\ r.content = txn[w].content
          /\ RowIsFree(w, r)
          /\ txn' = [txn EXCEPT ![w].status = "calculated",
                                ![w].pending = {[r EXCEPT !.marker = txn[w].gen]}]
    BY <1>4 DEF Revive
  <2> DEFINE p == [r EXCEPT !.marker = txn[w].gen]
  <2>2. r \in revisions /\ r \in Revision
    BY <2>1 DEF RowIsFree, IInv, TypeOK
  <2>3. /\ p \in Revision
        /\ p.created = r.created /\ p.content = r.content /\ p.marker = txn[w].gen
    BY <1>2, <2>2 DEF Revision, Transaction
  <2>4. r.marker <= p.marker
    BY <1>2, <2>2, <2>3 DEF IInv, SnapshotsAreSound, Transaction, Revision
  <2> HIDE DEF p
  <2>5. \A s \in revisions : /\ p.created = s.created <=> p.content = s.content
                             /\ p.created = s.created => s.marker <= p.marker
    BY <2>2, <2>3, <2>4 DEF IInv, OneRevisionPerContent
  <2>6. \A v \in Writers \ {w} : \A q \in txn[v].pending :
          p.created # q.created /\ p.content # q.content
    BY <2>1, <2>2, <2>3 DEF IInv, PendingFits, RowIsFree
  <2>7. Calculated(w, {p})
    BY <2>1 DEF p, Calculated
  <2>8. {p} \in SUBSET Revision /\ PendingFor(w, {p})
    BY <2>1, <2>3, <2>5, <2>6 DEF PendingFor
  <2> QED
    BY <1>1, <2>7, <2>8, CalculatedIInv
<1>5. CASE Insert(w)
  <2>1. PICK now \in 1..MaxCreated :
          /\ IsNow(now)
          /\ txn' = [txn EXCEPT ![w].status = "calculated",
                                ![w].pending = {[created |-> now,
                                                 content |-> txn[w].content,
                                                 marker |-> txn[w].gen]}]
    BY <1>5 DEF Insert
  <2> DEFINE p == [created |-> now, content |-> txn[w].content, marker |-> txn[w].gen]
  <2>2. /\ p \in Revision
        /\ p.created = now /\ p.content = txn[w].content /\ p.marker = txn[w].gen
    BY <1>2, BoundAssumption DEF Revision, Transaction
  <2> HIDE DEF p
  <2>3. \A s \in revisions : s.created < now /\ s.content # txn[w].content
    BY <2>1, <1>5 DEF IsNow, IsLater, Insert, DigestIsFree
  <2>4. \A v \in Writers \ {w} : \A q \in txn[v].pending :
          q.created # now /\ q.content # txn[w].content
    BY <2>1, <1>5 DEF IsNow, IsLater, Insert, DigestIsFree
  <2>5. /\ \A s \in revisions : s.created \in Nat
        /\ \A v \in Writers : \A q \in txn[v].pending : q.created \in Nat
    BY <1>2 DEF IInv, TypeOK, Revision, Transaction
  <2>6. \A s \in revisions : /\ p.created = s.created <=> p.content = s.content
                             /\ p.created = s.created => s.marker <= p.marker
    BY <2>2, <2>3, <2>5
  <2>7. \A v \in Writers \ {w} : \A q \in txn[v].pending :
          p.created # q.created /\ p.content # q.content
    BY <2>2, <2>4, <2>5
  <2>8. Calculated(w, {p})
    BY <2>1 DEF p, Calculated
  <2>9. {p} \in SUBSET Revision /\ PendingFor(w, {p})
    BY <2>2, <2>6, <2>7 DEF PendingFor
  <2> QED
    BY <1>1, <2>8, <2>9, CalculatedIInv
<1> QED
  BY <1>3, <1>4, <1>5 DEF Calculate

LEMMA AbortIInv == ASSUME IInv, NEW w \in Writers, Abort(w) PROVE IInv'
<1>1. txn' = [txn EXCEPT ![w] = Idle] /\ UNCHANGED <<facts, generation, revisions>>
  BY DEF Abort
<1>2. TypeOK'
  BY <1>1, IdleIsTransaction DEF IInv, TypeOK
<1>3. txn'[w] = Idle /\ \A v \in Writers \ {w} : txn'[v] = txn[v]
  BY <1>1 DEF IInv, TypeOK
<1>4. SnapshotsAreSound' /\ OneWriter'
  BY <1>1, <1>3 DEF IInv, SnapshotsAreSound, OneWriter, IsOpen, HasWritten, Idle
<1>5. PendingIsOwn' /\ PendingIsExclusive' /\ PendingFits'
  BY <1>1, <1>3, IdleIsTransaction DEF IInv, PendingIsOwn, PendingIsExclusive, PendingFits
<1>6. MarkerMeansCurrent' /\ OneRevisionPerContent' /\ MarkersAreBounded'
  BY <1>1 DEF IInv, MarkerMeansCurrent, OneRevisionPerContent, MarkersAreBounded
<1> QED
  BY <1>2, <1>4, <1>5, <1>6 DEF IInv

\* A commit publishes the generation and contents of a transaction that has
\* written, and leaves them alone otherwise.
LEMMA CommitPublishes ==
  ASSUME IInv, NEW w \in Writers, Commit(w)
  PROVE  /\ generation \in Nat /\ generation' \in Nat
         /\ IsOpen(w)
         /\ txn[w].gen \in Nat /\ txn[w].base \in Nat
         /\ HasWritten(w) => /\ generation' = txn[w].gen
                             /\ facts' = txn[w].content
                             /\ generation' > generation
         /\ ~HasWritten(w) => /\ generation' = generation
                              /\ facts' = facts
                              /\ txn[w].gen = txn[w].base
                              /\ txn[w].gen <= generation
<1>1. txn[w].gen \in Nat /\ txn[w].base \in Nat /\ generation \in Nat
  BY DEF IInv, TypeOK, Transaction
<1>2. IsOpen(w)
  BY DEF Commit, ReadyToCommit, IsOpen
<1>3. CASE HasWritten(w)
  <2>1. txn[w].base = generation /\ txn[w].base <= txn[w].gen /\ txn[w].gen # txn[w].base
    BY <1>3 DEF IInv, OneWriter, SnapshotsAreSound, HasWritten
  <2> QED
    BY <1>1, <1>2, <1>3, <2>1 DEF Commit
<1>4. CASE ~HasWritten(w)
  <2>1. txn[w].base <= generation /\ txn[w].gen = txn[w].base
    BY <1>2, <1>4 DEF IInv, SnapshotsAreSound, HasWritten
  <2> QED
    BY <1>1, <1>2, <1>4, <2>1 DEF Commit
<1> QED
  BY <1>3, <1>4

\* The rows after a commit: the old ones it does not replace, and its own.
LEMMA CommittedRows ==
  ASSUME IInv, NEW w \in Writers, Commit(w), NEW r \in revisions'
  PROVE  \/ r \in revisions /\ \A p \in txn[w].pending : p.created # r.created
         \/ r \in txn[w].pending
BY DEF Commit, Put

LEMMA CommitIInv == ASSUME IInv, NEW w \in Writers, Commit(w) PROVE IInv'
<1> DEFINE t == txn[w]
<1>1. t \in Transaction /\ txn' = [txn EXCEPT ![w] = Idle]
  BY DEF Commit, IInv, TypeOK
<1>2. txn'[w] = Idle /\ \A v \in Writers \ {w} : txn'[v] = txn[v]
  BY <1>1 DEF IInv, TypeOK
<1>3. \A v \in Writers : txn[v].base \in Nat /\ txn[v].gen \in Nat
  BY DEF IInv, TypeOK, Transaction
<1>4. \A r \in revisions : r.marker \in Nat /\ r.marker <= generation
  BY DEF IInv, TypeOK, MarkersAreBounded, Revision
<1>5. \A p \in t.pending : p.marker = t.gen /\ p.content = t.content
  BY DEF IInv, PendingIsOwn
<1>6. TypeOK'
  <2>1. facts' \in Facts /\ generation' \in Nat
    BY <1>1, CommitPublishes DEF Commit, Transaction, IInv, TypeOK
  <2>2. revisions' \in SUBSET Revision
    BY <1>1 DEF Commit, Put, Transaction, IInv, TypeOK
  <2> QED
    BY <1>1, <2>1, <2>2, IdleIsTransaction DEF IInv, TypeOK
<1>7. MarkersAreBounded'
  <2> SUFFICES ASSUME NEW r \in revisions' PROVE r.marker <= generation'
    BY DEF MarkersAreBounded
  <2>1. CASE r \in revisions
    BY <1>4, <2>1, CommitPublishes
  <2>2. CASE r \in t.pending
    BY <1>5, <2>2, CommitPublishes
  <2> QED
    BY <2>1, <2>2, CommittedRows
<1>8. MarkerMeansCurrent'
  <2> SUFFICES ASSUME NEW r \in revisions', r.marker = generation'
               PROVE  r.content = facts'
    BY DEF MarkerMeansCurrent
  <2>1. CASE r \in revisions
    <3>1. ~HasWritten(w)
      BY <1>4, <2>1, CommitPublishes
    <3> QED
      BY <2>1, <3>1, CommitPublishes DEF IInv, MarkerMeansCurrent
  <2>2. CASE r \in t.pending /\ HasWritten(w)
    BY <1>5, <2>2, CommitPublishes
  <2>3. CASE r \in t.pending /\ ~HasWritten(w)
    <3>1. t.base = generation /\ IsOpen(w)
      BY <1>5, <2>3, CommitPublishes
    <3>2. t.content = facts
      BY <2>3, <3>1 DEF IInv, SnapshotsAreSound
    <3> QED
      BY <1>5, <2>3, <3>2, CommitPublishes
  <2> QED
    BY <2>1, <2>2, <2>3, CommittedRows
<1>9. OneRevisionPerContent'
  <2>1. \A p, q \in t.pending : p = q
    BY DEF IInv, PendingIsOwn
  <2>2. \A p \in t.pending, r \in revisions : p.created = r.created <=> p.content = r.content
    BY DEF IInv, PendingFits
  <2>3. \A r, s \in revisions : r.content = s.content \/ r.created = s.created => r = s
    BY DEF IInv, OneRevisionPerContent
  <2> QED
    BY <2>1, <2>2, <2>3, CommittedRows DEF OneRevisionPerContent
<1>10. SnapshotsAreSound'
  <2>1. \A v \in Writers \ {w} : IsOpen(v)' = IsOpen(v) /\ HasWritten(v)' = HasWritten(v)
    BY <1>2 DEF IsOpen, HasWritten
  <2>2. ASSUME NEW v \in Writers \ {w}
        PROVE  (/\ txn[v].base <= generation \/ ~IsOpen(v)
                /\ txn[v].base <= txn[v].gen
                /\ (IsOpen(v) /\ ~HasWritten(v) /\ txn[v].base = generation)
                     => txn[v].content = facts
                /\ \A r \in txn[v].seen : r.marker <= txn[v].base)'
    BY <1>2, <1>3, <2>1, CommitPublishes DEF IInv, SnapshotsAreSound
  <2>3. (/\ txn[w].base <= generation \/ ~IsOpen(w)
         /\ txn[w].base <= txn[w].gen
         /\ (IsOpen(w) /\ ~HasWritten(w) /\ txn[w].base = generation)
              => txn[w].content = facts
         /\ \A r \in txn[w].seen : r.marker <= txn[w].base)'
    BY <1>2 DEF Idle, IsOpen
  <2> QED
    BY <2>2, <2>3 DEF SnapshotsAreSound
<1>11. OneWriter'
  <2>1. ~HasWritten(w)' /\ \A v \in Writers \ {w} : HasWritten(v)' = HasWritten(v)
    BY <1>2 DEF Idle, IsOpen, HasWritten
  <2> SUFFICES ASSUME NEW v \in Writers \ {w}, HasWritten(v)
               PROVE  txn[v].base = generation' /\ \A u \in Writers \ {v} : ~HasWritten(u)'
    BY <1>2, <2>1 DEF OneWriter
  <2>2. txn[v].base = generation /\ \A u \in Writers \ {v} : ~HasWritten(u)
    BY DEF IInv, OneWriter
  <2> QED
    BY <2>1, <2>2, CommitPublishes
<1>12. PendingIsOwn' /\ PendingIsExclusive'
  BY <1>2, IdleIsTransaction DEF IInv, PendingIsOwn, PendingIsExclusive
<1>13. PendingFits'
  <2>1. \A v \in Writers \ {w} : \A p \in txn[v].pending, q \in t.pending :
          p.created # q.created /\ p.content # q.content
    BY DEF IInv, PendingIsExclusive
  <2> QED
    BY <1>2, <2>1, IdleIsTransaction, CommittedRows DEF IInv, PendingFits
<1> QED
  BY <1>6, <1>7, <1>8, <1>9, <1>10, <1>11, <1>12, <1>13 DEF IInv

LEMMA NextIInv == IInv /\ [Next]_vars => IInv'
<1> SUFFICES ASSUME IInv, [Next]_vars PROVE IInv'
  OBVIOUS
<1>1. CASE UNCHANGED vars
  BY <1>1 DEF vars, IInv, TypeOK, MarkerMeansCurrent, OneRevisionPerContent,
              SnapshotsAreSound, OneWriter, PendingIsOwn, PendingIsExclusive,
              PendingFits, MarkersAreBounded, IsOpen, HasWritten
<1>2. CASE Next
  BY <1>2, BeginIInv, WriteIInv, CalculateIInv, CommitIInv, AbortIInv DEF Next
<1> QED
  BY <1>1, <1>2

\* The strengthened invariant holds of every reachable state.
THEOREM IInvHolds == Spec => []IInv
<1>1. Init => IInv
  BY InitIInv
<1>2. IInv /\ [Next]_vars => IInv'
  BY NextIInv
<1> QED
  BY <1>1, <1>2, PTL DEF Spec

\* The state has its type: no column is ever left unset by a calculation.
THEOREM TypeCorrect == Spec => []TypeOK
<1>1. IInv => TypeOK
  BY DEF IInv
<1> QED
  BY <1>1, IInvHolds, PTL

\* A report may compare markers instead of hashing facts (reporting._revision):
\* equal markers mean the revision was calculated from the present facts.
THEOREM MarkerIsTrustworthy == Spec => []MarkerMeansCurrent
<1>1. IInv => MarkerMeansCurrent
  BY DEF IInv
<1> QED
  BY <1>1, IInvHolds, PTL

\* However calculations interleave, no contents get two revisions and "newest"
\* never has two answers (costing.calculate_tenant and its unique constraint).
THEOREM RevisionsAreUnique == Spec => []OneRevisionPerContent
<1>1. IInv => OneRevisionPerContent
  BY DEF IInv
<1> QED
  BY <1>1, IInvHolds, PTL

\* What a step leaves of a revision: its row, with the marker there or further.
LEMMA RevisionStays ==
  ASSUME IInv, [Next]_vars, NEW r \in revisions
  PROVE  \E s \in revisions' :
           s.created = r.created /\ s.content = r.content /\ s.marker >= r.marker
<1>1. r.marker \in Nat
  BY DEF IInv, TypeOK, Revision
<1>2. CASE r \in revisions'
  BY <1>1, <1>2
<1>3. CASE r \notin revisions'
  <2>1. PICK w \in Writers : Commit(w)
    BY <1>3 DEF vars, Next, Begin, Write, Calculate, Abort
  <2>2. PICK p \in txn[w].pending : p.created = r.created
    BY <1>3, <2>1 DEF Commit, Put
  <2>3. p \in Revision /\ p \in revisions'
    BY <2>1, <2>2 DEF Commit, Put, IInv, TypeOK, Transaction
  <2>4. p.content = r.content /\ r.marker <= p.marker
    BY <2>2 DEF IInv, PendingFits
  <2> QED
    BY <1>1, <2>2, <2>3, <2>4 DEF Revision
<1> QED
  BY <1>2, <1>3

\* Nobody's commit removes a revision, changes what it stands for, or sets its
\* marker back (costing.calculate_tenant's update of marker_generation).
THEOREM RevisionsAdvance == Spec => RevisionsOnlyAdvance
<1> DEFINE Advance == \A r \in revisions : \E s \in revisions' :
                        s.created = r.created /\ s.content = r.content /\ s.marker >= r.marker
<1>1. IInv /\ [Next]_vars => [Advance]_vars
  BY RevisionStays
<1> QED
  BY <1>1, IInvHolds, PTL DEF Spec, RevisionsOnlyAdvance

\* No commit changes facts under the generation reports compare with: the
\* trigger's update is never lost to a concurrent one (0001_reporting_schema).
THEOREM FactsAdvanceTheMarker == Spec => FactsMoveTheMarker
<1>1. IInv /\ [Next]_vars => [facts' # facts => generation' > generation]_vars
  <2> SUFFICES ASSUME IInv, Next, facts' # facts PROVE generation' > generation
    BY DEF vars
  <2>1. PICK w \in Writers : Commit(w)
    BY DEF Next, Begin, Write, Calculate, Abort
  <2> QED
    BY <2>1, CommitPublishes
<1> QED
  BY <1>1, IInvHolds, PTL DEF Spec, FactsMoveTheMarker

-----------------------------------------------------------------------------
(* Pages. *)

(* The answer that shows a revision beside the facts it was made from. *)
From(s) == [rev |-> s.created, lines |-> s.content, live |-> s.content]

(* Cost lines of an answer belong to its fact rows. *)
Honest(a) == a.rev # 0 => a.lines = a.live

(* Loads, pages and requests for more, as PagesTypeOK has them. *)
Load == [phase : {"idle", "summary", "parts"}, attempt : 0..2,
         pin : Nat, got : SUBSET PagePart]
Page == [got : SUBSET PagePart, added : SUBSET Answer, stray : SUBSET Answer]
More == [phase : {"idle", "asked", "answered"}, pin : Nat, rows : SUBSET Answer,
         late : BOOLEAN]

(* A page being loaded has its summary, is pinned to it, and every part is  *)
(* that of one committed revision.                                         *)
GoodLoad(l) ==
  /\ \A g \in l.got : Honest(g.answer)
  /\ l.phase # "parts" => l.got = {}
  /\ l.phase = "parts" =>
       /\ \E g \in l.got : g.part = "summary"
       /\ \A g \in l.got : g.part = "summary" => g.answer.rev = l.pin
       /\ l.pin # 0 =>
            \E s \in revisions :
              s.created = l.pin /\ \A g \in l.got : g.answer = From(s)

(* A page on screen, with what was added to it, is of the one committed     *)
(* revision that its summary names.                                        *)
GoodPage(p) ==
  /\ \A g \in p.got : Honest(g.answer)
  /\ \A a \in p.added \cup p.stray : Honest(a)
  /\ p.got # {} => \E g \in p.got : g.part = "summary"
  /\ \A g \in p.got : g.part = "summary" /\ g.answer.rev # 0 =>
       \E s \in revisions : /\ s.created = g.answer.rev
                            /\ \A h \in p.got : h.answer = From(s)
                            /\ \A a \in p.added : a = From(s)

(* Rows in flight are those of the revision that they were asked for of.    *)
GoodMore(m) ==
  \A a \in m.rows :
    /\ Honest(a)
    /\ m.pin # 0 => \E s \in revisions : s.created = m.pin /\ a = From(s)

(* Until the page is replaced, that is the revision on screen.              *)
Fits(m, p) ==
  m.phase # "idle" /\ ~m.late =>
    \A g \in p.got : g.part = "summary" => g.answer.rev = m.pin

PagesIInv ==
  /\ IInv
  /\ PagesTypeOK
  /\ \A r \in Readers : /\ GoodLoad(load[r]) /\ GoodPage(page[r]) /\ GoodMore(more[r])
                         /\ Fits(more[r], page[r])

-----------------------------------------------------------------------------
(* What _revision answers: the facts of now, and with them the lines of the *)
(* newest revision, which is the pinned one.                                *)
LEMMA AnswersAreHonest ==
  ASSUME IInv, NEW pin \in Nat, NEW a \in Answers(pin)
  PROVE  /\ a \in Answer /\ a.live = facts
         /\ Honest(a)
         /\ a.rev # 0 => \E s \in revisions : s.created = a.rev /\ a = From(s)
         /\ pin # 0 => a.rev = pin
<1>1. CASE a = [rev |-> 0, lines |-> Nothing, live |-> facts] /\ pin = 0
  BY <1>1 DEF Answer, Honest, IInv, TypeOK
<1>2. ASSUME NEW s \in revisions, s.marker = generation, pin \in {0, s.created},
             a = [rev |-> s.created, lines |-> s.content, live |-> facts]
      PROVE  /\ a \in Answer /\ a.live = facts
             /\ Honest(a)
             /\ a.rev # 0 => \E t \in revisions : t.created = a.rev /\ a = From(t)
             /\ pin # 0 => a.rev = pin
  <2>1. s.content = facts /\ s \in Revision
    BY <1>2 DEF IInv, MarkerMeansCurrent, TypeOK
  <2>2. a = From(s)
    BY <1>2, <2>1 DEF From
  <2>. QED
    BY <1>2, <2>1, <2>2 DEF Answer, Honest, IInv, TypeOK, Revision
<1>. QED
  BY <1>1, <1>2 DEF Answers

(* The database goes on under the pages: what was loaded stays described by *)
(* the revision it is pinned to.                                            *)
LEMMA DatabaseStepKeepsPages ==
  ASSUME PagesIInv, [Next]_vars, UNCHANGED readerVars
  PROVE  PagesIInv'
<1> USE DEF PagesIInv, readerVars
<1>1. IInv'
  BY NextIInv
<1>2. PagesTypeOK'
  BY <1>1 DEF IInv, PagesTypeOK
<1>3. \A s \in revisions : \E t \in revisions' : t.created = s.created /\ From(t) = From(s)
  <2> SUFFICES ASSUME NEW s \in revisions
               PROVE  \E t \in revisions' : t.created = s.created /\ From(t) = From(s)
    OBVIOUS
  <2>1. PICK t \in revisions' : t.created = s.created /\ t.content = s.content
    BY RevisionStays
  <2>. QED
    BY <2>1 DEF From
<1>4. ASSUME NEW r \in Readers
      PROVE  /\ GoodLoad(load[r])' /\ GoodPage(page[r])' /\ GoodMore(more[r])'
             /\ Fits(more[r], page[r])'
  <2>1. GoodLoad(load[r])'
    BY <1>3 DEF GoodLoad
  <2>2. GoodPage(page[r])'
    <3>1. ASSUME NEW g \in page[r].got, g.part = "summary", g.answer.rev # 0
          PROVE  \E s \in revisions' : /\ s.created = g.answer.rev
                                       /\ \A h \in page[r].got : h.answer = From(s)
                                       /\ \A a \in page[r].added : a = From(s)
      <4>1. PICK s \in revisions : /\ s.created = g.answer.rev
                                   /\ \A h \in page[r].got : h.answer = From(s)
                                   /\ \A a \in page[r].added : a = From(s)
        BY <3>1 DEF GoodPage
      <4>2. PICK t \in revisions' : t.created = s.created /\ From(t) = From(s)
        BY <1>3
      <4>. QED
        BY <4>1, <4>2
    <3>. QED
      BY <3>1 DEF GoodPage
  <2>3. GoodMore(more[r])'
    <3>1. ASSUME NEW a \in more[r].rows, more[r].pin # 0
          PROVE  \E s \in revisions' : s.created = more[r].pin /\ a = From(s)
      BY <1>3, <3>1 DEF GoodMore
    <3>. QED
      BY <3>1 DEF GoodMore
  <2>4. Fits(more[r], page[r])'
    BY DEF Fits
  <2>. QED
    BY <2>1, <2>2, <2>3, <2>4
<1>. QED
  BY <1>1, <1>2, <1>4

(* A reader's step leaves the database and the other readers alone, so it is *)
(* enough to look at what becomes of its own load, page and request.        *)
LEMMA OneReaderMoves ==
  ASSUME PagesIInv, UNCHANGED vars, NEW r \in Readers,
         NEW l \in Load, NEW p \in Page, NEW m \in More,
         GoodLoad(l), GoodPage(p), GoodMore(m), Fits(m, p),
         load' = [load EXCEPT ![r] = l],
         page' = [page EXCEPT ![r] = p],
         more' = [more EXCEPT ![r] = m]
  PROVE  PagesIInv'
<1> USE DEF PagesIInv
<1>1. IInv'
  BY NextIInv
<1>2. load \in [Readers -> Load] /\ page \in [Readers -> Page] /\ more \in [Readers -> More]
  BY DEF PagesTypeOK, Load, Page, More
<1>3. PagesTypeOK'
  <2>1. load' \in [Readers -> Load] /\ page' \in [Readers -> Page] /\ more' \in [Readers -> More]
    BY <1>2
  <2>. QED
    BY <1>1, <2>1 DEF IInv, PagesTypeOK, Load, Page, More
<1>4. ASSUME NEW q \in Readers
      PROVE  /\ GoodLoad(load[q])' /\ GoodPage(page[q])' /\ GoodMore(more[q])'
             /\ Fits(more[q], page[q])'
  <2>1. /\ GoodLoad(load'[q]) /\ GoodPage(page'[q]) /\ GoodMore(more'[q])
        /\ Fits(more'[q], page'[q])
    BY <1>2
  <2>. QED
    BY <2>1 DEF vars, GoodLoad, GoodPage, GoodMore, Fits
<1>. QED
  BY <1>1, <1>3, <1>4

(* What may take the place of a load without any look at it. *)
LEMMA EmptyLoadsAreGood ==
  ASSUME NEW n \in {1, 2}
  PROVE  /\ NoLoad \in Load /\ GoodLoad(NoLoad)
         /\ [NoLoad EXCEPT !.phase = "summary", !.attempt = n] \in Load
         /\ GoodLoad([NoLoad EXCEPT !.phase = "summary", !.attempt = n])
<1> DEFINE l == [NoLoad EXCEPT !.phase = "summary", !.attempt = n]
<1>1. NoLoad \in Load /\ GoodLoad(NoLoad)
  BY DEF NoLoad, Load, GoodLoad
<1>2. l \in Load /\ l.phase = "summary" /\ l.got = NoLoad.got /\ NoLoad.got = {}
  <2>1. n \in 0..2 /\ NoLoad \in Load /\ NoLoad.got = {}
    BY <1>1 DEF NoLoad
  <2>. QED
    BY <2>1 DEF Load
<1>3. l \in Load /\ l.phase = "summary" /\ l.got = {}
  BY <1>2
<1> HIDE DEF l
<1>4. GoodLoad(l)
  BY <1>3 DEF GoodLoad
<1>. QED
  BY <1>1, <1>3, <1>4 DEF l

(* A reader has a good load, page and request. *)
LEMMA ReaderIsGood ==
  ASSUME PagesIInv, NEW r \in Readers
  PROVE  /\ load[r] \in Load /\ page[r] \in Page /\ more[r] \in More
         /\ GoodLoad(load[r]) /\ GoodPage(page[r]) /\ GoodMore(more[r])
         /\ Fits(more[r], page[r])
         /\ load = [load EXCEPT ![r] = load[r]]
         /\ page = [page EXCEPT ![r] = page[r]]
         /\ more = [more EXCEPT ![r] = more[r]]
BY DEF PagesIInv, PagesTypeOK, Load, Page, More

LEMMA RefreshKeepsPages ==
  ASSUME PagesIInv, NEW r \in Readers, Refresh(r), UNCHANGED vars
  PROVE  PagesIInv'
BY ReaderIsGood, EmptyLoadsAreGood, OneReaderMoves DEF Refresh

LEMMA ConflictKeepsPages ==
  ASSUME PagesIInv, NEW r \in Readers, Conflict(r), UNCHANGED <<page, more>>, UNCHANGED vars
  PROVE  PagesIInv'
BY ReaderIsGood, EmptyLoadsAreGood, OneReaderMoves DEF Conflict

(* A summary pins the page to the revision it answers from. *)
LEMMA GetSummaryKeepsPages ==
  ASSUME PagesIInv, NEW r \in Readers, GetSummary(r), UNCHANGED vars
  PROVE  PagesIInv'
<1>1. CASE Conflict(r)
  BY <1>1, ConflictKeepsPages DEF GetSummary
<1>2. ASSUME NEW a \in Answers(0),
             load' = [load EXCEPT ![r].phase = "parts", ![r].pin = a.rev,
                                  ![r].got = {[part |-> "summary", answer |-> a]}]
      PROVE  PagesIInv'
  <2> DEFINE g0 == [part |-> "summary", answer |-> a]
             l == [load[r] EXCEPT !.phase = "parts", !.pin = a.rev, !.got = {g0}]
  <2>1. /\ a \in Answer /\ Honest(a)
        /\ a.rev # 0 => \E s \in revisions : s.created = a.rev /\ a = From(s)
    BY AnswersAreHonest DEF PagesIInv
  <2>2. load[r] \in Load
    BY ReaderIsGood
  <2>3. /\ l \in Load
        /\ l.phase = "parts" /\ l.pin = a.rev /\ l.got = {g0}
        /\ g0.part = "summary" /\ g0.answer = a
    <3>1. g0 \in PagePart /\ g0.part = "summary" /\ g0.answer = a /\ a.rev \in Nat
      BY <2>1 DEF Answer, PagePart
    <3> HIDE DEF g0
    <3>2. {g0} \in SUBSET PagePart
      BY <3>1
    <3>. QED
      BY <2>2, <3>1, <3>2 DEF Load
  <2>4. load' = [load EXCEPT ![r] = l]
    BY <1>2
  <2> HIDE DEF l, g0
  <2>5. GoodLoad(l)
    BY <2>1, <2>3 DEF GoodLoad
  <2>. QED
    BY <2>3, <2>4, <2>5, ReaderIsGood, OneReaderMoves DEF GetSummary
<1>. QED
  BY <1>1, <1>2 DEF GetSummary

(* Parts of a page that is pinned: all are of the pin's revision.           *)
Describable(pin, got) ==
  /\ got \in SUBSET PagePart
  /\ \A g \in got : Honest(g.answer)
  /\ \E g \in got : g.part = "summary"
  /\ \A g \in got : g.part = "summary" => g.answer.rev = pin
  /\ pin # 0 =>
       \E s \in revisions : s.created = pin /\ \A g \in got : g.answer = From(s)

(* The load with one more part: described by the revision that described it. *)
LEMMA PartFits ==
  ASSUME PagesIInv, NEW r \in Readers, load[r].phase = "parts",
         NEW p \in Missing(r), NEW a \in Answers(load[r].pin),
         NEW got, got = load[r].got \cup {[part |-> p, answer |-> a]}
  PROVE  Describable(load[r].pin, got)
<1>1. /\ a \in Answer /\ Honest(a)
      /\ a.rev # 0 => \E s \in revisions : s.created = a.rev /\ a = From(s)
      /\ load[r].pin # 0 => a.rev = load[r].pin
  <2>1. load[r].pin \in Nat
    BY ReaderIsGood DEF Load
  <2>. QED
    BY <2>1, AnswersAreHonest DEF PagesIInv
<1>2. p \in Parts /\ p # "summary"
  BY PartsAssumption DEF Missing
<1>3. load[r].got \in SUBSET PagePart /\ GoodLoad(load[r])
  BY ReaderIsGood DEF Load
<1> DEFINE g0 == [part |-> p, answer |-> a]
<1>4. g0.part = p /\ g0.answer = a /\ g0 \in PagePart
  BY <1>1, <1>2 DEF PagePart
<1>5. got = load[r].got \cup {g0}
  OBVIOUS
<1> HIDE DEF g0
<1>6. ASSUME load[r].pin # 0
      PROVE  \E s \in revisions :
               s.created = load[r].pin /\ \A g \in got : g.answer = From(s)
  <2>1. PICK s \in revisions :
          s.created = load[r].pin /\ \A g \in load[r].got : g.answer = From(s)
    BY <1>3, <1>6 DEF GoodLoad
  <2>2. PICK t \in revisions : t.created = load[r].pin /\ a = From(t)
    BY <1>1, <1>6
  <2>3. s = t
    BY <2>1, <2>2 DEF PagesIInv, IInv, OneRevisionPerContent
  <2>. QED
    BY <1>4, <1>5, <2>1, <2>2, <2>3
<1>7. /\ got \in SUBSET PagePart
      /\ \A g \in got : Honest(g.answer)
      /\ \E g \in got : g.part = "summary"
      /\ \A g \in got : g.part = "summary" => g.answer.rev = load[r].pin
  BY <1>1, <1>2, <1>3, <1>4, <1>5 DEF GoodLoad
<1>. QED
  BY <1>6, <1>7 DEF Describable

LEMMA GetPartKeepsPages ==
  ASSUME PagesIInv, NEW r \in Readers, GetPart(r), UNCHANGED vars
  PROVE  PagesIInv'
<1>1. load[r].phase = "parts"
  BY DEF GetPart
<1>2. CASE Conflict(r) /\ UNCHANGED <<page, more>>
  BY <1>1, <1>2, ConflictKeepsPages
<1>3. ASSUME NEW p \in Missing(r), NEW a \in Answers(load[r].pin),
             NEW got, got = load[r].got \cup {[part |-> p, answer |-> a]},
             \/ /\ page' = [page EXCEPT ![r] = [NoPage EXCEPT !.got = got]]
                /\ more' = [more EXCEPT ![r].late = (more[r].phase # "idle")]
                /\ load' = [load EXCEPT ![r] = NoLoad]
             \/ /\ load' = [load EXCEPT ![r].got = got]
                /\ UNCHANGED <<page, more>>
      PROVE  PagesIInv'
  <2>0. got = load[r].got \cup {[part |-> p, answer |-> a]}
    BY <1>3
  <2>4. Describable(load[r].pin, got)
    BY <1>1, <2>0, PartFits
  <2>1. /\ got \in SUBSET PagePart
        /\ \A g \in got : Honest(g.answer)
        /\ \E g \in got : g.part = "summary"
        /\ \A g \in got : g.part = "summary" => g.answer.rev = load[r].pin
        /\ load[r].pin # 0 =>
             \E s \in revisions :
               s.created = load[r].pin /\ \A g \in got : g.answer = From(s)
    BY <2>4 DEF Describable
  <2>2. CASE /\ page' = [page EXCEPT ![r] = [NoPage EXCEPT !.got = got]]
             /\ more' = [more EXCEPT ![r].late = (more[r].phase # "idle")]
             /\ load' = [load EXCEPT ![r] = NoLoad]
    <3> DEFINE q == [NoPage EXCEPT !.got = got]
               m == [more[r] EXCEPT !.late = (more[r].phase # "idle")]
    <3>1. q \in Page /\ q.got = got /\ q.added = {} /\ q.stray = {}
      BY <2>1 DEF Page, NoPage
    <3>2. more[r] \in More /\ GoodMore(more[r])
      BY ReaderIsGood
    <3>3. /\ m \in More /\ m.phase = more[r].phase /\ m.pin = more[r].pin /\ m.rows = more[r].rows
      BY <3>2 DEF More
    <3>4. m.late = (more[r].phase # "idle")
      BY <3>2 DEF More
    <3>5. page' = [page EXCEPT ![r] = q] /\ more' = [more EXCEPT ![r] = m]
      BY <2>2
    <3>6. GoodMore(m)
      BY <3>2, <3>3 DEF GoodMore
    <3> HIDE DEF q, m
    <3>7. GoodPage(q)
      BY <1>1, <2>1, <3>1 DEF GoodPage
    <3>8. Fits(m, q)
      BY <3>3, <3>4 DEF Fits
    <3>9. NoLoad \in Load /\ GoodLoad(NoLoad) /\ load' = [load EXCEPT ![r] = NoLoad]
      BY <2>2, EmptyLoadsAreGood
    <3>. QED
      BY <3>1, <3>3, <3>5, <3>6, <3>7, <3>8, <3>9, OneReaderMoves
  <2>3. CASE load' = [load EXCEPT ![r].got = got] /\ UNCHANGED <<page, more>>
    <3> DEFINE l == [load[r] EXCEPT !.got = got]
    <3>1. l \in Load /\ l.phase = "parts" /\ l.pin = load[r].pin /\ l.got = got
      BY <1>1, <2>1, ReaderIsGood DEF Load
    <3>2. load' = [load EXCEPT ![r] = l]
      BY <2>3
    <3> HIDE DEF l
    <3>3. GoodLoad(l)
      BY <2>1, <3>1 DEF GoodLoad
    <3>. QED
      BY <1>1, <2>3, <3>1, <3>2, <3>3, ReaderIsGood, OneReaderMoves
  <2>. QED
    BY <1>3, <2>2, <2>3
<1>. QED
  BY <1>2, <1>3 DEF GetPart

LEMMA AskMoreKeepsPages ==
  ASSUME PagesIInv, NEW r \in Readers, AskMore(r), UNCHANGED vars
  PROVE  PagesIInv'
<1>1. PICK pin \in PageRevision(r) :
        more' = [more EXCEPT ![r] = [NoMore EXCEPT !.phase = "asked", !.pin = pin]]
  BY DEF AskMore
<1> DEFINE m == [NoMore EXCEPT !.phase = "asked", !.pin = pin]
<1>2. page[r] \in Page /\ GoodPage(page[r])
  BY ReaderIsGood
<1>3. pin \in Nat
  BY <1>2 DEF PageRevision, Page, PagePart, Answer
<1>4. m \in More /\ m.rows = {} /\ m.pin = pin /\ more' = [more EXCEPT ![r] = m]
  BY <1>1, <1>3 DEF More, NoMore
<1> HIDE DEF m
\* All summaries on the screen are of the one revision, or of none.
<1>5. ASSUME NEW g \in page[r].got, g.part = "summary" PROVE g.answer.rev = pin
  <2>1. PICK h \in page[r].got : h.part = "summary" /\ h.answer.rev = pin
    BY DEF PageRevision
  <2>2. CASE g.answer.rev # 0
    BY <1>2, <1>5, <2>1, <2>2 DEF GoodPage
  <2>3. CASE h.answer.rev # 0
    BY <1>2, <1>5, <2>1, <2>3 DEF GoodPage
  <2>. QED
    BY <2>1, <2>2, <2>3
<1>6. GoodMore(m) /\ Fits(m, page[r])
  BY <1>4, <1>5 DEF GoodMore, Fits
<1>. QED
  BY <1>4, <1>6, ReaderIsGood, OneReaderMoves DEF AskMore

LEMMA AnswerMoreKeepsPages ==
  ASSUME PagesIInv, NEW r \in Readers, AnswerMore(r), UNCHANGED vars
  PROVE  PagesIInv'
<1>1. more[r] \in More /\ more[r].pin \in Nat /\ Fits(more[r], page[r]) /\ more[r].phase = "asked"
  BY ReaderIsGood DEF More, AnswerMore
<1> DEFINE rows == Answers(more[r].pin)
           m == [more[r] EXCEPT !.phase = "answered", !.rows = rows]
<1>2. ASSUME NEW a \in rows
      PROVE  /\ a \in Answer /\ Honest(a)
             /\ more[r].pin # 0 => \E s \in revisions : s.created = more[r].pin /\ a = From(s)
  BY <1>1, AnswersAreHonest DEF PagesIInv
<1> HIDE DEF rows
<1>3. /\ m \in More /\ m.rows = rows /\ m.pin = more[r].pin /\ m.phase = "answered"
  BY <1>1, <1>2 DEF More
<1>4. m.late = more[r].late
  BY <1>1 DEF More
<1>5. NoMore \in More /\ GoodMore(NoMore) /\ Fits(NoMore, page[r])
  BY DEF NoMore, More, GoodMore, Fits
<1>6. \/ more' = [more EXCEPT ![r] = m]
      \/ more' = [more EXCEPT ![r] = NoMore]
  BY ReaderIsGood DEF AnswerMore, rows
<1> HIDE DEF m
<1>7. GoodMore(m)
  BY <1>2, <1>3 DEF GoodMore
<1>8. Fits(m, page[r])
  BY <1>1, <1>3, <1>4 DEF Fits
<1>. QED
  BY <1>3, <1>5, <1>6, <1>7, <1>8, ReaderIsGood, OneReaderMoves DEF AnswerMore

(* Rows for the page that is on screen are of its revision; stray ones are  *)
(* at least honest.                                                        *)
LEMMA AddRowsKeepsPages ==
  ASSUME PagesIInv, NEW r \in Readers, AddRows(r), UNCHANGED vars
  PROVE  PagesIInv'
<1>1. /\ page[r] \in Page /\ more[r] \in More
      /\ GoodPage(page[r]) /\ GoodMore(more[r]) /\ Fits(more[r], page[r])
      /\ more[r].phase = "answered"
  BY ReaderIsGood DEF AddRows
<1>2. NoMore \in More /\ GoodMore(NoMore) /\ \A p : Fits(NoMore, p)
  BY DEF NoMore, More, GoodMore, Fits
<1>3. CASE more[r].late
  <2> DEFINE p == [page[r] EXCEPT !.stray = page[r].stray \cup more[r].rows]
  <2>1. /\ p \in Page /\ p.got = page[r].got /\ p.added = page[r].added
        /\ p.stray = page[r].stray \cup more[r].rows
    BY <1>1 DEF Page, More
  <2>2. page' = [page EXCEPT ![r] = p]
    BY <1>3 DEF AddRows
  <2> HIDE DEF p
  <2>3. GoodPage(p)
    BY <1>1, <2>1 DEF GoodPage, GoodMore
  <2>. QED
    BY <1>2, <2>1, <2>2, <2>3, ReaderIsGood, OneReaderMoves DEF AddRows
<1>4. CASE ~more[r].late
  <2> DEFINE p == [page[r] EXCEPT !.added = page[r].added \cup more[r].rows]
  <2>1. /\ p \in Page /\ p.got = page[r].got /\ p.stray = page[r].stray
        /\ p.added = page[r].added \cup more[r].rows
    BY <1>1 DEF Page, More
  <2>2. page' = [page EXCEPT ![r] = p]
    BY <1>4 DEF AddRows
  <2> HIDE DEF p
  <2>3. ASSUME NEW g \in p.got, g.part = "summary", g.answer.rev # 0
        PROVE  \E s \in revisions : /\ s.created = g.answer.rev
                                    /\ \A h \in p.got : h.answer = From(s)
                                    /\ \A a \in p.added : a = From(s)
    <3>1. PICK s \in revisions : /\ s.created = g.answer.rev
                                 /\ \A h \in page[r].got : h.answer = From(s)
                                 /\ \A a \in page[r].added : a = From(s)
      BY <1>1, <2>1, <2>3 DEF GoodPage
    <3>2. more[r].pin = g.answer.rev
      BY <1>1, <1>4, <2>1, <2>3 DEF Fits
    <3>3. ASSUME NEW a \in more[r].rows PROVE a = From(s)
      <4>1. PICK t \in revisions : t.created = more[r].pin /\ a = From(t)
        BY <1>1, <2>3, <3>2 DEF GoodMore
      <4>2. s = t
        BY <3>1, <3>2, <4>1 DEF PagesIInv, IInv, OneRevisionPerContent
      <4>. QED
        BY <4>1, <4>2
    <3>. QED
      BY <2>1, <3>1, <3>3
  <2>4. GoodPage(p)
    BY <1>1, <2>1, <2>3 DEF GoodPage, GoodMore
  <2>. QED
    BY <1>2, <2>1, <2>2, <2>4, ReaderIsGood, OneReaderMoves DEF AddRows
<1>. QED
  BY <1>3, <1>4

LEMMA PagesInitIInv == PagesInit => PagesIInv
<1> SUFFICES ASSUME PagesInit PROVE PagesIInv
  OBVIOUS
<1>1. IInv
  BY InitIInv DEF PagesInit
<1>2. NoLoad \in Load /\ NoPage \in Page /\ NoMore \in More
  BY DEF NoLoad, NoPage, NoMore, Load, Page, More
<1>3. PagesTypeOK
  BY <1>1, <1>2 DEF PagesInit, PagesTypeOK, IInv, Load, Page, More
<1>4. GoodLoad(NoLoad) /\ GoodPage(NoPage) /\ GoodMore(NoMore) /\ Fits(NoMore, NoPage)
  BY DEF NoLoad, NoPage, NoMore, GoodLoad, GoodPage, GoodMore, Fits
<1>. QED
  BY <1>1, <1>3, <1>4 DEF PagesInit, PagesIInv

LEMMA PagesNextIInv == PagesIInv /\ [PagesNext]_pageVars => PagesIInv'
<1> SUFFICES ASSUME PagesIInv, [PagesNext]_pageVars PROVE PagesIInv'
  OBVIOUS
<1>1. CASE UNCHANGED pageVars \/ DatabaseStep
  BY <1>1, DatabaseStepKeepsPages DEF pageVars, vars, readerVars, DatabaseStep
<1>2. ASSUME NEW r \in Readers, ReaderStep(r) PROVE PagesIInv'
  BY <1>2, RefreshKeepsPages, GetSummaryKeepsPages, GetPartKeepsPages,
     AskMoreKeepsPages, AnswerMoreKeepsPages, AddRowsKeepsPages DEF ReaderStep
<1>. QED
  BY <1>1, <1>2 DEF PagesNext

(* The strengthened invariant of readers and database together. *)
THEOREM PagesIInvHolds == PagesSpec => []PagesIInv
<1>1. PagesInit => PagesIInv
  BY PagesInitIInv
<1>2. PagesIInv /\ [PagesNext]_pageVars => PagesIInv'
  BY PagesNextIInv
<1>. QED
  BY <1>1, <1>2, PTL DEF PagesSpec

(* Loads, pages and late rows have their types, beside the database's. *)
THEOREM PagesTypeCorrect == PagesSpec => []PagesTypeOK
<1>1. PagesIInv => PagesTypeOK
  BY DEF PagesIInv
<1>. QED
  BY <1>1, PagesIInvHolds, PTL

(* No request joins a revision's cost lines to facts they were not          *)
(* calculated from, whatever commits between the requests of a page.        *)
THEOREM LinesAreHonest == PagesSpec => []LinesMatchFacts
<1>1. PagesIInv => LinesMatchFacts
  BY DEF PagesIInv, GoodLoad, GoodPage, Honest, LinesMatchFacts, AnswersOnScreen
<1>. QED
  BY <1>1, PagesIInvHolds, PTL

(* The parts of a page on screen, and the rows that are added to it, are of *)
(* one revision and one set of facts, however far apart they were fetched   *)
(* (api.ts loadReport, App.vue moreUndated).                                *)
THEOREM PagesAreSnapshots == PagesSpec => []LoadedPageIsOneSnapshot
<1>1. PagesIInv => LoadedPageIsOneSnapshot
  BY DEF PagesIInv, GoodPage, LoadedPageIsOneSnapshot
<1>. QED
  BY <1>1, PagesIInvHolds, PTL

-----------------------------------------------------------------------------
(* The contract.  Parts of one revision describe that revision's contents.  *)
LEMMA OneRevisionDescribes ==
  ASSUME NEW got, NEW s, s.created # 0,
         \E g \in got : g.part = "summary",
         \A g \in got : g.answer = From(s)
  PROVE  Describes(got) = {s.content}
BY DEF Describes, From

(* Without a revision a page describes nothing. *)
LEMMA NoRevisionDescribes ==
  ASSUME NEW got, \E g \in got : g.part = "summary" /\ g.answer.rev = 0
  PROVE  Describes(got) = {}
BY DEF Describes

LEMMA NothingDescribes == Describes({}) = {}
BY DEF Describes

(* To the contract only the end of a load counts: one more part describes   *)
(* what the parts before it did.                                            *)
LEMMA PartAddsNothing ==
  ASSUME PagesIInv, NEW r \in Readers, load[r].phase = "parts",
         NEW p \in Missing(r), NEW a \in Answers(load[r].pin),
         NEW got, got = load[r].got \cup {[part |-> p, answer |-> a]}
  PROVE  /\ Describes(got) = Describes(load[r].got)
         /\ load[r].pin # 0 => Describes(got) # {}
         /\ load[r].pin = 0 => Describes(got) = {}
<1>0. load[r].phase = "parts" /\ got = load[r].got \cup {[part |-> p, answer |-> a]}
  OBVIOUS
<1>5. Describable(load[r].pin, got)
  BY <1>0, PartFits
<1>1. /\ got \in SUBSET PagePart
      /\ \A g \in got : Honest(g.answer)
      /\ \E g \in got : g.part = "summary"
      /\ \A g \in got : g.part = "summary" => g.answer.rev = load[r].pin
      /\ load[r].pin # 0 =>
           \E s \in revisions :
             s.created = load[r].pin /\ \A g \in got : g.answer = From(s)
  BY <1>5 DEF Describable
<1>2. /\ \E g \in load[r].got : g.part = "summary"
      /\ \A g \in load[r].got : g.part = "summary" => g.answer.rev = load[r].pin
      /\ \A g \in load[r].got : g \in got
  BY ReaderIsGood DEF GoodLoad
<1>3. CASE load[r].pin = 0
  BY <1>1, <1>2, <1>3, NoRevisionDescribes
<1>4. CASE load[r].pin # 0
  <2>1. PICK s \in revisions : s.created = load[r].pin /\ \A g \in got : g.answer = From(s)
    BY <1>1, <1>4
  <2>2. Describes(got) = {s.content}
    BY <1>1, <1>4, <2>1, OneRevisionDescribes
  <2>3. Describes(load[r].got) = {s.content}
    BY <1>2, <1>4, <2>1, OneRevisionDescribes
  <2>. QED
    BY <1>4, <2>2, <2>3
<1>. QED
  BY <1>3, <1>4

(* What the contract sees of the readers. *)
Loading == [r \in Readers |-> Describes(load[r].got)]
Shown == [r \in Readers |-> Shows(page[r])]

(* It sees nothing of a load that is not among its parts. *)
LEMMA OnlyPartsDescribe ==
  ASSUME PagesIInv, NEW r \in Readers, load[r].phase # "parts"
  PROVE  Describes(load[r].got) = {}
BY ReaderIsGood, NothingDescribes DEF GoodLoad

(* A load that changes changes one reader's, and so for pages. *)
LEMMA LoadingFollows ==
  ASSUME PagesIInv, NEW r \in Readers, NEW l, load' = [load EXCEPT ![r] = l]
  PROVE  Loading' = [Loading EXCEPT ![r] = Describes(l.got)]
<1>1. \A q \in Readers : load'[q] = IF q = r THEN l ELSE load[q]
  BY DEF PagesIInv, PagesTypeOK
<1>2. \A q \in Readers : Describes(load[q].got)' = Describes(load'[q].got)
  BY DEF Describes
<1>3. ASSUME NEW q \in Readers
      PROVE  Describes(load'[q].got) = IF q = r THEN Describes(l.got) ELSE Describes(load[q].got)
  BY <1>1
<1>. QED
  BY <1>2, <1>3 DEF Loading

LEMMA ShownFollows ==
  ASSUME PagesIInv, NEW r \in Readers, NEW p, page' = [page EXCEPT ![r] = p]
  PROVE  Shown' = [Shown EXCEPT ![r] = Shows(p)]
<1>1. \A q \in Readers : page'[q] = IF q = r THEN p ELSE page[q]
  BY DEF PagesIInv, PagesTypeOK
<1>2. \A q \in Readers : Shows(page[q])' = Shows(page'[q])
  BY DEF Shows, Describes
<1>3. ASSUME NEW q \in Readers
      PROVE  Shows(page'[q]) = IF q = r THEN Shows(p) ELSE Shows(page[q])
  BY <1>1
<1>. QED
  BY <1>2, <1>3 DEF Shown

LEMMA ShownStays == ASSUME page' = page PROVE Shown' = Shown
BY DEF Shown, Shows, Describes

(* Contract's step, in the words of this module. *)
ContractStep ==
  \/ {facts}' \in {{f} : f \in Facts} /\ Loading' = Loading /\ Shown' = Shown
  \/ \E r \in Readers :
       \/ Loading' = [Loading EXCEPT ![r] = {facts}] /\ facts' = facts /\ Shown' = Shown
       \/ /\ Loading[r] # {}
          /\ Shown' = [Shown EXCEPT ![r] = Loading[r]]
          /\ Loading' = [Loading EXCEPT ![r] = {}]
          /\ facts' = facts
       \/ Loading' = [Loading EXCEPT ![r] = {}] /\ facts' = facts /\ Shown' = Shown
       \/ /\ Shown' = [Shown EXCEPT ![r] = {}]
          /\ Loading' = [Loading EXCEPT ![r] = {}]
          /\ facts' = facts

LEMMA ContractStepIsContracts == ContractStep => Contract!Next
BY DEF ContractStep, Loading, Shown, Contract!Next, Contract!Change, Contract!Open,
       Contract!Show, Contract!GiveUp, Contract!Blank

LEMMA DatabaseStepRefines ==
  ASSUME PagesIInv, PagesIInv', UNCHANGED readerVars
  PROVE  ContractStep
<1>1. Loading' = Loading /\ Shown' = Shown
  BY ShownStays DEF readerVars, Loading, Describes
<1>2. facts' \in Facts
  BY DEF PagesIInv, IInv, TypeOK
<1>. QED
  BY <1>1, <1>2 DEF ContractStep

(* A load cancelled or begun again was given up. *)
LEMMA GivingUpRefines ==
  ASSUME PagesIInv, NEW r \in Readers, NEW l, l.got = {},
         load' = [load EXCEPT ![r] = l], page' = page, facts' = facts
  PROVE  ContractStep
<1>1. Loading' = [Loading EXCEPT ![r] = {}]
  BY LoadingFollows, NothingDescribes
<1>2. Shown' = Shown
  BY ShownStays
<1>. QED
  BY <1>1, <1>2 DEF ContractStep

LEMMA RefreshRefines ==
  ASSUME PagesIInv, NEW r \in Readers, Refresh(r), UNCHANGED vars
  PROVE  ContractStep
<1> DEFINE l == [NoLoad EXCEPT !.phase = "summary", !.attempt = 1]
<1>1. l.got = {}
  BY DEF NoLoad
<1>2. load' = [load EXCEPT ![r] = l] /\ page' = page /\ facts' = facts
  BY DEF Refresh, vars
<1> HIDE DEF l
<1>. QED
  BY <1>1, <1>2, GivingUpRefines

LEMMA ConflictRefines ==
  ASSUME PagesIInv, NEW r \in Readers, Conflict(r), UNCHANGED page, UNCHANGED vars
  PROVE  ContractStep
<1> DEFINE l == IF load[r].attempt = 1
                THEN [NoLoad EXCEPT !.phase = "summary", !.attempt = 2]
                ELSE NoLoad
<1>1. l.got = {}
  BY DEF NoLoad
<1>2. load' = [load EXCEPT ![r] = l] /\ page' = page /\ facts' = facts
  BY DEF Conflict, vars
<1> HIDE DEF l
<1>. QED
  BY <1>1, <1>2, GivingUpRefines

(* The summary opens the contract's page, if anything has been calculated. *)
LEMMA GetSummaryRefines ==
  ASSUME PagesIInv, NEW r \in Readers, GetSummary(r), UNCHANGED vars
  PROVE  ContractStep
<1>1. CASE Conflict(r)
  BY <1>1, ConflictRefines DEF GetSummary
<1>2. ASSUME NEW a \in Answers(0),
             load' = [load EXCEPT ![r].phase = "parts", ![r].pin = a.rev,
                                  ![r].got = {[part |-> "summary", answer |-> a]}]
      PROVE  ContractStep
  <2> DEFINE g0 == [part |-> "summary", answer |-> a]
             l == [load[r] EXCEPT !.phase = "parts", !.pin = a.rev, !.got = {g0}]
  <2>1. load[r] \in Load /\ a.live = facts
    BY ReaderIsGood, AnswersAreHonest DEF PagesIInv
  <2>2. l.got = {g0} /\ g0.part = "summary" /\ g0.answer = a
    BY <2>1 DEF Load
  <2>3. load' = [load EXCEPT ![r] = l]
    BY <1>2
  <2> HIDE DEF l, g0
  <2>4. Describes(l.got) = IF a.rev = 0 THEN {} ELSE {facts}
    BY <2>1, <2>2 DEF Describes
  <2>5. Loading' = [Loading EXCEPT ![r] = Describes(l.got)]
    BY <2>3, LoadingFollows
  <2>6. Shown' = Shown /\ facts' = facts
    BY ShownStays DEF GetSummary, vars
  <2>. QED
    BY <2>4, <2>5, <2>6 DEF ContractStep
<1>. QED
  BY <1>1, <1>2 DEF GetSummary

(* The last part shows the contract's page; the others do not change it. *)
LEMMA GetPartRefines ==
  ASSUME PagesIInv, NEW r \in Readers, GetPart(r), UNCHANGED vars
  PROVE  ContractStep \/ (UNCHANGED <<facts, Loading, Shown>>)
<1>1. load[r].phase = "parts" /\ facts' = facts
  BY DEF GetPart, vars
<1>2. CASE Conflict(r) /\ UNCHANGED <<page, more>>
  BY <1>2, ConflictRefines
<1>3. ASSUME NEW p \in Missing(r), NEW a \in Answers(load[r].pin),
             NEW got, got = load[r].got \cup {[part |-> p, answer |-> a]},
             \/ /\ page' = [page EXCEPT ![r] = [NoPage EXCEPT !.got = got]]
                /\ load' = [load EXCEPT ![r] = NoLoad]
             \/ /\ load' = [load EXCEPT ![r].got = got]
                /\ page' = page
      PROVE  ContractStep \/ (UNCHANGED <<facts, Loading, Shown>>)
  <2>1. got = load[r].got \cup {[part |-> p, answer |-> a]}
    BY <1>3
  <2>2. /\ Describes(got) = Describes(load[r].got)
        /\ load[r].pin # 0 => Describes(got) # {}
        /\ load[r].pin = 0 => Describes(got) = {}
    BY <1>1, <2>1, PartAddsNothing
  <2>3. Loading[r] = Describes(got)
    BY <2>2 DEF Loading
  <2>4. CASE /\ page' = [page EXCEPT ![r] = [NoPage EXCEPT !.got = got]]
             /\ load' = [load EXCEPT ![r] = NoLoad]
    <3> DEFINE q == [NoPage EXCEPT !.got = got]
    <3>1. q.got = got /\ q.added = {} /\ NoLoad.got = {}
      BY DEF NoPage, NoLoad
    <3>2. page' = [page EXCEPT ![r] = q]
      BY <2>4
    <3> HIDE DEF q
    <3>3. Shown' = [Shown EXCEPT ![r] = Loading[r]]
      <4>1. Shown' = [Shown EXCEPT ![r] = Shows(q)]
        BY ONLY PagesIInv, r \in Readers, <3>2, ShownFollows
      <4>2. Shows(q) = Describes(got)
        BY <3>1 DEF Shows
      <4>. QED
        BY ONLY <2>3, <4>1, <4>2
    <3>4. Loading' = [Loading EXCEPT ![r] = {}]
      <4>1. load' = [load EXCEPT ![r] = NoLoad]
        BY <2>4
      <4>2. Loading' = [Loading EXCEPT ![r] = Describes(NoLoad.got)]
        BY ONLY PagesIInv, r \in Readers, <4>1, LoadingFollows
      <4>. QED
        BY <3>1, <4>2, NothingDescribes
    <3>. QED
      BY <1>1, <2>3, <3>3, <3>4 DEF ContractStep
  <2>5. CASE load' = [load EXCEPT ![r].got = got] /\ page' = page
    <3> DEFINE l == [load[r] EXCEPT !.got = got]
    <3>1. l.got = got /\ load' = [load EXCEPT ![r] = l]
      BY <2>5, ReaderIsGood DEF Load
    <3> HIDE DEF l
    <3>2. Loading' = [Loading EXCEPT ![r] = Loading[r]]
      BY <2>3, <3>1, LoadingFollows
    <3>3. Loading' = Loading /\ Shown' = Shown
      BY <2>5, <3>2, ShownStays DEF Loading
    <3>. QED
      BY <1>1, <3>3
  <2>. QED
    BY <1>3, <2>4, <2>5
<1>. QED
  BY <1>2, <1>3 DEF GetPart

(* Rows that are added to a page describe what it does, and stray ones are  *)
(* no part of what the contract speaks of.                                  *)
LEMMA AddRowsShowsNothing ==
  ASSUME PagesIInv, PagesIInv', NEW r \in Readers, AddRows(r), UNCHANGED vars
  PROVE  Shown' = Shown
<1>0. page[r] \in Page /\ page \in [Readers -> Page]
  BY ReaderIsGood DEF PagesIInv, PagesTypeOK, Page
<1>1. /\ page' = [page EXCEPT ![r] = page'[r]]
      /\ page'[r].got = page[r].got /\ page[r].added \subseteq page'[r].added
  <2>1. CASE more[r].late
    <3> DEFINE p == [page[r] EXCEPT !.stray = page[r].stray \cup more[r].rows]
    <3>1. page' = [page EXCEPT ![r] = p]
      BY <2>1 DEF AddRows
    <3>2. p.got = page[r].got /\ p.added = page[r].added
      BY <1>0 DEF Page
    <3> HIDE DEF p
    <3>. QED
      BY <1>0, <3>1, <3>2
  <2>2. CASE ~more[r].late
    <3> DEFINE p == [page[r] EXCEPT !.added = page[r].added \cup more[r].rows]
    <3>1. page' = [page EXCEPT ![r] = p]
      BY <2>2 DEF AddRows
    <3>2. p.got = page[r].got /\ page[r].added \subseteq p.added
      BY <1>0 DEF Page
    <3> HIDE DEF p
    <3>. QED
      BY <1>0, <3>1, <3>2
  <2>. QED
    BY <2>1, <2>2
<1>2. GoodPage(page'[r])
  BY DEF PagesIInv, GoodPage, vars
<1>3. Shows(page'[r]) = Shows(page[r])
  <2>1. CASE Describes(page[r].got) = {}
    BY <1>1, <2>1 DEF Shows
  <2>2. CASE Describes(page[r].got) # {}
    <3>1. PICK g \in page[r].got : g.part = "summary"
      BY <1>1, <1>2, <2>2, NothingDescribes DEF GoodPage
    <3>2. g.answer.rev # 0
      BY <2>2, <3>1, NoRevisionDescribes
    <3>3. PICK s \in revisions : /\ \A h \in page[r].got : h.answer = From(s)
                                 /\ \A a \in page'[r].added : a = From(s)
      BY <1>1, <1>2, <3>1, <3>2 DEF GoodPage
    <3>4. From(s).live \in Describes(page[r].got)
      BY <2>2, <3>1, <3>3 DEF Describes
    <3>5. /\ {a.live : a \in page'[r].added} \subseteq Describes(page[r].got)
          /\ {a.live : a \in page[r].added} \subseteq Describes(page[r].got)
      BY <1>1, <3>3, <3>4
    <3>. QED
      BY <1>1, <2>2, <3>5 DEF Shows
  <2>. QED
    BY <2>1, <2>2
<1>4. Shown' = [Shown EXCEPT ![r] = Shows(page'[r])]
  BY <1>1, ShownFollows
<1>. QED
  BY <1>3, <1>4 DEF Shown

LEMMA MoreRefines ==
  ASSUME PagesIInv, PagesIInv', NEW r \in Readers, AskMore(r) \/ AnswerMore(r) \/ AddRows(r),
         UNCHANGED vars
  PROVE  UNCHANGED <<facts, Loading, Shown>>
<1>1. load' = load /\ facts' = facts
  BY DEF AskMore, AnswerMore, AddRows, vars
<1>2. Shown' = Shown
  BY AddRowsShowsNothing, ShownStays DEF AskMore, AnswerMore
<1>. QED
  BY <1>1, <1>2 DEF Loading, Describes

LEMMA PagesNextRefines ==
  ASSUME PagesIInv, PagesIInv', [PagesNext]_pageVars
  PROVE  [Contract!Next]_(Contract!contractVars)
<1>1. CASE UNCHANGED pageVars \/ DatabaseStep
  BY <1>1, DatabaseStepRefines, ContractStepIsContracts
     DEF pageVars, readerVars, DatabaseStep
<1>2. ASSUME NEW r \in Readers, ReaderStep(r)
      PROVE  ContractStep \/ (UNCHANGED <<facts, Loading, Shown>>)
  BY <1>2, RefreshRefines, GetSummaryRefines, GetPartRefines, MoreRefines DEF ReaderStep
<1>3. (UNCHANGED <<facts, Loading, Shown>>) => UNCHANGED Contract!contractVars
  BY DEF Loading, Shown, Contract!contractVars
<1>. QED
  BY <1>1, <1>2, <1>3, ContractStepIsContracts DEF PagesNext

LEMMA PagesInitRefines == PagesInit => Contract!Init
<1>1. NoLoad.got = {} /\ Shows(NoPage) = {}
  BY NothingDescribes DEF NoLoad, NoPage, Shows
<1>. QED
  BY <1>1, FactsAssumption, NothingDescribes DEF PagesInit, Init, Contract!Init

(* A page is opened on the facts of one instant and shown as opened, or not *)
(* at all: the requests, revisions and markers behind it implement the      *)
(* contract, whatever the collector commits meanwhile.                      *)
THEOREM PagesImplementContract == PagesSpec => ImplementsContract
<1>1. PagesInit => Contract!Init
  BY PagesInitRefines
<1>2. PagesIInv /\ PagesIInv' /\ [PagesNext]_pageVars => [Contract!Next]_(Contract!contractVars)
  BY PagesNextRefines
<1>. QED
  BY <1>1, <1>2, PagesIInvHolds, PTL DEF PagesSpec, ImplementsContract, Contract!Spec
=============================================================================
