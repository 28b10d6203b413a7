--------------------------- MODULE ReportSnapshot ---------------------------
(***************************************************************************)
(* The database side of a cost report for one tenant: the facts a report   *)
(* is computed from, the generation marker that triggers advance with      *)
(* every statement that writes a fact, and the calculation revisions.      *)
(*                                                                         *)
(* Every session runs at REPEATABLE READ (db.py), so a writer works on the *)
(* snapshot it began with.  PostgreSQL makes the second of two concurrent  *)
(* updates of a row wait for the first, and fail if the first commits; the *)
(* generation row is such a row, and so is every revision row.             *)
(*                                                                         *)
(* What is abstracted: the contents of the hashed tables are one value of  *)
(* Facts, and a digest is that value (no md5 collision).  There is one     *)
(* calculation version and one tenant.  created_at is a number, later than *)
(* that of every committed row, and no two rows share it.                  *)
(***************************************************************************)
EXTENDS Naturals, FiniteSets

CONSTANTS
  Facts,          \* possible contents of the fact tables
  InitFacts,      \* what enrollment left in them
  Edits,          \* <<a, b>>: a write may turn contents a into b
  Calculators,    \* writers that calculate before they commit
  Importers,      \* writers that commit facts without calculating
  LeaseHolders,   \* calculators that run under the collector's lease
  MaxGeneration,  \* bound: how far fact statements advance the generation
  MaxCreated      \* bound: how many creation times are handed out

ASSUME FactsAssumption ==
  /\ InitFacts \in Facts
  /\ Edits \subseteq Facts \X Facts

ASSUME WritersAssumption ==
  /\ LeaseHolders \subseteq Calculators
  /\ Calculators \cap Importers = {}

ASSUME BoundAssumption == MaxGeneration \in Nat \ {0} /\ MaxCreated \in Nat

VARIABLES
  facts,        \* committed contents
  generation,   \* committed report_generation.generation
  revisions,    \* committed cost_revision rows
  txn           \* txn[w]: the transaction writer w has open

vars == <<facts, generation, revisions, txn>>

Writers == Calculators \cup Importers

Revision == [created : Nat, content : Facts, marker : Nat]

Transaction == [status : {"idle", "open", "calculated"},
                base : Nat,                   \* generation of the snapshot
                gen : Nat,                    \* generation after its own writes
                content : Facts,              \* contents after its own writes
                seen : SUBSET Revision,       \* revisions of the snapshot
                pending : SUBSET Revision]    \* the row it inserted or updated

Idle == [status |-> "idle", base |-> 0, gen |-> 0, content |-> InitFacts,
         seen |-> {}, pending |-> {}]

TypeOK ==
  /\ facts \in Facts
  /\ generation \in Nat
  /\ revisions \in SUBSET Revision
  /\ txn \in [Writers -> Transaction]

-----------------------------------------------------------------------------
(* The newest revision, as both the calculation and the reports order them. *)

IsNewest(r, set) == r \in set /\ \A s \in set : s.created <= r.created

Newest(set) == CHOOSE r \in set : IsNewest(r, set)

\* What an unpinned report request finds: the newest revision, or a conflict
\* when its marker is not the tenant's generation.
Servable == \E r \in revisions : IsNewest(r, revisions) /\ r.marker = generation

-----------------------------------------------------------------------------
(* Writers.                                                                *)

IsOpen(w) == txn[w].status # "idle"

HasWritten(w) == IsOpen(w) /\ txn[w].gen # txn[w].base

\* The lease is held for a process's lifetime, so two lease holders never have
\* transactions open at once.
LeaseIsFree(w) ==
  w \in LeaseHolders => \A v \in LeaseHolders \ {w} : ~IsOpen(v)

Begin(w) ==
  /\ ~IsOpen(w)
  /\ LeaseIsFree(w)
  /\ txn' = [txn EXCEPT ![w] =
               [status |-> "open", base |-> generation, gen |-> generation,
                content |-> facts, seen |-> revisions, pending |-> {}]]
  /\ UNCHANGED <<facts, generation, revisions>>

\* The generation row can be updated: nobody else has updated it and not yet
\* ended, and nobody has committed an update since the snapshot.
GenerationRowIsFree(w) ==
  /\ \A v \in Writers \ {w} : ~HasWritten(v)
  /\ generation = txn[w].base

\* One statement on a fact table, and the trigger it fires.  Rewriting the
\* values already there advances the generation too.
Write(w) ==
  /\ txn[w].status = "open"
  /\ txn[w].gen < MaxGeneration
  /\ GenerationRowIsFree(w)
  /\ \E f \in Facts :
       /\ <<txn[w].content, f>> \in Edits
       /\ txn' = [txn EXCEPT ![w].content = f, ![w].gen = @ + 1]
  /\ UNCHANGED <<facts, generation, revisions>>

\* Mutation: the early return forgets to compare the markers.
AnyRevisionWillDo(w) == txn[w].seen # {}

\* calculate_tenant, when the newest revision already carries the generation.
AlreadyCalculated(w) ==
  \E r \in txn[w].seen : IsNewest(r, txn[w].seen) /\ r.marker = txn[w].gen

Reuse(w) ==
  /\ AlreadyCalculated(w)
  /\ txn' = [txn EXCEPT ![w].status = "calculated"]

\* Mutation: the revision is brought back without regard to concurrent updates.
RowIsVisible(w, r) == r \in txn[w].seen

\* Contents a revision was made for before: only its marker moves forward.
\* The row must be unchanged since the snapshot and not held by another.
RowIsFree(w, r) ==
  /\ r \in revisions
  /\ \A v \in Writers \ {w} : \A p \in txn[v].pending : p.created # r.created

\* Mutation: the newest revision is brought back whatever it was made for.
ReviveNewest(w) ==
  /\ ~AlreadyCalculated(w)
  /\ \E r \in txn[w].seen :
       /\ IsNewest(r, txn[w].seen)
       /\ RowIsFree(w, r)
       /\ txn' = [txn EXCEPT ![w].status = "calculated",
                             ![w].pending = {[r EXCEPT !.marker = txn[w].gen]}]

Revive(w) ==
  /\ ~AlreadyCalculated(w)
  /\ \E r \in txn[w].seen :
       /\ r.content = txn[w].content
       /\ RowIsFree(w, r)
       /\ txn' = [txn EXCEPT ![w].status = "calculated",
                             ![w].pending = {[r EXCEPT !.marker = txn[w].gen]}]

\* Mutation: no unique constraint.
AnyDigest(w) == TRUE

\* The unique constraint on (tenant, version, digest), against rows the snapshot
\* does not show.
DigestIsFree(w) ==
  /\ \A r \in revisions : r.content # txn[w].content
  /\ \A v \in Writers \ {w} : \A p \in txn[v].pending : p.content # txn[w].content

\* A creation time later than every committed row's, and no other writer's.
IsLater(now) ==
  /\ \A r \in revisions : r.created < now
  /\ \A v \in Writers : \A p \in txn[v].pending : p.created # now

\* The earliest such time: those of writers that gave up come back, so that the
\* bound limits no order of creation.
IsNow(now) == IsLater(now) /\ \A earlier \in 1..now - 1 : ~IsLater(earlier)

Insert(w) ==
  /\ ~AlreadyCalculated(w)
  /\ \A r \in txn[w].seen : r.content # txn[w].content
  /\ DigestIsFree(w)
  /\ \E now \in 1..MaxCreated :
       /\ IsNow(now)
       /\ txn' = [txn EXCEPT ![w].status = "calculated",
                             ![w].pending = {[created |-> now,
                                              content |-> txn[w].content,
                                              marker |-> txn[w].gen]}]

Calculate(w) ==
  /\ w \in Calculators
  /\ txn[w].status = "open"
  /\ Reuse(w) \/ Revive(w) \/ Insert(w)
  /\ UNCHANGED <<facts, generation, revisions>>

\* The rows of a set after the rows of upd replace or join them.
Put(set, upd) == {r \in set : \A p \in upd : p.created # r.created} \cup upd

ReadyToCommit(w) ==
  \/ txn[w].status = "calculated"
  \/ w \in Importers /\ txn[w].status = "open"

Commit(w) ==
  /\ ReadyToCommit(w)
  /\ facts' = IF HasWritten(w) THEN txn[w].content ELSE facts
  /\ generation' = IF HasWritten(w) THEN txn[w].gen ELSE generation
  /\ revisions' = Put(revisions, txn[w].pending)
  /\ txn' = [txn EXCEPT ![w] = Idle]

\* The transaction ends without effect: its source failed and it was rolled
\* back, a row conflict or a duplicate digest raised, or the process died.
Abort(w) ==
  /\ IsOpen(w)
  /\ txn' = [txn EXCEPT ![w] = Idle]
  /\ UNCHANGED <<facts, generation, revisions>>

-----------------------------------------------------------------------------
Init ==
  /\ facts = InitFacts
  /\ generation = 1
  /\ revisions = {}
  /\ txn = [w \in Writers |-> Idle]

Next ==
  \E w \in Writers : Begin(w) \/ Write(w) \/ Calculate(w) \/ Commit(w) \/ Abort(w)

Spec == Init /\ [][Next]_vars

\* The collector runs cycle after cycle, outages and crashes end (the process is
\* restarted), a database session does not stay open for ever, and imports are
\* commands that somebody runs a number of times.
Fairness ==
  /\ \A w \in Writers \ LeaseHolders : <>[][~Begin(w)]_vars
  /\ \A w \in LeaseHolders :
       SF_vars(Begin(w)) /\ SF_vars(Calculate(w)) /\ SF_vars(Commit(w))
  /\ \A w \in Writers : WF_vars(Commit(w) \/ Abort(w))

FairSpec == Spec /\ Fairness

-----------------------------------------------------------------------------
(* Properties.                                                             *)

(* A revision whose marker equals the generation was calculated from the   *)
(* facts that are there now.  Reports rely on this to compare one number   *)
(* per request instead of hashing every fact row (reporting._revision).    *)
MarkerMeansCurrent ==
  \A r \in revisions : r.marker = generation => r.content = facts

(* The same contents never get two revisions, and no two revisions share a *)
(* creation time, even when two calculators work from the same snapshot.   *)
OneRevisionPerContent ==
  \A r, s \in revisions : r.content = s.content \/ r.created = s.created => r = s

(* A step never removes a revision or changes what it was calculated from, *)
(* and never moves a marker back: a calculation that worked from an older  *)
(* snapshot cannot undo the marker a later one has set.                    *)
RevisionsOnlyAdvance ==
  [][\A r \in revisions : \E s \in revisions' :
       s.created = r.created /\ s.content = r.content /\ s.marker >= r.marker]_vars

(* Facts cannot change under a marker that stays put, whoever writes them. *)
FactsMoveTheMarker == [][facts' # facts => generation' > generation]_vars

\* The facts are those of a revision that is not the newest.
FactsRecur == \E r \in revisions : r.content = facts /\ ~IsNewest(r, revisions)

(* Once reports have become stale, the next cycles make them servable,     *)
(* whatever aborts and whatever is imported beside the collector, unless   *)
(* the facts return to what an older revision was made for.                *)
ReportsRecover == ~Servable ~> (Servable \/ FactsRecur)

(* When a revision of the current facts exists, reports serve it rather    *)
(* than refuse.  Holds only without FactsRecur: the README's known          *)
(* exceptions.                                                             *)
CurrentRevisionIsServed ==
  (\E r \in revisions : r.marker = generation) => Servable
=============================================================================
