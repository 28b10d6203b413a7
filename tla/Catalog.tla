-------------------------------- MODULE Catalog --------------------------------
(***************************************************************************)
(* The versions of the price catalog (catalog.py).  A refresh downloads an *)
(* artifact, imports it and activates it in one REPEATABLE READ            *)
(* transaction, and deactivates the versions that its snapshot shows as    *)
(* active.  Several processes refresh: the release's initialization, the   *)
(* collector, an operator.                                                 *)
(*                                                                         *)
(* An artifact is its catalog ID and its digest.  Prices are those of the  *)
(* artifact: PriceVersion rows carry the catalog's ID and are never removed. *)
(* PostgreSQL refuses a transaction that writes a row which somebody else  *)
(* has written since its snapshot, and a second row with the same ID.      *)
(***************************************************************************)
EXTENDS Naturals, FiniteSets

CONSTANTS
  CatalogIds,
  Feed,         \* artifacts that a feed may answer with, verified ones
  Bundled,      \* the artifact in the release's image
  Importers     \* processes that refresh the catalog

ASSUME ArtifactsAssumption ==
  /\ Feed \subseteq [id : CatalogIds, digest : Nat \ {0}]
  /\ Bundled \in [id : CatalogIds, digest : Nat \ {0}]

VARIABLES
  versions,   \* catalog_version: the digest (0: no such row) and the active flag
  import      \* each importer's transaction

catalogVars == <<versions, import>>

Artifacts == Feed \cup {Bundled}
Version == [digest : {0} \cup {a.digest : a \in Artifacts}, active : BOOLEAN]
NoVersion == [digest |-> 0, active |-> FALSE]
ActiveIn(table) == {i \in CatalogIds : table[i].active}

\* written: rows that others have committed since this transaction's snapshot.
NoImport == [step |-> "idle", snapshot |-> [i \in CatalogIds |-> NoVersion], written |-> {},
             artifact |-> Bundled]

CatalogTypeOK ==
  /\ versions \in [CatalogIds -> Version]
  /\ import \in [Importers ->
       [step : {"idle", "fetch", "import", "done", "failed"},
        snapshot : [CatalogIds -> Version], written : SUBSET CatalogIds, artifact : Artifacts]]

CatalogInit ==
  /\ versions = [i \in CatalogIds |-> NoVersion]
  /\ import = [p \in Importers |-> NoImport]

-----------------------------------------------------------------------------
\* refresh looks for the active catalog, which opens the transaction.
BeginRefresh(p) ==
  /\ import[p].step = "idle"
  /\ import' = [import EXCEPT ![p] = [NoImport EXCEPT !.step = "fetch", !.snapshot = versions]]
  /\ UNCHANGED versions

\* import_catalog refuses an ID that the snapshot has with other content.
Refused(p, a) == import[p].snapshot[a.id].digest \notin {0, a.digest}

\* Mutation: without an active catalog there is nothing to fall back on.
NoFallBack(p) ==
  [import[p] EXCEPT !.step = IF ActiveIn(import[p].snapshot) # {} THEN "done" ELSE "failed"]

\* Without an active catalog the bundled one is imported, in another transaction.
FallBack(p) ==
  IF ActiveIn(import[p].snapshot) # {} THEN [import[p] EXCEPT !.step = "done"]
  ELSE [import[p] EXCEPT !.step = "import", !.artifact = Bundled,
                         !.snapshot = versions, !.written = {}]

\* No feed, no answer, or no valid signature.
FetchFails(p) ==
  /\ import[p].step = "fetch"
  /\ import' = [import EXCEPT ![p] = FallBack(p)]
  /\ UNCHANGED versions

Fetch(p, a) ==
  /\ import[p].step = "fetch"
  /\ a \in Feed
  /\ import' = [import EXCEPT ![p] =
       IF Refused(p, a) THEN FallBack(p) ELSE [@ EXCEPT !.step = "import", !.artifact = a]]
  /\ UNCHANGED versions

\* Mutation: re-importing the active version writes nothing of it.
WritesOfChanges(p) ==
  LET a == import[p].artifact
  IN  (ActiveIn(import[p].snapshot) \ {a.id})
        \cup {i \in {a.id} : ~import[p].snapshot[i].active}

\* The version's own row is always written: it records when it was imported.
Writes(p) == {import[p].artifact.id} \cup ActiveIn(import[p].snapshot)

\* Mutation: every transaction reads what is committed when it writes.
NeverConflicts(p) == FALSE

Conflicts(p) == Writes(p) \cap import[p].written # {}

CommitImport(p) ==
  /\ import[p].step = "import"
  /\ ~Refused(p, import[p].artifact)
  /\ ~Conflicts(p)
  /\ LET a == import[p].artifact
     IN  versions' = [i \in CatalogIds |->
           IF i \in Writes(p)
           THEN [digest |-> IF i = a.id THEN a.digest ELSE versions[i].digest, active |-> i = a.id]
           ELSE versions[i]]
  /\ import' = [q \in Importers |->
       IF q = p THEN [import[p] EXCEPT !.step = "done"]
       ELSE [import[q] EXCEPT !.written = @ \cup IF import[q].step \in {"fetch", "import"}
                                                  THEN Writes(p) ELSE {}]]

\* The bundled artifact is refused, or the database refuses the transaction;
\* nothing catches either.
FailImport(p) ==
  /\ import[p].step = "import"
  /\ Refused(p, import[p].artifact) \/ Conflicts(p)
  /\ import' = [import EXCEPT ![p] = [NoImport EXCEPT !.step = "failed"]]
  /\ UNCHANGED versions

RefreshStep(p, feed) ==
  \/ FetchFails(p) \/ (feed /\ \E a \in Feed : Fetch(p, a)) \/ CommitImport(p) \/ FailImport(p)

\* The importer's process goes on, or has ended in the middle.
EndRefresh(p) ==
  /\ import' = [import EXCEPT ![p] = NoImport]
  /\ UNCHANGED versions
=============================================================================
