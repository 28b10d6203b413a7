------------------------------ MODULE Collector ------------------------------
(***************************************************************************)
(* The collector's loop: which source is collected when, and what one      *)
(* transaction of it commits.  The sources of a process are asked in their *)
(* order; a read that raises is recorded and backs off; an error after the *)
(* read, a crash and a conflict with another transaction end the process,  *)
(* which starts again with every source due.                               *)
(*                                                                         *)
(* There may be several processes, because a lease can be lost             *)
(* (Enrollment).  Transactions run at REPEATABLE READ: a commit fails when *)
(* a row it writes was written since it began.  What an adapter reads is   *)
(* in GalaxyFeed, BatchPaging and KubernetesWatch; here a source is a      *)
(* sequence of items and its cursor a position.                            *)
(***************************************************************************)
EXTENDS Naturals, FiniteSets

CONSTANTS
  LastSource,   \* the sources are numbered in the order of the process's list
  Procs,        \* collector processes
  MaxItems,     \* bound: items that each source ever has
  BatchSize,    \* items that one cycle reads at most
  MaxBackoff,   \* collect_max_backoff_seconds, in ticks of the clock
  MaxFailures,  \* bound: failures that are counted, more do not lengthen the delay
  Interval,     \* ticks between two cycles of a source that is read up
  Denied,       \* sources that may fail for ever
  Poison,       \* sources whose items ingestion cannot store
  Settings      \* bounds, procs: processes of one installation, sources: what
                \* they collect, failing: the sources whose reads may raise

Sources == 1 .. LastSource

ASSUME SizesAssumption ==
  /\ LastSource \in Nat \ {0} /\ MaxItems \in [Sources -> Nat] /\ BatchSize \in Nat \ {0}
  /\ MaxBackoff \in Nat \ {0} /\ Interval \in Nat \ {0}
  /\ MaxFailures \in Nat /\ 2^MaxFailures >= MaxBackoff
ASSUME FaultsAssumption == Denied \subseteq Sources /\ Poison \subseteq Sources
ASSUME SettingsAssumption ==
  Settings \subseteq [procs : SUBSET Procs, sources : SUBSET Sources, failing : SUBSET Sources]

VARIABLES
  setting,    \* the bounds of this installation
  produced,   \* items that each source has
  cursor,     \* the committed cursor of each source
  facts,      \* items that are stored
  status,     \* what the source's ingestion state shows
  revision,   \* the stored items that the newest revision was calculated from
  procs       \* each process

vars == <<setting, produced, cursor, facts, status, revision, procs>>

Positions == UNION {0 .. MaxItems[s] : s \in Sources}
AtMost(m, n) == IF m <= n THEN m ELSE n
Longest == IF MaxBackoff >= Interval THEN MaxBackoff ELSE Interval

Rows == Sources \cup {0}     \* an ingestion state each, and the report generation
Generation == 0

-----------------------------------------------------------------------------
(* The process: its pass over the due sources, and the open transaction. *)

Off == [step |-> "off", todo |-> {}, position |-> 0, take |-> 0, exhausted |-> FALSE, stale |-> {},
        seen |-> [s \in Sources |-> {}], wait |-> [s \in Sources |-> 0], failures |-> [s \in Sources |-> 0]]

HasTurn(p, s) == s \in procs[p].todo /\ \A t \in procs[p].todo : s <= t

\* A commit makes the rows it wrote stale for every other open transaction.
Outdates(p, rows, mine) ==
  [q \in Procs |->
    IF q = p THEN mine
    ELSE IF procs[q].step \in {"open", "collected"} THEN [procs[q] EXCEPT !.stale = @ \cup rows]
    ELSE procs[q]]

Start(p) ==
  /\ p \in setting.procs
  /\ procs[p].step \in {"off", "raised"}
  /\ procs' = [procs EXCEPT ![p] = [Off EXCEPT !.step = "idle"]]
  /\ UNCHANGED <<setting, produced, cursor, facts, status, revision>>

\* From outside: the pod is evicted, the machine stops.
Crash(p) ==
  /\ procs[p].step \notin {"off", "raised"}
  /\ procs' = [procs EXCEPT ![p] = Off]
  /\ UNCHANGED <<setting, produced, cursor, facts, status, revision>>

\* run_once decides what is due by the time at which it begins.
BeginPass(p) ==
  LET due == {s \in Sources : s \in setting.sources /\ procs[p].wait[s] = 0}
  IN  /\ procs[p].step = "idle"
      /\ due # {}
      /\ procs' = [procs EXCEPT ![p].step = "pass", ![p].todo = due]
      /\ UNCHANGED <<setting, produced, cursor, facts, status, revision>>

EndPass(p) ==
  /\ procs[p].step = "pass"
  /\ procs[p].todo = {}
  /\ procs' = [procs EXCEPT ![p].step = "idle"]
  /\ UNCHANGED <<setting, produced, cursor, facts, status, revision>>

ReadCursor(p, s) ==
  /\ procs[p].step = "pass"
  /\ HasTurn(p, s)
  /\ procs' = [procs EXCEPT ![p].step = "open", ![p].position = cursor[s],
                            ![p].seen = facts, ![p].stale = {}]
  /\ UNCHANGED <<setting, produced, cursor, facts, status, revision>>

Collect(p, s) ==
  LET last == AtMost(procs[p].position + BatchSize, produced[s])
  IN  /\ procs[p].step = "open"
      /\ HasTurn(p, s)
      /\ procs' = [procs EXCEPT ![p].step = "collected", ![p].take = last,
                                ![p].exhausted = last = produced[s]]
      /\ UNCHANGED <<setting, produced, cursor, facts, status, revision>>

\* _backoff: half the ceiling, and up to as much again.
Ceiling(failures) == AtMost(MaxBackoff, 2^failures)
Delays(failures) == (Ceiling(failures) + 1) \div 2 .. Ceiling(failures)

Closed(p, s, failures, delay) ==
  [Off EXCEPT !.step = "pass", !.todo = procs[p].todo \ {s},
              !.wait = [procs[p].wait EXCEPT ![s] = delay],
              !.failures = [procs[p].failures EXCEPT ![s] = failures]]

\* Mutation: a read that raises ends the process.
CollectFailsUncaught(p, s) ==
  /\ s \in setting.failing
  /\ procs[p].step = "open"
  /\ HasTurn(p, s)
  /\ procs' = [procs EXCEPT ![p] = [Off EXCEPT !.step = "raised"]]
  /\ UNCHANGED <<setting, produced, cursor, facts, status, revision>>

\* The transaction is rolled back before the failure is recorded in a new one.
CollectFails(p, s) ==
  LET failures == AtMost(procs[p].failures[s] + 1, MaxFailures)
  IN  /\ s \in setting.failing
      /\ procs[p].step = "open"
      /\ HasTurn(p, s)
      /\ status' = [status EXCEPT ![s] = "failed"]
      /\ \E delay \in Delays(failures) :
           procs' = Outdates(p, {s}, Closed(p, s, failures, delay))
      /\ UNCHANGED <<setting, produced, cursor, facts, revision>>

Stores(p) == procs[p].take > procs[p].position
Items(p) == procs[p].position + 1 .. procs[p].take

\* apply_batch writes the source's state, and the triggers the report generation.
Written(p, s) == {s} \cup (IF Stores(p) THEN {Generation} ELSE {})

\* Mutation: two transactions conflict only if they are of the same source.
ConflictsOfSource(p, s) == s \in procs[p].stale

Conflicts(p, s) == Written(p, s) \cap procs[p].stale # {}
Unstorable(p, s) == s \in Poison /\ Stores(p)

\* calculate_tenant sees its transaction's facts; without new ones it calculates nothing.
Calculated(p, s) == IF Stores(p) THEN [procs[p].seen EXCEPT ![s] = @ \cup Items(p)] ELSE revision

Commit(p, s) ==
  /\ procs[p].step = "collected"
  /\ HasTurn(p, s)
  /\ ~Conflicts(p, s) /\ ~Unstorable(p, s)
  /\ facts' = [facts EXCEPT ![s] = @ \cup Items(p)]
  /\ cursor' = [cursor EXCEPT ![s] = procs[p].take]
  /\ status' = [status EXCEPT ![s] = "healthy"]
  /\ revision' = Calculated(p, s)
  /\ procs' = Outdates(p, Written(p, s),
                        Closed(p, s, 0, IF procs[p].exhausted THEN Interval ELSE 0))
  /\ UNCHANGED <<setting, produced>>

\* Mutation: the cursor is saved in a transaction of its own.
CommitRaisesBehindCursor(p, s) ==
  /\ procs[p].step = "collected"
  /\ HasTurn(p, s)
  /\ Conflicts(p, s) \/ Unstorable(p, s)
  /\ cursor' = [cursor EXCEPT ![s] = procs[p].take]
  /\ procs' = [procs EXCEPT ![p] = [Off EXCEPT !.step = "raised"]]
  /\ UNCHANGED <<setting, produced, facts, status, revision>>

\* Nothing catches an error of apply_batch or calculate_tenant.
CommitRaises(p, s) ==
  /\ procs[p].step = "collected"
  /\ HasTurn(p, s)
  /\ Conflicts(p, s) \/ Unstorable(p, s)
  /\ procs' = [procs EXCEPT ![p] = [Off EXCEPT !.step = "raised"]]
  /\ UNCHANGED <<setting, produced, cursor, facts, status, revision>>

-----------------------------------------------------------------------------
(* The clock of the processes, and the sources. *)

Tick ==
  /\ \E p \in Procs, s \in Sources : procs[p].wait[s] > 0
  /\ procs' = [p \in Procs |-> [procs[p] EXCEPT !.wait =
                 [s \in Sources |-> IF @[s] > 0 THEN @[s] - 1 ELSE 0]]]
  /\ UNCHANGED <<setting, produced, cursor, facts, status, revision>>

Produce(s) ==
  /\ s \in setting.sources
  /\ produced[s] < MaxItems[s]
  /\ produced' = [produced EXCEPT ![s] = @ + 1]
  /\ UNCHANGED <<setting, cursor, facts, status, revision, procs>>

Init ==
  /\ setting \in Settings
  /\ produced = [s \in Sources |-> 0] /\ cursor = [s \in Sources |-> 0]
  /\ facts = [s \in Sources |-> {}] /\ revision = facts
  /\ status = [s \in Sources |-> "unknown"]
  /\ procs = [p \in Procs |-> Off]

Works(p, s) == ReadCursor(p, s) \/ Collect(p, s) \/ CollectFails(p, s) \/ Commit(p, s) \/ CommitRaises(p, s)

Next ==
  \/ \E p \in Procs : Start(p) \/ Crash(p) \/ BeginPass(p) \/ EndPass(p)
  \/ \E p \in Procs, s \in Sources : Works(p, s)
  \/ Tick
  \/ \E s \in Sources : Produce(s)

Spec == Init /\ [][Next]_vars

(* The process is restarted and its loop runs on, time passes, and a source *)
(* that is not denied answers at times.  Errors that the loop itself raises *)
(* may recur for ever; crashes from outside it do not.                      *)
Fairness ==
  /\ WF_vars(Tick)
  /\ \A p \in Procs :
       /\ WF_vars(Start(p)) /\ WF_vars(BeginPass(p)) /\ WF_vars(EndPass(p))
       /\ <>[][~Crash(p)]_vars
       /\ \A s \in Sources : WF_vars(Works(p, s)) /\ (s \notin Denied => SF_vars(Collect(p, s)))

FairSpec == Spec /\ Fairness

-----------------------------------------------------------------------------
(* Every variable has its type; a delay never exceeds its bound. *)
TypeOK ==
  /\ setting \in Settings
  /\ produced \in [Sources -> Positions] /\ cursor \in [Sources -> Positions]
  /\ facts \in [Sources -> SUBSET Positions]
  /\ revision \in [Sources -> SUBSET Positions]
  /\ status \in [Sources -> {"unknown", "healthy", "failed"}]
  /\ procs \in [Procs ->
       [step : {"off", "raised", "idle", "pass", "open", "collected"}, todo : SUBSET Sources,
        position : Positions, take : Positions, exhausted : BOOLEAN, stale : SUBSET Rows,
        seen : [Sources -> SUBSET Positions],
        wait : [Sources -> 0 .. Longest], failures : [Sources -> 0 .. MaxFailures]]]
  /\ \A p \in Procs : procs[p].step \in {"open", "collected"} => procs[p].todo # {}

(* "Commits that batch, its cursor and the recalculated costs together":    *)
(* whatever crashes or runs beside it, all that a cursor has passed is      *)
(* stored, and nothing beyond.                                              *)
CursorMeansRecorded ==
  \A s \in Sources : facts[s] = 1 .. cursor[s]

(* "Reports never see observations without a matching calculation revision": *)
(* two processes that store different sources never leave a revision that    *)
(* has seen only one of them.                                                *)
RevisionCoversFacts == revision = facts

(* Processes that overlap, because a lease was lost, leave behind only what *)
(* one process alone could have left: their commits are batches taken one   *)
(* after another, each from where the last one of its source ended, and a   *)
(* transaction that has read what another then wrote leaves nothing.        *)
Contract == INSTANCE CollectionContract
CollectionIsSerial == Contract!Spec

(* A denied or unreachable source "must degrade coverage and back off, not  *)
(* restart collection from healthy sources": what any other source has is   *)
(* collected in the end, also beside one whose items cannot be stored, if   *)
(* that one comes after it: the process then ends and starts over.  Of one  *)
(* process: two that go on beside each other may always conflict.           *)
HealthySourcesGoOn ==
  Cardinality(setting.procs) = 1 =>
    \A s \in {t \in Sources \ Denied : \A u \in Poison : t < u}, n \in Positions \ {0} :
      produced[s] >= n ~> n \in facts[s]
=============================================================================
