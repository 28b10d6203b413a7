----------------------------- MODULE GalaxyFeed -----------------------------
(***************************************************************************)
(* How the collector follows Galaxy's job table.  Galaxy stamps a row when *)
(* a transaction changes it and commits it later; metrics and memberships  *)
(* change without a stamp.  The adapter pages the table by id up to a      *)
(* ceiling, then by (update_time, id) with a replay overlap, and whenever  *)
(* a page is not full it reconciles: jobs that are not terminal, jobs that *)
(* have been for a short time, and a sweep of all jobs that wraps.         *)
(*                                                                         *)
(* What a cycle reads is committed with its cursor in one transaction, or  *)
(* not at all; Galaxy goes on between the read and the commit.             *)
(***************************************************************************)
EXTENDS Integers, FiniteSets, FiniteSetsExt

CONSTANTS
  MaxJob,      \* bound: ids are 1..MaxJob, given out in order
  MaxTime,     \* bound: clock ticks
  MaxOpen,     \* bound: Galaxy transactions open at a time
  Settings,    \* batchSize: galaxy_batch_size,
               \* overlap: galaxy_replay_overlap_seconds, in ticks
  Recent,      \* recent_terminal_window, in ticks
  Lateness     \* how long a Galaxy transaction may take to commit, in ticks

ASSUME FeedAssumption ==
  /\ {MaxJob, MaxTime, MaxOpen} \subseteq Nat \ {0}
  /\ {Recent, Lateness} \subseteq Nat
  /\ Settings \subseteq [batchSize : Nat \ {0}, overlap : Nat]

VARIABLES
  setting,      \* the settings of this installation
  now,          \* the clock
  updated,      \* j.update_time of every committed row, 0: no row yet
  terminalJobs, \* the jobs in a terminal state
  open,         \* the stamp of a job's uncommitted change, 0: none
  missing,      \* <<job, kind>>: what the database has and Rainstone has not
  feedCursor,   \* the durable cursor of the source
  batch         \* the cycle between its read and its commit, or NoBatch

feedVars == <<setting, now, updated, terminalJobs, open, missing, feedCursor, batch>>
galaxy == <<setting, now, updated, terminalJobs, open>>

Jobs == 1 .. MaxJob
Kinds == {"row", "details"}
Visible == {j \in Jobs : updated[j] # 0}
Of(jobs) == jobs \X Kinds

NoBatch == [read |-> {}, cursor |-> [phase |-> "none"]]
IsRunning == batch # NoBatch

-----------------------------------------------------------------------------
(* Galaxy. *)

Tick ==
  /\ now < MaxTime
  /\ \A j \in Jobs : open[j] # 0 => now < open[j] + Lateness
  /\ now' = now + 1
  /\ UNCHANGED <<setting, updated, terminalJobs, open, missing, feedCursor, batch>>

(* A job is created, or changed while it is not terminal, once a tick. *)
BeginChange(j) ==
  /\ open[j] = 0
  /\ updated[j] < now
  /\ Cardinality({k \in Jobs : open[k] # 0}) < MaxOpen
  /\ j \in Visible \/ \A k \in Jobs : k < j => updated[k] # 0 \/ open[k] # 0
  /\ j \notin terminalJobs
  /\ open' = [open EXCEPT ![j] = now]
  /\ UNCHANGED <<setting, now, updated, terminalJobs, missing, feedCursor, batch>>

(* The change commits: the row is not what a running cycle has read of it. *)
CommitChange(j, ends) ==
  /\ open[j] # 0
  /\ updated' = [updated EXCEPT ![j] = open[j]]
  /\ open' = [open EXCEPT ![j] = 0]
  /\ terminalJobs' = IF ends THEN terminalJobs \cup {j} ELSE terminalJobs
  /\ missing' = missing \cup {<<j, "row">>}
  /\ batch' = [batch EXCEPT !.read = @ \ {<<j, "row">>}]
  /\ UNCHANGED <<setting, now, feedCursor>>

(* A metric or a collection membership appears; the job's stamp stays. *)
AddDetail(j) ==
  /\ j \in Visible
  /\ <<j, "details">> \notin missing
  /\ missing' = missing \cup {<<j, "details">>}
  /\ batch' = [batch EXCEPT !.read = @ \ {<<j, "details">>}]
  /\ UNCHANGED <<galaxy, feedCursor>>

-----------------------------------------------------------------------------
(* The queries of the adapter. *)

(* ORDER BY ... LIMIT: the first n of a set in the order of a key. *)
FirstBy(set, n, key) == {j \in set : Cardinality({k \in set : key[k] < key[j]}) < n}
Ascending == [j \in Jobs |-> j]
Descending == [j \in Jobs |-> -j]
ByStamp == [j \in Jobs |-> updated[j] * (MaxJob + 1) + j]

BackfillPage(after, ceiling) ==
  FirstBy({j \in Visible : after < j /\ j <= ceiling}, setting.batchSize, Ascending)

IncrementalPage(after, idAfter) ==
  FirstBy({j \in Visible : updated[j] > after \/ (updated[j] = after /\ j > idAfter)},
          setting.batchSize, ByStamp)

Nonterminal == FirstBy(Visible \ terminalJobs, setting.batchSize, Descending)
RecentlyTerminal ==
  FirstBy({j \in Visible \cap terminalJobs : updated[j] >= now - Recent}, setting.batchSize, Descending)
SweepPage(after) == FirstBy({j \in Visible : j > after}, setting.batchSize, Ascending)

IsFull(page) == Cardinality(page) = setting.batchSize
LastBy(page, key) == CHOOSE j \in page : \A k \in page : key[k] <= key[j]

-----------------------------------------------------------------------------
(* One cycle. *)

(* The backfill has its own position in the cursor; the incremental phase  *)
(* starts with id_after 0.                                                 *)
Backfill ==
  LET ceiling == IF feedCursor.ceiling = -1 THEN Max(Visible \cup {0}) ELSE feedCursor.ceiling
      page == BackfillPage(feedCursor.idAfter, ceiling)
  IN  [read |-> Of(page),
       cursor |-> [feedCursor EXCEPT
         !.ceiling = ceiling,
         !.idAfter = IF ~IsFull(page) THEN 0 ELSE Max(page),
         !.phase = IF IsFull(page) THEN "backfill" ELSE "incremental"]]

\* Mutation: pages start from the watermark itself.
ReplayFromWatermark == [stamp |-> feedCursor.updatedAfter, id |-> feedCursor.idAfter]

(* The position to page from; without an overlap the id breaks ties. *)
ReplayFrom == [stamp |-> feedCursor.updatedAfter - setting.overlap,
               id |-> IF setting.overlap = 0 THEN feedCursor.idAfter ELSE 0]

\* Mutation: the sweep stays at its end.
NextSweepOnce(sweep) == Max(sweep \cup {feedCursor.sweepAfter})

(* The sweep wraps after a page that is not full. *)
NextSweep(sweep) == IF IsFull(sweep) THEN Max(sweep) ELSE 0

Incremental ==
  LET page == IncrementalPage(ReplayFrom.stamp, ReplayFrom.id)
      sweep == SweepPage(feedCursor.sweepAfter)
      reconciled == IF IsFull(page) THEN {} ELSE Nonterminal \cup RecentlyTerminal \cup sweep
      last == LastBy(page, ByStamp)
  IN  [read |-> Of(page \cup reconciled),
       cursor |-> [feedCursor EXCEPT
         !.sweepAfter = IF IsFull(page) THEN @ ELSE NextSweep(sweep),
         !.updatedAfter = IF page = {} THEN @ ELSE updated[last],
         !.idAfter = IF page = {} THEN @ ELSE last]]

Read ==
  /\ ~IsRunning
  /\ batch' = IF feedCursor.phase = "backfill" THEN Backfill ELSE Incremental
  /\ UNCHANGED <<galaxy, missing, feedCursor>>

Commit ==
  /\ IsRunning
  /\ missing' = missing \ batch.read
  /\ feedCursor' = batch.cursor
  /\ batch' = NoBatch
  /\ UNCHANGED galaxy

(* The cycle fails, or the collector dies: neither rows nor cursor stay. *)
Abort ==
  /\ IsRunning
  /\ batch' = NoBatch
  /\ UNCHANGED <<galaxy, missing, feedCursor>>

FeedInit ==
  /\ setting \in Settings
  /\ now = 1
  /\ updated = [j \in Jobs |-> 0]
  /\ terminalJobs = {}
  /\ open = [j \in Jobs |-> 0]
  /\ missing = {}
  /\ feedCursor = [phase |-> "backfill", ceiling |-> -1, idAfter |-> 0,
                   updatedAfter |-> 0, sweepAfter |-> 0]
  /\ batch = NoBatch

FeedNext ==
  \/ Tick
  \/ \E j \in Jobs : BeginChange(j) \/ AddDetail(j) \/ \E ends \in BOOLEAN : CommitChange(j, ends)
  \/ Read
  \/ Commit
  \/ Abort

FeedSpec == FeedInit /\ [][FeedNext]_feedVars

(* Cycles follow each other for as long as the collector runs, and not all *)
(* of them fail.  Galaxy owes nothing.                                     *)
FairFeedSpec == FeedSpec /\ WF_feedVars(Read) /\ SF_feedVars(Commit)

-----------------------------------------------------------------------------
(* Every variable has its type; what a cycle holds was read of real rows. *)
CursorType ==
  [phase : {"backfill", "incremental"}, ceiling : -1 .. MaxJob, idAfter : 0 .. MaxJob,
   updatedAfter : 0 .. MaxTime, sweepAfter : 0 .. MaxJob]

FeedTypeOK ==
  /\ setting \in Settings
  /\ now \in 1 .. MaxTime
  /\ updated \in [Jobs -> 0 .. MaxTime]
  /\ open \in [Jobs -> 0 .. MaxTime]
  /\ terminalJobs \subseteq Visible
  /\ missing \subseteq Of(Visible)
  /\ feedCursor \in CursorType
  /\ IsRunning => batch.read \subseteq Of(Visible) /\ batch.cursor \in CursorType

(* The replay overlap covers transactions that commit late: as long as none *)
(* takes longer than the overlap, no row that Rainstone lacks is behind the *)
(* place the next page starts from (GalaxyDatabaseAdapter._incremental).    *)
(* Without an overlap the id breaks ties: a row that takes the watermark's   *)
(* own stamp and a smaller id is behind it, however soon it commits.        *)
ReplayCatchesLateCommits ==
  setting.overlap > 0 /\ Lateness <= setting.overlap =>
    \A j \in Visible : <<j, "row">> \in missing => updated[j] >= feedCursor.updatedAfter - setting.overlap

(* "Older records are eventually revisited": every change of a row and      *)
(* every detail that appears without one reaches Rainstone, whatever fails  *)
(* on the way.  Does not hold while rows crowd: see below, and the README's *)
(* known exceptions.                                                       *)
EverythingIsCollected ==
  \A j \in Jobs, kind \in Kinds : <<j, kind>> \in missing ~> <<j, kind>> \notin missing

(* A page's worth of rows is so close together that the replay of the last *)
(* one pages through the others only.                                      *)
Crowded ==
  setting.overlap > 0 /\ \E j \in Visible :
    Cardinality({k \in Visible : updated[k] \in updated[j] - setting.overlap .. updated[j]})
      >= setting.batchSize

(* What the code does keep of that promise: everything is collected once    *)
(* and for as long as no replay window holds a page's worth of rows, with   *)
(* an overlap or without, also what commits later than the overlap and what *)
(* was left behind while the window was too full.                           *)
UncrowdedJobsAreCollected ==
  <>[]~Crowded => EverythingIsCollected
=============================================================================
