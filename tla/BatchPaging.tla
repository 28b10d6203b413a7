------------------------------ MODULE BatchPaging ------------------------------
(***************************************************************************)
(* Which Batch resources a collection cycle observes (BatchCollector in    *)
(* adapters/gcp_batch.py).  Targets come from the job table, in the order  *)
(* of their Galaxy IDs; a target is active until its job is terminal.  Two *)
(* lists are paged by offsets that are stored in the source's cursor, while *)
(* jobs appear and finish between cycles.                                  *)
(*                                                                         *)
(* Targets are numbers in the order of the lists.  What is read of each    *)
(* target is in LifetimeEvidence; a cycle whose read fails is rolled back, *)
(* cursor included, so it is no step here.                                 *)
(***************************************************************************)
EXTENDS Naturals, FiniteSets

CONSTANTS
  Targets,      \* Batch resources there will ever be
  Budgets       \* values of gcp_max_targets_per_cycle

ASSUME TargetsAssumption == Targets \subseteq Nat /\ IsFiniteSet(Targets)

ASSUME BudgetsAssumption == Budgets \subseteq Nat \ {0}

VARIABLES
  maxTargets, \* the deployment's gcp_max_targets_per_cycle
  active,     \* targets whose Galaxy job runs
  terminal,   \* targets whose Galaxy job is over
  cursor,     \* what the source's committed cursor says
  observed,   \* targets read by the last cycle
  done,       \* did that cycle report the active list as covered?
  owed        \* active since the sweep began and not read in it, unless a job
              \* has finished meanwhile and moved the others up

vars == <<maxTargets, active, terminal, cursor, observed, done, owed>>

AtMost(m, n) == IF m <= n THEN m ELSE n
AtLeast(m, n) == IF m >= n THEN m ELSE n
Minus(m, n) == IF m >= n THEN m - n ELSE 0

TypeOK ==
  /\ maxTargets \in Budgets
  /\ active \subseteq Targets
  /\ terminal \subseteq Targets
  /\ cursor \in [active_offset : 0..Cardinality(Targets),
                 terminal_offset : 0..Cardinality(Targets),
                 terminal_due : BOOLEAN]
  /\ observed \subseteq Targets
  /\ done \in BOOLEAN
  /\ owed \subseteq active

-----------------------------------------------------------------------------
\* The position of a target in a list.
Index(t, list) == Cardinality({u \in list : u < t})

\* Mutation: an offset past the end is not brought back to the beginning.
PageWithoutWrap(list, offset, slots) ==
  [window |-> {t \in list : offset <= Index(t, list) /\ Index(t, list) < offset + slots},
   next |-> offset + slots,
   done |-> offset + slots >= Cardinality(list)]

\* Mutation: every cycle takes the first slice.
FirstPage(list, offset, slots) ==
  [window |-> {t \in list : Index(t, list) < slots},
   next |-> 0,
   done |-> slots >= Cardinality(list)]

\* Mutation: the last target of a list is forgotten.
PageDoneEarly(list, offset, slots) ==
  LET n == Cardinality(list)
      start == IF offset < n THEN offset ELSE 0
  IN  IF n = 0 \/ slots = 0
      THEN [window |-> {}, next |-> 0, done |-> TRUE]
      ELSE [window |-> {t \in list : start <= Index(t, list) /\ Index(t, list) < start + slots},
            next |-> IF start + slots >= n THEN 0 ELSE start + slots,
            done |-> start + slots + 1 >= n]

\* BatchCollector._page.
Page(list, offset, slots) ==
  LET n == Cardinality(list)
      start == IF offset < n THEN offset ELSE 0
  IN  IF n = 0 \/ slots = 0
      THEN [window |-> {}, next |-> 0, done |-> TRUE]
      ELSE [window |-> {t \in list : start <= Index(t, list) /\ Index(t, list) < start + slots},
            next |-> IF start + slots >= n THEN 0 ELSE start + slots,
            done |-> start + slots >= n]

\* terminal_share is 0.2 in every deployment.
Reserved == AtMost(Cardinality(terminal), AtLeast(1, maxTargets \div 5))

TerminalFirst == cursor.terminal_due /\ terminal # {}

ActiveSlots ==
  CASE TerminalFirst -> Minus(maxTargets, AtMost(Cardinality(terminal), maxTargets))
    [] ~TerminalFirst /\ active # {} -> AtLeast(Minus(maxTargets, Reserved), 1)
    [] OTHER -> 0

ActivePage == Page(active, cursor.active_offset, ActiveSlots)

\* Mutation: terminal work may use slots that active work has used.
TerminalSlotsUnreduced == AtMost(Cardinality(terminal), maxTargets)

TerminalSlots ==
  IF TerminalFirst THEN AtMost(Cardinality(terminal), maxTargets)
  ELSE Minus(maxTargets, Cardinality(ActivePage.window))

TerminalPage == Page(terminal, cursor.terminal_offset, TerminalSlots)

\* This cycle had no room for terminal work and has finished the active list.
TerminalDue == terminal # {} /\ TerminalPage.window = {} /\ ActivePage.done

\* One cycle: _select, the reads, and the commit of the cursor.
Collect ==
  /\ observed' = ActivePage.window \cup TerminalPage.window
  /\ done' = ActivePage.done
  /\ cursor' = [active_offset |-> ActivePage.next,
                terminal_offset |-> TerminalPage.next,
                terminal_due |-> TerminalDue]
  /\ owed' = (IF cursor.active_offset = 0 THEN active ELSE owed) \ ActivePage.window
  /\ UNCHANGED <<maxTargets, active, terminal>>

\* The Galaxy source commits a new Batch job, or the end of one.
Start(t) ==
  /\ t \notin active \cup terminal
  /\ active' = active \cup {t}
  /\ UNCHANGED <<maxTargets, terminal, cursor, observed, done, owed>>

Finish(t) ==
  /\ t \in active
  /\ active' = active \ {t}
  /\ terminal' = terminal \cup {t}
  /\ owed' = {}
  /\ UNCHANGED <<maxTargets, cursor, observed, done>>

Init ==
  /\ maxTargets \in Budgets
  /\ active = {} /\ terminal = {} /\ observed = {} /\ owed = {}
  /\ done = TRUE
  /\ cursor = [active_offset |-> 0, terminal_offset |-> 0, terminal_due |-> FALSE]

Next == Collect \/ \E t \in Targets : Start(t) \/ Finish(t)

Spec == Init /\ [][Next]_vars

\* The source is due again after each cycle; reads that fail are retried.
FairSpec == Spec /\ WF_vars(Collect)

-----------------------------------------------------------------------------
(* Properties. *)

(* A cycle never reads more resources than it may, whichever list leads.   *)
BudgetIsKept == Cardinality(observed) <= maxTargets

(* The cursor wraps before it leaves the list it was made for, so a cycle  *)
(* with active work reads some, however much the list has shrunk.          *)
(* Terminal work may lead instead, if it was due.                          *)
ActiveWorkIsRead ==
  [][Collect /\ active # {} /\ ~TerminalFirst => observed' \cap active # {}]_vars

(* A cycle that reports the active list as covered, and so waits a full    *)
(* interval, ends a sweep that has read every target that was active all   *)
(* along, unless one of them finished meanwhile or the budget has no room  *)
(* for both lists.                                                         *)
QuietSweepsAreComplete == done /\ maxTargets > 1 => owed = {}

(* With room for two, every target is read again, or read in its new state, *)
(* while it is in a list: no place in a list is passed over for ever.       *)
EveryTargetGetsATurn ==
  \A t \in Targets :
    /\ t \in active /\ maxTargets > 1 ~> (t \in terminal \/ t \in observed)
    /\ t \in terminal /\ maxTargets > 1 ~> t \in observed
=============================================================================
