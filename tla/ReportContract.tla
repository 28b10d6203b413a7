--------------------------- MODULE ReportContract ---------------------------
(***************************************************************************)
(* What a report page promises its reader, with no revisions, markers,     *)
(* transactions or requests: everything on one page describes the facts as *)
(* they were at a single instant, the instant the page was asked for.      *)
(***************************************************************************)
CONSTANTS
  Facts,      \* possible contents of the fact tables
  Readers,    \* browsers
  Nothing     \* a reader that has no page, or whose page describes no facts

VARIABLES
  facts,      \* the facts now
  loading,    \* loading[r]: what the page being assembled describes
  shown       \* shown[r]: what the page on screen describes

contractVars == <<facts, loading, shown>>

Init ==
  /\ facts \in Facts
  /\ loading = [r \in Readers |-> Nothing]
  /\ shown = [r \in Readers |-> Nothing]

Change ==
  /\ facts' \in Facts
  /\ UNCHANGED <<loading, shown>>

\* A page is opened on the facts of this instant.
Open(r) ==
  /\ loading' = [loading EXCEPT ![r] = facts]
  /\ UNCHANGED <<facts, shown>>

\* It reaches the screen describing those facts, however much later.
Show(r) ==
  /\ loading[r] # Nothing
  /\ shown' = [shown EXCEPT ![r] = loading[r]]
  /\ loading' = [loading EXCEPT ![r] = Nothing]
  /\ UNCHANGED facts

\* Or it is given up, and the page on screen stays.
GiveUp(r) ==
  /\ loading' = [loading EXCEPT ![r] = Nothing]
  /\ UNCHANGED <<facts, shown>>

\* Or what is shown says that nothing has been calculated.
Blank(r) ==
  /\ shown' = [shown EXCEPT ![r] = Nothing]
  /\ loading' = [loading EXCEPT ![r] = Nothing]
  /\ UNCHANGED facts

Next ==
  \/ Change
  \/ \E r \in Readers : Open(r) \/ Show(r) \/ GiveUp(r) \/ Blank(r)

Spec == Init /\ [][Next]_contractVars
=============================================================================
