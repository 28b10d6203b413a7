------------------------- MODULE CollectionContract -------------------------
(***************************************************************************)
(* What the collector promises to whoever reads its database: as if one    *)
(* process that nothing interrupts took one batch after another.  Each     *)
(* goes on where the last one of its source ended, stores every item that  *)
(* it passes, and leaves a revision calculated from all that is stored.    *)
(* There are no processes, passes, transactions, leases or crashes here.   *)
(***************************************************************************)
EXTENDS Naturals

CONSTANTS
  Sources,
  BatchSize   \* items that one batch has at most

VARIABLES
  produced,   \* items that each source has
  cursor,     \* where the next batch of each source begins
  facts,      \* items that are stored
  status,     \* what is known of each source
  revision    \* the stored items that the newest revision covers

contractVars == <<produced, cursor, facts, status, revision>>

Init ==
  /\ produced = [s \in Sources |-> 0]
  /\ cursor = [s \in Sources |-> 0]
  /\ facts = [s \in Sources |-> {}]
  /\ status = [s \in Sources |-> "unknown"]
  /\ revision = facts

Produce(s) ==
  /\ produced' = [produced EXCEPT ![s] = @ + 1]
  /\ UNCHANGED <<cursor, facts, status, revision>>

\* A batch, of items that the source has by now; it may find nothing new.
Collect(s) ==
  \E last \in cursor[s] .. produced[s] :
    /\ last <= cursor[s] + BatchSize
    /\ cursor' = [cursor EXCEPT ![s] = last]
    /\ facts' = [facts EXCEPT ![s] = 1 .. last]
    /\ status' = [status EXCEPT ![s] = "healthy"]
    /\ revision' = facts'
    /\ UNCHANGED produced

\* A source that did not answer: all that changes is what is known of it.
Fail(s) ==
  /\ status' = [status EXCEPT ![s] = "failed"]
  /\ UNCHANGED <<produced, cursor, facts, revision>>

Next == \E s \in Sources : Produce(s) \/ Collect(s) \/ Fail(s)

Spec == Init /\ [][Next]_contractVars
=============================================================================
