---------------------------- MODULE CollectorProofs ----------------------------
(***************************************************************************)
(* What the transactions of any number of collector processes leave behind *)
(* (Collector), for every number of sources, items and processes.          *)
(*                                                                         *)
(* The argument: while nobody else has written a row that a transaction    *)
(* reads by, what it read is still what is committed; and a transaction    *)
(* that stores something writes both the source's state and the report     *)
(* generation, so it fails unless that holds of both.  What is committed   *)
(* is therefore what one process alone would leave (CollectionContract).   *)
(***************************************************************************)
EXTENDS Collector, Integers, FiniteSetTheorems, TLAPS

(* A transaction reads its source's cursor and all facts when it begins. *)
InTransaction(p) == procs[p].step \in {"open", "collected"}

(* As much of the types as the argument needs. *)
Process ==
  [step : {"off", "raised", "idle", "pass", "open", "collected"}, todo : SUBSET Sources,
   position : Nat, take : Nat, exhausted : BOOLEAN, stale : SUBSET Rows,
   seen : [Sources -> SUBSET Nat], wait : [Sources -> Int], failures : [Sources -> Nat]]

Typed ==
  /\ produced \in [Sources -> Nat] /\ cursor \in [Sources -> Nat]
  /\ facts \in [Sources -> SUBSET Nat] /\ revision \in [Sources -> SUBSET Nat]
  /\ procs \in [Procs -> Process]

(* A cursor names an item that exists. *)
CursorsAreReal == \A s \in Sources : cursor[s] <= produced[s]

(* Unless a row is stale, what was read of it is what is committed. *)
ReadsAreCurrent(p, s) ==
  /\ procs[p].position <= produced[s]
  /\ s \notin procs[p].stale => procs[p].position = cursor[s]
  /\ Generation \notin procs[p].stale => procs[p].seen = facts

(* A batch goes on from the position read, and ends at an item that exists, *)
(* not too far away.                                                        *)
BatchGoesOn(p, s) ==
  /\ procs[p].take \in procs[p].position .. produced[s]
  /\ procs[p].take <= procs[p].position + BatchSize

TransactionsAreSound ==
  \A p \in Procs, s \in Sources : HasTurn(p, s) =>
    /\ InTransaction(p) => ReadsAreCurrent(p, s)
    /\ procs[p].step = "collected" => BatchGoesOn(p, s)

IInv ==
  /\ Typed /\ CursorsAreReal /\ TransactionsAreSound
  /\ CursorMeansRecorded /\ RevisionCoversFacts

-----------------------------------------------------------------------------
(* There is at most one source whose turn it is. *)
LEMMA TurnIsUnique ==
  ASSUME NEW p \in Procs, NEW s \in Sources, NEW t \in Sources, HasTurn(p, s), HasTurn(p, t)
  PROVE  s = t
BY SizesAssumption DEF HasTurn, Sources

LEMMA OffIsTyped == Off \in Process
BY DEF Off, Process

(* A transaction that ends leaves a process as typed as before. *)
LEMMA ClosedIsTyped ==
  ASSUME Typed, NEW p \in Procs, NEW s \in Sources, NEW count \in Nat, NEW delay \in Int
  PROVE  /\ Closed(p, s, count, delay) \in Process
         /\ Closed(p, s, count, delay).step = "pass"
<1> DEFINE counts == [procs[p].failures EXCEPT ![s] = count]
           delays == [procs[p].wait EXCEPT ![s] = delay]
           rest == procs[p].todo \ {s}
<1>1. counts \in [Sources -> Nat] /\ delays \in [Sources -> Int] /\ rest \in SUBSET Sources
  BY DEF Typed, Process
<1>2. Closed(p, s, count, delay) = [Off EXCEPT !.step = "pass", !.todo = rest, !.wait = delays,
                                               !.failures = counts]
  BY DEF Closed
<1> HIDE DEF counts, delays, rest
<1>. QED
  BY <1>1, <1>2, OffIsTyped DEF Process

(* What a commit does to the processes. *)
LEMMA OutdatesIsTyped ==
  ASSUME Typed, NEW p \in Procs, NEW rows \in SUBSET Rows, NEW mine \in Process
  PROVE  Outdates(p, rows, mine) \in [Procs -> Process]
<1>1. ASSUME NEW q \in Procs PROVE Outdates(p, rows, mine)[q] \in Process
  <2>1. procs[q] \in Process
    BY DEF Typed
  <2>2. [procs[q] EXCEPT !.stale = @ \cup rows] \in Process
    BY <2>1 DEF Process
  <2>. QED
    BY <2>1, <2>2 DEF Outdates
<1>. QED
  BY <1>1 DEF Outdates

LEMMA RowsOfSources ==
  /\ \A s \in Sources : s \in Rows /\ s # Generation
  /\ Generation \in Rows
BY SizesAssumption DEF Rows, Sources, Generation

LEMMA InitSound == Init => IInv
BY SizesAssumption, OffIsTyped
   DEF Init, IInv, Typed, CursorsAreReal, TransactionsAreSound, CursorMeansRecorded,
       RevisionCoversFacts, InTransaction, HasTurn, Off, Generation

-----------------------------------------------------------------------------
(* A process whose transaction does not outlive the step needs no argument: *)
(* it is enough to look at the others, whose rows were outdated at most,    *)
(* and those by rows that cover all that has changed.                       *)
LEMMA OthersStaySound ==
  ASSUME Typed, TransactionsAreSound, CursorsAreReal,
         NEW p \in Procs, NEW s \in Sources, NEW rows \in SUBSET Rows, NEW mine \in Process,
         mine.step \notin {"open", "collected"},
         procs' = Outdates(p, rows, mine),
         produced' = produced,
         \A t \in Sources : t \notin rows => cursor'[t] = cursor[t],
         Generation \notin rows => facts' = facts
  PROVE  TransactionsAreSound'
<1>1. procs' \in [Procs -> Process]
  BY OutdatesIsTyped
<1> SUFFICES ASSUME NEW q \in Procs, NEW t \in Sources, HasTurn(q, t)',
                    InTransaction(q)'
             PROVE  ReadsAreCurrent(q, t)' /\ (procs'[q].step = "collected" => BatchGoesOn(q, t)')
  BY DEF TransactionsAreSound, InTransaction
<1>2. q # p
  BY DEF Outdates, InTransaction
<1>3. procs[q] \in Process /\ procs'[q] \in Process
  BY <1>1 DEF Typed
<1>4. InTransaction(q) /\ procs'[q] = [procs[q] EXCEPT !.stale = @ \cup rows]
  BY <1>2 DEF Outdates, InTransaction
<1>5. /\ procs'[q].step = procs[q].step /\ procs'[q].todo = procs[q].todo
      /\ procs'[q].position = procs[q].position /\ procs'[q].take = procs[q].take
      /\ procs'[q].seen = procs[q].seen /\ procs'[q].stale = procs[q].stale \cup rows
  BY <1>3, <1>4 DEF Process
<1>6. HasTurn(q, t)
  BY <1>5 DEF HasTurn
<1>7. ReadsAreCurrent(q, t) /\ (procs[q].step = "collected" => BatchGoesOn(q, t))
  BY <1>4, <1>6 DEF TransactionsAreSound
<1>. QED
  BY <1>5, <1>7 DEF ReadsAreCurrent, BatchGoesOn

(* The same when the step changes one process and nothing that is stored. *)
LEMMA OneProcessStaysSound ==
  ASSUME Typed, TransactionsAreSound,
         NEW p \in Procs, NEW mine \in Process,
         procs' = [procs EXCEPT ![p] = mine],
         UNCHANGED <<produced, cursor, facts>>,
         \A s \in Sources : HasTurn(p, s)' =>
           /\ InTransaction(p)' => ReadsAreCurrent(p, s)'
           /\ procs'[p].step = "collected" => BatchGoesOn(p, s)'
  PROVE  TransactionsAreSound'
<1> SUFFICES ASSUME NEW q \in Procs, q # p, NEW t \in Sources, HasTurn(q, t)'
             PROVE  /\ InTransaction(q)' => ReadsAreCurrent(q, t)'
                    /\ procs'[q].step = "collected" => BatchGoesOn(q, t)'
  BY DEF TransactionsAreSound
<1>1. procs'[q] = procs[q]
  BY DEF Typed
<1>. QED
  BY <1>1 DEF TransactionsAreSound, HasTurn, InTransaction, ReadsAreCurrent, BatchGoesOn

-----------------------------------------------------------------------------
(* The steps of one process that store nothing. *)
LEMMA QuietStepsKeepIInv ==
  ASSUME IInv, NEW p \in Procs,
         Start(p) \/ Crash(p) \/ BeginPass(p) \/ EndPass(p)
  PROVE  IInv'
<1>1. PICK mine \in Process :
        /\ procs' = [procs EXCEPT ![p] = mine]
        /\ mine.step \notin {"open", "collected"}
  <2>0. procs[p] \in Process
    BY DEF IInv, Typed
  <2>1. CASE Start(p)
    <3>1. [Off EXCEPT !.step = "idle"] \in Process
      BY OffIsTyped DEF Process
    <3>. QED
      BY <2>1, <3>1 DEF Start, Off
  <2>2. CASE Crash(p)
    BY <2>2, OffIsTyped DEF Crash, Off
  <2>3. CASE BeginPass(p)
    <3> DEFINE due == {s \in Sources : s \in setting.sources /\ procs[p].wait[s] = 0}
               mine == [procs[p] EXCEPT !.step = "pass", !.todo = due]
    <3>1. mine \in Process /\ mine.step = "pass"
      BY <2>0 DEF Process
    <3>2. procs' = [procs EXCEPT ![p] = mine]
      BY <2>3 DEF BeginPass
    <3>. QED
      BY <3>1, <3>2
  <2>4. CASE EndPass(p)
    <3> DEFINE mine == [procs[p] EXCEPT !.step = "idle"]
    <3>1. mine \in Process /\ mine.step = "idle"
      BY <2>0 DEF Process
    <3>2. procs' = [procs EXCEPT ![p] = mine]
      BY <2>4 DEF EndPass
    <3>. QED
      BY <3>1, <3>2
  <2>. QED
    BY <2>1, <2>2, <2>3, <2>4
<1>2. UNCHANGED <<produced, cursor, facts, revision>>
  BY DEF Start, Crash, BeginPass, EndPass
<1>3. Typed' /\ procs'[p] = mine
  BY <1>1, <1>2 DEF IInv, Typed
<1>4. TransactionsAreSound'
  BY <1>1, <1>2, <1>3, OneProcessStaysSound DEF IInv, InTransaction
<1>. QED
  BY <1>2, <1>3, <1>4 DEF IInv, CursorsAreReal, CursorMeansRecorded, RevisionCoversFacts

(* What is read is current when it is read. *)
LEMMA ReadCursorKeepsIInv ==
  ASSUME IInv, NEW p \in Procs, NEW s \in Sources, ReadCursor(p, s)
  PROVE  IInv'
<1> DEFINE mine == [procs[p] EXCEPT !.step = "open", !.position = cursor[s],
                                    !.seen = facts, !.stale = {}]
<1>0. procs[p] \in Process /\ HasTurn(p, s)
  BY DEF IInv, Typed, ReadCursor
<1>1. /\ mine \in Process
      /\ mine.step = "open" /\ mine.position = cursor[s] /\ mine.seen = facts
      /\ mine.stale = {} /\ mine.todo = procs[p].todo
  BY <1>0 DEF Process, IInv, Typed
<1>2. procs' = [procs EXCEPT ![p] = mine] /\ UNCHANGED <<produced, cursor, facts, revision>>
  BY DEF ReadCursor
<1>3. Typed' /\ procs'[p] = mine
  BY <1>1, <1>2 DEF IInv, Typed
<1>4. ASSUME NEW t \in Sources, HasTurn(p, t)'
      PROVE  ReadsAreCurrent(p, t)' /\ procs'[p].step # "collected"
  <2>1. HasTurn(p, t)
    BY <1>1, <1>3, <1>4 DEF HasTurn
  <2>2. t = s
    BY <1>0, <2>1, TurnIsUnique
  <2>3. cursor[s] <= produced[s]
    BY DEF IInv, CursorsAreReal
  <2>. QED
    BY <1>1, <1>2, <1>3, <2>2, <2>3 DEF ReadsAreCurrent
<1>5. TransactionsAreSound'
  BY <1>1, <1>2, <1>4, OneProcessStaysSound DEF IInv
<1>. QED
  BY <1>2, <1>3, <1>5 DEF IInv, CursorsAreReal, CursorMeansRecorded, RevisionCoversFacts

(* A read takes what follows the position, and no more than there is. *)
LEMMA CollectKeepsIInv ==
  ASSUME IInv, NEW p \in Procs, NEW s \in Sources, Collect(p, s)
  PROVE  IInv'
<1> DEFINE last == AtMost(procs[p].position + BatchSize, produced[s])
           mine == [procs[p] EXCEPT !.step = "collected", !.take = last,
                                    !.exhausted = last = produced[s]]
<1>0. procs[p] \in Process /\ HasTurn(p, s) /\ InTransaction(p)
  BY DEF IInv, Typed, Collect, InTransaction
<1>1. ReadsAreCurrent(p, s)
  BY <1>0 DEF IInv, TransactionsAreSound
<1>2. /\ last \in Nat /\ last \in procs[p].position .. produced[s]
      /\ last <= procs[p].position + BatchSize
  <2>1. procs[p].position \in Nat /\ produced[s] \in Nat /\ procs[p].position <= produced[s]
    BY <1>0, <1>1 DEF Process, IInv, Typed, ReadsAreCurrent
  <2>. QED
    BY <2>1, SizesAssumption DEF AtMost
<1>3. /\ mine \in Process
      /\ mine.step = "collected" /\ mine.take = last /\ mine.position = procs[p].position
      /\ mine.stale = procs[p].stale /\ mine.todo = procs[p].todo /\ mine.seen = procs[p].seen
  BY <1>0, <1>2 DEF Process
<1>4. procs' = [procs EXCEPT ![p] = mine] /\ UNCHANGED <<produced, cursor, facts, revision>>
  BY DEF Collect
<1>5. Typed' /\ procs'[p] = mine
  BY <1>3, <1>4 DEF IInv, Typed
<1>6. ASSUME NEW t \in Sources, HasTurn(p, t)'
      PROVE  ReadsAreCurrent(p, t)' /\ BatchGoesOn(p, t)'
  <2>1. HasTurn(p, t)
    BY <1>3, <1>5, <1>6 DEF HasTurn
  <2>2. t = s
    BY <1>0, <2>1, TurnIsUnique
  <2>. QED
    BY <1>1, <1>2, <1>3, <1>4, <1>5, <2>2 DEF ReadsAreCurrent, BatchGoesOn
<1>7. TransactionsAreSound'
  BY <1>3, <1>4, <1>6, OneProcessStaysSound DEF IInv
<1>. QED
  BY <1>4, <1>5, <1>7 DEF IInv, CursorsAreReal, CursorMeansRecorded, RevisionCoversFacts

-----------------------------------------------------------------------------
(* A failure is recorded, and outdates nothing but the source's state. *)
LEMMA CollectFailsKeepsIInv ==
  ASSUME IInv, NEW p \in Procs, NEW s \in Sources, CollectFails(p, s)
  PROVE  IInv'
<1> DEFINE failures == AtMost(procs[p].failures[s] + 1, MaxFailures)
<1>1. PICK delay \in Delays(failures) :
        procs' = Outdates(p, {s}, Closed(p, s, failures, delay))
  BY DEF CollectFails
<1> DEFINE mine == Closed(p, s, failures, delay)
<1>2. delay \in Int
  BY DEF Delays
<1>3. failures \in Nat
  BY SizesAssumption DEF IInv, Typed, Process, AtMost
<1>4. mine \in Process /\ mine.step = "pass"
  BY <1>2, <1>3, ClosedIsTyped DEF IInv
<1>5. {s} \in SUBSET Rows /\ Generation \notin {s}
  BY RowsOfSources
<1>6. UNCHANGED <<produced, cursor, facts, revision>>
  BY DEF CollectFails
<1>7. TransactionsAreSound'
  BY <1>1, <1>4, <1>5, <1>6, OthersStaySound DEF IInv
<1>8. Typed'
  BY <1>1, <1>4, <1>5, <1>6, OutdatesIsTyped DEF IInv, Typed
<1>. QED
  BY <1>6, <1>7, <1>8 DEF IInv, CursorsAreReal, CursorMeansRecorded, RevisionCoversFacts

(* A commit that nothing has overtaken goes on from what is committed. *)
LEMMA CommitKeepsIInv ==
  ASSUME IInv, NEW p \in Procs, NEW s \in Sources, Commit(p, s)
  PROVE  IInv'
<1> DEFINE mine == Closed(p, s, 0, IF procs[p].exhausted THEN Interval ELSE 0)
           rows == Written(p, s)
<1>1. procs[p] \in Process /\ HasTurn(p, s) /\ InTransaction(p) /\ procs[p].step = "collected"
  BY DEF IInv, Typed, Commit, InTransaction
<1>2. ReadsAreCurrent(p, s) /\ BatchGoesOn(p, s)
  BY <1>1 DEF IInv, TransactionsAreSound
<1>3. rows \in SUBSET Rows /\ s \in rows /\ (Stores(p) => Generation \in rows)
  BY RowsOfSources DEF Written
<1>4. rows \cap procs[p].stale = {}
  BY DEF Commit, Conflicts
<1>5. procs[p].position = cursor[s] /\ (Stores(p) => procs[p].seen = facts)
  BY <1>2, <1>3, <1>4 DEF ReadsAreCurrent
<1>6. procs[p].take \in Nat /\ cursor[s] \in Nat /\ produced[s] \in Nat
      /\ cursor[s] <= procs[p].take /\ procs[p].take <= produced[s]
  BY <1>1, <1>2, <1>5 DEF BatchGoesOn, Process, IInv, Typed
<1>7. /\ facts' = [facts EXCEPT ![s] = @ \cup Items(p)]
      /\ cursor' = [cursor EXCEPT ![s] = procs[p].take]
      /\ revision' = Calculated(p, s)
      /\ produced' = produced
      /\ procs' = Outdates(p, rows, mine)
  BY DEF Commit
<1>8. Items(p) = cursor[s] + 1 .. procs[p].take
  BY <1>5 DEF Items
<1>9. CursorMeansRecorded'
  <2> SUFFICES ASSUME NEW t \in Sources
               PROVE  facts'[t] = 1 .. cursor'[t]
    BY DEF CursorMeansRecorded
  <2>1. facts[t] = 1 .. cursor[t]
    BY DEF IInv, CursorMeansRecorded
  <2>2. CASE t = s
    <3>1. facts'[s] = 1 .. cursor[s] \cup (cursor[s] + 1 .. procs[p].take)
      BY <1>7, <1>8, <2>1, <2>2 DEF IInv, Typed
    <3>2. cursor'[s] = procs[p].take
      BY <1>7 DEF IInv, Typed
    <3>. QED
      BY <1>6, <2>2, <3>1, <3>2
  <2>3. CASE t # s
    BY <1>7, <2>1, <2>3 DEF IInv, Typed
  <2>. QED
    BY <2>2, <2>3
<1>10. RevisionCoversFacts'
  <2>1. CASE Stores(p)
    BY <1>5, <1>7, <2>1 DEF Calculated, RevisionCoversFacts
  <2>2. CASE ~Stores(p)
    <3>1. Items(p) = {}
      BY <1>5, <1>6, <1>8, <2>2 DEF Stores
    <3>2. facts' = facts
      BY <1>7, <3>1 DEF IInv, Typed
    <3>. QED
      BY <1>7, <2>2, <3>2 DEF Calculated, IInv, RevisionCoversFacts
  <2>. QED
    BY <2>1, <2>2
<1>11. mine \in Process /\ mine.step = "pass"
  <2>1. 0 \in Nat /\ (IF procs[p].exhausted THEN Interval ELSE 0) \in Int
    BY SizesAssumption
  <2>. QED
    BY <2>1, ClosedIsTyped DEF IInv
<1>12. Typed'
  <2>1. facts' \in [Sources -> SUBSET Nat]
    BY <1>6, <1>7, <1>8 DEF IInv, Typed
  <2>2. revision' \in [Sources -> SUBSET Nat]
    BY <1>10, <2>1 DEF RevisionCoversFacts
  <2>. QED
    BY <1>3, <1>6, <1>7, <1>11, <2>1, <2>2, OutdatesIsTyped DEF IInv, Typed
<1>13. CursorsAreReal'
  BY <1>6, <1>7 DEF IInv, Typed, CursorsAreReal
<1>14. TransactionsAreSound'
  <2>1. \A t \in Sources : t \notin rows => cursor'[t] = cursor[t]
    BY <1>3, <1>7 DEF IInv, Typed
  <2>2. Generation \notin rows => facts' = facts
    <3> SUFFICES ASSUME ~Stores(p) PROVE facts' = facts
      BY <1>3
    <3>1. Items(p) = {}
      BY <1>5, <1>6, <1>8 DEF Stores
    <3>. QED
      BY <1>7, <3>1 DEF IInv, Typed
  <2>. QED
    BY <1>3, <1>7, <1>11, <2>1, <2>2, OthersStaySound DEF IInv
<1>. QED
  BY <1>9, <1>10, <1>12, <1>13, <1>14 DEF IInv

LEMMA CommitRaisesKeepsIInv ==
  ASSUME IInv, NEW p \in Procs, NEW s \in Sources, CommitRaises(p, s)
  PROVE  IInv'
<1> DEFINE mine == [Off EXCEPT !.step = "raised"]
<1>1. mine \in Process /\ mine.step = "raised"
  BY OffIsTyped DEF Process
<1>2. procs' = [procs EXCEPT ![p] = mine] /\ UNCHANGED <<produced, cursor, facts, revision>>
  BY DEF CommitRaises
<1>3. Typed' /\ procs'[p] = mine
  BY <1>1, <1>2 DEF IInv, Typed
<1>4. TransactionsAreSound'
  BY <1>1, <1>2, <1>3, OneProcessStaysSound DEF IInv, InTransaction
<1>. QED
  BY <1>2, <1>3, <1>4 DEF IInv, CursorsAreReal, CursorMeansRecorded, RevisionCoversFacts

-----------------------------------------------------------------------------
(* Time and new items leave every transaction as it is. *)
LEMMA SurroundingsKeepIInv ==
  ASSUME IInv, Tick \/ \E s \in Sources : Produce(s)
  PROVE  IInv'
<1>1. CASE Tick
  <2>1. UNCHANGED <<produced, cursor, facts, revision>>
    BY <1>1 DEF Tick
  <2>2. procs' = [p \in Procs |-> procs'[p]]
    BY <1>1 DEF Tick
  <2>3. ASSUME NEW p \in Procs
        PROVE  /\ procs'[p] \in Process
               /\ procs'[p].step = procs[p].step /\ procs'[p].todo = procs[p].todo
               /\ procs'[p].position = procs[p].position /\ procs'[p].take = procs[p].take
               /\ procs'[p].seen = procs[p].seen /\ procs'[p].stale = procs[p].stale
    <3> DEFINE waits == [s \in Sources |-> IF procs[p].wait[s] > 0
                                            THEN procs[p].wait[s] - 1 ELSE 0]
    <3>1. procs[p] \in Process
      BY DEF IInv, Typed
    <3>2. waits \in [Sources -> Int]
      BY <3>1 DEF Process
    <3>3. procs'[p] = [procs[p] EXCEPT !.wait = waits]
      BY <1>1 DEF Tick
    <3> HIDE DEF waits
    <3>. QED
      BY <3>1, <3>2, <3>3 DEF Process
  <2>4. procs' \in [Procs -> Process]
    BY <2>2, <2>3
  <2>5. TransactionsAreSound'
    BY <2>1, <2>3 DEF IInv, TransactionsAreSound, HasTurn, InTransaction, ReadsAreCurrent,
                      BatchGoesOn
  <2>. QED
    BY <2>1, <2>4, <2>5 DEF IInv, Typed, CursorsAreReal, CursorMeansRecorded, RevisionCoversFacts
<1>2. ASSUME NEW s \in Sources, Produce(s) PROVE IInv'
  <2>1. /\ produced' = [produced EXCEPT ![s] = @ + 1]
        /\ UNCHANGED <<cursor, facts, revision, procs>>
    BY <1>2 DEF Produce
  <2>2. produced' \in [Sources -> Nat] /\ \A t \in Sources : produced[t] <= produced'[t]
    BY <2>1 DEF IInv, Typed
  <2>3. CursorsAreReal'
    BY <2>1, <2>2 DEF IInv, Typed, CursorsAreReal
  <2>4. TransactionsAreSound'
    BY <2>1, <2>2 DEF IInv, Typed, Process, TransactionsAreSound, HasTurn, InTransaction,
                      ReadsAreCurrent, BatchGoesOn
  <2>. QED
    BY <2>1, <2>2, <2>3, <2>4 DEF IInv, Typed, CursorMeansRecorded, RevisionCoversFacts
<1>. QED
  BY <1>1, <1>2

LEMMA StepsKeepIInv == IInv /\ [Next]_vars => IInv'
<1> SUFFICES ASSUME IInv, [Next]_vars PROVE IInv'
  OBVIOUS
<1>1. CASE UNCHANGED vars
  BY <1>1 DEF IInv, vars, Typed, CursorsAreReal, TransactionsAreSound, HasTurn, InTransaction,
              ReadsAreCurrent, BatchGoesOn, CursorMeansRecorded, RevisionCoversFacts
<1>2. ASSUME NEW p \in Procs, Start(p) \/ Crash(p) \/ BeginPass(p) \/ EndPass(p) PROVE IInv'
  BY <1>2, QuietStepsKeepIInv
<1>3. ASSUME NEW p \in Procs, NEW s \in Sources, Works(p, s) PROVE IInv'
  BY <1>3, ReadCursorKeepsIInv, CollectKeepsIInv, CollectFailsKeepsIInv, CommitKeepsIInv,
     CommitRaisesKeepsIInv DEF Works
<1>4. CASE Tick \/ \E s \in Sources : Produce(s)
  BY <1>4, SurroundingsKeepIInv
<1>. QED
  BY <1>1, <1>2, <1>3, <1>4 DEF Next

LEMMA IInvHolds == Spec => []IInv
BY InitSound, StepsKeepIInv, PTL DEF Spec

(* Whatever crashes, fails or runs beside it, a committed cursor has passed *)
(* exactly the items that are stored, for any number of processes.          *)
THEOREM CursorsAreHonest == Spec => []CursorMeansRecorded
<1>1. IInv => CursorMeansRecorded
  BY DEF IInv
<1>. QED
  BY <1>1, IInvHolds, PTL

(* Any number of processes that store different sources at the same time    *)
(* leave a revision calculated from all that is stored.                     *)
THEOREM RevisionsAreComplete == Spec => []RevisionCoversFacts
<1>1. IInv => RevisionCoversFacts
  BY DEF IInv
<1>. QED
  BY <1>1, IInvHolds, PTL

-----------------------------------------------------------------------------
(* The processes implement the contract.  Nothing that they do between      *)
(* their commits shows in it, and nothing that has been overtaken commits.  *)
Same == UNCHANGED Contract!contractVars

LEMMA InitImplements == Init => Contract!Init
BY DEF Init, Contract!Init

LEMMA CommitImplements ==
  ASSUME IInv, IInv', NEW p \in Procs, NEW s \in Sources, Commit(p, s)
  PROVE  Contract!Collect(s)
<1> DEFINE last == procs[p].take
<1>1. procs[p] \in Process /\ HasTurn(p, s) /\ InTransaction(p) /\ procs[p].step = "collected"
  BY DEF IInv, Typed, Commit, InTransaction
<1>2. ReadsAreCurrent(p, s) /\ BatchGoesOn(p, s)
  BY <1>1 DEF IInv, TransactionsAreSound
<1>3. procs[p].position = cursor[s]
  BY <1>2 DEF Commit, Conflicts, Written, ReadsAreCurrent
<1>4. last \in cursor[s] .. produced[s] /\ last <= cursor[s] + BatchSize
  BY <1>2, <1>3 DEF BatchGoesOn
<1>5. /\ facts' = [facts EXCEPT ![s] = @ \cup Items(p)]
      /\ cursor' = [cursor EXCEPT ![s] = last]
      /\ status' = [status EXCEPT ![s] = "healthy"]
      /\ produced' = produced
  BY DEF Commit
<1>6. revision' = facts'
  BY DEF IInv, RevisionCoversFacts
<1>7. facts' = [facts EXCEPT ![s] = 1 .. last]
  <2>1. cursor'[s] = last /\ facts'[s] = 1 .. cursor'[s]
    BY <1>5 DEF IInv, Typed, CursorMeansRecorded
  <2>2. facts'[s] = facts[s] \cup Items(p)
    BY <1>5 DEF IInv, Typed
  <2>. QED
    BY <1>5, <2>1, <2>2
<1>. QED
  BY <1>4, <1>5, <1>6, <1>7 DEF Contract!Collect

LEMMA StepsImplement ==
  ASSUME IInv, IInv', [Next]_vars
  PROVE  [Contract!Next]_(Contract!contractVars)
<1>1. CASE UNCHANGED vars
  BY <1>1 DEF vars, Contract!contractVars
<1>2. ASSUME NEW p \in Procs, Start(p) \/ Crash(p) \/ BeginPass(p) \/ EndPass(p)
      PROVE  Same
  BY <1>2 DEF Start, Crash, BeginPass, EndPass, Same, Contract!contractVars
<1>3. ASSUME NEW p \in Procs, NEW s \in Sources, Works(p, s)
      PROVE  Same \/ Contract!Collect(s) \/ Contract!Fail(s)
  <2>1. CASE ReadCursor(p, s) \/ Collect(p, s) \/ CommitRaises(p, s)
    BY <2>1 DEF ReadCursor, Collect, CommitRaises, Same, Contract!contractVars
  <2>2. CASE CollectFails(p, s)
    BY <2>2 DEF CollectFails, Contract!Fail
  <2>3. CASE Commit(p, s)
    BY <2>3, CommitImplements
  <2>. QED
    BY <1>3, <2>1, <2>2, <2>3 DEF Works
<1>4. CASE Tick
  BY <1>4 DEF Tick, Contract!contractVars
<1>5. ASSUME NEW s \in Sources, Produce(s) PROVE Contract!Produce(s)
  BY <1>5 DEF Produce, Contract!Produce
<1>. QED
  BY <1>1, <1>2, <1>3, <1>4, <1>5 DEF Next, Same, Contract!Next

(* Any number of collectors, however they overlap, crash, fail and start    *)
(* again, leave behind what one of them alone could have left: the          *)
(* REPEATABLE READ of db.py and the triggers that write the report          *)
(* generation make the transactions of collect_source serial.               *)
THEOREM CollectorsAreSerial == Spec => CollectionIsSerial
<1>1. Init => Contract!Init
  BY InitImplements
<1>2. IInv /\ IInv' /\ [Next]_vars => [Contract!Next]_(Contract!contractVars)
  BY StepsImplement
<1>. QED
  BY <1>1, <1>2, IInvHolds, PTL DEF Spec, CollectionIsSerial, Contract!Spec

-----------------------------------------------------------------------------
(* Types.  Delays come from powers of two, positions from what the sources  *)
(* may ever have.                                                           *)
FullProcess ==
  [step : {"off", "raised", "idle", "pass", "open", "collected"}, todo : SUBSET Sources,
   position : Positions, take : Positions, exhausted : BOOLEAN, stale : SUBSET Rows,
   seen : [Sources -> SUBSET Positions],
   wait : [Sources -> 0 .. Longest], failures : [Sources -> 0 .. MaxFailures]]

TypedInFull ==
  /\ TypeOK
  /\ \A s \in Sources : produced[s] <= MaxItems[s]

LEMMA PowersAreNat ==
  ASSUME NEW n \in Nat
  PROVE  2^n \in Nat
<1>1. IsFiniteSet(1 .. n) /\ Cardinality(1 .. n) = n
  <2>1. /\ IsFiniteSet(1 .. n) /\ Cardinality(1 .. n) = IF 1 > n THEN 0 ELSE n - 1 + 1
    BY FS_Interval
  <2>. QED
    BY <2>1
<1>2. IsFiniteSet(SUBSET (1 .. n)) /\ Cardinality(SUBSET (1 .. n)) = 2^Cardinality(1 .. n)
  BY <1>1, FS_SUBSET
<1>3. Cardinality(SUBSET (1 .. n)) \in Nat
  BY <1>2, FS_CardinalityType
<1>. QED
  BY <1>1, <1>2, <1>3

(* _backoff never waits longer than collect_max_backoff_seconds. *)
LEMMA DelaysAreBounded ==
  ASSUME NEW n \in Nat
  PROVE  Delays(n) \subseteq 0 .. Longest
<1>1. 2^n \in Nat
  BY PowersAreNat
<1>2. Ceiling(n) \in Nat /\ Ceiling(n) <= MaxBackoff
  BY <1>1, SizesAssumption DEF Ceiling, AtMost
<1>3. Longest \in Nat /\ MaxBackoff <= Longest
  BY SizesAssumption DEF Longest
<1>. QED
  BY <1>2, <1>3, SizesAssumption DEF Delays

LEMMA PositionsOfSources ==
  /\ Positions \subseteq Nat /\ 0 \in Positions
  /\ \A s \in Sources : 0 .. MaxItems[s] \subseteq Positions
<1>1. 1 \in Sources
  BY SizesAssumption DEF Sources
<1>2. MaxItems \in [Sources -> Nat]
  BY SizesAssumption
<1>3. 0 \in 0 .. MaxItems[1]
  BY <1>1, <1>2
<1>. QED
  BY <1>1, <1>2, <1>3 DEF Positions

LEMMA OffIsTypedInFull == Off \in FullProcess
<1>1. Longest \in Nat /\ MaxFailures \in Nat
  BY SizesAssumption DEF Longest
<1>. QED
  BY <1>1, PositionsOfSources DEF Off, FullProcess

LEMMA ClosedIsTypedInFull ==
  ASSUME TypedInFull, NEW p \in Procs, NEW s \in Sources,
         NEW count \in 0 .. MaxFailures, NEW delay \in 0 .. Longest
  PROVE  Closed(p, s, count, delay) \in FullProcess /\ Closed(p, s, count, delay).step = "pass"
<1> DEFINE counts == [procs[p].failures EXCEPT ![s] = count]
           delays == [procs[p].wait EXCEPT ![s] = delay]
           rest == procs[p].todo \ {s}
<1>1. procs[p] \in FullProcess
  BY DEF TypedInFull, TypeOK, FullProcess
<1>2. counts \in [Sources -> 0 .. MaxFailures] /\ delays \in [Sources -> 0 .. Longest]
      /\ rest \in SUBSET Sources
  BY <1>1 DEF FullProcess
<1>3. Closed(p, s, count, delay) = [Off EXCEPT !.step = "pass", !.todo = rest, !.wait = delays,
                                               !.failures = counts]
  BY DEF Closed
<1> HIDE DEF counts, delays, rest
<1>. QED
  BY <1>2, <1>3, OffIsTypedInFull DEF FullProcess

LEMMA OutdatesIsTypedInFull ==
  ASSUME TypedInFull, NEW p \in Procs, NEW rows \in SUBSET Rows, NEW mine \in FullProcess,
         procs' = Outdates(p, rows, mine), mine.step = "pass"
  PROVE  /\ procs' \in [Procs -> FullProcess]
         /\ \A q \in Procs : procs'[q].step \in {"open", "collected"} => procs'[q].todo # {}
<1>1. procs \in [Procs -> FullProcess]
      /\ \A q \in Procs : procs[q].step \in {"open", "collected"} => procs[q].todo # {}
  BY DEF TypedInFull, TypeOK, FullProcess
<1>2. ASSUME NEW q \in Procs
      PROVE  /\ procs'[q] \in FullProcess
             /\ procs'[q].step \in {"open", "collected"} => procs'[q].todo # {}
  <2>1. CASE q = p
    BY <2>1 DEF Outdates
  <2>2. CASE q # p /\ procs[q].step \in {"open", "collected"}
    <3>1. procs'[q] = [procs[q] EXCEPT !.stale = @ \cup rows]
      BY <2>2 DEF Outdates
    <3>2. procs[q] \in FullProcess /\ procs[q].todo # {}
      BY <1>1, <2>2
    <3>3. procs'[q].todo = procs[q].todo
      BY <3>1, <3>2 DEF FullProcess
    <3>4. procs'[q] \in FullProcess
      BY <3>1, <3>2 DEF FullProcess
    <3>. QED
      BY <3>2, <3>3, <3>4
  <2>3. CASE q # p /\ procs[q].step \notin {"open", "collected"}
    BY <1>1, <2>3 DEF Outdates
  <2>. QED
    BY <2>1, <2>2, <2>3
<1>3. procs' = [q \in Procs |-> procs'[q]]
  BY DEF Outdates
<1>. QED
  BY <1>2, <1>3

(* A step of one process that changes only that process. *)
LEMMA OneProcessStaysTyped ==
  ASSUME TypedInFull, NEW p \in Procs, NEW mine \in FullProcess,
         mine.step \in {"open", "collected"} => mine.todo # {},
         procs' = [procs EXCEPT ![p] = mine],
         UNCHANGED <<setting, produced, cursor, facts, status, revision>>
  PROVE  TypedInFull'
<1>1. procs \in [Procs -> FullProcess]
      /\ \A q \in Procs : procs[q].step \in {"open", "collected"} => procs[q].todo # {}
  BY DEF TypedInFull, TypeOK, FullProcess
<1>2. procs' \in [Procs -> FullProcess]
      /\ \A q \in Procs : procs'[q].step \in {"open", "collected"} => procs'[q].todo # {}
  BY <1>1
<1>. QED
  BY <1>2 DEF TypedInFull, TypeOK, FullProcess

(* Commits and failures: the process that ends its transaction, and the     *)
(* rows of the source that it was about.                                    *)
LEMMA ClosingStaysTyped ==
  ASSUME TypedInFull, NEW p \in Procs, NEW s \in Sources, NEW rows \in SUBSET Rows,
         NEW count \in 0 .. MaxFailures, NEW delay \in 0 .. Longest,
         procs' = Outdates(p, rows, Closed(p, s, count, delay)),
         UNCHANGED <<setting, produced>>,
         cursor' \in [Sources -> Positions], facts' \in [Sources -> SUBSET Positions],
         revision' \in [Sources -> SUBSET Positions],
         status' \in [Sources -> {"unknown", "healthy", "failed"}]
  PROVE  TypedInFull'
<1>1. Closed(p, s, count, delay) \in FullProcess /\ Closed(p, s, count, delay).step = "pass"
  BY ClosedIsTypedInFull
<1>2. /\ procs' \in [Procs -> FullProcess]
      /\ \A q \in Procs : procs'[q].step \in {"open", "collected"} => procs'[q].todo # {}
  BY <1>1, OutdatesIsTypedInFull
<1>. QED
  BY <1>2 DEF TypedInFull, TypeOK, FullProcess

LEMMA QuietStepsStayTyped ==
  ASSUME TypedInFull, NEW p \in Procs, Start(p) \/ Crash(p) \/ BeginPass(p) \/ EndPass(p)
  PROVE  TypedInFull'
<1>1. procs[p] \in FullProcess
  BY DEF TypedInFull, TypeOK, FullProcess
<1>2. CASE Start(p)
  <2>1. [Off EXCEPT !.step = "idle"] \in FullProcess /\ [Off EXCEPT !.step = "idle"].step = "idle"
    BY OffIsTypedInFull DEF FullProcess
  <2>. QED
    BY <1>2, <2>1, OneProcessStaysTyped DEF Start
<1>3. CASE Crash(p)
  <2>1. Off.step = "off"
    BY DEF Off
  <2>. QED
    BY <1>3, <2>1, OffIsTypedInFull, OneProcessStaysTyped DEF Crash
<1>4. CASE BeginPass(p)
  <2> DEFINE due == {s \in Sources : s \in setting.sources /\ procs[p].wait[s] = 0}
             mine == [procs[p] EXCEPT !.step = "pass", !.todo = due]
  <2>1. mine \in FullProcess /\ mine.step = "pass"
    BY <1>1 DEF FullProcess
  <2>2. procs' = [procs EXCEPT ![p] = mine]
    BY <1>4 DEF BeginPass
  <2>3. UNCHANGED <<setting, produced, cursor, facts, status, revision>>
    BY <1>4 DEF BeginPass
  <2> HIDE DEF mine
  <2>. QED
    BY <2>1, <2>2, <2>3, OneProcessStaysTyped
<1>5. CASE EndPass(p)
  <2> DEFINE mine == [procs[p] EXCEPT !.step = "idle"]
  <2>1. mine \in FullProcess /\ mine.step = "idle"
    BY <1>1 DEF FullProcess
  <2>2. procs' = [procs EXCEPT ![p] = mine] /\ UNCHANGED <<setting, produced, cursor, facts, status, revision>>
    BY <1>5 DEF EndPass
  <2> HIDE DEF mine
  <2>. QED
    BY <2>1, <2>2, OneProcessStaysTyped
<1>. QED
  BY <1>2, <1>3, <1>4, <1>5

LEMMA ReadsStayTyped ==
  ASSUME IInv, TypedInFull, NEW p \in Procs, NEW s \in Sources, ReadCursor(p, s) \/ Collect(p, s)
  PROVE  TypedInFull'
<1>1. procs[p] \in FullProcess /\ HasTurn(p, s) /\ procs[p].todo # {}
  BY DEF TypedInFull, TypeOK, FullProcess, ReadCursor, Collect, HasTurn
<1>2. CASE ReadCursor(p, s)
  <2> DEFINE mine == [procs[p] EXCEPT !.step = "open", !.position = cursor[s],
                                      !.seen = facts, !.stale = {}]
  <2>1. cursor[s] \in Positions /\ facts \in [Sources -> SUBSET Positions]
    BY DEF TypedInFull, TypeOK
  <2>2. mine \in FullProcess /\ mine.todo # {}
    BY <1>1, <2>1 DEF FullProcess
  <2>3. procs' = [procs EXCEPT ![p] = mine] /\ UNCHANGED <<setting, produced, cursor, facts, status, revision>>
    BY <1>2 DEF ReadCursor
  <2> HIDE DEF mine
  <2>. QED
    BY <2>2, <2>3, OneProcessStaysTyped
<1>3. CASE Collect(p, s)
  <2> DEFINE last == AtMost(procs[p].position + BatchSize, produced[s])
             mine == [procs[p] EXCEPT !.step = "collected", !.take = last,
                                      !.exhausted = last = produced[s]]
  <2>1. /\ procs[p].position \in Nat /\ produced[s] \in Nat /\ MaxItems[s] \in Nat
        /\ produced[s] <= MaxItems[s] /\ BatchSize \in Nat
    BY <1>1, SizesAssumption DEF IInv, Typed, Process, TypedInFull
  <2>2. last \in 0 .. MaxItems[s]
    BY <2>1 DEF AtMost
  <2>3. last \in Positions
    BY <2>2, PositionsOfSources
  <2>4. mine \in FullProcess /\ mine.todo # {}
    <3> HIDE DEF last
    <3>. QED
      BY <1>1, <2>3 DEF FullProcess
  <2>5. procs' = [procs EXCEPT ![p] = mine] /\ UNCHANGED <<setting, produced, cursor, facts, status, revision>>
    BY <1>3 DEF Collect
  <2> HIDE DEF mine
  <2>. QED
    BY <2>4, <2>5, OneProcessStaysTyped
<1>. QED
  BY <1>2, <1>3

LEMMA EndsStayTyped ==
  ASSUME IInv, IInv', TypedInFull, NEW p \in Procs, NEW s \in Sources,
         CollectFails(p, s) \/ Commit(p, s) \/ CommitRaises(p, s)
  PROVE  TypedInFull'
<1>1. /\ cursor \in [Sources -> Positions] /\ facts \in [Sources -> SUBSET Positions]
      /\ revision \in [Sources -> SUBSET Positions]
      /\ status \in [Sources -> {"unknown", "healthy", "failed"}]
      /\ procs[p] \in FullProcess
  BY DEF TypedInFull, TypeOK, FullProcess
<1>2. CASE CollectFails(p, s)
  <2> DEFINE failures == AtMost(procs[p].failures[s] + 1, MaxFailures)
  <2>1. failures \in 0 .. MaxFailures
    BY <1>1, SizesAssumption DEF FullProcess, AtMost
  <2>2. PICK delay \in Delays(failures) : procs' = Outdates(p, {s}, Closed(p, s, failures, delay))
    BY <1>2 DEF CollectFails
  <2>3. status' \in [Sources -> {"unknown", "healthy", "failed"}]
        /\ UNCHANGED <<setting, produced, cursor, facts, revision>>
    BY <1>1, <1>2 DEF CollectFails
  <2> HIDE DEF failures
  <2>4. delay \in 0 .. Longest
    BY <2>1, <2>2, DelaysAreBounded
  <2>5. {s} \in SUBSET Rows
    BY RowsOfSources
  <2>. QED
    BY <1>1, <2>1, <2>2, <2>3, <2>4, <2>5, ClosingStaysTyped
<1>3. CASE Commit(p, s)
  <2> DEFINE delay == IF procs[p].exhausted THEN Interval ELSE 0
  <2>1. 0 \in 0 .. MaxFailures /\ delay \in 0 .. Longest
    BY SizesAssumption DEF Longest
  <2>2. /\ procs' = Outdates(p, Written(p, s), Closed(p, s, 0, delay))
        /\ UNCHANGED <<setting, produced>>
        /\ cursor' = [cursor EXCEPT ![s] = procs[p].take]
        /\ status' = [status EXCEPT ![s] = "healthy"]
    BY <1>3 DEF Commit
  <2>3. cursor' \in [Sources -> Positions]
    BY <1>1, <2>2 DEF FullProcess
  <2>4. facts' \in [Sources -> SUBSET Positions]
    <3>1. facts' \in [Sources -> SUBSET Nat] /\ \A t \in Sources : facts'[t] = 1 .. cursor'[t]
      BY DEF IInv, Typed, CursorMeansRecorded
    <3>2. ASSUME NEW t \in Sources PROVE 1 .. cursor'[t] \subseteq Positions
      <4>1. /\ cursor'[t] \in Nat /\ produced[t] \in Nat /\ MaxItems[t] \in Nat
            /\ cursor'[t] <= produced[t] /\ produced[t] <= MaxItems[t]
        BY <2>2, SizesAssumption DEF IInv, Typed, CursorsAreReal, TypedInFull
      <4>2. 1 .. cursor'[t] \subseteq 0 .. MaxItems[t]
        BY <4>1
      <4>. QED
        BY <4>2, PositionsOfSources
    <3>. QED
      BY <3>1, <3>2
  <2>5. revision' \in [Sources -> SUBSET Positions]
    BY <2>4 DEF IInv, RevisionCoversFacts
  <2>6. status' \in [Sources -> {"unknown", "healthy", "failed"}]
    BY <1>1, <2>2
  <2>7. Written(p, s) \in SUBSET Rows
    BY RowsOfSources DEF Written
  <2> HIDE DEF delay
  <2>. QED
    BY <2>1, <2>2, <2>3, <2>4, <2>5, <2>6, <2>7, ClosingStaysTyped
<1>4. CASE CommitRaises(p, s)
  <2> DEFINE mine == [Off EXCEPT !.step = "raised"]
  <2>1. mine \in FullProcess /\ mine.step = "raised"
    BY OffIsTypedInFull DEF FullProcess
  <2>2. procs' = [procs EXCEPT ![p] = mine] /\ UNCHANGED <<setting, produced, cursor, facts, status, revision>>
    BY <1>4 DEF CommitRaises
  <2> HIDE DEF mine
  <2>. QED
    BY <2>1, <2>2, OneProcessStaysTyped
<1>. QED
  BY <1>2, <1>3, <1>4

LEMMA SurroundingsStayTyped ==
  ASSUME TypedInFull, Tick \/ \E s \in Sources : Produce(s)
  PROVE  TypedInFull'
<1>1. procs \in [Procs -> FullProcess] /\ produced \in [Sources -> Positions]
      /\ \A q \in Procs : procs[q].step \in {"open", "collected"} => procs[q].todo # {}
  BY DEF TypedInFull, TypeOK, FullProcess
<1>2. CASE Tick
  <2> DEFINE left(q) == [s \in Sources |-> IF procs[q].wait[s] > 0 THEN procs[q].wait[s] - 1 ELSE 0]
  <2>1. procs' = [q \in Procs |-> [procs[q] EXCEPT !.wait = left(q)]]
        /\ UNCHANGED <<setting, produced, cursor, facts, status, revision>>
    BY <1>2 DEF Tick
  <2>2. ASSUME NEW q \in Procs
        PROVE  /\ procs'[q] \in FullProcess
               /\ procs'[q].step = procs[q].step /\ procs'[q].todo = procs[q].todo
    <3>1. procs[q] \in FullProcess
      BY <1>1
    <3>2. left(q) \in [Sources -> 0 .. Longest]
      <4>1. procs[q].wait \in [Sources -> 0 .. Longest] /\ Longest \in Nat
        BY <3>1, SizesAssumption DEF FullProcess, Longest
      <4>. QED
        BY <4>1
    <3>3. procs'[q] = [procs[q] EXCEPT !.wait = left(q)]
      BY <2>1
    <3> HIDE DEF left
    <3>. QED
      BY <3>1, <3>2, <3>3 DEF FullProcess
  <2>3. procs' \in [Procs -> FullProcess]
    BY <2>1, <2>2
  <2>4. \A q \in Procs : procs'[q].step \in {"open", "collected"} => procs'[q].todo # {}
    BY <1>1, <2>2
  <2> HIDE DEF left
  <2>. QED
    BY <2>1, <2>3, <2>4 DEF TypedInFull, TypeOK, FullProcess
<1>3. ASSUME NEW s \in Sources, Produce(s) PROVE TypedInFull'
  <2>1. /\ produced' = [produced EXCEPT ![s] = @ + 1] /\ produced[s] < MaxItems[s]
        /\ UNCHANGED <<setting, cursor, facts, status, revision, procs>>
    BY <1>3 DEF Produce
  <2>2. produced[s] \in Nat /\ MaxItems[s] \in Nat
    BY <1>1, PositionsOfSources, SizesAssumption
  <2>3. produced[s] + 1 \in 0 .. MaxItems[s]
    BY <2>1, <2>2
  <2>4. produced' \in [Sources -> Positions]
    BY <1>1, <2>1, <2>3, PositionsOfSources
  <2>5. \A t \in Sources : produced'[t] <= MaxItems[t]
    BY <1>1, <2>1, <2>3 DEF TypedInFull
  <2>. QED
    BY <2>1, <2>4, <2>5 DEF TypedInFull, TypeOK
<1>. QED
  BY <1>2, <1>3

(* Every variable keeps its type: in particular a delay never exceeds the   *)
(* longest one, and a transaction is always about a source.                 *)
THEOREM TypeCorrect == Spec => []TypeOK
<1>1. Init => TypedInFull
  BY PositionsOfSources, OffIsTypedInFull, SizesAssumption
     DEF Init, TypedInFull, TypeOK, FullProcess, Off
<1>2. IInv /\ IInv' /\ TypedInFull /\ [Next]_vars => TypedInFull'
  <2> SUFFICES ASSUME IInv, IInv', TypedInFull, [Next]_vars PROVE TypedInFull'
    OBVIOUS
  <2>1. CASE UNCHANGED vars
    BY <2>1 DEF vars, TypedInFull, TypeOK
  <2>2. ASSUME NEW p \in Procs, NEW s \in Sources, Works(p, s) PROVE TypedInFull'
    BY <2>2, ReadsStayTyped, EndsStayTyped DEF Works
  <2>. QED
    BY <2>1, <2>2, QuietStepsStayTyped, SurroundingsStayTyped DEF Next
<1>3. TypedInFull => TypeOK
  BY DEF TypedInFull
<1>. QED
  BY <1>1, <1>2, <1>3, IInvHolds, PTL DEF Spec
=============================================================================
