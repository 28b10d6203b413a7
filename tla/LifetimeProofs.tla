--------------------------- MODULE LifetimeProofs ---------------------------
(***************************************************************************)
(* Evidence.  What holds of a VM's row whatever its cycles may read        *)
(* (Access): it keeps the best start, agrees with its segment, and is      *)
(* closed for good by a deletion that was delivered.  A cycle merges one   *)
(* lifetime or two, so the argument is about one merge: MergeKeepsRow for  *)
(* what the precedence rule preserves of any evidence, MergeKeepsClosed    *)
(* for what it preserves because of what the sources say.                  *)
(*                                                                         *)
(* Cost.  What holds for any catalogs and any billed minimum: the imports  *)
(* leave the evidence alone, a price that takes effect later never reaches *)
(* the work before it, and a cut between two periods loses and doubles     *)
(* nothing.  The argument about prices is one about sets: below the end of *)
(* a window the new catalogs are not applicable, so neither the cuts nor   *)
(* what is in effect at them can change (PricesAfterTheEnd).  That every   *)
(* moment has its piece is an argument about its two nearest cuts, which   *)
(* exist since times are numbers (NeighboursOfAMoment).  A charge, lastly, *)
(* is an area, with a column as high as the price above each moment; its   *)
(* pieces and the shares of periods cut the area up, and a fold over them  *)
(* counts its points (OneMeasure).                                         *)
(***************************************************************************)
EXTENDS LifetimeCost, FiniteSetTheorems, WellFoundedInduction, TLAPS

EvidenceType == [method : Methods \ {"none"}, start : Times, end : Times]
RowType == [method : Methods, start : Times, end : Times, endMethod : Methods]
SegmentType == [method : Methods, start : Times, end : Times]

-----------------------------------------------------------------------------
(* Time: an event happens after all that happened before it. *)
EventsAreInOrder ==
  /\ \A e \in Events : at[e] <= Now
  /\ \A e, f \in Events : Happened(e) /\ at[e] = at[f] => e = f

(* What a cycle holds of the task's events is what they were. *)
TasksAreTrue == \A e \in Events : tasks[e] \in {0, at[e]}

(* Evidence never names a time to come. *)
EvidenceIsPast == \A e \in evidence : e.end <= Now

(* A row that is to stay closed has its method from Compute or the audit    *)
(* log, and the log goes on showing the deletion: task events cannot        *)
(* replace the window, and another audit read closes it again.              *)
Delivered(ev) == Happened("deleted") /\ \E e \in ev : e.end = at.deleted
StaysClosed(r, ev) ==
  Delivered(ev) => r.end # 0 /\ r.method \in {Audit, Compute} /\ "deleted" \in logged

(* The parts of the invariant that are about the row alone. *)
BestStart(r, ev) ==
  \A e \in ev :
    /\ Precedence(r.method) >= Precedence(e.method)
    /\ \E best \in ev : best.method = r.method /\ best.start = r.start
Agrees(r, s) ==
  s.method = r.method /\ s.start = r.start /\ (s.end # 0 => s.end = r.end)
RowIsGood(r, s, ev) ==
  /\ r \in RowType /\ s \in SegmentType /\ ev \subseteq EvidenceType
  /\ ev = {} => r.method = "none"
  /\ BestStart(r, ev)
  /\ Agrees(r, s)

(* The inductive invariant. *)
IInv ==
  /\ TypeOK
  /\ EventsAreInOrder
  /\ TasksAreTrue
  /\ EvidenceIsPast
  /\ RowIsGood(row, segment, evidence)
  /\ StaysClosed(row, evidence)

-----------------------------------------------------------------------------
LEMMA PrecedenceIsNat == \A m : Precedence(m) \in Nat
  BY DEF Precedence

LEMMA PrecedenceOfMethods ==
  /\ Precedence("none") = 0 /\ Precedence(TaskEvents) = 15
  /\ Precedence(Audit) = 35 /\ Precedence(Compute) = 40
  BY DEF Precedence, TaskEvents, Audit, Compute

LEMMA EventsAreFinite ==
  /\ IsFiniteSet(Events)
  /\ \A S \in SUBSET Events : IsFiniteSet(S) /\ Cardinality(S) <= Cardinality(Events)
                              /\ Cardinality(S) \in Nat
  /\ Cardinality(Events) \in Nat
<1>1. IsFiniteSet(Events)
  <2>1. IsFiniteSet({"inserted"} \cup {"started0"})
    BY FS_Singleton, FS_AddElement
  <2>2. IsFiniteSet(({"inserted"} \cup {"started0"}) \cup {"retried"})
    BY <2>1, FS_AddElement
  <2>3. IsFiniteSet({"started1"} \cup {"finished"})
    BY FS_Singleton, FS_AddElement
  <2>4. IsFiniteSet({"stopped"} \cup {"deleted"})
    BY FS_Singleton, FS_AddElement
  <2>5. IsFiniteSet(({"started1"} \cup {"finished"}) \cup ({"stopped"} \cup {"deleted"}))
    BY <2>3, <2>4, FS_Union
  <2>6. Events = (({"inserted"} \cup {"started0"}) \cup {"retried"})
                   \cup (({"started1"} \cup {"finished"}) \cup ({"stopped"} \cup {"deleted"}))
    BY DEF Events
  <2> QED BY <2>2, <2>5, <2>6, FS_Union
<1> QED BY <1>1, FS_CardinalityType, FS_Subset

(* Merging one piece of evidence keeps what the row owes to all of it. *)
LEMMA MergeKeepsRow ==
  ASSUME NEW r, NEW s, NEW ev, NEW new \in EvidenceType, RowIsGood(r, s, ev)
  PROVE  RowIsGood(MergeRow(r, new), MergeSegment(s, new), ev \cup {new})
<1>t. r \in RowType /\ s \in SegmentType /\ ev \subseteq EvidenceType
  BY DEF RowIsGood
<1>p. \A m : Precedence(m) \in Nat  BY PrecedenceIsNat
<1>1. CASE Precedence(new.method) >= Precedence(r.method)
  <2>1. MergeRow(r, new) = [r EXCEPT !.method = new.method, !.start = new.start, !.end = new.end]
    BY <1>1 DEF MergeRow
  <2>2. MergeSegment(s, new) = new
    BY <1>1 DEF MergeSegment, RowIsGood, Agrees
  <2>3. BestStart(MergeRow(r, new), ev \cup {new})
    BY <1>1, <1>p, <1>t, <2>1 DEF RowIsGood, BestStart, RowType, EvidenceType
  <2> QED
    BY <1>t, <2>1, <2>2, <2>3 DEF RowIsGood, Agrees, RowType, SegmentType, EvidenceType
<1>2. CASE ~(Precedence(new.method) >= Precedence(r.method))
  <2>1. MergeSegment(s, new) = s
    BY <1>2 DEF MergeSegment, RowIsGood, Agrees
  <2>2. \/ MergeRow(r, new) = r
        \/ r.end = 0 /\ MergeRow(r, new) = [r EXCEPT !.end = new.end, !.endMethod = new.method]
    BY <1>2 DEF MergeRow
  <2>3. MergeRow(r, new) \in RowType /\ MergeRow(r, new).method = r.method
        /\ MergeRow(r, new).start = r.start
    BY <1>t, <2>2 DEF RowType, EvidenceType
  <2>4. s.end # 0 => s.end = MergeRow(r, new).end
    BY <1>t, <2>2 DEF RowIsGood, Agrees, RowType, SegmentType
  <2>5. ev # {}
    BY <1>2, <1>p, PrecedenceOfMethods DEF RowIsGood
  <2> QED
    BY <1>2, <1>p, <1>t, <2>1, <2>3, <2>4, <2>5 DEF RowIsGood, BestStart, Agrees, EvidenceType
<1> QED BY <1>1, <1>2

(* What a cycle may conclude is true of the VM: a deletion is known from    *)
(* the audit log alone, which goes on knowing it, and no live read follows. *)
TrueEvidence(new) ==
  /\ new \in EvidenceType
  /\ new.end <= Now
  /\ new.method = Compute => ~Happened("deleted")
  /\ (Happened("deleted") /\ new.end = at.deleted) => (new.method = Audit /\ "deleted" \in logged)
  /\ (new.method = Audit /\ "deleted" \in logged) => new.end = at.deleted

(* Merging it keeps a row closed that a deletion has closed. *)
LEMMA MergeKeepsClosed ==
  ASSUME NEW r \in RowType, NEW ev, NEW new, TrueEvidence(new), StaysClosed(r, ev)
  PROVE  StaysClosed(MergeRow(r, new), ev \cup {new})
<1> SUFFICES ASSUME Delivered(ev \cup {new})
             PROVE  /\ MergeRow(r, new).end # 0
                    /\ MergeRow(r, new).method \in {Audit, Compute}
                    /\ "deleted" \in logged
  BY DEF StaysClosed
<1>p. \A m : Precedence(m) \in Nat  BY PrecedenceIsNat
<1>d. at.deleted # 0 /\ new.method # Compute /\ new.method \in {TaskEvents, Audit}
  BY DEF Delivered, Happened, TrueEvidence, EvidenceType, Methods
<1>1. CASE Delivered(ev)
  <2>1. r.end # 0 /\ r.method \in {Audit, Compute} /\ "deleted" \in logged
    BY <1>1 DEF StaysClosed
  <2>2. CASE new.method = TaskEvents
    <3>1. MergeRow(r, new) = r
      BY <2>1, <2>2, PrecedenceOfMethods DEF MergeRow
    <3> QED BY <2>1, <3>1
  <2>3. CASE new.method = Audit
    <3>1. new.end # 0
      BY <1>d, <2>1, <2>3 DEF TrueEvidence
    <3>2. MergeRow(r, new) = r \/
          MergeRow(r, new) = [r EXCEPT !.method = new.method, !.start = new.start, !.end = new.end]
      BY <2>1 DEF MergeRow
    <3> QED BY <2>1, <2>3, <3>1, <3>2 DEF RowType
  <2> QED BY <1>d, <2>2, <2>3
<1>2. CASE ~Delivered(ev)
  <2>1. new.method = Audit /\ "deleted" \in logged /\ new.end # 0
    BY <1>2, <1>d DEF Delivered, TrueEvidence, Happened
  <2>2. CASE Precedence(new.method) >= Precedence(r.method)
    <3>1. MergeRow(r, new) = [r EXCEPT !.method = new.method, !.start = new.start, !.end = new.end]
      BY <2>2 DEF MergeRow
    <3> QED BY <2>1, <3>1 DEF RowType
  <2>3. CASE ~(Precedence(new.method) >= Precedence(r.method))
    <3>1. r.method = Compute
      BY <2>1, <2>3, PrecedenceOfMethods DEF RowType, Methods
    <3>2. IF r.end = 0
          THEN MergeRow(r, new) = [r EXCEPT !.end = new.end, !.endMethod = new.method]
          ELSE MergeRow(r, new) = r
      BY <2>1, <2>3 DEF MergeRow
    <3> QED BY <2>1, <3>1, <3>2 DEF RowType
  <2> QED BY <2>2, <2>3
<1> QED BY <1>1, <1>2

(* Both attempts' lifetimes are true evidence, whatever may be read. *)
LEMMA LifetimesAreTrue ==
  ASSUME TypeOK, EventsAreInOrder, TasksAreTrue, NEW access,
         NEW attempt \in {FirstAttempt, SecondAttempt}
  PROVE  TrueEvidence(LifetimeFor(attempt, access))
<1> DEFINE new == LifetimeFor(attempt, access)
<1>a. \A e \in Events : at[e] \in Times /\ at[e] <= Now
  BY DEF TypeOK, EventsAreInOrder
<1>n. Times \subseteq Nat /\ 0 \in Times /\ Now \in Nat
  BY EventsAreFinite DEF Times, Now
<1>e. Events = {"inserted", "started0", "retried", "started1", "finished", "stopped", "deleted"}
  BY DEF Events
<1>f. /\ attempt.start \in Times /\ attempt.finish \in Times /\ attempt.finish <= Now
      /\ Happened("deleted") => attempt.finish # at.deleted
  <2>1. \A e \in {"started0", "started1", "retried", "finished"} :
          tasks[e] \in Times /\ tasks[e] <= Now
          /\ (Happened("deleted") => tasks[e] # at.deleted)
    BY <1>a, <1>n, <1>e DEF TasksAreTrue, EventsAreInOrder, Happened
  <2>2. CASE attempt = FirstAttempt
    BY <2>1, <2>2 DEF FirstAttempt, Either
  <2>3. CASE attempt = SecondAttempt
    BY <2>1, <2>3 DEF SecondAttempt
  <2> QED BY <2>2, <2>3
<1>l. \A e \in Audited : Entry(access, e) \in Times /\ Entry(access, e) <= Now
  BY <1>a, <1>n, <1>e DEF Entry, Audited
<1>i. CASE Answers(access)
  <2>1. ~Happened("deleted") /\ Method(access) = Compute
        /\ Lifecycle(access) = [start |-> 0, end |-> 0]
        /\ Instance(access) = [start |-> at.inserted, end |-> at.stopped]
    BY <1>i DEF Answers, Method, Lifecycle, Entry, Instance
  <2>2. new.method = Compute /\ new.start \in Times /\ new.end \in Times /\ new.end <= Now
    BY <1>a, <1>e, <1>f, <1>n, <2>1 DEF LifetimeFor, Either
  <2>3. new \in EvidenceType
    BY <2>2 DEF LifetimeFor, EvidenceType, Methods, Compute
  <2> QED BY <2>1, <2>2, <2>3 DEF TrueEvidence, Audit, Compute
<1>j. CASE ~Answers(access)
  <2>1. Instance(access) = [start |-> 0, end |-> 0]
    BY <1>j DEF Instance
  <2>2. /\ Lifecycle(access).start = Entry(access, "inserted")
        /\ Lifecycle(access).end = Entry(access, "deleted")
    BY DEF Lifecycle
  <2>3. Method(access) =
          IF Entry(access, "inserted") # 0 \/ Entry(access, "deleted") # 0 THEN Audit ELSE TaskEvents
    BY <1>j DEF Method, Lifecycle
  <2>4. /\ new.method = Method(access)
        /\ new.start = IF Entry(access, "inserted") = 0 THEN attempt.start
                       ELSE Entry(access, "inserted")
        /\ new.end = IF Entry(access, "deleted") # 0 THEN Entry(access, "deleted")
                     ELSE IF Entry(access, "inserted") = 0 THEN attempt.finish ELSE 0
    BY <2>1, <2>2 DEF LifetimeFor, Either
  <2>5. new.start \in Times /\ new.end \in Times /\ new.end <= Now
    BY <1>f, <1>l, <1>n, <2>4 DEF Audited
  <2>6. new \in EvidenceType
    BY <2>3, <2>4, <2>5 DEF LifetimeFor, EvidenceType, Methods, Audit, TaskEvents
  <2>7. new.method # Compute
    BY <2>3, <2>4 DEF Audit, TaskEvents, Compute
  <2>8. ASSUME Happened("deleted"), new.end = at.deleted
        PROVE  new.method = Audit /\ "deleted" \in logged
    <3>1. Entry(access, "deleted") # 0
      BY <1>f, <2>4, <2>8 DEF Happened
    <3> QED BY <2>3, <2>4, <3>1 DEF Entry
  <2>9. ASSUME new.method = Audit, "deleted" \in logged
        PROVE  new.end = at.deleted
    <3>1. Entry(access, "inserted") # 0 \/ Entry(access, "deleted") # 0
      BY <2>3, <2>4, <2>9 DEF Audit, TaskEvents
    <3>2. access = "full"
      BY <3>1 DEF Entry
    <3>3. Happened("deleted")
      BY <2>9 DEF TypeOK
    <3>4. Entry(access, "deleted") = at.deleted /\ at.deleted # 0
      BY <1>j, <2>9, <3>2, <3>3 DEF Entry, Happened
    <3> QED BY <2>4, <3>4
  <2> QED BY <2>5, <2>6, <2>7, <2>8, <2>9 DEF TrueEvidence
<1> QED BY <1>i, <1>j

-----------------------------------------------------------------------------
LEMMA InitIInv == Init => IInv
<1> SUFFICES ASSUME Init PROVE IInv
  OBVIOUS
<1>1. at = [e \in Events |-> 0] /\ tasks = at /\ logged = {} /\ evidence = {}
      /\ row = NoRow /\ segment = NoSegment
  BY DEF Init, NoTasks
<1>2. \A e \in Events : ~Happened(e)
  BY <1>1 DEF Happened
<1>3. {e \in Events : Happened(e)} = {}
  BY <1>2
<1>4. Now = 0
  BY <1>3, FS_EmptySet DEF Now
<1>5. 0 \in Times
  BY EventsAreFinite DEF Times
<1>6. EventsAreInOrder
  BY <1>1, <1>2, <1>4 DEF EventsAreInOrder
<1>7. TasksAreTrue
  BY <1>1 DEF TasksAreTrue
<1>8. row \in RowType /\ segment \in SegmentType
  BY <1>1, <1>5 DEF NoRow, NoSegment, RowType, SegmentType, Methods
<1>9. TypeOK
  BY <1>1, <1>5, <1>8 DEF TypeOK, RowType, SegmentType
<1>10. RowIsGood(row, segment, evidence)
  BY <1>1, <1>8 DEF RowIsGood, BestStart, Agrees, NoRow, NoSegment
<1>11. StaysClosed(row, evidence)
  BY <1>1 DEF StaysClosed, Delivered
<1> QED BY <1>1, <1>6, <1>7, <1>9, <1>10, <1>11 DEF IInv, EvidenceIsPast

(* The clock is the number of events so far, and the next event is later *)
(* than everything that is known.                                        *)
LEMMA OccursKeepsIInv ==
  ASSUME IInv, NEW e \in Events, Occurs(e)
  PROVE  IInv'
<1> DEFINE H == {f \in Events : Happened(f)}
<1>1. /\ ~Happened(e) /\ at' = [at EXCEPT ![e] = Now + 1]
      /\ logged' = logged /\ tasks' = tasks /\ row' = row /\ segment' = segment
      /\ evidence' = evidence
  BY DEF Occurs
<1>2. at \in [Events -> Times]
  BY DEF IInv, TypeOK
<1>3. /\ IsFiniteSet(H) /\ IsFiniteSet(H \cup {e}) /\ Now \in Nat
      /\ Cardinality(H \cup {e}) <= Cardinality(Events)
      /\ Cardinality(Events) \in Nat
  <2>1. H \in SUBSET Events /\ (H \cup {e}) \in SUBSET Events
    OBVIOUS
  <2> QED BY <2>1, EventsAreFinite DEF Now
<1>4. Cardinality(H \cup {e}) = Now + 1
  <2>1. e \notin H
    BY <1>1
  <2> QED BY <1>3, <2>1, FS_AddElement DEF Now
<1>5. Now + 1 \in Times /\ Now + 1 # 0
  BY <1>3, <1>4 DEF Times
<1>6. \A f \in Events : at'[f] = IF f = e THEN Now + 1 ELSE at[f]
  BY <1>1, <1>2
<1>7. Now' = Now + 1
  <2>1. {f \in Events : Happened(f)'} = H \cup {e}
    BY <1>5, <1>6 DEF Happened
  <2> QED BY <1>4, <2>1 DEF Now
<1>8. TypeOK'
  <2>1. at' \in [Events -> Times]
    BY <1>1, <1>2, <1>5
  <2>2. logged' \subseteq {f \in Audited : Happened(f)'}
    BY <1>1, <1>5, <1>6 DEF IInv, TypeOK, Happened, Audited, Events
  <2> QED BY <1>1, <2>1, <2>2 DEF IInv, TypeOK
<1>9. EventsAreInOrder'
  <2>1. \A f \in Events : at[f] \in Nat /\ at[f] <= Now
    BY <1>2, EventsAreFinite DEF IInv, EventsAreInOrder, Times
  <2>2. \A f \in Events : at'[f] <= Now'
    BY <1>3, <1>6, <1>7, <2>1
  <2>3. \A f, g \in Events : Happened(f)' /\ at'[f] = at'[g] => f = g
    BY <1>3, <1>6, <2>1 DEF IInv, EventsAreInOrder, Happened
  <2> QED BY <2>2, <2>3 DEF EventsAreInOrder
<1>10. TasksAreTrue'
  BY <1>1, <1>6 DEF IInv, TasksAreTrue, Happened
<1>11. EvidenceIsPast'
  <2>1. \A x \in evidence : x.end \in Nat /\ x.end <= Now
    BY EventsAreFinite DEF IInv, TypeOK, EvidenceIsPast, Times
  <2> QED BY <1>1, <1>3, <1>7, <2>1 DEF EvidenceIsPast
<1>12. RowIsGood(row, segment, evidence)'
  BY <1>1 DEF IInv, RowIsGood, RowType, SegmentType, EvidenceType, BestStart, Agrees
<1>13. StaysClosed(row, evidence)'
  <2>1. "deleted" \in Events
    BY DEF Events
  <2>2. CASE e = "deleted"
    <3>1. \A x \in evidence : x.end # Now + 1
      <4>1. \A x \in evidence : x.end \in Nat /\ x.end <= Now
        BY EventsAreFinite DEF IInv, TypeOK, EvidenceIsPast, Times
      <4> QED BY <1>3, <4>1
    <3> QED BY <1>1, <1>6, <2>1, <2>2, <3>1 DEF StaysClosed, Delivered
  <2>3. CASE e # "deleted"
    BY <1>1, <1>6, <2>1, <2>3 DEF IInv, StaysClosed, Delivered, Happened
  <2> QED BY <2>2, <2>3
<1> QED BY <1>8, <1>9, <1>10, <1>11, <1>12, <1>13 DEF IInv

(* Nothing but the running cycle's reading, or what the log shows, changes. *)
LEMMA ReadingKeepsIInv ==
  ASSUME IInv, UNCHANGED <<at, row, segment, evidence>>,
         tasks' \in {tasks, NoTasks, at},
         logged \subseteq logged', logged' \subseteq {e \in Audited : Happened(e)}
  PROVE  IInv'
<1>1. Now' = Now /\ (\A e \in Events : Happened(e)' <=> Happened(e))
  BY DEF Now, Happened
<1>2. at \in [Events -> Times] /\ 0 \in Times
  BY EventsAreFinite DEF IInv, TypeOK, Times
<1>3. TypeOK'
  <2>1. tasks' \in [Events -> Times]
    BY <1>2 DEF IInv, TypeOK, NoTasks
  <2>2. logged' \subseteq {e \in Audited : Happened(e)'}
    BY DEF Happened
  <2> QED BY <2>1, <2>2 DEF IInv, TypeOK
<1>4. EventsAreInOrder' /\ EvidenceIsPast'
  BY <1>1 DEF IInv, EventsAreInOrder, EvidenceIsPast
<1>5. TasksAreTrue'
  BY DEF IInv, TasksAreTrue, NoTasks
<1>6. RowIsGood(row, segment, evidence)'
  BY DEF IInv, RowIsGood, RowType, SegmentType, EvidenceType, BestStart, Agrees
<1>7. StaysClosed(row, evidence)'
  BY DEF IInv, StaysClosed, Delivered, Happened
<1> QED BY <1>3, <1>4, <1>5, <1>6, <1>7 DEF IInv

(* A cycle merges one lifetime, or the two of an attempt and its retry. *)
LEMMA CollectKeepsIInv ==
  ASSUME IInv, NEW access \in Access, Collect(access)
  PROVE  IInv'
<1> DEFINE first == LifetimeFor(FirstAttempt, access)
           second == LifetimeFor(SecondAttempt, access)
           row1 == MergeRow(row, first)
           segment1 == MergeSegment(segment, first)
           evidence1 == evidence \cup {first}
<1>1. TrueEvidence(first) /\ TrueEvidence(second)
  BY LifetimesAreTrue DEF IInv
<1>2. first \in EvidenceType /\ second \in EvidenceType /\ first.end <= Now /\ second.end <= Now
  BY <1>1 DEF TrueEvidence
<1>3. RowIsGood(row1, segment1, evidence1)
  BY <1>2, MergeKeepsRow DEF IInv
<1>4. StaysClosed(row1, evidence1)
  BY <1>1, MergeKeepsClosed DEF IInv, RowIsGood
<1>5. RowIsGood(MergeRow(row1, second), MergeSegment(segment1, second), evidence1 \cup {second})
  BY <1>2, <1>3, MergeKeepsRow
<1>6. StaysClosed(MergeRow(row1, second), evidence1 \cup {second})
  BY <1>1, <1>3, <1>4, MergeKeepsClosed DEF RowIsGood
<1>7. /\ UNCHANGED <<at, logged>> /\ tasks' = NoTasks
      /\ \/ row' = row1 /\ segment' = segment1 /\ evidence' = evidence1
         \/ /\ row' = MergeRow(row1, second) /\ segment' = MergeSegment(segment1, second)
            /\ evidence' = evidence1 \cup {second}
  BY DEF Collect
<1>8. RowIsGood(row', segment', evidence') /\ StaysClosed(row', evidence')
  BY <1>3, <1>4, <1>5, <1>6, <1>7
<1>9. RowIsGood(row, segment, evidence)' /\ StaysClosed(row, evidence)'
  BY <1>7, <1>8 DEF RowIsGood, RowType, SegmentType, EvidenceType, BestStart, Agrees,
                    StaysClosed, Delivered, Happened
<1>10. TypeOK'
  <2>1. 0 \in Times
    BY EventsAreFinite DEF Times
  <2>2. at' \in [Events -> Times] /\ tasks' \in [Events -> Times]
    BY <1>7, <2>1 DEF IInv, TypeOK, NoTasks
  <2>3. logged' \subseteq {e \in Audited : Happened(e)'}
    BY <1>7 DEF IInv, TypeOK, Happened
  <2> QED BY <1>8, <2>2, <2>3 DEF TypeOK, RowIsGood, RowType, SegmentType, EvidenceType
<1>11. EventsAreInOrder'
  BY <1>7 DEF IInv, EventsAreInOrder, Now, Happened
<1>12. TasksAreTrue'
  BY <1>7 DEF TasksAreTrue, NoTasks
<1>13. EvidenceIsPast'
  <2>1. Now' = Now
    BY <1>7 DEF Now, Happened
  <2> QED BY <1>2, <1>7, <2>1 DEF IInv, EvidenceIsPast
<1> QED BY <1>9, <1>10, <1>11, <1>12, <1>13 DEF IInv

LEMMA NextIInv == IInv /\ [Next]_vars => IInv'
<1> SUFFICES ASSUME IInv, [Next]_vars PROVE IInv'
  OBVIOUS
<1>l. logged \subseteq {e \in Audited : Happened(e)}
  BY DEF IInv, TypeOK
<1>1. ASSUME NEW e \in Events, Occurs(e) PROVE IInv'
  BY <1>1, OccursKeepsIInv
<1>2. ASSUME NEW e \in Audited, IsLogged(e) PROVE IInv'
  BY <1>2, <1>l, ReadingKeepsIInv DEF IsLogged
<1>3. CASE ReadTasks
  BY <1>3, <1>l, ReadingKeepsIInv DEF ReadTasks
<1>4. ASSUME NEW access \in Access, Collect(access) PROVE IInv'
  BY <1>4, CollectKeepsIInv
<1>5. CASE Fail
  BY <1>5, <1>l, ReadingKeepsIInv DEF Fail
<1>6. CASE UNCHANGED vars
  BY <1>6, <1>l, ReadingKeepsIInv DEF vars
<1> QED BY <1>1, <1>2, <1>3, <1>4, <1>5, <1>6 DEF Next

-----------------------------------------------------------------------------
(* The invariant holds whatever the cycles may read: the merge by precedence *)
(* of upsert_lifetime, over all that _lifetime_for can make of a VM.         *)
THEOREM IInvHolds == Spec => []IInv
<1>1. Init => IInv
  BY InitIInv
<1>2. IInv /\ [Next]_vars => IInv'
  BY NextIInv
<1> QED BY <1>1, <1>2, PTL DEF Spec

(* Every variable keeps its type; in particular every time that reaches the *)
(* row is one at which something happened to the VM.                        *)
THEOREM TypeCorrect == Spec => []TypeOK
<1>1. IInv => TypeOK
  BY DEF IInv
<1> QED BY <1>1, IInvHolds, PTL

(* upsert_lifetime never lets weaker evidence move the start of a window. *)
THEOREM StartIsTheBest == Spec => []BestStartIsKept
<1>1. IInv => BestStartIsKept
  BY DEF IInv, RowIsGood, BestStart, BestStartIsKept
<1> QED BY <1>1, IInvHolds, PTL

(* upsert_lifetime's two merges, of the lifetime and of its segment, never *)
(* part: what is charged is what is shown.                                 *)
THEOREM SegmentFollowsRow == Spec => []SegmentAgreesWithRow
<1>1. IInv => SegmentAgreesWithRow
  BY DEF IInv, RowIsGood, Agrees, SegmentAgreesWithRow
<1> QED BY <1>1, IInvHolds, PTL

(* A deletion that a cycle has delivered closes the window for good. *)
THEOREM DeletionIsFinal == Spec => []DeletionClosesTheWindow
<1>1. IInv => DeletionClosesTheWindow
  BY DEF IInv, StaysClosed, Delivered, DeletionClosesTheWindow
<1> QED BY <1>1, IInvHolds, PTL

-----------------------------------------------------------------------------
(* Cost. *)

CostIInv ==
  /\ IInv
  /\ CostTypeOK

(* Imports are stutters of the VM's evidence. *)
LEMMA CostStepIsEvidenceStep == [CostNext]_costVars => [Next]_vars
  BY DEF CostNext, costVars, ImportCatalog, vars

(* upsert_lifetime's promises hold whatever is imported between its merges: *)
(* the specification with prices implements the one without.               *)
THEOREM CostKeepsEvidence == CostSpec => Spec
<1>1. CostInit => Init
  BY DEF CostInit
<1> QED BY <1>1, CostStepIsEvidenceStep, PTL DEF CostSpec, Spec

(* The invariant of the evidence, carried over, with the types of what      *)
(* import_catalog keeps.                                                    *)
THEOREM CostIInvHolds == CostSpec => []CostIInv
<1> DEFINE Known == imported \subseteq Catalogs /\ active \in imported \cup {"none"}
<1>1. CostInit => Known
  BY DEF CostInit
<1>2. Known /\ [CostNext]_costVars => Known'
  BY DEF CostNext, costVars, ImportCatalog
<1>3. CostSpec => []IInv
  BY CostKeepsEvidence, IInvHolds, PTL
<1>4. CostSpec => []Known
  BY <1>1, <1>2, PTL DEF CostSpec
<1>5. IInv /\ Known => CostIInv
  BY DEF CostIInv, CostTypeOK, IInv
<1> QED BY <1>3, <1>4, <1>5, PTL

(* Every variable keeps its type whatever is imported, in particular the    *)
(* active catalog is one whose rows import_catalog has written.             *)
THEOREM CostTypeCorrect == CostSpec => []CostTypeOK
<1>1. CostIInv => CostTypeOK
  BY DEF CostIInv
<1> QED BY <1>1, CostIInvHolds, PTL

-----------------------------------------------------------------------------
LEMMA TimesAreNat == Times \subseteq Nat
  BY EventsAreFinite DEF Times

(* A window that is charged is a real one, with a beginning before its end. *)
LEMMA ChargedType ==
  ASSUME TypeOK, Charged # NoWindow
  PROVE  Charged.start \in Nat /\ Charged.end \in Nat /\ Charged.start < Charged.end
  BY TimesAreNat DEF TypeOK, Charged, NoWindow, Complete

(* No piece begins at or after the end of its window. *)
LEMMA PiecesAreInside ==
  ASSUME TypeOK, imported \subseteq Catalogs, Charged # NoWindow, NEW p \in Pieces
  PROVE  p.start \in Nat /\ p.start < Charged.end
<1>1. \A c \in imported : EffectiveFrom[c] \in Nat
  BY CatalogAssumption, TimesAreNat
<1>2. \A q \in {Charged.start, Charged.end} \cup Boundaries : q \in Nat /\ q <= Charged.end
  BY <1>1, ChargedType DEF Boundaries
<1> QED BY <1>2, ChargedType DEF Pieces

(* Catalogs that take effect at the end of a window or later change nothing *)
(* that is applicable, and so nothing that is in effect, before that end.   *)
LEMMA PricesAfterTheEnd ==
  ASSUME CostIInv, Charged # NoWindow, UNCHANGED <<row, segment>>,
         NEW c \in Catalogs, ImportCatalog(c),
         \A d \in imported' \ imported : EffectiveFrom[d] >= Charged.end
  PROVE  CostLine' = CostLine
<1>1. Charged' = Charged
  BY DEF Charged, Complete, NoWindow
<1>2. Charged.end \in Nat /\ TypeOK /\ imported \subseteq Catalogs
  BY ChargedType DEF CostIInv, CostTypeOK
<1>3. imported' = imported \cup {c} /\ EffectiveFrom \in [Catalogs -> Nat]
  BY CatalogAssumption, TimesAreNat DEF ImportCatalog
<1>4. \A d \in imported' : d \in imported \/ ~(EffectiveFrom[d] < Charged.end)
  BY <1>2, <1>3
<1>5. Boundaries' = Boundaries
  BY <1>1, <1>3, <1>4 DEF Boundaries
<1>6. Pieces' = Pieces
  BY <1>1, <1>5 DEF Pieces
<1>7. ASSUME NEW t \in Nat, t < Charged.end
      PROVE  /\ Applicable(t)' = Applicable(t)
             /\ InEffect(t)' = InEffect(t)
  <2>1. \A d \in imported' : EffectiveFrom[d] <= t => d \in imported
    BY <1>2, <1>3, <1>4, <1>7
  <2>2. Applicable(t)' = Applicable(t)
    BY <1>3, <2>1 DEF Applicable
  <2> QED BY <2>2 DEF InEffect
<1>8. \A p \in Pieces : Applicable(p.start)' = Applicable(p.start) /\ Amount(p)' = Amount(p)
  <2>1. Billed' = Billed
    BY <1>1 DEF Billed, Observed
  <2> QED BY <1>2, <1>7, <2>1, PiecesAreInside DEF Amount
<1>9. Priced' = Priced
  BY <1>1, <1>6, <1>8 DEF Priced, NoWindow
<1>10. Allocations' = Allocations
  BY <1>6, <1>8, <1>9 DEF Allocations
<1> QED BY <1>1, <1>9, <1>10 DEF CostLine, NoWindow

(* A line depends on its window and on the rows of prices, and on nothing else. *)
LEMMA LineOfItsFacts ==
  ASSUME UNCHANGED <<row, segment, imported>>
  PROVE  CostLine' = CostLine
<1>1. Charged' = Charged
  BY DEF Charged, Complete, NoWindow
<1>2. Pieces' = Pieces
  BY <1>1 DEF Pieces, Boundaries
<1>3. Billed' = Billed
  BY <1>1 DEF Billed, Observed
<1>4. ASSUME NEW t PROVE Applicable(t)' = Applicable(t) /\ InEffect(t)' = InEffect(t)
  BY DEF Applicable, InEffect
<1>5. ASSUME NEW p PROVE Amount(p)' = Amount(p)
  BY <1>3, <1>4 DEF Amount
<1>6. Priced' = Priced
  BY <1>1, <1>2, <1>4 DEF Priced, NoWindow
<1>7. Allocations' = Allocations
  BY <1>2, <1>5, <1>6 DEF Allocations
<1> QED BY <1>1, <1>6, <1>7 DEF CostLine, NoWindow

(* "A price that takes effect after work ran is never applied to it",       *)
(* however many catalogs there are and whichever is imported when:          *)
(* _active_price and the boundaries of calculate_lifetime look at nothing   *)
(* that takes effect at the end of the window or later.                     *)
THEOREM LaterPricesNeverReprice == CostSpec => LaterPricesLeaveEarlierWorkAlone
<1> DEFINE Later ==
      /\ UNCHANGED <<row, segment>>
      /\ Charged # NoWindow
      /\ \A c \in imported' \ imported : EffectiveFrom[c] >= Charged.end
<1>1. CostIInv /\ [CostNext]_costVars => (Later => CostLine' = CostLine)
  <2> SUFFICES ASSUME CostIInv, [CostNext]_costVars, Later PROVE CostLine' = CostLine
    OBVIOUS
  <2>1. CASE imported' = imported
    BY <2>1, LineOfItsFacts
  <2>2. ASSUME NEW c \in Catalogs, ImportCatalog(c) PROVE CostLine' = CostLine
    BY <2>2, PricesAfterTheEnd
  <2> QED BY <2>1, <2>2 DEF CostNext, costVars
<1>2. CostIInv /\ [CostNext]_costVars => [Later => CostLine' = CostLine]_costVars
  BY <1>1
<1> QED BY <1>2, CostIInvHolds, PTL DEF CostSpec, LaterPricesLeaveEarlierWorkAlone

-----------------------------------------------------------------------------
(* Moments. *)

(* Of each moment of the window there is one piece, charged at the price    *)
(* that is in effect at that moment and stretched by the billed minimum.    *)
MomentsHaveOnePiece ==
  Charged # NoWindow =>
    \A t \in Moments :
      /\ \E p \in Pieces :
           /\ p.start <= t /\ t < p.end
           /\ Applicable(t) = Applicable(p.start)
           /\ Amount(p) = (p.end - p.start) * Billed * HourlyRate[InEffect(t)]
      /\ \A p, q \in Pieces :
           p.start <= t /\ t < p.end /\ q.start <= t /\ t < q.end => p = q

(* A line has no price just if some moment of its window is before all of   *)
(* them.                                                                    *)
UnpricedForAReason ==
  Charged # NoWindow => (CostLine.quality = "unpriced" <=> \E t \in Moments : Applicable(t) = {})

(* Of any times there is a first one. *)
LEMMA SmallestTime ==
  ASSUME NEW S \in SUBSET Nat, S # {}
  PROVE  \E m \in S : \A y \in S : m <= y
<1> DEFINE R == OpToRel(<, Nat)
<1>1. IsWellFoundedOn(R, Nat)
  BY NatLessThanWellFounded
<1>2. \A x, y \in Nat : y < x => <<y, x>> \in R
  BY DEF OpToRel
<1> HIDE DEF R
<1>3. PICK m \in S : \A y \in S : <<y, m>> \notin R
  BY <1>1, WFMin
<1>4. \A y \in S : ~(y < m)
  BY <1>2, <1>3
<1> QED BY <1>3, <1>4

(* Between numbers on both sides of a moment, two are next to it. *)
LEMMA NeighboursOfAMoment ==
  ASSUME NEW S \in SUBSET Nat, NEW t \in Nat, \E q \in S : q <= t, \E q \in S : t < q
  PROVE  \E a, b \in S : a <= t /\ t < b /\ \A q \in S : q <= a \/ b <= q
<1> DEFINE since == {t - q : q \in {x \in S : x <= t}}
           after == {x \in S : t < x}
<1>1. since \in SUBSET Nat /\ since # {}
  OBVIOUS
<1>2. after \in SUBSET Nat /\ after # {}
  OBVIOUS
<1>3. PICK m \in since : \A y \in since : m <= y
  <2> HIDE DEF since
  <2> QED BY <1>1, SmallestTime
<1>4. PICK b \in after : \A y \in after : b <= y
  <2> HIDE DEF after
  <2> QED BY <1>2, SmallestTime
<1>5. PICK a \in S : a <= t /\ m = t - a
  OBVIOUS
<1>6. \A q \in S : q <= t => q <= a
  <2> SUFFICES ASSUME NEW q \in S, q <= t PROVE q <= a
    OBVIOUS
  <2>1. t - q \in since
    OBVIOUS
  <2>2. t - a <= t - q
    BY <1>3, <1>5, <2>1
  <2> HIDE DEF since
  <2> QED BY <1>5, <2>2
<1>7. \A q \in S : t < q => b <= q
  BY <1>4
<1>8. ASSUME NEW q \in S PROVE q <= t \/ t < q
  <2> q \in Nat
    OBVIOUS
  <2> HIDE DEF since, after
  <2> QED OBVIOUS
<1>9. \A q \in S : q <= a \/ b <= q
  BY ONLY <1>6, <1>7, <1>8
<1> QED BY <1>4, <1>5, <1>9

(* The cuts are times of the window, its ends among them. *)
LEMMA CutsAreTimes ==
  ASSUME CostTypeOK, Charged # NoWindow
  PROVE  \A q \in {Charged.start, Charged.end} \cup Boundaries :
           q \in Times /\ q \in Nat /\ Charged.start <= q /\ q <= Charged.end
<1>1. Charged.start \in Times /\ Charged.end \in Times
  BY DEF CostTypeOK, TypeOK, Charged, NoWindow, Complete
<1>2. TypeOK /\ imported \subseteq Catalogs
  BY DEF CostTypeOK
<1>3. \A c \in imported : EffectiveFrom[c] \in Times /\ EffectiveFrom[c] \in Nat
  BY <1>2, CatalogAssumption, TimesAreNat
<1>4. \A q \in Boundaries : q \in Times /\ q \in Nat /\ Charged.start <= q /\ q <= Charged.end
  BY <1>2, <1>3, ChargedType DEF Boundaries
<1> QED BY <1>1, <1>2, <1>4, ChargedType

(* Within a piece no price takes effect. *)
LEMMA PricesOfAPiece ==
  ASSUME CostTypeOK, Charged # NoWindow, NEW p \in Pieces, NEW t \in Nat, p.start <= t, t < p.end
  PROVE  Applicable(t) = Applicable(p.start)
<1> DEFINE points == {Charged.start, Charged.end} \cup Boundaries
<1>1. /\ p.start \in points /\ p.end \in points
      /\ \A q \in points : q <= p.start \/ p.end <= q
  BY DEF Pieces
<1>2. /\ p.start \in Nat /\ p.end \in Nat /\ Charged.start <= p.start /\ p.end <= Charged.end
      /\ Charged.start \in Nat /\ Charged.end \in Nat
  BY <1>1, CutsAreTimes
<1>3. \A c \in imported : EffectiveFrom[c] \in Nat
  BY CatalogAssumption, TimesAreNat DEF CostTypeOK
<1>4. ASSUME NEW c \in imported, EffectiveFrom[c] <= t PROVE EffectiveFrom[c] <= p.start
  <2>1. CASE EffectiveFrom[c] <= Charged.start
    BY <1>2, <1>3, <2>1
  <2>2. CASE Charged.start < EffectiveFrom[c]
    <3>1. EffectiveFrom[c] < Charged.end
      BY <1>2, <1>3, <1>4
    <3>2. EffectiveFrom[c] \in points
      BY <2>2, <3>1 DEF Boundaries
    <3>3. EffectiveFrom[c] <= p.start \/ p.end <= EffectiveFrom[c]
      BY <1>1, <3>2
    <3> HIDE DEF points
    <3> QED BY <1>2, <1>3, <1>4, <3>3
  <2> QED BY <1>2, <1>3, <2>1, <2>2
<1>5. \A c \in imported : EffectiveFrom[c] <= p.start => EffectiveFrom[c] <= t
  BY <1>2, <1>3
<1> HIDE DEF points
<1> QED BY <1>4, <1>5 DEF Applicable

(* Its two nearest cuts are around every moment of the window. *)
LEMMA EveryMomentHasAPiece ==
  ASSUME CostTypeOK, Charged # NoWindow, NEW t \in Moments
  PROVE  \E p \in Pieces : p.start <= t /\ t < p.end
<1>1. PICK points : points = {Charged.start, Charged.end} \cup Boundaries
  OBVIOUS
<1>2. points \in SUBSET Nat /\ Charged.start \in points /\ Charged.end \in points
  BY <1>1, CutsAreTimes
<1>3. t \in Nat /\ Charged.start <= t /\ t < Charged.end
  BY TimesAreNat DEF Moments
<1>4. PICK a, b \in points : a <= t /\ t < b /\ \A q \in points : q <= a \/ b <= q
  BY <1>2, <1>3, NeighboursOfAMoment
<1>5. PICK p : p = [start |-> a, end |-> b]
  OBVIOUS
<1>6. p \in [start : points, end : points] /\ p.start = a /\ p.end = b
  BY <1>5
<1>7. a < b
  BY <1>2, <1>3, <1>4
<1>8. p \in Pieces
  BY <1>1, <1>4, <1>6, <1>7 DEF Pieces
<1> QED BY <1>4, <1>6, <1>8

(* Two pieces with a moment in common are one. *)
LEMMA PiecesAreApart ==
  ASSUME CostTypeOK, Charged # NoWindow, NEW t \in Nat, NEW p \in Pieces, NEW q \in Pieces,
         p.start <= t, t < p.end, q.start <= t, t < q.end
  PROVE  p = q
<1>1. PICK points : points = {Charged.start, Charged.end} \cup Boundaries
  OBVIOUS
<1>2. \A x \in points : x \in Nat
  BY <1>1, CutsAreTimes
<1>3. /\ p \in [start : points, end : points] /\ q \in [start : points, end : points]
      /\ \A x \in points : x <= p.start \/ p.end <= x
      /\ \A x \in points : x <= q.start \/ q.end <= x
  BY <1>1 DEF Pieces
<1>4. /\ p.start \in points /\ p.end \in points /\ q.start \in points /\ q.end \in points
  BY <1>3
<1>5. p.start = q.start /\ p.end = q.end
  BY <1>2, <1>3, <1>4
<1> QED BY <1>3, <1>5

(* Nothing of a window is charged twice, nothing of it is left out, and     *)
(* nothing at a price other than the one in effect, for any catalogs and    *)
(* however many of them take effect within it (calculate_lifetime).         *)
THEOREM MomentsAreChargedOnce == CostSpec => []MomentsHaveOnePiece
<1>1. CostTypeOK => MomentsHaveOnePiece
  <2> SUFFICES ASSUME CostTypeOK, Charged # NoWindow, NEW t \in Moments
               PROVE  /\ \E p \in Pieces :
                           /\ p.start <= t /\ t < p.end
                           /\ Applicable(t) = Applicable(p.start)
                           /\ Amount(p) = (p.end - p.start) * Billed * HourlyRate[InEffect(t)]
                      /\ \A p, q \in Pieces :
                           p.start <= t /\ t < p.end /\ q.start <= t /\ t < q.end => p = q
    BY DEF MomentsHaveOnePiece
  <2>1. t \in Nat
    BY TimesAreNat DEF Moments
  <2>2. PICK p \in Pieces : p.start <= t /\ t < p.end
    BY EveryMomentHasAPiece
  <2>3. Applicable(t) = Applicable(p.start)
    BY <2>1, <2>2, PricesOfAPiece
  <2>4. InEffect(t) = InEffect(p.start)
    BY <2>3 DEF InEffect
  <2>5. Amount(p) = (p.end - p.start) * Billed * HourlyRate[InEffect(t)]
    BY <2>4 DEF Amount
  <2>6. \A x, y \in Pieces : x.start <= t /\ t < x.end /\ y.start <= t /\ t < y.end => x = y
    BY <2>1, PiecesAreApart
  <2> QED BY <2>2, <2>3, <2>5, <2>6
<1> QED BY <1>1, CostTypeCorrect, PTL

(* The pieces of calculate_lifetime are enough to look at: a line is        *)
(* unpriced just if the VM ran at a moment before every known price.        *)
THEOREM UnpricedLinesAreHonest == CostSpec => []UnpricedForAReason
<1>1. CostTypeOK => UnpricedForAReason
  <2> SUFFICES ASSUME CostTypeOK, Charged # NoWindow
               PROVE  CostLine.quality = "unpriced" <=> \E t \in Moments : Applicable(t) = {}
    BY DEF UnpricedForAReason
  <2>1. CostLine.quality = "unpriced" <=> ~Priced
    BY DEF CostLine
  <2>2. Priced <=> \A p \in Pieces : Applicable(p.start) # {}
    BY DEF Priced
  <2>3. ASSUME NEW p \in Pieces PROVE p.start \in Moments
    <3>1. p.start \in {Charged.start, Charged.end} \cup Boundaries
      BY DEF Pieces
    <3>2. p.start \in Times /\ Charged.start <= p.start
      BY <3>1, CutsAreTimes
    <3>3. p.start < Charged.end
      BY PiecesAreInside DEF CostTypeOK
    <3> QED BY <3>2, <3>3 DEF Moments
  <2>4. ASSUME NEW t \in Moments PROVE \E p \in Pieces : Applicable(p.start) = Applicable(t)
    <3>1. t \in Nat
      BY TimesAreNat DEF Moments
    <3>2. PICK p \in Pieces : p.start <= t /\ t < p.end
      BY EveryMomentHasAPiece
    <3> QED BY <3>1, <3>2, PricesOfAPiece
  <2> QED BY <2>1, <2>2, <2>3, <2>4
<1> QED BY <1>1, CostTypeCorrect, PTL

-----------------------------------------------------------------------------
(* Periods. *)
LEMMA MaxMinOfTwo ==
  ASSUME NEW a \in Nat, NEW b \in Nat
  PROVE  /\ Max({a, b}) = IF a >= b THEN a ELSE b
         /\ Min({a, b}) = IF a <= b THEN a ELSE b
<1>1. \E x \in {a, b} : \A y \in {a, b} : x >= y
  OBVIOUS
<1>2. \E x \in {a, b} : \A y \in {a, b} : x =< y
  OBVIOUS
<1> QED BY <1>1, <1>2 DEF Max, Min

LEMMA OverlapOfTwo ==
  ASSUME NEW s, s.start \in Nat, s.end \in Nat, NEW from \in Nat, NEW to \in Nat
  PROVE  /\ Overlap(s, from, to) =
              LET lower == IF s.start >= from THEN s.start ELSE from
                  upper == IF s.end <= to THEN s.end ELSE to
              IN  IF lower < upper THEN upper - lower ELSE 0
         /\ Overlap(s, from, to) \in Nat
<1>1. Max({s.start, from}) = IF s.start >= from THEN s.start ELSE from
  BY MaxMinOfTwo
<1>2. Min({s.end, to}) = IF s.end <= to THEN s.end ELSE to
  BY MaxMinOfTwo
<1> QED BY <1>1, <1>2 DEF Overlap

(* _slice_fraction over two neighbouring periods: their shares of a slice   *)
(* make up the share of both together, something shows in one of them just  *)
(* if it shows in both together, and an instant never shows in each.        *)
THEOREM NeighboursShareASlice ==
  ASSUME NEW s, s.start \in Nat, s.end \in Nat, s.start <= s.end,
         NEW from \in Nat, NEW cut \in Nat, NEW to \in Nat, from <= cut, cut <= to
  PROVE  /\ Overlap(s, from, to) = Overlap(s, from, cut) + Overlap(s, cut, to)
         /\ InPeriod(s, from, to) <=> InPeriod(s, from, cut) \/ InPeriod(s, cut, to)
         /\ s.start = s.end => ~(InPeriod(s, from, cut) /\ InPeriod(s, cut, to))
<1> DEFINE Clipped(b, e) ==
      LET lower == IF s.start >= b THEN s.start ELSE b
          upper == IF s.end <= e THEN s.end ELSE e
      IN  IF lower < upper THEN upper - lower ELSE 0
<1>1. Overlap(s, from, to) = Overlap(s, from, cut) + Overlap(s, cut, to)
  <2>1. /\ Overlap(s, from, to) = Clipped(from, to)
        /\ Overlap(s, from, cut) = Clipped(from, cut)
        /\ Overlap(s, cut, to) = Clipped(cut, to)
    BY OverlapOfTwo
  <2>2. Clipped(from, to) = Clipped(from, cut) + Clipped(cut, to)
    OBVIOUS
  <2> QED BY <2>1, <2>2
<1>2. Overlap(s, from, cut) \in Nat /\ Overlap(s, cut, to) \in Nat
  BY OverlapOfTwo
<1> QED BY <1>1, <1>2 DEF InPeriod

LEMMA QuotientOfProduct ==
  ASSUME NEW n \in Nat \ {0}, NEW m \in Nat
  PROVE  (n * m) \div n = m
  OBVIOUS

(* Where some price is applicable, one is in effect: their times are not    *)
(* unbounded, so one of them is the last.                                   *)
LEMMA OneIsInEffect ==
  ASSUME imported \subseteq Catalogs, NEW t, Applicable(t) # {}
  PROVE  InEffect(t) \in imported
<1> DEFINE n == Cardinality(Events)
           Back == {n - EffectiveFrom[c] : c \in Applicable(t)}
<1>1. n \in Nat /\ \A c \in Applicable(t) : EffectiveFrom[c] \in Nat /\ EffectiveFrom[c] <= n
  BY CatalogAssumption, EventsAreFinite DEF Applicable, Times
<1>2. Back \subseteq Nat /\ Back # {}
  BY <1>1
<1>3. \E x \in Back : \A y \in Back : ~(<<y, x>> \in OpToRel(<, Nat))
  BY <1>2, NatLessThanWellFounded, WFMin
<1>4. PICK x \in Back : \A y \in Back : ~(y < x)
  BY <1>2, <1>3 DEF OpToRel
<1>5. PICK c \in Applicable(t) : x = n - EffectiveFrom[c]
  OBVIOUS
<1>6. \A d \in Applicable(t) : EffectiveFrom[d] <= EffectiveFrom[c]
  <2> SUFFICES ASSUME NEW d \in Applicable(t) PROVE EffectiveFrom[d] <= EffectiveFrom[c]
    OBVIOUS
  <2>1. ~(n - EffectiveFrom[d] < n - EffectiveFrom[c])
    BY <1>4, <1>5
  <2> HIDE DEF n
  <2> QED BY <1>1, <2>1
<1>7. InEffect(t) \in Applicable(t)
  BY <1>6 DEF InEffect
<1> QED BY <1>7 DEF Applicable

-----------------------------------------------------------------------------
(* Sums.  A fold over a set is a choice among the functions that unfold as  *)
(* it does.  Any measure that each element adds its part to unfolds so, and *)
(* there is no second one: the smallest subset on which two differ would    *)
(* leave a smaller one.  The measures here count the elements of disjoint   *)
(* parts, so what a fold gives becomes a matter of sets.                    *)

AddsUp(it, f, S) ==
  it = [s \in SUBSET S |->
          IF s = {} THEN 0 ELSE f[CHOOSE x \in s : TRUE] + it[s \ {CHOOSE x \in s : TRUE}]]

(* A measure of the subsets of S to which each element adds its part. *)
Measures(h, f, S) ==
  /\ h \in [SUBSET S -> Nat]
  /\ h[{}] = 0
  /\ \A s \in SUBSET S : \A x \in s : h[s] = f[x] + h[s \ {x}]

LEMMA MeasureAddsUp ==
  ASSUME NEW S, NEW f, NEW h, Measures(h, f, S)
  PROVE  AddsUp(h, f, S)
<1>1. \A s \in SUBSET S : s # {} => (CHOOSE x \in s : TRUE) \in s
  OBVIOUS
<1>2. \A s \in SUBSET S : h[s] = IF s = {} THEN 0
         ELSE f[CHOOSE x \in s : TRUE] + h[s \ {CHOOSE x \in s : TRUE}]
  BY <1>1 DEF Measures
<1>3. h = [s \in SUBSET S |-> h[s]]
  BY DEF Measures
<1> QED BY <1>2, <1>3 DEF AddsUp

LEMMA OneMeasure ==
  ASSUME NEW S, IsFiniteSet(S), NEW f, NEW h, Measures(h, f, S), NEW it, AddsUp(it, f, S)
  PROVE  it[S] = h[S]
<1> DEFINE Wrong == {s \in SUBSET S : it[s] # h[s]}
           Sizes == {Cardinality(s) : s \in Wrong}
<1>1. \A s \in SUBSET S : IsFiniteSet(s) /\ Cardinality(s) \in Nat
  BY FS_Subset, FS_CardinalityType
<1>2. SUFFICES ASSUME Wrong # {} PROVE FALSE
  OBVIOUS
<1>3. Sizes \in SUBSET Nat /\ Sizes # {}
  BY <1>1, <1>2
<1>4. PICK n \in Sizes : \A m \in Sizes : n <= m
  <2> HIDE DEF Sizes
  <2> QED BY <1>3, SmallestTime
<1>5. PICK s \in Wrong : n = Cardinality(s)
  OBVIOUS
<1>6. s \in SUBSET S /\ it[s] # h[s]
  OBVIOUS
<1>7. s # {}
  BY <1>6 DEF AddsUp, Measures
<1>8. PICK x : x = CHOOSE y \in s : TRUE
  OBVIOUS
<1>9. x \in s
  BY <1>7, <1>8
<1>10. it[s] = f[x] + it[s \ {x}]
  BY <1>6, <1>7, <1>8 DEF AddsUp
<1>11. h[s] = f[x] + h[s \ {x}]
  BY <1>6, <1>9 DEF Measures
<1>12. Cardinality(s \ {x}) = Cardinality(s) - 1
  BY <1>1, <1>6, <1>9, FS_RemoveElement
<1>13. s \ {x} \in SUBSET S /\ s \ {x} \notin Wrong
  <2>1. s \ {x} \in SUBSET S
    BY <1>6
  <2>2. ASSUME s \ {x} \in Wrong PROVE FALSE
    <3>1. Cardinality(s \ {x}) \in Sizes
      BY <2>2
    <3>2. Cardinality(s) <= Cardinality(s \ {x})
      BY <1>4, <1>5, <3>1
    <3> QED BY <1>1, <1>6, <1>12, <3>2
  <2> QED BY <2>1, <2>2
<1> QED BY <1>6, <1>10, <1>11, <1>13

(* Disjoint parts of a finite set are measured by how many they hold. *)
Together(part, s) == UNION {part[p] : p \in s}

LEMMA PartsAreMeasured ==
  ASSUME NEW C, IsFiniteSet(C), NEW S, NEW part \in [S -> SUBSET C],
         \A p, q \in S : p # q => part[p] \cap part[q] = {}
  PROVE  Measures([s \in SUBSET S |-> Cardinality(Together(part, s))],
                  [p \in S |-> Cardinality(part[p])], S)
<1> DEFINE h == [s \in SUBSET S |-> Cardinality(Together(part, s))]
           f == [p \in S |-> Cardinality(part[p])]
<1>1. \A D \in SUBSET C : IsFiniteSet(D) /\ Cardinality(D) \in Nat
  BY FS_Subset, FS_CardinalityType
<1>2. \A s \in SUBSET S : Together(part, s) \in SUBSET C
  BY DEF Together
<1>3. h \in [SUBSET S -> Nat]
  BY <1>1, <1>2
<1>4. h[{}] = 0
  <2>1. Together(part, {}) = {}
    BY DEF Together
  <2> QED BY <2>1, FS_EmptySet
<1>5. ASSUME NEW s \in SUBSET S, NEW x \in s
      PROVE  h[s] = f[x] + h[s \ {x}]
  <2> DEFINE rest == Together(part, s \ {x})
  <2>1. Together(part, s) = part[x] \cup rest
    BY DEF Together
  <2>2. part[x] \cap rest = {}
    BY DEF Together
  <2>3. /\ IsFiniteSet(part[x]) /\ Cardinality(part[x]) \in Nat
        /\ IsFiniteSet(rest) /\ Cardinality(rest) \in Nat
    <3>1. part[x] \in SUBSET C /\ rest \in SUBSET C
      BY <1>2
    <3> HIDE DEF rest
    <3> QED BY <1>1, <3>1
  <2>4. Cardinality(part[x] \cup rest) = Cardinality(part[x]) + Cardinality(rest)
    <3> HIDE DEF rest
    <3>1. Cardinality(part[x] \cup rest)
            = Cardinality(part[x]) + Cardinality(rest) - Cardinality(part[x] \cap rest)
      BY <2>3, FS_Union
    <3>2. Cardinality(part[x] \cap rest) = 0
      BY <2>2, FS_EmptySet
    <3> QED BY <2>3, <3>1, <3>2
  <2>5. h[s] = Cardinality(part[x] \cup rest) /\ h[s \ {x}] = Cardinality(rest) /\ f[x] = Cardinality(part[x])
    BY <2>1
  <2> QED BY <2>4, <2>5
<1> HIDE DEF h, f
<1>6. Measures(h, f, S)
  BY <1>3, <1>4, <1>5 DEF Measures
<1> QED BY <1>6 DEF h, f

(* The folds of the model: what the moments cost, what the report shows of  *)
(* a line in a period, what the line costs in all.                          *)
CostOfMoment(t) == HourlyRate[InEffect(t)] * Max({MinimumBilled, Cardinality(Moments)})

LEMMA FoldOfMoments ==
  ASSUME NEW from, NEW to, NEW S, S = {t \in Moments : from <= t /\ t < to}, IsFiniteSet(S),
         NEW f, NEW h, Measures(h, f, S),
         \A t \in S : f[t] = CostOfMoment(t)
  PROVE  CostOfMoments(from, to) = h[S]
<1> DEFINE P(i) == i = [s \in SUBSET S |->
                          IF s = {} THEN 0
                          ELSE CostOfMoment(CHOOSE x \in s : TRUE) + i[s \ {CHOOSE x \in s : TRUE}]]
<1>1. \A s \in SUBSET S : s # {} => (CHOOSE x \in s : TRUE) \in S
  OBVIOUS
<1>2. CostOfMoments(from, to) = (CHOOSE i : P(i))[S]
  BY DEF CostOfMoments, CostOfMoment, MapThenSumSet, MapThenFoldSet
<1>3. ASSUME NEW i PROVE P(i) <=> AddsUp(i, f, S)
  <2>1. ASSUME NEW s \in SUBSET S, s # {}
        PROVE  f[CHOOSE x \in s : TRUE] = CostOfMoment(CHOOSE x \in s : TRUE)
    BY <1>1, <2>1
  <2>2. \A s \in SUBSET S :
          (IF s = {} THEN 0 ELSE CostOfMoment(CHOOSE x \in s : TRUE) + i[s \ {CHOOSE x \in s : TRUE}])
        = (IF s = {} THEN 0 ELSE f[CHOOSE x \in s : TRUE] + i[s \ {CHOOSE x \in s : TRUE}])
    BY <2>1
  <2>3. [s \in SUBSET S |->
           IF s = {} THEN 0 ELSE CostOfMoment(CHOOSE x \in s : TRUE) + i[s \ {CHOOSE x \in s : TRUE}]]
        = [s \in SUBSET S |->
           IF s = {} THEN 0 ELSE f[CHOOSE x \in s : TRUE] + i[s \ {CHOOSE x \in s : TRUE}]]
    BY <2>2
  <2> QED BY <2>3 DEF AddsUp
<1> HIDE DEF P
<1>4. P(h)
  BY <1>3, MeasureAddsUp
<1>5. P(CHOOSE i : P(i))
  BY <1>4
<1> QED BY <1>2, <1>3, <1>5, OneMeasure

LEMMA FoldOfSlices ==
  ASSUME NEW from, NEW to, NEW S, IsFiniteSet(S), NEW f, NEW h, Measures(h, f, S),
         \A s \in S : f[s] = Part(s, from, to)
  PROVE  Accrued(S, from, to) = h[S]
<1> DEFINE P(i) == i = [s \in SUBSET S |->
                          IF s = {} THEN 0
                          ELSE Part(CHOOSE x \in s : TRUE, from, to) + i[s \ {CHOOSE x \in s : TRUE}]]
<1>1. \A s \in SUBSET S : s # {} => (CHOOSE x \in s : TRUE) \in S
  OBVIOUS
<1>2. Accrued(S, from, to) = (CHOOSE i : P(i))[S]
  BY DEF Accrued, MapThenSumSet, MapThenFoldSet
<1>3. ASSUME NEW i PROVE P(i) <=> AddsUp(i, f, S)
  <2>1. ASSUME NEW s \in SUBSET S, s # {}
        PROVE  f[CHOOSE x \in s : TRUE] = Part(CHOOSE x \in s : TRUE, from, to)
    BY <1>1, <2>1
  <2>2. \A s \in SUBSET S :
          (IF s = {} THEN 0 ELSE Part(CHOOSE x \in s : TRUE, from, to) + i[s \ {CHOOSE x \in s : TRUE}])
        = (IF s = {} THEN 0 ELSE f[CHOOSE x \in s : TRUE] + i[s \ {CHOOSE x \in s : TRUE}])
    BY <2>1
  <2>3. [s \in SUBSET S |->
           IF s = {} THEN 0 ELSE Part(CHOOSE x \in s : TRUE, from, to) + i[s \ {CHOOSE x \in s : TRUE}]]
        = [s \in SUBSET S |->
           IF s = {} THEN 0 ELSE f[CHOOSE x \in s : TRUE] + i[s \ {CHOOSE x \in s : TRUE}]]
    BY <2>2
  <2> QED BY <2>3 DEF AddsUp
<1> HIDE DEF P
<1>4. P(h)
  BY <1>3, MeasureAddsUp
<1>5. P(CHOOSE i : P(i))
  BY <1>4
<1> QED BY <1>2, <1>3, <1>5, OneMeasure

LEMMA FoldOfAmounts ==
  ASSUME NEW S, IsFiniteSet(S), NEW f, NEW h, Measures(h, f, S), \A a \in S : f[a] = a.amount
  PROVE  MapThenSumSet(LAMBDA a : a.amount, S) = h[S]
<1> DEFINE P(i) == i = [s \in SUBSET S |->
                          IF s = {} THEN 0
                          ELSE (CHOOSE x \in s : TRUE).amount + i[s \ {CHOOSE x \in s : TRUE}]]
<1>1. \A s \in SUBSET S : s # {} => (CHOOSE x \in s : TRUE) \in S
  OBVIOUS
<1>2. MapThenSumSet(LAMBDA a : a.amount, S) = (CHOOSE i : P(i))[S]
  BY DEF MapThenSumSet, MapThenFoldSet
<1>3. ASSUME NEW i PROVE P(i) <=> AddsUp(i, f, S)
  <2>1. ASSUME NEW s \in SUBSET S, s # {}
        PROVE  f[CHOOSE x \in s : TRUE] = (CHOOSE x \in s : TRUE).amount
    BY <1>1, <2>1
  <2>2. \A s \in SUBSET S :
          (IF s = {} THEN 0 ELSE (CHOOSE x \in s : TRUE).amount + i[s \ {CHOOSE x \in s : TRUE}])
        = (IF s = {} THEN 0 ELSE f[CHOOSE x \in s : TRUE] + i[s \ {CHOOSE x \in s : TRUE}])
    BY <2>1
  <2>3. [s \in SUBSET S |->
           IF s = {} THEN 0 ELSE (CHOOSE x \in s : TRUE).amount + i[s \ {CHOOSE x \in s : TRUE}]]
        = [s \in SUBSET S |->
           IF s = {} THEN 0 ELSE f[CHOOSE x \in s : TRUE] + i[s \ {CHOOSE x \in s : TRUE}]]
    BY <2>2
  <2> QED BY <2>3 DEF AddsUp
<1> HIDE DEF P
<1>4. P(h)
  BY <1>3, MeasureAddsUp
<1>5. P(CHOOSE i : P(i))
  BY <1>4
<1> QED BY <1>2, <1>3, <1>5, OneMeasure

(* A moment is a column as high as what it costs; a charge is an area. *)
Weight(t) == HourlyRate[InEffect(t)] * Billed
Column(t) == {t} \X (1 .. Weight(t))
Area(T) == UNION {Column(t) : t \in T}

LEMMA ColumnOfAMoment ==
  ASSUME NEW t, Weight(t) \in Nat
  PROVE  IsFiniteSet(Column(t)) /\ Cardinality(Column(t)) = Weight(t)
<1>1. IsFiniteSet(1 .. Weight(t)) /\ Cardinality(1 .. Weight(t)) = Weight(t)
  <2>1. 1 \in Int /\ Weight(t) \in Int
    OBVIOUS
  <2>2. /\ IsFiniteSet(1 .. Weight(t))
        /\ Cardinality(1 .. Weight(t)) = IF 1 > Weight(t) THEN 0 ELSE Weight(t) - 1 + 1
    BY <2>1, FS_Interval
  <2> QED BY <2>2
<1>2. IsFiniteSet({t}) /\ Cardinality({t}) = 1
  BY FS_Singleton
<1>3. IsFiniteSet(Column(t)) /\ Cardinality(Column(t)) = 1 * Weight(t)
  BY <1>1, <1>2, FS_Product DEF Column
<1> QED BY <1>3

LEMMA AreasAreFinite ==
  ASSUME NEW T, IsFiniteSet(T), \A t \in T : Weight(t) \in Nat
  PROVE  IsFiniteSet(Area(T))
<1> DEFINE cols == {Column(t) : t \in T}
           col == [t \in T |-> Column(t)]
<1>1. col \in Surjection(T, cols)
  BY DEF Surjection
<1>2. IsFiniteSet(cols)
  <2> HIDE DEF col, cols
  <2> QED BY <1>1, FS_Surjection
<1>3. \A c \in cols : IsFiniteSet(c)
  BY ColumnOfAMoment
<1>4. Area(T) = UNION cols
  BY DEF Area
<1> HIDE DEF cols
<1> QED BY <1>2, <1>3, <1>4, FS_UNION

(* The weights of a priced window are numbers, and constant in a piece. *)
LEMMA WeightsOfAPiece ==
  ASSUME CostTypeOK, Priced, NEW p \in Pieces, NEW t \in Nat, p.start <= t, t < p.end
  PROVE  /\ Weight(t) \in Nat
         /\ Weight(t) = Weight(p.start)
         /\ Amount(p) = (p.end - p.start) * Weight(t)
<1>1. Charged # NoWindow /\ Applicable(p.start) # {} /\ imported \subseteq Catalogs /\ TypeOK
  BY DEF Priced, CostTypeOK
<1>2. Applicable(t) = Applicable(p.start)
  BY <1>1, PricesOfAPiece
<1>3. InEffect(t) = InEffect(p.start)
  BY <1>2 DEF InEffect
<1>4. HourlyRate[InEffect(t)] \in Nat
  <2>1. InEffect(t) \in Catalogs
    BY <1>1, <1>2, OneIsInEffect
  <2> QED BY <2>1, CatalogAssumption
<1>5. Billed \in Nat
  BY <1>1, ChargedType, CatalogAssumption, MaxMinOfTwo DEF Billed, Observed
<1>6. p.start \in Nat /\ p.end \in Nat
  BY <1>1, CutsAreTimes DEF Pieces
<1>7. Amount(p) = (p.end - p.start) * Billed * HourlyRate[InEffect(t)]
  BY <1>3 DEF Amount
<1>8. (p.end - p.start) * Billed * HourlyRate[InEffect(t)]
        = (p.end - p.start) * (HourlyRate[InEffect(t)] * Billed)
  <2> DEFINE n == p.end - p.start
             r == HourlyRate[InEffect(t)]
  <2>1. n \in Int /\ r \in Nat
    BY <1>4, <1>6
  <2> HIDE DEF n, r
  <2>2. n * Billed * r = n * (r * Billed)
    BY <1>5, <2>1
  <2> QED BY <2>2 DEF n, r
<1> QED BY <1>3, <1>4, <1>5, <1>7, <1>8 DEF Weight

(* The window is as long as it has moments. *)
LEMMA MomentsOfTheWindow ==
  ASSUME CostTypeOK, Charged # NoWindow
  PROVE  /\ Moments = Charged.start .. (Charged.end - 1)
         /\ IsFiniteSet(Moments) /\ Cardinality(Moments) = Observed
         /\ \A t \in Moments : CostOfMoment(t) = Weight(t)
<1>1. /\ Charged.start \in Times /\ Charged.end \in Times
      /\ Charged.start \in Nat /\ Charged.end \in Nat /\ Charged.start < Charged.end
  BY ChargedType, CutsAreTimes DEF CostTypeOK
<1>2. Moments = Charged.start .. (Charged.end - 1)
  BY <1>1, EventsAreFinite DEF Moments, Times
<1>3. Charged.start \in Int /\ Charged.end - 1 \in Int
  BY <1>1
<1>4. /\ IsFiniteSet(Charged.start .. (Charged.end - 1))
      /\ Cardinality(Charged.start .. (Charged.end - 1))
           = IF Charged.start > Charged.end - 1 THEN 0 ELSE (Charged.end - 1) - Charged.start + 1
  BY <1>3, FS_Interval
<1>5. IsFiniteSet(Moments) /\ Cardinality(Moments) = Observed
  BY <1>1, <1>2, <1>4 DEF Observed
<1> QED BY <1>2, <1>5 DEF CostOfMoment, Weight, Billed

(* What a period's moments cost is the area of those moments. *)
LEMMA CostIsArea ==
  ASSUME CostTypeOK, Priced, NEW from \in Nat, NEW to \in Nat,
         NEW T, T = {t \in Moments : from <= t /\ t < to}
  PROVE  IsFiniteSet(Area(T)) /\ CostOfMoments(from, to) = Cardinality(Area(T))
<1> DEFINE part == [t \in T |-> Column(t)]
           f == [t \in T |-> Cardinality(part[t])]
           h == [s \in SUBSET T |-> Cardinality(Together(part, s))]
<1>1. Charged # NoWindow
  BY DEF Priced
<1>2. T \in SUBSET Moments /\ IsFiniteSet(T)
  <2>1. T \in SUBSET Moments
    OBVIOUS
  <2> QED BY <1>1, <2>1, MomentsOfTheWindow, FS_Subset
<1>3. \A t \in T : Weight(t) \in Nat
  <2> SUFFICES ASSUME NEW t \in T PROVE Weight(t) \in Nat
    OBVIOUS
  <2>1. t \in Moments /\ t \in Nat
    BY <1>2, TimesAreNat DEF Moments
  <2>2. PICK p \in Pieces : p.start <= t /\ t < p.end
    BY <1>1, <2>1, EveryMomentHasAPiece
  <2> QED BY <2>1, <2>2, WeightsOfAPiece
<1>4. IsFiniteSet(Area(T))
  BY <1>2, <1>3, AreasAreFinite
<1>5. part \in [T -> SUBSET Area(T)]
  BY DEF Area
<1>6. \A p, q \in T : p # q => part[p] \cap part[q] = {}
  BY DEF Column
<1>7. Measures(h, f, T)
  <2> HIDE DEF part
  <2> QED BY <1>4, <1>5, <1>6, PartsAreMeasured
<1>8. \A t \in T : f[t] = CostOfMoment(t)
  BY <1>1, <1>2, <1>3, ColumnOfAMoment, MomentsOfTheWindow
<1>9. h[T] = Cardinality(Area(T))
  BY DEF Together, Area
<1> HIDE DEF f, h
<1>10. CostOfMoments(from, to) = h[T]
  BY <1>2, <1>7, <1>8, FoldOfMoments
<1> QED BY <1>4, <1>9, <1>10

(* What a period shows of an allocation is its share of the moments. *)
LEMMA PartIsShare ==
  ASSUME CostTypeOK, Priced, NEW p \in Pieces, NEW from \in Nat, NEW to \in Nat,
         NEW a, a = [start |-> p.start, end |-> p.end, amount |-> Amount(p)]
  PROVE  /\ p.start \in Nat /\ p.end \in Nat /\ p.start < p.end
         /\ Weight(p.start) \in Nat
         /\ Overlap(a, from, to) \in Nat
         /\ Part(a, from, to) = Weight(p.start) * Overlap(a, from, to)
<1> DEFINE length == p.end - p.start
           w == Weight(p.start)
           o == Overlap(a, from, to)
<1>1. Charged # NoWindow
  BY DEF Priced
<1>2. p.start \in Nat /\ p.end \in Nat /\ p.start < p.end
  BY <1>1, CutsAreTimes DEF Pieces
<1>3. length \in Nat \ {0}
  BY <1>2
<1>4. w \in Nat /\ a.amount = length * w
  BY <1>2, WeightsOfAPiece
<1>5. o \in Nat
  BY <1>2, OverlapOfTwo
<1>6. Part(a, from, to) = (a.amount * o) \div length
  BY <1>2 DEF Part
<1> HIDE DEF length, w, o
<1>7. (length * w) * o = length * (w * o)
  BY <1>3, <1>4, <1>5
<1>8. w * o \in Nat
  BY <1>4, <1>5
<1>9. (length * (w * o)) \div length = w * o
  BY <1>3, <1>8, QuotientOfProduct
<1> QED BY <1>2, <1>4, <1>5, <1>6, <1>7, <1>9 DEF w, o

(* That share is the area of the moments that they have in common. *)
LEMMA PartIsArea ==
  ASSUME CostTypeOK, Priced, NEW p \in Pieces, NEW from \in Nat, NEW to \in Nat,
         NEW a, a = [start |-> p.start, end |-> p.end, amount |-> Amount(p)],
         NEW I, I = {t \in Moments : from <= t /\ t < to /\ p.start <= t /\ t < p.end}
  PROVE  Part(a, from, to) = Cardinality(Area(I))
<1> DEFINE w == Weight(p.start)
           lower == IF p.start >= from THEN p.start ELSE from
           upper == IF p.end <= to THEN p.end ELSE to
<1>1. Charged # NoWindow
  BY DEF Priced
<1>2. /\ p.start \in Nat /\ p.end \in Nat /\ p.start < p.end
      /\ Charged.start \in Nat /\ Charged.end \in Nat
      /\ Charged.start <= p.start /\ p.end <= Charged.end
  BY <1>1, CutsAreTimes DEF Pieces
<1>3. w \in Nat /\ Part(a, from, to) = w * Overlap(a, from, to)
  BY PartIsShare
<1>4. Overlap(a, from, to) = IF lower < upper THEN upper - lower ELSE 0
  <2>1. a.start = p.start /\ a.end = p.end
    OBVIOUS
  <2>2. a.start \in Nat /\ a.end \in Nat
    BY <1>2, <2>1
  <2> QED BY ONLY <2>1, <2>2, from \in Nat, to \in Nat, OverlapOfTwo
<1>5. I = lower .. (upper - 1)
  <2>1. Moments = Charged.start .. (Charged.end - 1)
    BY <1>1, MomentsOfTheWindow
  <2> QED BY <1>2, <2>1
<1>6. lower \in Int /\ upper - 1 \in Int /\ upper \in Int
  BY <1>2
<1> HIDE DEF lower, upper
<1>7. IsFiniteSet(I) /\ Cardinality(I) = Overlap(a, from, to)
  <2>1. /\ IsFiniteSet(lower .. (upper - 1))
        /\ Cardinality(lower .. (upper - 1)) = IF lower > upper - 1 THEN 0 ELSE (upper - 1) - lower + 1
    BY <1>6, FS_Interval
  <2>2. (IF lower > upper - 1 THEN 0 ELSE (upper - 1) - lower + 1)
          = (IF lower < upper THEN upper - lower ELSE 0)
    BY ONLY <1>6
  <2> QED BY ONLY <1>4, <1>5, <2>1, <2>2
<1>8. \A t \in I : Weight(t) = w
  <2> SUFFICES ASSUME NEW t \in I PROVE Weight(t) = w
    OBVIOUS
  <2>1. t \in Moments /\ p.start <= t /\ t < p.end
    OBVIOUS
  <2>2. t \in Nat
    BY <2>1, TimesAreNat DEF Moments
  <2> QED BY <2>1, <2>2, WeightsOfAPiece
<1> HIDE DEF w
<1>9. Area(I) = I \X (1 .. w)
  BY <1>8 DEF Area, Column
<1>10. IsFiniteSet(1 .. w) /\ Cardinality(1 .. w) = w
  <2>1. /\ IsFiniteSet(1 .. w) /\ Cardinality(1 .. w) = IF 1 > w THEN 0 ELSE w - 1 + 1
    BY <1>3, FS_Interval
  <2> QED BY <1>3, <2>1
<1>11. Cardinality(Area(I)) = Cardinality(I) * w
  BY <1>7, <1>9, <1>10, FS_Product
<1>12. Overlap(a, from, to) \in Nat
  BY PartIsShare
<1> QED BY <1>3, <1>7, <1>11, <1>12

(* Two neighbouring periods show exactly what both together show of an      *)
(* allocation: clipping a charge to periods makes and loses no amount.      *)
THEOREM NeighboursShareACharge ==
  ASSUME CostIInv, NEW a \in Allocations,
         NEW from \in Nat, NEW cut \in Nat, NEW to \in Nat, from <= cut, cut <= to
  PROVE  Part(a, from, to) = Part(a, from, cut) + Part(a, cut, to)
<1>1. PICK p \in Pieces : a = [start |-> p.start, end |-> p.end, amount |-> Amount(p)]
  BY DEF Allocations
<1>2. CostTypeOK /\ Priced
  BY DEF CostIInv, Allocations
<1>3. /\ a.start \in Nat /\ a.end \in Nat /\ a.start <= a.end /\ Weight(p.start) \in Nat
      /\ \A b, e \in Nat : /\ Part(a, b, e) = Weight(p.start) * Overlap(a, b, e)
                          /\ Overlap(a, b, e) \in Nat
  <2>1. a.start = p.start /\ a.end = p.end
    BY <1>1
  <2>2. p.start \in Nat /\ p.end \in Nat /\ p.start < p.end /\ Weight(p.start) \in Nat
    BY <1>1, <1>2, PartIsShare
  <2>3. p.start <= p.end
    BY ONLY <2>2
  <2>4. ASSUME NEW b \in Nat, NEW e \in Nat
        PROVE  Part(a, b, e) = Weight(p.start) * Overlap(a, b, e) /\ Overlap(a, b, e) \in Nat
    BY <1>1, <1>2, PartIsShare
  <2> QED BY ONLY <2>1, <2>2, <2>3, <2>4
<1>4. Overlap(a, from, to) = Overlap(a, from, cut) + Overlap(a, cut, to)
  <2>1. a.start \in Nat /\ a.end \in Nat /\ a.start <= a.end
    BY <1>3
  <2>2. from \in Nat /\ cut \in Nat /\ to \in Nat /\ from <= cut /\ cut <= to
    OBVIOUS
  <2> QED BY ONLY <2>1, <2>2, NeighboursShareASlice
<1>5. Overlap(a, from, cut) \in Nat /\ Overlap(a, cut, to) \in Nat
  BY <1>3
<1> QED BY <1>3, <1>4, <1>5

-----------------------------------------------------------------------------
(* The charge as a sum.  An allocation is one of finitely many, and no two  *)
(* have a moment in common.                                                 *)
LEMMA AllocationsAreFinite ==
  ASSUME CostTypeOK
  PROVE  IsFiniteSet(Allocations)
<1>1. CASE ~Priced
  BY <1>1, FS_EmptySet DEF Allocations
<1>2. CASE Priced
  <2> DEFINE begin == [a \in Allocations |-> a.start]
  <2>1. Charged # NoWindow
    BY <1>2 DEF Priced
  <2>2. \A a \in Allocations : \E p \in Pieces :
          /\ a = [start |-> p.start, end |-> p.end, amount |-> Amount(p)]
          /\ p.start \in Times /\ p.start \in Nat /\ p.end \in Nat /\ p.start < p.end
    BY <1>2, <2>1, CutsAreTimes DEF Allocations, Pieces
  <2>3. begin \in [Allocations -> Times]
    BY <2>2
  <2>4. ASSUME NEW a \in Allocations, NEW b \in Allocations, a.start = b.start PROVE a = b
    <3>1. PICK p \in Pieces : /\ a = [start |-> p.start, end |-> p.end, amount |-> Amount(p)]
                              /\ p.start \in Nat /\ p.start < p.end
      BY <2>2
    <3>2. PICK q \in Pieces : /\ b = [start |-> q.start, end |-> q.end, amount |-> Amount(q)]
                              /\ q.start \in Nat /\ q.start < q.end
      BY <2>2
    <3>3. p.start = q.start
      BY <2>4, <3>1, <3>2
    <3>4. p.start <= p.start /\ q.start <= p.start /\ p.start < q.end
      BY <3>1, <3>2, <3>3
    <3>5. p = q
      BY <2>1, <3>1, <3>4, PiecesAreApart
    <3> QED BY <3>1, <3>2, <3>5
  <2>5. begin \in Injection(Allocations, Times)
    BY <2>3, <2>4 DEF Injection, IsInjective
  <2>6. IsFiniteSet(Times)
    BY EventsAreFinite, FS_Interval DEF Times
  <2> HIDE DEF begin
  <2> QED BY <2>5, <2>6, FS_Injection
<1> QED BY <1>1, <1>2

(* What the allocations show in a period measures what its moments cost. *)
LEMMA AllocationsMeasureTheCost ==
  ASSUME CostTypeOK, Priced, NEW from \in Nat, NEW to \in Nat
  PROVE  \E f, h : /\ Measures(h, f, Allocations)
                   /\ \A a \in Allocations : f[a] = Part(a, from, to)
                   /\ h[Allocations] = CostOfMoments(from, to)
<1>1. PICK T : T = {t \in Moments : from <= t /\ t < to}
  OBVIOUS
<1> DEFINE within(a) == {t \in T : a.start <= t /\ t < a.end}
           part == [a \in Allocations |-> Area(within(a))]
           f == [a \in Allocations |-> Cardinality(part[a])]
           h == [s \in SUBSET Allocations |-> Cardinality(Together(part, s))]
<1>2. Charged # NoWindow
  BY DEF Priced
<1>3. IsFiniteSet(Area(T)) /\ CostOfMoments(from, to) = Cardinality(Area(T))
  BY <1>1, CostIsArea
<1>4. part \in [Allocations -> SUBSET Area(T)]
  BY DEF Area
<1>5. \A a \in Allocations : \E p \in Pieces :
        a = [start |-> p.start, end |-> p.end, amount |-> Amount(p)]
  BY DEF Allocations
<1>6. \A t \in T : t \in Nat /\ t \in Moments
  BY <1>1, TimesAreNat DEF Moments
<1>7. ASSUME NEW a \in Allocations, NEW b \in Allocations, a # b
      PROVE  part[a] \cap part[b] = {}
  <2>1. PICK p \in Pieces : a = [start |-> p.start, end |-> p.end, amount |-> Amount(p)]
    BY <1>5
  <2>2. PICK q \in Pieces : b = [start |-> q.start, end |-> q.end, amount |-> Amount(q)]
    BY <1>5
  <2>3. ASSUME NEW t \in T, t \in within(a), t \in within(b) PROVE FALSE
    <3>1. t \in Nat
      BY <1>6
    <3>2. p.start <= t /\ t < p.end /\ q.start <= t /\ t < q.end
      BY <2>1, <2>2, <2>3
    <3>3. p = q
      BY <1>2, <3>1, <3>2, PiecesAreApart
    <3> QED BY <1>7, <2>1, <2>2, <3>3
  <2>4. \A t \in within(a), u \in within(b) : t # u
    BY <2>3
  <2>5. part[a] = Area(within(a)) /\ part[b] = Area(within(b))
    OBVIOUS
  <2> HIDE DEF part, within
  <2> QED BY <2>4, <2>5 DEF Area, Column
<1>8. Measures(h, f, Allocations)
  <2> HIDE DEF part
  <2> QED BY <1>3, <1>4, <1>7, PartsAreMeasured
<1>9. \A a \in Allocations : f[a] = Part(a, from, to)
  <2> SUFFICES ASSUME NEW a \in Allocations PROVE f[a] = Part(a, from, to)
    OBVIOUS
  <2>1. PICK p \in Pieces : a = [start |-> p.start, end |-> p.end, amount |-> Amount(p)]
    BY <1>5
  <2>2. within(a) = {t \in Moments : from <= t /\ t < to /\ p.start <= t /\ t < p.end}
    BY <1>1, <2>1
  <2>3. f[a] = Cardinality(Area(within(a)))
    OBVIOUS
  <2> HIDE DEF f, within
  <2> QED BY <2>1, <2>2, <2>3, PartIsArea
<1>10. Together(part, Allocations) = Area(T)
  <2>1. \A t \in T : \E a \in Allocations : t \in within(a)
    <3> SUFFICES ASSUME NEW t \in T PROVE \E a \in Allocations : t \in within(a)
      OBVIOUS
    <3>1. PICK p \in Pieces : p.start <= t /\ t < p.end
      BY <1>2, <1>6, EveryMomentHasAPiece
    <3>2. PICK a : a = [start |-> p.start, end |-> p.end, amount |-> Amount(p)]
      OBVIOUS
    <3>3. a \in Allocations
      BY <3>2 DEF Allocations
    <3> QED BY <3>1, <3>2, <3>3
  <2>2. \A a \in Allocations : part[a] = Area(within(a)) /\ within(a) \subseteq T
    OBVIOUS
  <2> HIDE DEF part, within
  <2> QED BY <2>1, <2>2 DEF Together, Area
<1>11. h[Allocations] = Cardinality(Area(T))
  BY <1>10
<1> HIDE DEF f, h
<1> QED BY <1>3, <1>8, <1>9, <1>11

LEMMA AccruedIsCost ==
  ASSUME CostTypeOK, Priced, NEW from \in Nat, NEW to \in Nat
  PROVE  Accrued(Allocations, from, to) = CostOfMoments(from, to)
<1>1. PICK f, h : /\ Measures(h, f, Allocations)
                  /\ \A a \in Allocations : f[a] = Part(a, from, to)
                  /\ h[Allocations] = CostOfMoments(from, to)
  BY AllocationsMeasureTheCost
<1> QED BY <1>1, AllocationsAreFinite, FoldOfSlices

LEMMA AlwaysIsLast ==
  /\ Always \in Nat
  /\ \A t \in Times : t \in Nat /\ t < Always
<1> DEFINE n == Cardinality(Events)
<1>1. n \in Nat /\ Times = 0 .. n
  BY EventsAreFinite DEF Times
<1> HIDE DEF n
<1>2. n \in Times /\ \A t \in Times : n >= t
  BY <1>1
<1>3. Max(Times) \in Times /\ \A t \in Times : Max(Times) >= t
  BY <1>2 DEF Max
<1> QED BY <1>1, <1>3 DEF Always

(* All of time has all of an allocation. *)
LEMMA WholeAllocation ==
  ASSUME CostTypeOK, Priced, NEW a \in Allocations
  PROVE  Part(a, 0, Always) = a.amount
<1>1. PICK p \in Pieces : a = [start |-> p.start, end |-> p.end, amount |-> Amount(p)]
  BY DEF Allocations
<1>2. Charged # NoWindow
  BY DEF Priced
<1>3. 0 \in Nat /\ Always \in Nat
  BY AlwaysIsLast
<1>4. /\ p.start \in Nat /\ p.end \in Nat /\ p.start < p.end /\ Weight(p.start) \in Nat
      /\ Part(a, 0, Always) = Weight(p.start) * Overlap(a, 0, Always)
  BY <1>1, <1>3, PartIsShare
<1>5. p.end < Always
  BY <1>2, CutsAreTimes, AlwaysIsLast DEF Pieces
<1>6. a.start = p.start /\ a.end = p.end /\ a.amount = Amount(p)
  BY <1>1
<1>7. Overlap(a, 0, Always) = p.end - p.start
  <2>1. a.start \in Nat /\ a.end \in Nat
    BY <1>4, <1>6
  <2>2. Overlap(a, 0, Always) =
          LET lower == IF a.start >= 0 THEN a.start ELSE 0
              upper == IF a.end <= Always THEN a.end ELSE Always
          IN  IF lower < upper THEN upper - lower ELSE 0
    BY ONLY <1>3, <2>1, OverlapOfTwo
  <2> QED BY <1>3, <1>4, <1>5, <1>6, <2>2
<1>8. p.start <= p.start /\ p.start < p.end
  BY <1>4
<1>9. Amount(p) = (p.end - p.start) * Weight(p.start)
  BY <1>4, <1>8, WeightsOfAPiece
<1> QED BY <1>4, <1>6, <1>7, <1>9

(* However prices change, a VM is charged for every moment of its window at *)
(* the price in effect at that moment, no more and no less, and is unpriced *)
(* just if a moment of it comes before every price: the pieces that         *)
(* calculate_lifetime cuts at the prices' dates lose and double nothing.    *)
THEOREM TheChargeIsItsMoments == CostSpec => []EveryMomentAtItsPrice
<1>1. CostTypeOK /\ UnpricedForAReason => EveryMomentAtItsPrice
  <2> SUFFICES ASSUME CostTypeOK, Charged # NoWindow, CostLine.quality = "approximate"
               PROVE  MapThenSumSet(LAMBDA a : a.amount, Allocations) = CostOfMoments(0, Always)
    BY DEF EveryMomentAtItsPrice, UnpricedForAReason
  <2>1. Priced
    BY DEF CostLine
  <2>2. 0 \in Nat /\ Always \in Nat
    BY AlwaysIsLast
  <2>3. PICK f, h : /\ Measures(h, f, Allocations)
                    /\ \A a \in Allocations : f[a] = Part(a, 0, Always)
                    /\ h[Allocations] = CostOfMoments(0, Always)
    BY <2>1, <2>2, AllocationsMeasureTheCost
  <2>4. \A a \in Allocations : f[a] = a.amount
    BY <2>1, <2>3, WholeAllocation
  <2> QED BY <2>3, <2>4, AllocationsAreFinite, FoldOfAmounts
<1> QED BY <1>1, CostTypeCorrect, UnpricedLinesAreHonest, PTL

(* A line that is priced has allocations to show. *)
LEMMA PricedLinesShow ==
  ASSUME CostTypeOK, Priced
  PROVE  \A asOf : Slices(asOf) = Allocations
<1>1. Charged # NoWindow
  BY DEF Priced
<1>2. Charged.start \in Moments
  BY <1>1, ChargedType, CutsAreTimes DEF Moments, CostTypeOK
<1>3. PICK p \in Pieces : p.start <= Charged.start
  BY <1>1, <1>2, EveryMomentHasAPiece
<1>4. Allocations # {}
  BY <1>3 DEF Allocations
<1> QED BY <1>4 DEF Slices

(* A slice begins before its end, at times of the VM's life. *)
LEMMA SlicesAreTimes ==
  ASSUME CostTypeOK, NEW asOf \in Times, NEW s \in Slices(asOf)
  PROVE  s.start \in Nat /\ s.end \in Nat /\ s.start <= s.end /\ s.end < Always
<1>1. CASE s \in Allocations
  <2>1. PICK p \in Pieces : s = [start |-> p.start, end |-> p.end, amount |-> Amount(p)]
    BY <1>1 DEF Allocations
  <2>2. Charged # NoWindow
    BY <1>1 DEF Allocations, Priced
  <2>3. p.start \in Nat /\ p.end \in Times /\ p.end \in Nat /\ p.start < p.end
    BY <2>2, CutsAreTimes DEF Pieces
  <2>4. p.end < Always /\ p.start <= p.end
    BY <2>3, AlwaysIsLast
  <2> QED BY <2>1, <2>3, <2>4
<1>2. CASE s \notin Allocations
  <2>1. s.start = row.start /\ s.end = Either(row.end, asOf) /\ s.start <= s.end
    BY <1>2 DEF Slices
  <2>2. row.start \in Times /\ row.end \in Times
    BY DEF CostTypeOK, TypeOK
  <2>3. s.start \in Times /\ s.end \in Times
    BY <2>1, <2>2 DEF Either
  <2> QED BY <2>1, <2>3, AlwaysIsLast
<1> QED BY <1>1, <1>2

(* Whatever is cut where, the periods of a report add up to the charge, and *)
(* no VM falls between two of them or is in both as an instant.             *)
THEOREM PeriodsLoseNothing == CostSpec => []PeriodsAddUp
<1>1. CostTypeOK => PeriodsAddUp
  <2> SUFFICES ASSUME CostTypeOK, NEW asOf \in Times, NEW slices, slices = Slices(asOf)
               PROVE  /\ Priced => \A b, c \in Times \cup {Always} :
                                     b < c => Accrued(slices, b, c) = CostOfMoments(b, c)
                      /\ \A s \in slices, cut \in Times :
                           /\ InPeriod(s, 0, cut) \/ InPeriod(s, cut, Always)
                           /\ s.start = s.end => ~(InPeriod(s, 0, cut) /\ InPeriod(s, cut, Always))
    BY DEF PeriodsAddUp
  <2>1. ASSUME Priced, NEW b \in Times \cup {Always}, NEW c \in Times \cup {Always}
        PROVE  Accrued(slices, b, c) = CostOfMoments(b, c)
    <3>1. b \in Nat /\ c \in Nat
      BY AlwaysIsLast
    <3>2. slices = Allocations
      BY <2>1, PricedLinesShow
    <3> QED BY <2>1, <3>1, <3>2, AccruedIsCost
  <2>2. ASSUME NEW s \in slices, NEW cut \in Times
        PROVE  /\ InPeriod(s, 0, cut) \/ InPeriod(s, cut, Always)
               /\ s.start = s.end => ~(InPeriod(s, 0, cut) /\ InPeriod(s, cut, Always))
    <3>1. s.start \in Nat /\ s.end \in Nat /\ s.start <= s.end /\ s.end < Always
      BY SlicesAreTimes
    <3>2. 0 \in Nat /\ cut \in Nat /\ Always \in Nat /\ 0 <= cut /\ cut <= Always
      BY AlwaysIsLast
    <3>3. /\ InPeriod(s, 0, Always) <=> InPeriod(s, 0, cut) \/ InPeriod(s, cut, Always)
          /\ s.start = s.end => ~(InPeriod(s, 0, cut) /\ InPeriod(s, cut, Always))
      BY ONLY <3>1, <3>2, NeighboursShareASlice
    <3>4. InPeriod(s, 0, Always)
      <4>1. Overlap(s, 0, Always) =
              LET lower == IF s.start >= 0 THEN s.start ELSE 0
                  upper == IF s.end <= Always THEN s.end ELSE Always
              IN  IF lower < upper THEN upper - lower ELSE 0
        BY ONLY <3>1, <3>2, OverlapOfTwo
      <4> QED BY <3>1, <3>2, <4>1 DEF InPeriod
    <3> QED BY <3>3, <3>4
  <2> QED BY <2>1, <2>2
<1> QED BY <1>1, CostTypeCorrect, PTL
=============================================================================
