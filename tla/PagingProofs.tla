---------------------------- MODULE PagingProofs ----------------------------
(***************************************************************************)
(* Proofs about the two modules that page.  BatchPaging first, for any     *)
(* number of targets and any budget.                                       *)
(*                                                                         *)
(* The budget rests on one fact about pages: targets at different places   *)
(* have different indexes, so a window of as many indexes as there are     *)
(* slots holds no more targets than that.  That a page is not empty and    *)
(* that no place is passed over rest on its converse: every index below    *)
(* the length of a list is the index of one of its targets.                *)
(*                                                                         *)
(* Then GalaxyFeed, for any number of jobs and any settings.  A page of it *)
(* has the first rows in an order that is by stamp before it is by id, so  *)
(* whatever a page leaves out is no older than the row whose stamp becomes *)
(* the watermark; and a change that commits late began a transaction's     *)
(* length before now at the most, while the watermark is never ahead of    *)
(* the clock.  The invariant says so of the durable cursor and of the one  *)
(* that the running cycle is about to commit.                              *)
(***************************************************************************)
EXTENDS BatchPaging, GalaxyFeed, FiniteSetTheorems, WellFoundedInduction, TLAPS

\* Two targets of a list have different indexes, in the order of the list.
LEMMA IndexIncreases ==
  ASSUME NEW list \in SUBSET Nat, IsFiniteSet(list),
         NEW t \in list, NEW u \in list, t < u
  PROVE  /\ Index(t, list) \in Nat
         /\ Index(u, list) \in Nat
         /\ Index(t, list) < Index(u, list)
<1> DEFINE Below(v) == {w \in list : w < v}
<1>1. \A v \in list : /\ IsFiniteSet(Below(v))
                      /\ Cardinality(Below(v)) \in Nat
  <2> TAKE v \in list
  <2>1. Below(v) \in SUBSET list
    OBVIOUS
  <2>2. IsFiniteSet(Below(v))
    BY <2>1, FS_Subset
  <2> QED
    BY <2>2, FS_CardinalityType
<1>2. Below(t) \in SUBSET Below(u)
  <2> SUFFICES ASSUME NEW w \in list, w < t PROVE w < u
    OBVIOUS
  <2> w \in Nat /\ t \in Nat /\ u \in Nat
    OBVIOUS
  <2> QED
    OBVIOUS
<1>3. t \in Below(u) /\ t \notin Below(t)
  OBVIOUS
<1>4. Cardinality(Below(t)) <= Cardinality(Below(u))
      /\ (Cardinality(Below(u)) = Cardinality(Below(t)) => Below(u) = Below(t))
  BY <1>1, <1>2, FS_Subset
<1>5. Cardinality(Below(t)) < Cardinality(Below(u))
  <2> HIDE DEF Below
  <2> QED
    BY <1>1, <1>3, <1>4
<1> QED
  BY <1>1, <1>5 DEF Index

\* A window never holds more targets than it has slots.
LEMMA WindowFits ==
  ASSUME NEW list \in SUBSET Nat, IsFiniteSet(list),
         NEW start \in Nat, NEW slots \in Nat
  PROVE  LET window == {t \in list : start <= Index(t, list) /\ Index(t, list) < start + slots}
         IN  IsFiniteSet(window) /\ Cardinality(window) <= slots
<1> DEFINE window == {t \in list : start <= Index(t, list) /\ Index(t, list) < start + slots}
           last == start + slots - 1
           place == [t \in window |-> Index(t, list)]
<1>1. window \in SUBSET list /\ \A t \in window : t \in Nat
  OBVIOUS
<1>2. \A t \in list : Index(t, list) \in Nat
  <2> TAKE t \in list
  <2>1. {u \in list : u < t} \in SUBSET list
    OBVIOUS
  <2>2. IsFiniteSet({u \in list : u < t})
    BY <2>1, FS_Subset
  <2> QED
    BY <2>2, FS_CardinalityType DEF Index
<1>3. place \in [window -> start..last]
  <2> SUFFICES ASSUME NEW t \in window PROVE Index(t, list) \in start..last
    OBVIOUS
  <2> Index(t, list) \in Nat /\ start <= Index(t, list) /\ Index(t, list) < start + slots
    BY <1>2
  <2> HIDE DEF window
  <2> QED
    OBVIOUS
<1>4. \A t, u \in window : place[t] = place[u] => t = u
  <2> TAKE t, u \in window
  <2>1. CASE t < u
    BY <1>1, <2>1, IndexIncreases
  <2>2. CASE u < t
    BY <1>1, <2>2, IndexIncreases
  <2>3. t \in Nat /\ u \in Nat
    BY <1>1
  <2> QED
    BY <2>1, <2>2, <2>3
<1>5. place \in Injection(window, start..last)
  BY <1>3, <1>4 DEF Injection, IsInjective
<1>6. IsFiniteSet(start..last) /\ Cardinality(start..last) = IF start > last THEN 0 ELSE last - start + 1
  BY FS_Interval
<1>7. Cardinality(start..last) = slots
  BY <1>6
<1>8. IsFiniteSet(window) /\ Cardinality(window) <= Cardinality(start..last)
  <2> HIDE DEF place
  <2> QED
    BY <1>5, <1>6, FS_Injection
<1> QED
  BY <1>7, <1>8

\* A page of a list: some of its targets, no more than the slots, and an offset
\* inside the list.
LEMMA PageIsBounded ==
  ASSUME NEW list \in SUBSET Nat, IsFiniteSet(list), NEW offset \in Nat, NEW slots \in Nat
  PROVE  /\ Page(list, offset, slots).window \in SUBSET list
         /\ IsFiniteSet(Page(list, offset, slots).window)
         /\ Cardinality(Page(list, offset, slots).window) <= slots
         /\ Page(list, offset, slots).next \in 0..Cardinality(list)
         /\ Page(list, offset, slots).done \in BOOLEAN
<1> DEFINE n == Cardinality(list)
           start == IF offset < n THEN offset ELSE 0
           window == {t \in list : start <= Index(t, list) /\ Index(t, list) < start + slots}
<1>1. n \in Nat
  BY FS_CardinalityType
<1>2. CASE n = 0 \/ slots = 0
  <2>1. Page(list, offset, slots) = [window |-> {}, next |-> 0, done |-> TRUE]
    BY <1>2 DEF Page
  <2> QED
    BY <1>1, <2>1, FS_EmptySet
<1>3. CASE ~(n = 0 \/ slots = 0)
  <2>1. start \in Nat
    BY <1>1
  <2>2. IsFiniteSet(window) /\ Cardinality(window) <= slots
    BY <2>1, WindowFits
  <2>3. Page(list, offset, slots) =
          [window |-> window,
           next |-> IF start + slots >= n THEN 0 ELSE start + slots,
           done |-> start + slots >= n]
    BY <1>3 DEF Page
  <2>4. window \in SUBSET list
    OBVIOUS
  <2>5. (IF start + slots >= n THEN 0 ELSE start + slots) \in 0..n
    BY <1>1, <2>1
  <2> HIDE DEF window, start
  <2> QED
    BY <2>2, <2>3, <2>4, <2>5
<1> QED
  BY <1>2, <1>3

\* Every place of a list has a target: the indexes are as many as the targets.
LEMMA EveryPlaceIsTaken ==
  ASSUME NEW list \in SUBSET Nat, IsFiniteSet(list), NEW i \in Nat, i < Cardinality(list)
  PROVE  \E t \in list : Index(t, list) = i
<1> DEFINE n == Cardinality(list)
           place == [t \in list |-> Index(t, list)]
<1>1. n \in Nat
  BY FS_CardinalityType
<1>2. ASSUME NEW t \in list PROVE Index(t, list) \in 0 .. n - 1
  <2>1. {u \in list : u < t} \in SUBSET list /\ t \notin {u \in list : u < t}
    OBVIOUS
  <2>2. /\ IsFiniteSet({u \in list : u < t})
        /\ Cardinality({u \in list : u < t}) <= n
        /\ Cardinality({u \in list : u < t}) = n => {u \in list : u < t} = list
    BY <2>1, FS_Subset
  <2>3. Index(t, list) \in Nat /\ Index(t, list) <= n /\ Index(t, list) # n
    BY <2>1, <2>2, FS_CardinalityType DEF Index
  <2> HIDE DEF n
  <2> QED
    BY <1>1, <2>3
<1>3. \A t, u \in list : place[t] = place[u] => t = u
  <2> TAKE t, u \in list
  <2>1. t < u => Index(t, list) < Index(u, list)
    BY IndexIncreases
  <2>2. u < t => Index(u, list) < Index(t, list)
    BY IndexIncreases
  <2>3. t \in Nat /\ u \in Nat /\ Index(t, list) \in Nat /\ Index(u, list) \in Nat
    BY <1>1, <1>2
  <2> QED
    BY <2>1, <2>2, <2>3
<1>4. place \in Injection(list, 0 .. n - 1)
  BY <1>2, <1>3 DEF Injection, IsInjective
<1>5. IsFiniteSet(0 .. n - 1) /\ Cardinality(0 .. n - 1) = n
  <2>1. 0 \in Int /\ n - 1 \in Int
    BY <1>1
  <2>2. /\ IsFiniteSet(0 .. n - 1)
        /\ Cardinality(0 .. n - 1) = IF 0 > n - 1 THEN 0 ELSE (n - 1) - 0 + 1
    BY <2>1, FS_Interval
  <2> HIDE DEF n
  <2> QED
    BY <1>1, <2>2
<1>6. place \in Surjection(list, 0 .. n - 1)
  <2> HIDE DEF place
  <2> QED
    BY <1>4, <1>5, FS_Injection
<1>7. i \in 0 .. n - 1
  BY <1>1
<1> QED
  BY <1>6, <1>7 DEF Surjection

\* A page with slots of a list with targets has some, and where a page ends is
\* where the next one begins: at the end of the list, or at its beginning if
\* the page reaches the end.
LEMMA PagesFollowEachOther ==
  ASSUME NEW list \in SUBSET Nat, IsFiniteSet(list), list # {},
         NEW offset \in Nat, NEW slots \in Nat, slots # 0
  PROVE  /\ Page(list, offset, slots).window # {}
         /\ \A t \in list \ Page(list, offset, slots).window :
              Index(t, list) >= offset =>
                /\ ~Page(list, offset, slots).done
                /\ Index(t, list) >= Page(list, offset, slots).next
<1> DEFINE n == Cardinality(list)
           first == IF offset < n THEN offset ELSE 0
           window == {t \in list : first <= Index(t, list) /\ Index(t, list) < first + slots}
<1>1. n \in Nat /\ n # 0
  BY FS_CardinalityType, FS_EmptySet
<1>2. first \in Nat /\ first < n
  BY <1>1
<1>3. Page(list, offset, slots) =
        [window |-> window,
         next |-> IF first + slots >= n THEN 0 ELSE first + slots,
         done |-> first + slots >= n]
  BY <1>1 DEF Page
<1>4. window # {}
  <2>1. PICK t \in list : Index(t, list) = first
    BY <1>2, EveryPlaceIsTaken
  <2> QED
    BY <1>2, <2>1
<1>5. ASSUME NEW t \in list, t \notin window, Index(t, list) >= offset
      PROVE  ~(first + slots >= n) /\ Index(t, list) >= first + slots
  <2>1. Index(t, list) \in Nat /\ Index(t, list) < n
    <3>1. {u \in list : u < t} \in SUBSET list /\ t \notin {u \in list : u < t}
      OBVIOUS
    <3>2. /\ IsFiniteSet({u \in list : u < t})
          /\ Cardinality({u \in list : u < t}) <= n
          /\ Cardinality({u \in list : u < t}) = n => {u \in list : u < t} = list
      BY <3>1, FS_Subset
    <3>3. Index(t, list) \in Nat /\ Index(t, list) <= n /\ Index(t, list) # n
      BY <3>1, <3>2, FS_CardinalityType DEF Index
    <3> HIDE DEF n
    <3> QED
      BY <1>1, <3>3
  <2> QED
    BY <1>1, <1>2, <1>5, <2>1
<1> HIDE DEF n, first, window
<1>6. Page(list, offset, slots).window = window
  BY <1>3
<1>7. ASSUME ~(first + slots >= n)
      PROVE  /\ ~Page(list, offset, slots).done
             /\ Page(list, offset, slots).next = first + slots
  <2>1. (first + slots >= n) = FALSE /\ (IF first + slots >= n THEN 0 ELSE first + slots) = first + slots
    BY <1>7
  <2>2. Page(list, offset, slots) = [window |-> window, next |-> first + slots, done |-> FALSE]
    BY <1>3, <2>1, Zenon
  <2> QED
    BY <2>2
<1> QED
  BY <1>4, <1>5, <1>6, <1>7
-----------------------------------------------------------------------------
\* A budget is at least 1.
LEMMA BudgetIsANumber == TypeOK => maxTargets \in Nat \ {0}
  BY BudgetsAssumption DEF TypeOK

\* The lists a cycle pages are finite, and its slots are numbers.
LEMMA SlotsAreNumbers ==
  ASSUME TypeOK
  PROVE  /\ active \in SUBSET Nat /\ IsFiniteSet(active)
         /\ terminal \in SUBSET Nat /\ IsFiniteSet(terminal)
         /\ ActiveSlots \in 0..maxTargets
         /\ TerminalFirst => TerminalSlots \in Nat /\ ActiveSlots + TerminalSlots <= maxTargets
         /\ cursor.active_offset \in Nat /\ cursor.terminal_offset \in Nat
<1>1. /\ active \in SUBSET Nat /\ IsFiniteSet(active)
      /\ terminal \in SUBSET Nat /\ IsFiniteSet(terminal)
  BY TargetsAssumption, FS_Subset DEF TypeOK
<1>2. Cardinality(terminal) \in Nat /\ maxTargets \in Nat \ {0}
  BY <1>1, FS_CardinalityType, BudgetIsANumber
<1>3. maxTargets \div 5 \in Nat
  BY <1>2
<1>4. Reserved \in Nat
  BY <1>2, <1>3 DEF Reserved, AtMost, AtLeast
<1>5. CASE TerminalFirst
  <2>1. /\ ActiveSlots = Minus(maxTargets, AtMost(Cardinality(terminal), maxTargets))
        /\ TerminalSlots = AtMost(Cardinality(terminal), maxTargets)
    BY <1>5 DEF ActiveSlots, TerminalSlots
  <2> QED
    BY <1>1, <1>2, <1>5, <2>1 DEF AtMost, Minus, TypeOK
<1>6. CASE ~TerminalFirst
  <2>1. ActiveSlots = IF active # {} THEN AtLeast(Minus(maxTargets, Reserved), 1) ELSE 0
    BY <1>6 DEF ActiveSlots
  <2> QED
    BY <1>1, <1>2, <1>4, <1>6, <2>1 DEF AtLeast, Minus, TypeOK
<1> QED
  BY <1>5, <1>6

LEMMA PagesAreBounded ==
  ASSUME TypeOK
  PROVE  /\ TerminalSlots \in Nat
         /\ ActivePage.window \in SUBSET active /\ IsFiniteSet(ActivePage.window)
         /\ TerminalPage.window \in SUBSET terminal /\ IsFiniteSet(TerminalPage.window)
         /\ ActivePage.next \in 0..Cardinality(active)
         /\ TerminalPage.next \in 0..Cardinality(terminal)
         /\ ActivePage.done \in BOOLEAN
         /\ Cardinality(ActivePage.window) <= ActiveSlots
         /\ Cardinality(TerminalPage.window) <= TerminalSlots
<1>1. ActiveSlots \in Nat /\ maxTargets \in Nat
  BY SlotsAreNumbers, BudgetIsANumber
<1>2. /\ ActivePage.window \in SUBSET active /\ IsFiniteSet(ActivePage.window)
      /\ ActivePage.next \in 0..Cardinality(active)
      /\ ActivePage.done \in BOOLEAN
      /\ Cardinality(ActivePage.window) <= ActiveSlots
  BY <1>1, SlotsAreNumbers, PageIsBounded DEF ActivePage
<1>3. TerminalSlots \in Nat
  <2>1. CASE TerminalFirst
    BY <2>1, SlotsAreNumbers
  <2>2. CASE ~TerminalFirst
    <3>1. Cardinality(ActivePage.window) \in Nat
      BY <1>2, FS_CardinalityType
    <3> QED
      BY <1>1, <2>2, <3>1 DEF TerminalSlots, Minus
  <2> QED
    BY <2>1, <2>2
<1>4. /\ TerminalPage.window \in SUBSET terminal /\ IsFiniteSet(TerminalPage.window)
      /\ TerminalPage.next \in 0..Cardinality(terminal)
      /\ Cardinality(TerminalPage.window) <= TerminalSlots
  BY <1>3, SlotsAreNumbers, PageIsBounded DEF TerminalPage
<1> QED
  BY <1>2, <1>3, <1>4

\* Whichever list leads, both pages together fit the budget.
LEMMA PagesFitTheBudget ==
  ASSUME TypeOK
  PROVE  Cardinality(ActivePage.window \cup TerminalPage.window) <= maxTargets
<1> DEFINE a == Cardinality(ActivePage.window)
           t == Cardinality(TerminalPage.window)
<1>1. a \in Nat /\ t \in Nat
  BY PagesAreBounded, FS_CardinalityType
<1>2. Cardinality(ActivePage.window \cup TerminalPage.window) <= a + t
  <2>1. IsFiniteSet(ActivePage.window \cap TerminalPage.window)
    BY PagesAreBounded, FS_Intersection
  <2>2. Cardinality(ActivePage.window \cap TerminalPage.window) \in Nat
    BY <2>1, FS_CardinalityType
  <2>3. Cardinality(ActivePage.window \cup TerminalPage.window)
          = a + t - Cardinality(ActivePage.window \cap TerminalPage.window)
    BY PagesAreBounded, FS_Union
  <2> HIDE DEF a, t
  <2> QED
    BY <1>1, <2>2, <2>3
<1>3. a + t <= maxTargets
  <2>1. a <= ActiveSlots /\ t <= TerminalSlots /\ ActiveSlots \in 0..maxTargets /\ TerminalSlots \in Nat
    BY PagesAreBounded, SlotsAreNumbers
  <2>2. CASE TerminalFirst
    <3>1. ActiveSlots + TerminalSlots <= maxTargets
      BY <2>2, SlotsAreNumbers
    <3> HIDE DEF a, t
    <3> QED
      BY <1>1, <2>1, <3>1, BudgetIsANumber
  <2>3. CASE ~TerminalFirst
    <3>1. TerminalSlots = Minus(maxTargets, a)
      BY <2>3 DEF TerminalSlots
    <3> HIDE DEF a, t
    <3> QED
      BY <1>1, <2>1, <3>1, BudgetIsANumber DEF Minus
  <2> QED
    BY <2>2, <2>3
<1>4. Cardinality(ActivePage.window \cup TerminalPage.window) \in Nat
  BY PagesAreBounded, FS_Union, FS_CardinalityType
<1> HIDE DEF a, t
<1> QED
  BY <1>1, <1>2, <1>3, <1>4, BudgetIsANumber

\* Active work that leads has a slot; with room for two, terminal work too.
LEMMA BothListsHaveSlots ==
  ASSUME TypeOK, ~TerminalFirst
  PROVE  /\ active # {} => ActiveSlots # 0
         /\ (terminal # {} /\ maxTargets > 1) => TerminalPage.window # {}
<1>1. /\ IsFiniteSet(terminal) /\ Cardinality(terminal) \in Nat
      /\ terminal # {} => Cardinality(terminal) # 0
  BY SlotsAreNumbers, FS_CardinalityType, FS_EmptySet
<1>2. maxTargets \in Nat \ {0} /\ maxTargets \div 5 \in Nat
  BY BudgetIsANumber
<1>3. ActiveSlots = IF active # {} THEN AtLeast(Minus(maxTargets, Reserved), 1) ELSE 0
  BY DEF ActiveSlots
<1>4. Reserved \in Nat /\ (terminal # {} => Reserved >= 1)
  BY <1>1, <1>2 DEF Reserved, AtMost, AtLeast
<1>5. active # {} => ActiveSlots # 0
  BY <1>2, <1>3, <1>4 DEF AtLeast, Minus
<1>6. (terminal # {} /\ maxTargets > 1) => TerminalPage.window # {}
  <2> SUFFICES ASSUME terminal # {}, maxTargets > 1 PROVE TerminalPage.window # {}
    OBVIOUS
  <2>1. ActiveSlots \in Nat /\ ActiveSlots < maxTargets
    BY <1>2, <1>3, <1>4 DEF AtLeast, Minus
  <2>2. Cardinality(ActivePage.window) \in Nat /\ Cardinality(ActivePage.window) <= ActiveSlots
    BY PagesAreBounded, FS_CardinalityType
  <2>3. TerminalSlots = Minus(maxTargets, Cardinality(ActivePage.window))
    BY DEF TerminalSlots
  <2>4. TerminalSlots \in Nat /\ TerminalSlots # 0
    BY <1>2, <2>1, <2>2, <2>3 DEF Minus
  <2> QED
    BY <2>4, SlotsAreNumbers, PagesFollowEachOther DEF TerminalPage
<1> QED
  BY <1>5, <1>6

\* What a sweep has not read yet is ahead of its offset: targets that appear
\* only move the others away from the beginning.  With room for two, terminal
\* work never has to lead.
SweepIsAhead ==
  maxTargets > 1 =>
    /\ cursor.terminal_due = FALSE
    /\ \A t \in owed : Index(t, active) >= cursor.active_offset

IInv == TypeOK /\ BudgetIsKept /\ QuietSweepsAreComplete /\ SweepIsAhead

LEMMA CollectIsAhead ==
  ASSUME TypeOK, SweepIsAhead, Collect
  PROVE  QuietSweepsAreComplete' /\ SweepIsAhead'
<1> SUFFICES ASSUME maxTargets > 1 PROVE QuietSweepsAreComplete' /\ SweepIsAhead'
  BY DEF Collect, QuietSweepsAreComplete, SweepIsAhead
<1>1. ~TerminalFirst
  BY DEF SweepIsAhead, TerminalFirst
<1>2. cursor'.terminal_due = FALSE
  <2>1. TerminalDue = FALSE
    BY <1>1, BothListsHaveSlots DEF TerminalDue
  <2> QED
    BY <2>1 DEF Collect
<1>3. cursor'.active_offset = ActivePage.next /\ done' = ActivePage.done /\ active' = active
  BY DEF Collect
<1>4. ASSUME NEW t \in owed' PROVE ~ActivePage.done /\ Index(t, active) >= ActivePage.next
  <2>1. t \in active \ ActivePage.window /\ (cursor.active_offset # 0 => t \in owed)
    BY <1>4 DEF Collect, TypeOK
  <2>2. /\ active \in SUBSET Nat /\ IsFiniteSet(active) /\ active # {}
        /\ cursor.active_offset \in Nat /\ ActiveSlots \in Nat /\ ActiveSlots # 0
    BY <1>1, <2>1, SlotsAreNumbers, BudgetIsANumber, BothListsHaveSlots
  <2>3. Index(t, active) >= cursor.active_offset
    <3>1. {u \in active : u < t} \in SUBSET active
      OBVIOUS
    <3>2. Index(t, active) \in Nat
      BY <2>2, <3>1, FS_Subset, FS_CardinalityType DEF Index
    <3> QED
      BY <2>1, <2>2, <3>2 DEF SweepIsAhead
  <2> QED
    BY <2>1, <2>2, <2>3, PagesFollowEachOther DEF ActivePage
<1>5. QuietSweepsAreComplete'
  BY <1>3, <1>4 DEF QuietSweepsAreComplete
<1>6. SweepIsAhead'
  BY <1>2, <1>3, <1>4 DEF SweepIsAhead, Index
<1> QED
  BY <1>5, <1>6

\* A target that appears moves no other one towards the beginning.
LEMMA StartIsAhead ==
  ASSUME TypeOK, QuietSweepsAreComplete, SweepIsAhead, NEW t \in Targets, Start(t)
  PROVE  QuietSweepsAreComplete' /\ SweepIsAhead'
<1>1. active \in SUBSET Nat /\ IsFiniteSet(active) /\ IsFiniteSet(active \cup {t})
  BY SlotsAreNumbers, FS_AddElement
<1>2. ASSUME NEW u \in active PROVE Index(u, active) <= Index(u, active \cup {t})
  <2>1. {v \in active : v < u} \in SUBSET {v \in active \cup {t} : v < u}
    OBVIOUS
  <2>2. IsFiniteSet({v \in active \cup {t} : v < u})
    <3>1. {v \in active \cup {t} : v < u} \in SUBSET (active \cup {t})
      OBVIOUS
    <3> QED
      BY <1>1, <3>1, FS_Subset
  <2> QED
    BY <2>1, <2>2, FS_Subset DEF Index
<1>3. ASSUME NEW u \in active PROVE Index(u, active) \in Nat /\ Index(u, active \cup {t}) \in Nat
  <2>1. /\ {v \in active : v < u} \in SUBSET active
        /\ {v \in active \cup {t} : v < u} \in SUBSET (active \cup {t})
    OBVIOUS
  <2> QED
    BY <1>1, <2>1, FS_Subset, FS_CardinalityType DEF Index
<1>4. \A u \in owed : u \in active
  BY DEF TypeOK
<1>5. cursor.active_offset \in Nat
  BY SlotsAreNumbers
<1>6. /\ active' = active \cup {t} /\ owed' = owed /\ cursor' = cursor
      /\ maxTargets' = maxTargets /\ done' = done
  BY DEF Start
<1>7. \A u \in owed' : Index(u, active)' = Index(u, active \cup {t})
  BY <1>6 DEF Index
<1>8. SweepIsAhead'
  <2> SUFFICES ASSUME maxTargets' > 1, NEW u \in owed'
               PROVE  cursor'.terminal_due = FALSE /\ Index(u, active)' >= cursor'.active_offset
    BY <1>6 DEF SweepIsAhead
  <2>1. maxTargets > 1 /\ u \in owed /\ u \in active
    BY <1>4, <1>6
  <2>2. cursor.terminal_due = FALSE /\ Index(u, active) >= cursor.active_offset
    BY <2>1 DEF SweepIsAhead
  <2>3. Index(u, active \cup {t}) >= cursor.active_offset
    BY <1>2, <1>3, <1>5, <2>1, <2>2
  <2>4. cursor'.terminal_due = FALSE /\ cursor'.active_offset = cursor.active_offset
    BY <1>6, <2>2
  <2> QED
    BY <1>7, <2>3, <2>4
<1> QED
  BY <1>6, <1>8 DEF QuietSweepsAreComplete

\* A target that finishes excuses the sweep.
LEMMA FinishIsAhead ==
  ASSUME QuietSweepsAreComplete, SweepIsAhead, NEW t \in Targets, Finish(t)
  PROVE  QuietSweepsAreComplete' /\ SweepIsAhead'
BY DEF Finish, QuietSweepsAreComplete, SweepIsAhead

LEMMA InitIInv == Init => IInv
<1>1. Cardinality(Targets) \in Nat /\ Cardinality({}) = 0
  BY TargetsAssumption, FS_CardinalityType, FS_EmptySet
<1> QED
  BY <1>1, BudgetsAssumption DEF Init, IInv, TypeOK, BudgetIsKept, QuietSweepsAreComplete, SweepIsAhead

LEMMA CollectIInv == IInv /\ Collect => IInv'
<1> SUFFICES ASSUME IInv, Collect PROVE IInv'
  OBVIOUS
<1> USE DEF IInv
<1>1. BudgetIsKept'
  BY PagesFitTheBudget DEF Collect, BudgetIsKept
<1>2. /\ Cardinality(active) \in Nat /\ Cardinality(active) <= Cardinality(Targets)
      /\ Cardinality(terminal) \in Nat /\ Cardinality(terminal) <= Cardinality(Targets)
      /\ Cardinality(Targets) \in Nat
  BY TargetsAssumption, FS_Subset, FS_CardinalityType DEF TypeOK
<1>3. /\ ActivePage.next \in 0..Cardinality(Targets)
      /\ TerminalPage.next \in 0..Cardinality(Targets)
  BY <1>2, PagesAreBounded
<1>4. cursor' \in [active_offset : 0..Cardinality(Targets),
                   terminal_offset : 0..Cardinality(Targets),
                   terminal_due : BOOLEAN]
  <2>1. TerminalDue \in BOOLEAN
    BY DEF TerminalDue
  <2> QED
    BY <1>3, <2>1 DEF Collect
<1>5. observed' \subseteq Targets /\ done' \in BOOLEAN /\ owed' \subseteq active'
  BY PagesAreBounded DEF Collect, TypeOK
<1>6. active' \subseteq Targets /\ terminal' \subseteq Targets /\ maxTargets' \in Budgets
  BY DEF Collect, TypeOK
<1> QED
  BY <1>1, <1>4, <1>5, <1>6, CollectIsAhead DEF TypeOK

LEMMA NextIInv == IInv /\ [Next]_vars => IInv'
<1> SUFFICES ASSUME IInv, [Next]_vars PROVE IInv'
  OBVIOUS
<1>1. CASE Collect
  BY <1>1, CollectIInv
<1>2. ASSUME NEW t \in Targets, Start(t) PROVE IInv'
  BY <1>2, StartIsAhead DEF Start, IInv, TypeOK, BudgetIsKept
<1>3. ASSUME NEW t \in Targets, Finish(t) PROVE IInv'
  BY <1>3, FinishIsAhead DEF Finish, IInv, TypeOK, BudgetIsKept
<1>4. CASE UNCHANGED vars
  BY <1>4 DEF vars, IInv, TypeOK, BudgetIsKept, QuietSweepsAreComplete, SweepIsAhead, Index
<1> QED
  BY <1>1, <1>2, <1>3, <1>4 DEF Next

\* However many targets there are and whatever the budget, a cycle reads no more
\* of them than the budget (_select).
THEOREM CyclesKeepTheBudget == Spec => []BudgetIsKept
<1>1. IInv => BudgetIsKept
  BY DEF IInv
<1> QED
  BY <1>1, InitIInv, NextIInv, PTL DEF Spec

\* The offsets that _page stores stay within the number of targets there can be.
THEOREM OffsetsStayInside == Spec => []TypeOK
<1>1. IInv => TypeOK
  BY DEF IInv
<1> QED
  BY <1>1, InitIInv, NextIInv, PTL DEF Spec

\* A cycle that ends a sweep of the active list, and so lets the source wait,
\* has read all that was active since the sweep began (_page, _select).
THEOREM SweepsAreComplete == Spec => []QuietSweepsAreComplete
<1>1. IInv => QuietSweepsAreComplete
  BY DEF IInv
<1> QED
  BY <1>1, InitIInv, NextIInv, PTL DEF Spec

\* A cycle with active work reads some of it, unless terminal work was due.
THEOREM CyclesReadActiveWork == Spec => ActiveWorkIsRead
<1>1. TypeOK =>
        [Collect /\ active # {} /\ ~TerminalFirst => observed' \cap active # {}]_vars
  <2> SUFFICES ASSUME TypeOK, Collect, active # {}, ~TerminalFirst
               PROVE  observed' \cap active # {}
    OBVIOUS
  <2>1. /\ active \in SUBSET Nat /\ IsFiniteSet(active)
        /\ cursor.active_offset \in Nat /\ ActiveSlots \in Nat /\ ActiveSlots # 0
    BY SlotsAreNumbers, BudgetIsANumber, BothListsHaveSlots
  <2>2. ActivePage.window # {}
    BY <2>1, PagesFollowEachOther DEF ActivePage
  <2> QED
    BY <2>2, PagesAreBounded DEF Collect
<1> QED
  BY <1>1, OffsetsStayInside, PTL DEF ActiveWorkIsRead

-----------------------------------------------------------------------------
(* A batch is a cycle between its read and its commit. *)
BatchTyped == batch = NoBatch \/ batch \in [read : SUBSET Of(Visible), cursor : CursorType]

(* No change is open for longer than it may be, and no stamp is of a time   *)
(* to come; the watermark is the stamp of a row.                            *)
ChangesAreYoung == \A j \in Jobs : open[j] # 0 => open[j] <= now /\ now <= open[j] + Lateness
StampsArePast ==
  /\ \A j \in Jobs : updated[j] <= now
  /\ feedCursor.updatedAfter <= now
  /\ IsRunning => batch.cursor.updatedAfter <= now

(* There is no watermark before the incremental phase. *)
BackfillIsFirst ==
  /\ feedCursor.phase = "backfill" => feedCursor.updatedAfter = 0
  /\ IsRunning /\ batch.cursor.phase = "backfill" => batch.cursor.updatedAfter = 0

(* With an overlap that covers late commits: what is missing, and not about *)
(* to be stored, is not behind the place that a page starts from next.      *)
NotBehind(lacking, at) ==
  \A j \in Visible : <<j, "row">> \in lacking => updated[j] >= at.updatedAfter - setting.overlap
NothingIsBehind ==
  setting.overlap > 0 /\ Lateness <= setting.overlap =>
    /\ NotBehind(missing, feedCursor)
    /\ IsRunning => NotBehind(missing \ batch.read, batch.cursor)

FeedIInv ==
  /\ FeedTypeOK /\ BatchTyped /\ ChangesAreYoung /\ StampsArePast /\ BackfillIsFirst /\ NothingIsBehind

-----------------------------------------------------------------------------
(* The assumptions on the constants, one by one. *)
LEMMA FeedConstants ==
  /\ MaxJob \in Nat \ {0} /\ MaxTime \in Nat \ {0} /\ Lateness \in Nat /\ Recent \in Nat
  /\ Jobs = 1 .. MaxJob
  /\ \A s \in Settings : s.batchSize \in Nat \ {0} /\ s.overlap \in Nat
BY FeedAssumption DEF Jobs

(* A set of numbers has a least element. *)
LEMMA Smallest ==
  ASSUME NEW S \in SUBSET Nat, S # {}
  PROVE  \E m \in S : \A y \in S : m <= y
<1> DEFINE R == OpToRel(<, Nat)
<1>1. IsWellFoundedOn(R, Nat)
  BY NatLessThanWellFounded
<1>2. \A x, y \in Nat : y < x => <<y, x>> \in R
  BY DEF OpToRel
<1> HIDE DEF R
<1>3. PICK m \in S : \A y \in S : <<y, m>> \notin R
  BY <1>1, WFMin
<1>4. \A y \in S : ~(y < m)
  BY <1>2, <1>3
<1>. QED
  BY <1>3, <1>4

(* Of what has bounded keys, something has the greatest one. *)
LEMMA GreatestKey ==
  ASSUME NEW S, S # {}, NEW n \in Nat, NEW key, \A j \in S : key[j] \in 0 .. n
  PROVE  \E j \in S : \A k \in S : key[k] <= key[j]
<1> DEFINE T == {n - key[j] : j \in S}
<1>1. T \in SUBSET Nat /\ T # {}
  <2>1. \A i \in 0 .. n : n - i \in Nat
    OBVIOUS
  <2>. QED
    BY <2>1
<1>2. PICK m \in T : \A y \in T : m <= y
  <2> HIDE DEF T
  <2>. QED
    BY <1>1, Smallest
<1>3. PICK j \in S : m = n - key[j]
  OBVIOUS
<1>4. ASSUME NEW k \in S PROVE key[k] <= key[j]
  <2>1. n - key[j] <= n - key[k]
    BY <1>2, <1>3
  <2>. QED
    BY <2>1
<1>. QED
  BY <1>4

(* The last job of a set is in it. *)
LEMMA LastIsJob ==
  ASSUME NEW S \in SUBSET (0 .. MaxJob), S # {}
  PROVE  Max(S) \in S
<1> DEFINE id == [j \in S |-> j]
<1>1. MaxJob \in Nat
  BY FeedConstants
<1>2. \A j \in S : id[j] \in 0 .. MaxJob
  OBVIOUS
<1>3. PICK j \in S : \A k \in S : id[k] <= id[j]
  <2> HIDE DEF id
  <2>. QED
    BY <1>1, <1>2, GreatestKey
<1>4. \A k \in S : j >= k
  BY <1>3
<1>. QED
  BY <1>4 DEF Max

(* A page has the first of a set: what it leaves out has a key that is no   *)
(* smaller than any key in it.  A full page is not empty.                   *)
LEMMA PagesAreFirst ==
  ASSUME setting \in Settings, NEW S \in SUBSET Jobs, NEW key, 
         \A j \in S : key[j] \in Int
  PROVE  LET page == FirstBy(S, setting.batchSize, key)
         IN  /\ page \in SUBSET S
             /\ \A j \in S \ page, k \in page : key[k] <= key[j]
             /\ IsFull(page) => page # {}
<1> DEFINE page == FirstBy(S, setting.batchSize, key)
           below(j) == {k \in S : key[k] < key[j]}
<1>1. setting.batchSize \in Nat \ {0} /\ MaxJob \in Nat
  BY FeedConstants
<1>2. page = {j \in S : Cardinality(below(j)) < setting.batchSize}
  BY DEF FirstBy
<1>3. \A j \in S : IsFiniteSet(below(j)) /\ Cardinality(below(j)) \in Nat
  <2> SUFFICES ASSUME NEW j \in S PROVE IsFiniteSet(below(j)) /\ Cardinality(below(j)) \in Nat
    OBVIOUS
  <2>1. IsFiniteSet(1 .. MaxJob)
    BY <1>1, FS_Interval
  <2>2. below(j) \in SUBSET (1 .. MaxJob)
    BY FeedConstants
  <2> HIDE DEF below
  <2>. QED
    BY <2>1, <2>2, FS_Subset, FS_CardinalityType
<1>4. ASSUME NEW j \in S \ page, NEW k \in page PROVE key[k] <= key[j]
  <2> SUFFICES ASSUME key[j] < key[k] PROVE FALSE
    BY <1>2, <1>4
  <2>1. j \in S /\ k \in S /\ key[j] \in Int /\ key[k] \in Int
    BY <1>2
  <2>2. below(j) \in SUBSET below(k)
    BY <2>1
  <2>3. Cardinality(below(j)) <= Cardinality(below(k))
    <3> HIDE DEF below
    <3>. QED
      BY <1>3, <2>1, <2>2, FS_Subset
  <2>4. Cardinality(below(k)) < setting.batchSize /\ ~(Cardinality(below(j)) < setting.batchSize)
    BY <1>2, <2>1
  <2> HIDE DEF below
  <2>. QED
    BY <1>1, <1>3, <2>1, <2>3, <2>4
<1>5. IsFull(page) => page # {}
  <2> HIDE DEF page
  <2>. QED
    BY <1>1, FS_EmptySet DEF IsFull
<1>. QED
  BY <1>2, <1>4, <1>5

(* The order by stamp and id is, first of all, an order by stamp. *)
LEMMA ByStampIsByTime ==
  ASSUME updated \in [Jobs -> 0 .. MaxTime],
         NEW j \in Jobs, NEW k \in Jobs, ByStamp[k] <= ByStamp[j]
  PROVE  updated[k] <= updated[j]
<1> SUFFICES ASSUME updated[j] < updated[k] PROVE FALSE
  BY FeedConstants
<1>1. MaxJob \in Nat \ {0} /\ MaxTime \in Nat \ {0} /\ j \in 1 .. MaxJob /\ k \in 1 .. MaxJob
  BY FeedConstants
<1>2. updated[j] \in Nat /\ updated[k] \in Nat
  BY <1>1
<1>3. PICK more \in Nat : updated[k] = updated[j] + 1 + more
  <2>1. updated[k] - updated[j] - 1 \in Nat
    BY <1>2
  <2>. QED
    BY <1>2, <2>1
<1>4. more * (MaxJob + 1) \in Nat /\ updated[j] * (MaxJob + 1) \in Nat
  BY <1>1, <1>2
<1>5. updated[k] * (MaxJob + 1) = updated[j] * (MaxJob + 1) + (MaxJob + 1) + more * (MaxJob + 1)
  BY <1>1, <1>2, <1>3
<1>6. updated[k] * (MaxJob + 1) + k <= updated[j] * (MaxJob + 1) + j
  BY DEF ByStamp
<1> DEFINE early == updated[j] * (MaxJob + 1)
           late == updated[k] * (MaxJob + 1)
           rest == more * (MaxJob + 1)
<1>7. early \in Nat /\ rest \in Nat /\ late = early + (MaxJob + 1) + rest /\ late + k <= early + j
  BY <1>4, <1>5, <1>6
<1> HIDE DEF early, late, rest
<1>. QED
  BY <1>1, <1>7

(* Every key of the order by stamp is a number below one bound. *)
LEMMA ByStampIsBounded ==
  ASSUME updated \in [Jobs -> 0 .. MaxTime]
  PROVE  \E n \in Nat : \A j \in Jobs : ByStamp[j] \in 0 .. n
<1>1. MaxJob \in Nat \ {0} /\ MaxTime \in Nat \ {0} /\ Jobs = 1 .. MaxJob
  BY FeedConstants
<1> DEFINE most == MaxTime * (MaxJob + 1)
<1>2. most \in Nat
  BY <1>1
<1>3. ASSUME NEW j \in Jobs PROVE ByStamp[j] \in 0 .. most + MaxJob
  <2>1. updated[j] \in Nat /\ MaxTime - updated[j] \in Nat /\ j \in 1 .. MaxJob
    BY <1>1
  <2>2. (MaxTime - updated[j]) * (MaxJob + 1) \in Nat /\ updated[j] * (MaxJob + 1) \in Nat
    BY <1>1, <2>1
  <2>3. most = updated[j] * (MaxJob + 1) + (MaxTime - updated[j]) * (MaxJob + 1)
    BY <1>1, <2>1
  <2> DEFINE stamp == updated[j] * (MaxJob + 1)
             rest == (MaxTime - updated[j]) * (MaxJob + 1)
  <2>4. stamp \in Nat /\ rest \in Nat /\ most = stamp + rest /\ ByStamp[j] = stamp + j
    BY <1>1, <2>2, <2>3 DEF ByStamp
  <2> HIDE DEF stamp, rest, most
  <2>. QED
    BY <1>1, <1>2, <2>1, <2>4
<1> HIDE DEF most
<1>4. most + MaxJob \in Nat
  BY <1>1, <1>2
<1>. QED
  BY <1>3, <1>4

(* The last row of a page is in it, and no row of the page is younger. *)
LEMMA LastOfPage ==
  ASSUME updated \in [Jobs -> 0 .. MaxTime],
         NEW page \in SUBSET Jobs, page # {}
  PROVE  LET last == LastBy(page, ByStamp)
         IN  last \in page /\ \A k \in page : ByStamp[k] <= ByStamp[last]
<1>1. PICK n \in Nat : \A j \in Jobs : ByStamp[j] \in 0 .. n
  BY ByStampIsBounded
<1>2. PICK key : key = ByStamp
  OBVIOUS
<1>3. \A j \in page : key[j] \in 0 .. n
  BY <1>1, <1>2
<1>4. \E j \in page : \A k \in page : key[k] <= key[j]
  BY <1>3, GreatestKey
<1>. QED
  BY <1>2, <1>4 DEF LastBy

(* What the backfill reads is of rows, and its cursor is one. *)
LEMMA BackfillIsTyped ==
  ASSUME FeedTypeOK, feedCursor.phase = "backfill"
  PROVE  /\ Backfill.read \in SUBSET Of(Visible)
         /\ Backfill.cursor \in CursorType
         /\ Backfill.cursor.updatedAfter = feedCursor.updatedAfter
<1>1. /\ MaxJob \in Nat \ {0} /\ MaxTime \in Nat \ {0} /\ Jobs = 1 .. MaxJob
      /\ setting \in Settings /\ feedCursor \in CursorType
      /\ Visible \in SUBSET Jobs
  BY FeedConstants DEF FeedTypeOK, Visible
<1>2. PICK ceiling : ceiling = IF feedCursor.ceiling = -1 THEN Max(Visible \cup {0}) ELSE feedCursor.ceiling
  OBVIOUS
<1>3. ceiling \in -1 .. MaxJob
  <2>1. PICK all : all = Visible \cup {0}
    OBVIOUS
  <2>2. all \in SUBSET (0 .. MaxJob) /\ all # {}
    BY <1>1, <2>1
  <2>3. Max(all) \in 0 .. MaxJob
    BY <2>2, LastIsJob
  <2>4. feedCursor.ceiling \in -1 .. MaxJob
    BY <1>1 DEF CursorType
  <2>. QED
    BY <1>1, <1>2, <2>1, <2>3, <2>4
<1>4. PICK rows : rows = {j \in Visible : feedCursor.idAfter < j /\ j <= ceiling}
  OBVIOUS
<1>5. PICK key : key = Ascending
  OBVIOUS
<1>6. rows \in SUBSET Jobs /\ \A j \in rows : key[j] \in Int
  <2>1. \A j \in Jobs : key[j] = j /\ j \in Int
    BY <1>1, <1>5 DEF Ascending
  <2>. QED
    BY <1>1, <1>4, <2>1
<1>7. PICK page : page = FirstBy(rows, setting.batchSize, key)
  OBVIOUS
<1>8. page \in SUBSET rows /\ (IsFull(page) => page # {})
  BY <1>1, <1>6, <1>7, PagesAreFirst
<1>9. BackfillPage(feedCursor.idAfter, ceiling) = page
  BY <1>4, <1>5, <1>7 DEF BackfillPage
<1>10. PICK id : id = IF ~IsFull(page) THEN 0 ELSE Max(page)
  OBVIOUS
<1>11. id \in 0 .. MaxJob
  <2>1. CASE IsFull(page)
    <3>1. page # {} /\ page \in SUBSET (0 .. MaxJob)
      BY <1>1, <1>6, <1>8, <2>1
    <3>2. Max(page) \in page
      BY <3>1, LastIsJob
    <3>. QED
      BY <1>10, <2>1, <3>1, <3>2
  <2>2. CASE ~IsFull(page)
    BY <1>1, <1>10, <2>2
  <2>. QED
    BY <2>1, <2>2
<1>12. PICK phase : phase = IF IsFull(page) THEN "backfill" ELSE "incremental"
  OBVIOUS
<1>13. Backfill = [read |-> Of(page),
         cursor |-> [feedCursor EXCEPT !.ceiling = ceiling, !.idAfter = id, !.phase = phase]]
  BY ONLY <1>2, <1>9, <1>10, <1>12, Zenon DEF Backfill
<1>14. [feedCursor EXCEPT !.ceiling = ceiling, !.idAfter = id, !.phase = phase] \in CursorType
  BY <1>1, <1>3, <1>11, <1>12 DEF CursorType
<1>15. [feedCursor EXCEPT !.ceiling = ceiling, !.idAfter = id, !.phase = phase].updatedAfter = feedCursor.updatedAfter
  BY <1>1 DEF CursorType
<1>16. Of(page) \in SUBSET Of(Visible)
  BY <1>4, <1>8 DEF Of
<1>. QED
  BY <1>13, <1>14, <1>15, <1>16

(* What the incremental phase reads is of rows, and its cursor is one.  The *)
(* watermark moves to the stamp of a row; with an overlap that covers late  *)
(* commits, a row that is missing from Rainstone and from the page is not   *)
(* older than it.                                                           *)
LEMMA IncrementalIsTyped ==
  ASSUME FeedTypeOK, StampsArePast
  PROVE  /\ Incremental.read \in SUBSET Of(Visible)
         /\ Incremental.cursor \in CursorType
         /\ Incremental.cursor.phase = feedCursor.phase
         /\ Incremental.cursor.updatedAfter <= now
         /\ setting.overlap > 0 /\ NotBehind(missing, feedCursor) =>
              NotBehind(missing \ Incremental.read, Incremental.cursor)
<1>1. /\ MaxJob \in Nat \ {0} /\ MaxTime \in Nat \ {0} /\ Jobs = 1 .. MaxJob
      /\ setting \in Settings /\ setting.overlap \in Nat /\ feedCursor \in CursorType
      /\ Visible \in SUBSET Jobs /\ updated \in [Jobs -> 0 .. MaxTime]
      /\ now \in 1 .. MaxTime
  BY FeedConstants DEF FeedTypeOK, Visible
<1>2. PICK from : from = ReplayFrom
  OBVIOUS
<1>3. PICK rows : rows = {j \in Visible : updated[j] > from.stamp \/ (updated[j] = from.stamp /\ j > from.id)}
  OBVIOUS
<1>4. PICK key : key = ByStamp
  OBVIOUS
<1>5. rows \in SUBSET Jobs /\ \A j \in rows : key[j] \in Int
  <2>1. PICK n \in Nat : \A j \in Jobs : ByStamp[j] \in 0 .. n
    BY <1>1, ByStampIsBounded
  <2>2. rows \in SUBSET Jobs
    BY <1>1, <1>3
  <2>3. \A j \in Jobs : key[j] \in Int
    BY <1>4, <2>1
  <2> HIDE <1>3, <1>4
  <2>. QED
    BY <2>2, <2>3
<1>6. PICK page : page = FirstBy(rows, setting.batchSize, key)
  OBVIOUS
<1>7. /\ page \in SUBSET rows
      /\ \A j \in rows \ page, k \in page : key[k] <= key[j]
      /\ IsFull(page) => page # {}
  BY <1>1, <1>5, <1>6, PagesAreFirst
<1>8. IncrementalPage(from.stamp, from.id) = page
  BY <1>3, <1>4, <1>6 DEF IncrementalPage
<1>9. PICK sweep : sweep = SweepPage(feedCursor.sweepAfter)
  OBVIOUS
<1>10. sweep \in SUBSET Visible /\ (IsFull(sweep) => sweep # {})
  <2>1. PICK later : later = {j \in Visible : j > feedCursor.sweepAfter}
    OBVIOUS
  <2>2. PICK id : id = Ascending
    OBVIOUS
  <2>3. later \in SUBSET Jobs /\ \A j \in later : id[j] \in Int
    <3>1. \A j \in Jobs : id[j] = j /\ j \in Int
      BY <1>1, <2>2 DEF Ascending
    <3>. QED
      BY <1>1, <2>1, <3>1
  <2>4. sweep = FirstBy(later, setting.batchSize, id)
    BY <1>9, <2>1, <2>2 DEF SweepPage
  <2>. QED
    BY <1>1, <2>1, <2>3, <2>4, PagesAreFirst
<1>11. PICK next : next = NextSweep(sweep)
  OBVIOUS
<1>12. next \in 0 .. MaxJob
  <2>1. CASE IsFull(sweep)
    <3>1. sweep # {} /\ sweep \in SUBSET (0 .. MaxJob)
      BY <1>1, <1>10, <2>1
    <3>2. Max(sweep) \in sweep
      BY <3>1, LastIsJob
    <3>. QED
      BY <1>11, <2>1, <3>1, <3>2 DEF NextSweep
  <2>2. CASE ~IsFull(sweep)
    BY <1>1, <1>11, <2>2 DEF NextSweep
  <2>. QED
    BY <2>1, <2>2
<1>13. PICK reconciled : reconciled = IF IsFull(page) THEN {} ELSE Nonterminal \cup RecentlyTerminal \cup sweep
  OBVIOUS
<1>14. reconciled \in SUBSET Visible
  BY <1>10, <1>13 DEF Nonterminal, RecentlyTerminal, FirstBy
<1>15. PICK last : last = LastBy(page, ByStamp)
  OBVIOUS
<1>16. page # {} => last \in page /\ \A k \in page : key[k] <= key[last]
  BY <1>1, <1>4, <1>5, <1>7, <1>15, LastOfPage
<1>17. PICK after : after = IF IsFull(page) THEN feedCursor.sweepAfter ELSE next
  OBVIOUS
<1>18. PICK mark : mark = IF page = {} THEN feedCursor.updatedAfter ELSE updated[last]
  OBVIOUS
<1>19. PICK id : id = IF page = {} THEN feedCursor.idAfter ELSE last
  OBVIOUS
<1>20. Incremental = [read |-> Of(page \cup reconciled),
         cursor |-> [feedCursor EXCEPT !.sweepAfter = after, !.updatedAfter = mark, !.idAfter = id]]
  BY ONLY <1>2, <1>8, <1>9, <1>11, <1>13, <1>15, <1>17, <1>18, <1>19, Zenon DEF Incremental
<1> DEFINE new == [feedCursor EXCEPT !.sweepAfter = after, !.updatedAfter = mark, !.idAfter = id]
<1>21. mark \in 0 .. MaxTime /\ mark <= now /\ id \in 0 .. MaxJob /\ after \in 0 .. MaxJob
  <2>1. last \in page => updated[last] \in 0 .. MaxTime /\ updated[last] <= now /\ last \in 0 .. MaxJob
    BY <1>1, <1>5, <1>7 DEF StampsArePast
  <2>2. /\ feedCursor.updatedAfter \in 0 .. MaxTime /\ feedCursor.idAfter \in 0 .. MaxJob
        /\ feedCursor.sweepAfter \in 0 .. MaxJob /\ feedCursor.updatedAfter <= now
    BY <1>1 DEF StampsArePast, CursorType
  <2>. QED
    BY <1>12, <1>16, <1>17, <1>18, <1>19, <2>1, <2>2
<1>22. /\ new \in CursorType /\ new.phase = feedCursor.phase /\ new.updatedAfter = mark
  BY <1>1, <1>21 DEF CursorType
<1>23. Of(page \cup reconciled) \in SUBSET Of(Visible)
  BY <1>3, <1>7, <1>14 DEF Of
<1>24. ASSUME setting.overlap > 0, NotBehind(missing, feedCursor)
       PROVE  NotBehind(missing \ Of(page \cup reconciled), new)
  <2> SUFFICES ASSUME NEW j \in Visible, <<j, "row">> \in missing,
                      <<j, "row">> \notin Of(page \cup reconciled)
               PROVE  updated[j] >= mark - setting.overlap
    BY <1>22 DEF NotBehind
  <2>1. j \notin page
    BY DEF Of, Kinds
  <2>2. updated[j] >= feedCursor.updatedAfter - setting.overlap
    BY <1>24 DEF NotBehind
  <2>3. from.stamp = feedCursor.updatedAfter - setting.overlap /\ from.id = 0
    BY <1>1, <1>2, <1>24 DEF ReplayFrom
  <2>4. /\ updated[j] \in Nat /\ j \in 1 .. MaxJob
        /\ feedCursor.updatedAfter \in 0 .. MaxTime
    BY <1>1 DEF CursorType
  <2>5. j \in rows
    BY <1>1, <1>3, <2>2, <2>3, <2>4
  <2>6. CASE page = {}
    BY <1>18, <2>2, <2>6
  <2>7. CASE page # {}
    <3>1. last \in Jobs /\ j \in Jobs /\ ByStamp[last] <= ByStamp[j]
      BY <1>4, <1>5, <1>7, <1>16, <2>1, <2>5, <2>7
    <3>2. updated[last] <= updated[j]
      BY <1>1, <3>1, ByStampIsByTime
    <3>3. updated[last] \in 0 .. MaxTime
      BY <1>1, <3>1
    <3>4. mark = updated[last] /\ setting.overlap \in Nat
      BY <1>1, <1>18, <2>7
    <3>. QED
      BY ONLY <2>4, <3>2, <3>3, <3>4
  <2>. QED
    BY <2>6, <2>7
<1>25. Incremental.read = Of(page \cup reconciled) /\ Incremental.cursor = new
  BY <1>20
<1> HIDE DEF new
<1>. QED
  BY <1>21, <1>22, <1>23, <1>24, <1>25

(* How the clock and Galaxy disturb the invariant. *)
LEMMA TickKeepsFeed ==
  ASSUME FeedIInv, Tick PROVE FeedIInv'
<1>1. /\ MaxTime \in Nat \ {0} /\ Lateness \in Nat /\ now \in 1 .. MaxTime /\ now' = now + 1 /\ now < MaxTime
      /\ \A j \in Jobs : open[j] # 0 => now < open[j] + Lateness
      /\ open \in [Jobs -> 0 .. MaxTime] /\ updated \in [Jobs -> 0 .. MaxTime]
      /\ feedCursor \in CursorType
      /\ setting' = setting /\ updated' = updated /\ terminalJobs' = terminalJobs /\ open' = open
      /\ missing' = missing /\ feedCursor' = feedCursor /\ batch' = batch
  BY FeedConstants DEF FeedIInv, FeedTypeOK, Tick
<1>2. FeedTypeOK' /\ BatchTyped' /\ BackfillIsFirst' /\ NothingIsBehind'
  BY <1>1 DEF FeedIInv, FeedTypeOK, BatchTyped, BackfillIsFirst, NothingIsBehind, NotBehind,
              Visible, IsRunning
<1>3. ChangesAreYoung'
  <2> SUFFICES ASSUME NEW j \in Jobs, open[j] # 0 PROVE open[j] <= now + 1 /\ now + 1 <= open[j] + Lateness
    BY <1>1 DEF ChangesAreYoung
  <2>1. open[j] \in 0 .. MaxTime /\ open[j] <= now /\ now < open[j] + Lateness
    BY <1>1 DEF FeedIInv, ChangesAreYoung
  <2>. QED
    BY <1>1, <2>1
<1>4. StampsArePast'
  <2>1. \A j \in Jobs : updated[j] \in Int /\ updated[j] <= now
    BY <1>1 DEF FeedIInv, StampsArePast
  <2>2. feedCursor.updatedAfter \in Int /\ feedCursor.updatedAfter <= now
    BY <1>1 DEF FeedIInv, StampsArePast, CursorType
  <2>3. IsRunning => batch.cursor.updatedAfter \in Int /\ batch.cursor.updatedAfter <= now
    <3> SUFFICES ASSUME IsRunning PROVE batch.cursor.updatedAfter \in Int /\ batch.cursor.updatedAfter <= now
      OBVIOUS
    <3>1. batch.cursor \in CursorType
      BY DEF FeedIInv, FeedTypeOK
    <3>. QED
      BY <3>1 DEF FeedIInv, StampsArePast, CursorType
  <2>4. IsRunning' <=> IsRunning
    BY <1>1 DEF IsRunning
  <2>. QED
    BY <1>1, <2>1, <2>2, <2>3, <2>4 DEF StampsArePast
<1>. QED
  BY <1>2, <1>3, <1>4 DEF FeedIInv

LEMMA BeginKeepsFeed ==
  ASSUME FeedIInv, NEW i \in Jobs, BeginChange(i) PROVE FeedIInv'
<1>1. /\ MaxTime \in Nat \ {0} /\ Lateness \in Nat /\ now \in 1 .. MaxTime
      /\ open \in [Jobs -> 0 .. MaxTime] /\ open' = [open EXCEPT ![i] = now]
      /\ setting' = setting /\ now' = now /\ updated' = updated /\ terminalJobs' = terminalJobs
      /\ missing' = missing /\ feedCursor' = feedCursor /\ batch' = batch
  BY FeedConstants DEF FeedIInv, FeedTypeOK, BeginChange
<1>2. BatchTyped' /\ BackfillIsFirst' /\ NothingIsBehind' /\ StampsArePast'
  BY <1>1 DEF FeedIInv, BatchTyped, BackfillIsFirst, NothingIsBehind, NotBehind, StampsArePast,
              Visible, IsRunning
<1>3. open' \in [Jobs -> 0 .. MaxTime]
  BY <1>1
<1>4. FeedTypeOK'
  BY <1>1, <1>3 DEF FeedIInv, FeedTypeOK, Visible, IsRunning
<1>5. ChangesAreYoung'
  BY <1>1 DEF FeedIInv, ChangesAreYoung
<1>. QED
  BY <1>2, <1>4, <1>5 DEF FeedIInv

(* A change that commits now began Lateness ago at the most, and neither    *)
(* the watermark nor the one about to be committed is ahead of the clock.   *)
LEMMA CommitChangeKeepsFeed ==
  ASSUME FeedIInv, NEW i \in Jobs, NEW ends \in BOOLEAN, CommitChange(i, ends)
  PROVE  FeedIInv'
<1>1. /\ MaxTime \in Nat \ {0} /\ Lateness \in Nat /\ now \in 1 .. MaxTime
      /\ setting \in Settings /\ setting.overlap \in Nat
      /\ updated \in [Jobs -> 0 .. MaxTime] /\ open \in [Jobs -> 0 .. MaxTime]
      /\ feedCursor \in CursorType
      /\ open[i] # 0 /\ updated' = [updated EXCEPT ![i] = open[i]] /\ open' = [open EXCEPT ![i] = 0]
      /\ missing' = missing \cup {<<i, "row">>}
      /\ batch' = [batch EXCEPT !.read = @ \ {<<i, "row">>}]
      /\ setting' = setting /\ now' = now /\ feedCursor' = feedCursor
  BY FeedConstants DEF FeedIInv, FeedTypeOK, CommitChange
<1>2. open[i] \in 1 .. MaxTime /\ open[i] <= now /\ now <= open[i] + Lateness
  BY <1>1 DEF FeedIInv, ChangesAreYoung
<1>3. updated' \in [Jobs -> 0 .. MaxTime] /\ open' \in [Jobs -> 0 .. MaxTime]
  BY <1>1, <1>2
<1>4. Visible' = Visible \cup {i}
  BY <1>1, <1>2 DEF Visible
<1>5. Of(Visible) \in SUBSET Of(Visible')
  BY <1>4 DEF Of
<1>6. /\ batch'.cursor = batch.cursor /\ batch'.read = batch.read \ {<<i, "row">>}
      /\ BatchTyped'
      /\ IsRunning' <=> IsRunning
  <2>1. CASE batch = NoBatch
    <3>1. batch' = batch
      <4>1. PICK pair : pair = <<i, "row">>
        OBVIOUS
      <4>2. batch' = [batch EXCEPT !.read = @ \ {pair}]
        BY <1>1, <4>1
      <4>. QED
        BY ONLY <2>1, <4>2 DEF NoBatch
    <3>. QED
      BY <2>1, <3>1 DEF NoBatch, BatchTyped, IsRunning
  <2>2. CASE batch # NoBatch
    <3>1. batch \in [read : SUBSET Of(Visible), cursor : CursorType]
      BY <2>2 DEF FeedIInv, BatchTyped
    <3>2. batch'.cursor = batch.cursor /\ batch'.read = batch.read \ {<<i, "row">>}
      BY <1>1, <3>1
    <3>3. batch' \in [read : SUBSET Of(Visible'), cursor : CursorType]
      BY <1>1, <1>5, <3>1
    <3>4. batch'.cursor.phase # "none"
      BY <3>1, <3>2 DEF CursorType
    <3>5. batch' # NoBatch
      BY <3>4 DEF NoBatch
    <3>6. IsRunning' /\ IsRunning
      BY <2>2, <3>5 DEF IsRunning, NoBatch
    <3>7. BatchTyped'
      BY <3>3 DEF BatchTyped, CursorType, NoBatch
    <3>. QED
      BY <3>2, <3>6, <3>7
  <2>. QED
    BY <2>1, <2>2
<1>7. IsRunning => batch.read \in SUBSET Of(Visible) /\ batch.cursor \in CursorType
  BY DEF FeedIInv, FeedTypeOK
<1>8. FeedTypeOK'
  <2>1. terminalJobs' \in SUBSET Visible'
    BY <1>4 DEF FeedIInv, FeedTypeOK, CommitChange
  <2>2. missing' \in SUBSET Of(Visible')
    BY <1>1, <1>4, <1>5 DEF FeedIInv, FeedTypeOK, Of, Kinds
  <2>3. IsRunning' => batch'.read \in SUBSET Of(Visible') /\ batch'.cursor \in CursorType
    BY <1>5, <1>6, <1>7
  <2>. QED
    BY <1>1, <1>3, <2>1, <2>2, <2>3 DEF FeedTypeOK, CursorType
<1>9. ChangesAreYoung'
  BY <1>1 DEF FeedIInv, ChangesAreYoung
<1>10. StampsArePast'
  <2>1. \A j \in Jobs : updated'[j] <= now
    BY <1>1, <1>2 DEF FeedIInv, StampsArePast
  <2>. QED
    BY <1>1, <1>6, <2>1 DEF FeedIInv, StampsArePast
<1>11. BackfillIsFirst'
  BY <1>1, <1>6 DEF FeedIInv, BackfillIsFirst
<1>12. ASSUME NEW lacking, NEW at \in CursorType, at.updatedAfter <= now,
              setting.overlap > 0, Lateness <= setting.overlap,
              \A j \in Visible : <<j, "row">> \in lacking => updated[j] >= at.updatedAfter - setting.overlap,
              NEW j \in Visible', j = i \/ <<j, "row">> \in lacking
       PROVE  updated'[j] >= at.updatedAfter - setting.overlap
  <2>1. at.updatedAfter \in 0 .. MaxTime
    BY DEF CursorType
  <2>2. CASE j = i
    <3>1. updated'[j] = open[i]
      BY <1>1, <2>2
    <3>. QED
      BY <1>1, <1>2, <1>12, <2>1, <3>1
  <2>3. CASE j # i
    <3>1. updated'[j] = updated[j] /\ j \in Visible /\ <<j, "row">> \in lacking
      BY <1>1, <1>4, <1>12, <2>3
    <3>. QED
      BY <1>12, <3>1
  <2>. QED
    BY <2>2, <2>3
<1>13. NothingIsBehind'
  <2> SUFFICES ASSUME setting.overlap > 0, Lateness <= setting.overlap
               PROVE  /\ NotBehind(missing, feedCursor)'
                      /\ IsRunning => NotBehind(missing \ batch.read, batch.cursor)'
    BY <1>1, <1>6 DEF NothingIsBehind
  <2>1. NotBehind(missing, feedCursor)'
    <3> SUFFICES ASSUME NEW j \in Visible', <<j, "row">> \in missing'
                 PROVE  updated'[j] >= feedCursor.updatedAfter - setting.overlap
      BY <1>1 DEF NotBehind
    <3>1. feedCursor.updatedAfter <= now
      BY DEF FeedIInv, StampsArePast
    <3>2. \A k \in Visible : <<k, "row">> \in missing => updated[k] >= feedCursor.updatedAfter - setting.overlap
      BY DEF FeedIInv, NothingIsBehind, NotBehind
    <3>3. j = i \/ <<j, "row">> \in missing
      BY <1>1
    <3>. QED
      BY <1>1, <1>12, <3>1, <3>2, <3>3
  <2>2. ASSUME IsRunning PROVE NotBehind(missing \ batch.read, batch.cursor)'
    <3> SUFFICES ASSUME NEW j \in Visible', <<j, "row">> \in missing', <<j, "row">> \notin batch'.read
                 PROVE  updated'[j] >= batch.cursor.updatedAfter - setting.overlap
      BY <1>1, <1>6 DEF NotBehind
    <3>1. batch.cursor.updatedAfter <= now /\ batch.cursor \in CursorType
      BY <1>7, <2>2 DEF FeedIInv, StampsArePast
    <3>2. PICK lacking : lacking = missing \ batch.read
      OBVIOUS
    <3>3. \A k \in Visible : <<k, "row">> \in lacking => updated[k] >= batch.cursor.updatedAfter - setting.overlap
      BY <2>2, <3>2 DEF FeedIInv, NothingIsBehind, NotBehind
    <3>4. j = i \/ <<j, "row">> \in lacking
      BY <1>1, <1>6, <3>2
    <3>. QED
      BY <1>12, <3>1, <3>3, <3>4
  <2>. QED
    BY <2>1, <2>2
<1>. QED
  BY <1>6, <1>8, <1>9, <1>10, <1>11, <1>13 DEF FeedIInv

LEMMA DetailKeepsFeed ==
  ASSUME FeedIInv, NEW i \in Jobs, AddDetail(i) PROVE FeedIInv'
<1>1. /\ i \in Visible /\ missing' = missing \cup {<<i, "details">>}
      /\ batch' = [batch EXCEPT !.read = @ \ {<<i, "details">>}]
      /\ setting' = setting /\ now' = now /\ updated' = updated /\ terminalJobs' = terminalJobs
      /\ open' = open /\ feedCursor' = feedCursor
  BY DEF AddDetail, galaxy
<1>2. Visible' = Visible
  BY <1>1 DEF Visible
<1>3. /\ batch'.cursor = batch.cursor /\ batch'.read = batch.read \ {<<i, "details">>}
      /\ BatchTyped'
      /\ IsRunning' <=> IsRunning
  <2>1. CASE batch = NoBatch
    <3>1. batch' = batch
      BY <1>1, <2>1 DEF NoBatch
    <3>. QED
      BY <2>1, <3>1 DEF NoBatch, BatchTyped, IsRunning
  <2>2. CASE batch # NoBatch
    <3>1. batch \in [read : SUBSET Of(Visible), cursor : CursorType]
      BY <2>2 DEF FeedIInv, BatchTyped
    <3>2. batch'.cursor = batch.cursor /\ batch'.read = batch.read \ {<<i, "details">>}
      BY <1>1, <3>1
    <3>3. batch' \in [read : SUBSET Of(Visible'), cursor : CursorType]
      BY <1>1, <1>2, <3>1
    <3>4. batch'.cursor.phase # "none"
      BY <3>1, <3>2 DEF CursorType
    <3>5. batch' # NoBatch
      BY <3>4 DEF NoBatch
    <3>6. IsRunning' /\ IsRunning
      BY <2>2, <3>5 DEF IsRunning, NoBatch
    <3>7. BatchTyped'
      BY <3>3 DEF BatchTyped, CursorType, NoBatch
    <3>. QED
      BY <3>2, <3>6, <3>7
  <2>. QED
    BY <2>1, <2>2
<1>4. FeedTypeOK'
  <2>1. missing' \in SUBSET Of(Visible')
    BY <1>1, <1>2 DEF FeedIInv, FeedTypeOK, Of, Kinds
  <2>2. IsRunning' => batch'.read \in SUBSET Of(Visible') /\ batch'.cursor \in CursorType
    BY <1>2, <1>3 DEF FeedIInv, FeedTypeOK
  <2>. QED
    BY <1>1, <1>2, <2>1, <2>2 DEF FeedIInv, FeedTypeOK, CursorType
<1>5. ChangesAreYoung' /\ StampsArePast' /\ BackfillIsFirst'
  BY <1>1, <1>3 DEF FeedIInv, ChangesAreYoung, StampsArePast, BackfillIsFirst
<1>6. \A j \in Visible : <<j, "row">> \in missing' <=> <<j, "row">> \in missing
  BY <1>1
<1>7. \A j \in Visible : <<j, "row">> \in batch'.read <=> <<j, "row">> \in batch.read
  BY <1>3
<1>8. NothingIsBehind'
  <2> SUFFICES ASSUME setting.overlap > 0, Lateness <= setting.overlap
               PROVE  /\ NotBehind(missing, feedCursor)'
                      /\ IsRunning => NotBehind(missing \ batch.read, batch.cursor)'
    BY <1>1, <1>3 DEF NothingIsBehind
  <2>1. /\ NotBehind(missing, feedCursor)
        /\ IsRunning => NotBehind(missing \ batch.read, batch.cursor)
    BY DEF FeedIInv, NothingIsBehind
  <2>2. NotBehind(missing, feedCursor)'
    BY <1>1, <1>2, <1>6, <2>1 DEF NotBehind
  <2>3. ASSUME IsRunning PROVE NotBehind(missing \ batch.read, batch.cursor)'
    BY <1>1, <1>2, <1>3, <1>6, <1>7, <2>1, <2>3 DEF NotBehind
  <2>. QED
    BY <2>2, <2>3
<1>. QED
  BY <1>3, <1>4, <1>5, <1>8 DEF FeedIInv

(* How a cycle disturbs it. *)
LEMMA ReadKeepsFeed ==
  ASSUME FeedIInv, Read PROVE FeedIInv'
<1>1. /\ batch' = IF feedCursor.phase = "backfill" THEN Backfill ELSE Incremental
      /\ setting' = setting /\ now' = now /\ updated' = updated /\ terminalJobs' = terminalJobs
      /\ open' = open /\ missing' = missing /\ feedCursor' = feedCursor
  BY DEF Read, galaxy
<1>2. Visible' = Visible
  BY <1>1 DEF Visible
<1>3. feedCursor \in CursorType /\ setting \in Settings /\ setting.overlap \in Nat
  BY FeedConstants DEF FeedIInv, FeedTypeOK
<1>4. PICK new : new = IF feedCursor.phase = "backfill" THEN Backfill ELSE Incremental
  OBVIOUS
<1>5. /\ new.read \in SUBSET Of(Visible) /\ new.cursor \in CursorType
      /\ new.cursor.updatedAfter <= now
      /\ new.cursor.phase = "backfill" => new.cursor.updatedAfter = 0
      /\ setting.overlap > 0 /\ NotBehind(missing, feedCursor) =>
           NotBehind(missing \ new.read, new.cursor)
  <2>1. CASE feedCursor.phase = "backfill"
    <3>1. new = Backfill
      BY <1>4, <2>1
    <3>2. /\ new.read \in SUBSET Of(Visible) /\ new.cursor \in CursorType
          /\ new.cursor.updatedAfter = feedCursor.updatedAfter
      BY <2>1, <3>1, BackfillIsTyped DEF FeedIInv
    <3>3. feedCursor.updatedAfter = 0 /\ feedCursor.updatedAfter <= now
      BY <2>1 DEF FeedIInv, BackfillIsFirst, StampsArePast
    <3>. QED
      BY <3>2, <3>3 DEF NotBehind
  <2>2. CASE feedCursor.phase # "backfill"
    <3>1. new = Incremental
      BY <1>4, <2>2
    <3>2. FeedIInv => FeedTypeOK /\ StampsArePast
      BY DEF FeedIInv
    <3>. QED
      BY <2>2, <3>1, <3>2, IncrementalIsTyped
  <2>. QED
    BY <2>1, <2>2
<1>6. NoBatch.cursor.phase = "none" /\ new.cursor.phase # "none"
  BY <1>5 DEF NoBatch, CursorType
<1>7. new \in [read : SUBSET Of(Visible), cursor : CursorType]
  <2>1. \E r, c : new = [read |-> r, cursor |-> c]
    BY <1>4, Zenon DEF Backfill, Incremental
  <2>2. PICK r, c : new = [read |-> r, cursor |-> c]
    BY <2>1
  <2>. QED
    BY <1>5, <2>2
<1>8. batch' = new
  BY <1>1, <1>4
<1>9. BatchTyped'
  BY <1>2, <1>7, <1>8 DEF BatchTyped, CursorType
<1>10. FeedTypeOK'
  BY <1>1, <1>2, <1>5, <1>8 DEF FeedIInv, FeedTypeOK, CursorType
<1>11. ChangesAreYoung' /\ StampsArePast' /\ BackfillIsFirst'
  BY <1>1, <1>5, <1>8 DEF FeedIInv, ChangesAreYoung, StampsArePast, BackfillIsFirst
<1>12. NothingIsBehind'
  BY <1>1, <1>2, <1>5, <1>8 DEF FeedIInv, NothingIsBehind, NotBehind
<1>. QED
  BY <1>9, <1>10, <1>11, <1>12 DEF FeedIInv

LEMMA CommitAndAbortKeepFeed ==
  ASSUME FeedIInv, Commit \/ Abort PROVE FeedIInv'
<1>1. /\ setting' = setting /\ now' = now /\ updated' = updated /\ terminalJobs' = terminalJobs /\ open' = open
      /\ batch' = NoBatch
      /\ \/ missing' = missing \ batch.read /\ feedCursor' = batch.cursor /\ IsRunning
         \/ missing' = missing /\ feedCursor' = feedCursor
  BY DEF Commit, Abort, galaxy
<1>2. Visible' = Visible /\ ~IsRunning' /\ BatchTyped'
  BY <1>1 DEF Visible, IsRunning, NoBatch, BatchTyped
<1>3. /\ IsRunning => batch.cursor \in CursorType
      /\ feedCursor \in CursorType /\ missing \in SUBSET Of(Visible)
  BY DEF FeedIInv, FeedTypeOK
<1>4. FeedTypeOK'
  BY <1>1, <1>2, <1>3 DEF FeedIInv, FeedTypeOK, CursorType
<1>5. ChangesAreYoung' /\ StampsArePast' /\ BackfillIsFirst'
  BY <1>1, <1>2 DEF FeedIInv, ChangesAreYoung, StampsArePast, BackfillIsFirst
<1>6. NothingIsBehind'
  BY <1>1, <1>2 DEF FeedIInv, NothingIsBehind, NotBehind
<1>. QED
  BY <1>2, <1>4, <1>5, <1>6 DEF FeedIInv

LEMMA FeedStarts == ASSUME FeedInit PROVE FeedIInv
<1>1. /\ MaxJob \in Nat \ {0} /\ MaxTime \in Nat \ {0} /\ Jobs = 1 .. MaxJob
  BY FeedConstants
<1>2. /\ setting \in Settings /\ now = 1 /\ updated = [j \in Jobs |-> 0] /\ terminalJobs = {}
      /\ open = [j \in Jobs |-> 0] /\ missing = {} /\ batch = NoBatch
      /\ feedCursor = [phase |-> "backfill", ceiling |-> -1, idAfter |-> 0, updatedAfter |-> 0, sweepAfter |-> 0]
  BY DEF FeedInit
<1>3. feedCursor \in CursorType
  BY <1>1, <1>2 DEF CursorType
<1>4. FeedTypeOK
  BY <1>1, <1>2, <1>3 DEF FeedTypeOK, IsRunning
<1>. QED
  BY <1>1, <1>2, <1>4 DEF FeedIInv, BatchTyped, ChangesAreYoung, StampsArePast, BackfillIsFirst,
    NothingIsBehind, NotBehind, IsRunning

LEMMA FeedGoesOn == ASSUME FeedIInv, [FeedNext]_feedVars PROVE FeedIInv'
<1>1. CASE Tick
  BY <1>1, TickKeepsFeed
<1>2. ASSUME NEW j \in Jobs, BeginChange(j) PROVE FeedIInv'
  BY <1>2, BeginKeepsFeed
<1>3. ASSUME NEW j \in Jobs, AddDetail(j) PROVE FeedIInv'
  BY <1>3, DetailKeepsFeed
<1>4. ASSUME NEW j \in Jobs, NEW ends \in BOOLEAN, CommitChange(j, ends) PROVE FeedIInv'
  BY <1>4, CommitChangeKeepsFeed
<1>5. CASE Read
  BY <1>5, ReadKeepsFeed
<1>6. CASE Commit \/ Abort
  BY <1>6, CommitAndAbortKeepFeed
<1>7. CASE UNCHANGED feedVars
  <2>1. /\ setting' = setting /\ now' = now /\ updated' = updated /\ terminalJobs' = terminalJobs /\ open' = open
        /\ missing' = missing /\ feedCursor' = feedCursor /\ batch' = batch
    BY <1>7 DEF feedVars
  <2>. QED
    BY <2>1 DEF FeedIInv, BatchTyped, ChangesAreYoung, StampsArePast, BackfillIsFirst, NothingIsBehind,
      NotBehind, IsRunning, Visible, FeedTypeOK, CursorType
<1>. QED
  BY <1>1, <1>2, <1>3, <1>4, <1>5, <1>6, <1>7 DEF FeedNext

(* The inductive invariant of the Galaxy feed. *)
THEOREM FeedIInvHolds == FeedSpec => []FeedIInv
<1>1. FeedInit => FeedIInv
  BY FeedStarts
<1>2. FeedIInv /\ [FeedNext]_feedVars => FeedIInv'
  BY FeedGoesOn
<1>. QED
  BY <1>1, <1>2, PTL DEF FeedSpec

(* Every variable of the Galaxy feed has its type: whatever a cycle holds   *)
(* was read of rows that exist, and its cursor is a cursor.                 *)
THEOREM FeedTypeCorrect == FeedSpec => []FeedTypeOK
<1>1. FeedIInv => FeedTypeOK
  BY DEF FeedIInv
<1>. QED
  BY <1>1, FeedIInvHolds, PTL

(* With an overlap that is at least as long as a Galaxy transaction, no row *)
(* that Rainstone lacks is ever behind the place that the next page starts  *)
(* from, whatever commits late, in any order, between a read and a commit.  *)
THEOREM LateCommitsAreReplayed == FeedSpec => []ReplayCatchesLateCommits
<1>1. FeedIInv => ReplayCatchesLateCommits
  BY DEF FeedIInv, NothingIsBehind, NotBehind, ReplayCatchesLateCommits
<1>. QED
  BY <1>1, FeedIInvHolds, PTL
=============================================================================
