---------------------------- MODULE LifetimeCost ----------------------------
(***************************************************************************)
(* What a Batch VM costs, and which part of it a period of the report      *)
(* shows.  The window that LifetimeEvidence arrives at is cut where a      *)
(* price takes effect, each piece is charged at the price in effect, and   *)
(* the provider's minimum is spread over the pieces once.  The report cuts *)
(* the pieces again, at the ends of its half-open periods.                 *)
(*                                                                         *)
(* Catalogs are imported at any time, in any order, before or after the    *)
(* work that they price.  The rows of earlier ones stay.                   *)
(*                                                                         *)
(* Amounts are in units of 1 / (3600 * Observed): what calculate_lifetime  *)
(* divides by is left out, so that they are whole.                         *)
(***************************************************************************)
EXTENDS LifetimeEvidence, FiniteSetsExt

CONSTANTS
  Catalogs,          \* published catalogs with a rate for the VM's shape
  EffectiveFrom,     \* when each one's rate takes effect; 0: it does not say
  HourlyRate,        \* each one's rate
  MinimumBilled      \* MINIMUM_BILLED_SECONDS, in ticks of the clock

ASSUME CatalogAssumption ==
  /\ EffectiveFrom \in [Catalogs -> Times]
  /\ HourlyRate \in [Catalogs -> Nat \ {0}]
  /\ \A c, d \in Catalogs : EffectiveFrom[c] = EffectiveFrom[d] => c = d
  /\ MinimumBilled \in Nat

VARIABLES
  imported,   \* the catalogs that have rows in PriceVersion
  active      \* the catalog version that is marked active, or "none"

costVars == <<at, logged, tasks, row, segment, evidence, imported, active>>

-----------------------------------------------------------------------------
(* import_catalog: rows are added or written again, and of the versions    *)
(* only this one stays active.                                             *)
ImportCatalog(c) ==
  /\ imported' = imported \cup {c}
  /\ active' = c
  /\ UNCHANGED vars

-----------------------------------------------------------------------------
(* calculate_lifetime, for a dedicated VM that one job used.               *)

\* Mutation: only the rates of the active catalog are looked at.
ApplicableOfActive(t) == {c \in imported : c = active /\ EffectiveFrom[c] <= t}

Applicable(t) == {c \in imported : EffectiveFrom[c] <= t}
InEffect(t) ==
  CHOOSE c \in Applicable(t) : \A d \in Applicable(t) : EffectiveFrom[d] <= EffectiveFrom[c]

Observed == Charged.end - Charged.start
Billed == Max({MinimumBilled, Observed})

\* Mutation: prices cut the window only up to the moment before its last.
BoundariesTooFew ==
  {EffectiveFrom[c] : c \in
    {d \in imported : Charged.start < EffectiveFrom[d] /\ EffectiveFrom[d] + 1 < Charged.end}}

Boundaries ==
  {EffectiveFrom[c] : c \in
    {d \in imported : Charged.start < EffectiveFrom[d] /\ EffectiveFrom[d] < Charged.end}}

(* The window between neighbouring cuts. *)
Pieces ==
  LET points == {Charged.start, Charged.end} \cup Boundaries
  IN  {p \in [start : points, end : points] :
         /\ p.start < p.end
         /\ \A q \in points : q <= p.start \/ p.end <= q}

(* One piece without a price leaves the whole lifetime unpriced. *)
Priced ==
  /\ Charged # NoWindow
  /\ \A p \in Pieces : Applicable(p.start) # {}

Amount(p) == (p.end - p.start) * Billed * HourlyRate[InEffect(p.start)]

Allocations ==
  IF Priced THEN {[start |-> p.start, end |-> p.end, amount |-> Amount(p)] : p \in Pieces}
            ELSE {}

CostLine ==
  [quality |-> CASE Priced -> "approximate"
                 [] Charged = NoWindow -> "partial"
                 [] OTHER -> "unpriced",
   allocations |-> Allocations]

-----------------------------------------------------------------------------
(* The report.  A bound that a query leaves out is before, or after, every *)
(* time; a line without an amount adds nothing to a period, but shows in it. *)

Always == Max(Times) + 1

(* _line_slices: a line without allocations has the window of its row, and *)
(* one that is open ends when the revision was created.                    *)
Slices(asOf) ==
  LET end == Either(row.end, asOf)
  IN  IF Allocations # {} THEN Allocations
      ELSE IF row.start # 0 /\ end >= row.start
      THEN {[start |-> row.start, end |-> end, amount |-> 0]}
      ELSE {}

Overlap(s, from, to) ==
  LET lower == Max({s.start, from})
      upper == Min({s.end, to})
  IN  IF lower < upper THEN upper - lower ELSE 0

\* Mutation: an instant has no length, so no period has any of it.
InPeriodByLength(s, from, to) == Overlap(s, from, to) > 0

(* _slice_fraction: whether there is any of a slice in [from, to), and how *)
(* much of its amount.  An instant belongs whole to the period it is in.   *)
InPeriod(s, from, to) ==
  IF s.start = s.end THEN from <= s.start /\ s.start < to ELSE Overlap(s, from, to) > 0

\* Mutation: a period has the whole amount of a slice that begins in it.
PartByStart(s, from, to) == IF from <= s.start /\ s.start < to THEN s.amount ELSE 0

Part(s, from, to) ==
  IF s.start = s.end THEN IF InPeriod(s, from, to) THEN s.amount ELSE 0
  ELSE (s.amount * Overlap(s, from, to)) \div (s.end - s.start)

(* _base_records: what a period has of the line. *)
Accrued(slices, from, to) == MapThenSumSet(LAMBDA s : Part(s, from, to), slices)

-----------------------------------------------------------------------------
CostInit ==
  /\ Init
  /\ imported = {}
  /\ active = "none"

CostNext ==
  \/ Next /\ UNCHANGED <<imported, active>>
  \/ \E c \in Catalogs : ImportCatalog(c)

CostSpec == CostInit /\ [][CostNext]_costVars
FairCostSpec == CostSpec /\ Fairness

-----------------------------------------------------------------------------
(* The evidence has its types, and the active catalog was imported. *)
CostTypeOK ==
  /\ TypeOK
  /\ imported \subseteq Catalogs
  /\ active \in imported \cup {"none"}

(* What the moments of the window cost that are in [from, to), each at the *)
(* price in effect and stretched to the billed minimum.                    *)
Moments == {t \in Times : Charged.start <= t /\ t < Charged.end}
CostOfMoments(from, to) ==
  MapThenSumSet(LAMBDA t : HourlyRate[InEffect(t)] * Max({MinimumBilled, Cardinality(Moments)}),
                {t \in Moments : from <= t /\ t < to})

(* Wherever prices change, the VM is charged for every moment of its window *)
(* at the price in effect; it is unpriced exactly when a moment of it comes *)
(* before every price (calculate_lifetime).                                 *)
EveryMomentAtItsPrice ==
  Charged # NoWindow =>
    /\ CostLine.quality = "unpriced" <=> \E t \in Moments : Applicable(t) = {}
    /\ CostLine.quality = "approximate" =>
         MapThenSumSet(LAMBDA a : a.amount, Allocations) = CostOfMoments(0, Always)

(* A period shows what its moments cost, however it cuts the slices, so the *)
(* periods of a calendar add up to the charge.  Wherever time is cut in     *)
(* two, a slice shows before or after, and an instant on one side only: no  *)
(* VM is lost between two periods (_line_slices, _slice_fraction).          *)
PeriodsAddUp ==
  \A slices \in {Slices(asOf) : asOf \in {t \in Times : row.start <= t /\ t <= Now}} :
    /\ Priced => \A b, c \in Times \cup {Always} :
                   b < c => Accrued(slices, b, c) = CostOfMoments(b, c)
    /\ \A s \in slices, cut \in Times :
         /\ InPeriod(s, 0, cut) \/ InPeriod(s, cut, Always)
         /\ s.start = s.end => ~(InPeriod(s, 0, cut) /\ InPeriod(s, cut, Always))

(* "A price that takes effect after work ran is never applied to it": an   *)
(* import of catalogs that take effect after the window leaves its line    *)
(* alone, whichever catalog is active.                                     *)
LaterPricesLeaveEarlierWorkAlone ==
  [][ (/\ UNCHANGED <<row, segment>>
       /\ Charged # NoWindow
       /\ \A c \in imported' \ imported : EffectiveFrom[c] >= Charged.end)
      => CostLine' = CostLine ]_costVars
=============================================================================
