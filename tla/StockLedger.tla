----------------------------- MODULE StockLedger -----------------------------
(***************************************************************************)
(* The stock ledger of one product: webapp/services/stock_service.py over  *)
(* the DailyFigure rows, the finalized source-book lines and the manual    *)
(* StockAdjustments of that product, with the three other writers of the   *)
(* same rows (Full Reset, ledger cutover, legacy migration).               *)
(*                                                                         *)
(* Time is a line of periods 1..NumPeriods: every date has a Day period    *)
(* (odd) followed by a Night period (even), the order of _sort_key().      *)
(* Each action is one committed request; what overlapping requests do to   *)
(* one row is the subject of module FigureSave.                            *)
(*                                                                         *)
(* A definition named Faulty... stands in for the one below it when the    *)
(* properties are tested against a plausible mistake; nothing uses it.     *)
(***************************************************************************)
EXTENDS Integers, FiniteSets, Functions

CONSTANTS
    NumPeriods,     \* length of the modelled stretch of time (a bound)
    Movements,      \* every book line or adjustment a user could post
    Counts,         \* the non-negative opening counts a user could submit
    LegacyEntries,  \* rows of the old spreadsheet ledger `entries`
    InitialRows,    \* row tables a database may hold before the first action
    LookbackDays    \* dates a reset's preview looks back (60 in the code)

Periods == 1..NumPeriods
IsDay(p) == p % 2 = 1

(***************************************************************************)
(* Provenance of a stored Opening Stock (models/daily_figure.py).          *)
(***************************************************************************)
UnconditionalAnchors ==
    {"manual_correction", "legacy_migrated_opening", "ledger_cutover"}
AnchorEligible == UnconditionalAnchors \cup {"initial_manual", "legacy_inferred"}
Sources == AnchorEligible \cup {"derived", "reset_created"}

NoRow == [source |-> "none", opening |-> 0, legacy |-> 0]
Row == [source : Sources, opening : Int, legacy : Nat]

Books == {"production", "returns", "dispatch", "adjustment"}

(* A value outside every count: an opening the request left out. *)
Nothing == -1

ASSUME NumPeriodsAssumption == NumPeriods \in Nat \ {0}

(* Returns are Day-only, and so is every dispatch created today; a Night   *)
(* dispatch is a legacy record, which can still be finalized, reopened and *)
(* removed.  Only a return may be kept from posting (Metro Sales on any    *)
(* day but Monday); book quantities are positive, an adjustment is any     *)
(* non-zero delta.                                                         *)
ASSUME MovementsAssumption ==
    /\ IsFiniteSet(Movements)
    /\ \A m \in Movements :
          /\ m.book \in Books /\ m.period \in Periods /\ m.posts \in BOOLEAN
          /\ m.qty \in Int /\ m.qty # 0
          /\ m.book # "adjustment" => m.qty > 0
          /\ m.book = "returns" => IsDay(m.period)
          /\ m.book # "returns" => m.posts

NightDispatches == {m \in Movements : m.book = "dispatch" /\ ~IsDay(m.period)}

ASSUME CountsAssumption == Counts \subseteq Nat

ASSUME LookbackAssumption == LookbackDays \in Nat

(* An entry's Issued figure becomes an adjustment of the same period. *)
ASSUME LegacyEntriesAssumption ==
    \A e \in LegacyEntries :
        /\ e.period \in Periods /\ e.opening \in Nat /\ e.legacy \in Nat
        /\ e.issued \subseteq {m \in Movements : m.book = "adjustment"}

ASSUME InitialRowsAssumption ==
    InitialRows \subseteq [Periods -> Row \cup {NoRow}]

(* An opening that a row holds as an anchor was counted or typed in, and   *)
(* is never negative; a derived one may be.                                *)
ASSUME InitialAnchorsAssumption ==
    \A table \in InitialRows, p \in Periods :
        table[p].source \in AnchorEligible => table[p].opening >= 0

VARIABLES
    rows,      \* the DailyFigure row of each period, NoRow where none exists
    posted,    \* finalized book lines and existing adjustments
    cutovers   \* effective periods of the ACTIVATED ledger cutovers

vars == <<rows, posted, cutovers>>

TypeOK ==
    /\ rows \in [Periods -> Row \cup {NoRow}]
    /\ posted \subseteq Movements
    /\ cutovers \subseteq Periods

-----------------------------------------------------------------------------
(* The ledger arithmetic. *)

HasRow(p) == rows[p] # NoRow

(* Lines that count for stock: finalized, and for a return also eligible. *)
Effective == {m \in posted : m.posts}

(* Signed effect on the balance: Production and Returns add, Dispatch and  *)
(* the adjustment (a correction of Issued) subtract.                       *)
Effect == [m \in Movements |->
              IF m.book \in {"production", "returns"} THEN m.qty ELSE -m.qty]

BookMovement(from, to) ==
    SumFunctionOnSet(Effect, {m \in Effective : m.period \in from..to})

(* Production and Returns stored on rows written before the books existed. *)
LegacyColumns == [p \in Periods |-> rows[p].legacy]
LegacyStoredMovement(from, to) == SumFunctionOnSet(LegacyColumns, from..to)

MovementBetween(from, to) ==
    BookMovement(from, to) + LegacyStoredMovement(from, to)

(* A net sum misses movements that cancel out. *)
FaultyNetActivity(p) == BookMovement(1, p) # 0

(* Existence, not a net sum, and blind to the legacy columns. *)
AnyActivityAtOrBefore(p) == \E m \in Effective : m.period <= p

(* Every anchor re-checked, the unconditional ones too. *)
FaultyTrustNoAnchor(p) ==
    rows[p].source \in AnchorEligible /\ ~AnyActivityAtOrBefore(p - 1)

(* "At or before" taken to include the period itself. *)
FaultyTrustSamePeriod(p) ==
    /\ rows[p].source \in AnchorEligible
    /\ rows[p].source \notin UnconditionalAnchors => ~AnyActivityAtOrBefore(p)

(* Whether the stored opening of the row at p counts right now. *)
TrustedAnchor(p) ==
    /\ rows[p].source \in AnchorEligible
    /\ rows[p].source \notin UnconditionalAnchors => ~AnyActivityAtOrBefore(p - 1)

AnchorsBefore(p) == {a \in 1..(p - 1) : TrustedAnchor(a)}
LastAnchorBefore(p) ==
    CHOOSE a \in AnchorsBefore(p) : \A b \in AnchorsBefore(p) : b <= a

(* get_prior_closing_base_qty() answers None. *)
FirstEver(p) == AnchorsBefore(p) = {} /\ ~AnyActivityAtOrBefore(p - 1)

ClosingOfRow(a) == rows[a].opening + MovementBetween(a, a)

(* The legacy columns between anchor and period forgotten. *)
FaultyPriorClosing(p) ==
    IF AnchorsBefore(p) = {}
    THEN BookMovement(1, p - 1)
    ELSE LET a == LastAnchorBefore(p)
         IN  ClosingOfRow(a) + BookMovement(a + 1, p - 1)

(* get_prior_closing_base_qty() where it answers a number. *)
PriorClosing(p) ==
    IF AnchorsBefore(p) = {}
    THEN MovementBetween(1, p - 1)
    ELSE LET a == LastAnchorBefore(p)
         IN  ClosingOfRow(a) + MovementBetween(a + 1, p - 1)

CarriedOpening(p) == IF FirstEver(p) THEN 0 ELSE PriorClosing(p)

(* What every screen shows for the period (daily_figure_view). *)
Opening(p) == IF TrustedAnchor(p) THEN rows[p].opening ELSE CarriedOpening(p)
Closing(p) == Opening(p) + MovementBetween(p, p)

(* The last Night is left out. *)
FaultyRangeToDay(from, to) == Opening(from) + MovementBetween(from, to - 1)
(* Closing of a report from the Day `from` to the Night `to`. *)
RangeClosing(from, to) == Opening(from) + MovementBetween(from, to)

-----------------------------------------------------------------------------
(* The diagnostic ledger (stock_ledger_service.py), which adds a period up *)
(* from its own queries, book by book, and reports where a negative        *)
(* balance came from.                                                      *)

Quantity == [m \in Movements |-> m.qty]
Lines(book, p) == {m \in posted : m.book = book /\ m.period = p}

ProductionLines(p) == SumFunctionOnSet(Quantity, Lines("production", p))

(* Night is answered without a query: a legacy Night dispatch, which       *)
(* issued_base_qty() counts, is missed.                                    *)
DispatchLines(p) ==
    IF IsDay(p) THEN SumFunctionOnSet(Quantity, Lines("dispatch", p)) ELSE 0

(* Every finalized return counted, on whatever day it posts. *)
FaultyReturnsLines(p) ==
    IF IsDay(p) THEN SumFunctionOnSet(Quantity, Lines("returns", p)) ELSE 0

ReturnsLines(p) ==
    IF IsDay(p)
    THEN SumFunctionOnSet(Quantity, {m \in Lines("returns", p) : m.posts})
    ELSE 0

AdjustmentEntries(p) == SumFunctionOnSet(Quantity, Lines("adjustment", p))

(* _period_entry(): the closing its components add up to, and whether the  *)
(* period itself moved the balance.                                        *)
ComponentClosing(p) ==
    Opening(p) + (ProductionLines(p) + rows[p].legacy) + ReturnsLines(p)
               - (DispatchLines(p) + AdjustmentEntries(p))

MovementHere(p) ==
    \/ ProductionLines(p) # 0 \/ rows[p].legacy # 0 \/ ReturnsLines(p) # 0
    \/ DispatchLines(p) # 0 \/ AdjustmentEntries(p) # 0

(* An empty balance taken for a negative one. *)
FaultyNegativePeriods(periods) == {q \in periods : Closing(q) <= 0}
NegativePeriods(periods) == {q \in periods : Closing(q) < 0}

(* A reset's preview scans whole dates up to the period's own, from the    *)
(* date of the last anchor but never from further back than LookbackDays;  *)
(* it stops with an error at a period that does not reconcile.  The        *)
(* preview looks for a Night's lines in the books of Production and        *)
(* adjustments only.                                                       *)
DayOf(p) == IF IsDay(p) THEN p ELSE p - 1
LookbackStart(p) == DayOf(p) - 2 * LookbackDays
AnchorDate(p) == IF AnchorsBefore(p) = {} THEN 1 ELSE DayOf(LastAnchorBefore(p))

ScanStart(p) ==
    IF LookbackStart(p) > AnchorDate(p) THEN LookbackStart(p) ELSE AnchorDate(p)

ScanFails(p) ==
    \E m \in posted \cap NightDispatches : m.period \in ScanStart(p)..(p + 1)

CarriedNegative(p) ==
    /\ Closing(p) < 0
    /\ ~\E m \in posted \ NightDispatches : m.period = p

Origin(p) ==
    LET negative == NegativePeriods(ScanStart(p)..p)
    IN  CHOOSE q \in negative : \A r \in negative : q <= r

-----------------------------------------------------------------------------
Init ==
    /\ rows \in InitialRows
    /\ posted = {}
    /\ cutovers = {}

Post(m) ==
    /\ m \notin posted
    /\ posted' = posted \cup {m}
    /\ UNCHANGED <<rows, cutovers>>

Remove(m) ==
    /\ m \in posted
    /\ posted' = posted \ {m}
    /\ UNCHANGED <<rows, cutovers>>

IsAdjustment(m) == m.book = "adjustment"

(* A book record is finalized; it is reopened, voided or deleted (how a    *)
(* record gets there is the subject of module SourceRecords).              *)
FinalizeLine(m) == ~IsAdjustment(m) /\ Post(m)
RemoveLine(m) == ~IsAdjustment(m) /\ Remove(m)

CreateAdjustment(m) == IsAdjustment(m) /\ Post(m)
DeleteAdjustment(m) == IsAdjustment(m) /\ Remove(m)

(***************************************************************************)
(* upsert_daily_figure(), one action per branch.  `submitted` is the       *)
(* opening count of the request; `explicit` says that the request is an    *)
(* explicit correction, with a reason, from a caller allowed to make one.  *)
(* Who that is (an elevated user, or an operator granted can_edit_opening) *)
(* restricts the caller and not what can happen to the ledger: any branch  *)
(* is open to some caller, so callers are left to module FigureSave.       *)
(***************************************************************************)
StoreOpening(p, source, count) ==
    /\ rows' = [rows EXCEPT ![p] =
                   [source |-> source, opening |-> count, legacy |-> @.legacy]]
    /\ UNCHANGED <<posted, cutovers>>

SaveFirstEver(p, submitted) ==
    /\ FirstEver(p)
    /\ submitted # Nothing
    /\ StoreOpening(p, "initial_manual", submitted)

CorrectOpening(p, submitted) ==
    /\ ~FirstEver(p)
    /\ submitted # Nothing
    /\ StoreOpening(p, "manual_correction", submitted)

(* A routine save keeps an unconditional anchor byte for byte and rewrites *)
(* any other row with the live derivation, whatever it submits.            *)
PreserveAnchor(p) ==
    /\ ~FirstEver(p)
    /\ rows[p].source \in UnconditionalAnchors
    /\ UNCHANGED vars

(* The stale opening of the row resubmitted as a correction. *)
FaultyRefreshDerived(p) ==
    /\ ~FirstEver(p)
    /\ rows[p].source \notin UnconditionalAnchors
    /\ StoreOpening(p, "manual_correction", rows[p].opening)

RefreshDerived(p) ==
    /\ ~FirstEver(p)
    /\ rows[p].source \notin UnconditionalAnchors
    /\ StoreOpening(p, "derived", PriorClosing(p))

RoutineSave(p) == PreserveAnchor(p) \/ RefreshDerived(p)

Upsert(p, submitted, explicit) ==
    \/ SaveFirstEver(p, submitted)
    \/ explicit /\ CorrectOpening(p, submitted)
    \/ ~(explicit /\ submitted # Nothing) /\ RoutineSave(p)

(***************************************************************************)
(* Full Reset of one period (daily_reset_service.execute, MODE_FULL): the  *)
(* opening is rederived, unless the row is still labelled as a cutover     *)
(* anchor, and the period's book lines are removed.  Adjustments, the      *)
(* legacy columns and a legacy Night dispatch stay.                        *)
(***************************************************************************)
(* A row without a label. *)
FaultyResetLabel(p) ==
    IF HasRow(p)
    THEN [source |-> NoRow.source, opening |-> CarriedOpening(p),
          legacy |-> rows[p].legacy]
    ELSE NoRow

ResetRow(p) ==
    IF HasRow(p)
    THEN [source |-> "reset_created", opening |-> CarriedOpening(p),
          legacy |-> rows[p].legacy]
    ELSE NoRow

FullReset(p) ==
    /\ rows[p].source # "ledger_cutover"
    /\ rows' = [rows EXCEPT ![p] = ResetRow(p)]
    /\ posted' = {m \in posted :
                     m.period # p \/ m.book = "adjustment" \/ m \in NightDispatches}
    /\ UNCHANGED cutovers

(* activate_cutover() for this product's verified count. *)
ActivateCutover(p, count) ==
    /\ \A c \in cutovers : c < p
    /\ rows' = [rows EXCEPT ![p] =
                   [source |-> "ledger_cutover", opening |-> count,
                    legacy |-> @.legacy]]
    /\ cutovers' = cutovers \cup {p}
    /\ UNCHANGED posted

(* run_legacy_migration() for one entry: a row of its own, never over one. *)
MigrateLegacyEntry(e) ==
    /\ ~HasRow(e.period)
    /\ rows' = [rows EXCEPT ![e.period] =
                   [source |-> "legacy_migrated_opening", opening |-> e.opening,
                    legacy |-> e.legacy]]
    /\ posted' = posted \cup e.issued
    /\ UNCHANGED cutovers

Next ==
    \/ \E m \in Movements : FinalizeLine(m) \/ RemoveLine(m)
    \/ \E m \in Movements : CreateAdjustment(m) \/ DeleteAdjustment(m)
    \/ \E p \in Periods, submitted \in Counts : Upsert(p, submitted, TRUE)
    \/ \E p \in Periods : Upsert(p, Nothing, FALSE)
    \/ \E p \in Periods : FullReset(p)
    \/ \E p \in Periods, count \in Counts : ActivateCutover(p, count)
    \/ \E e \in LegacyEntries : MigrateLegacyEntry(e)

Spec == Init /\ [][Next]_vars

-----------------------------------------------------------------------------
(* Properties. *)

LiveRevalidated == AnchorEligible \ UnconditionalAnchors

(* Nothing tells the ledger that p - 1 has a past, so its balance starts   *)
(* from zero there; legacy columns up to p - 1 are then counted for p or   *)
(* not according to what else lies before p (README, Known disagreements). *)
OrphanedLegacy(p) ==
    /\ FirstEver(p - 1) /\ ~TrustedAnchor(p - 1)
    /\ LegacyStoredMovement(1, p - 1) # 0

(* Every period that is not itself a trusted anchor opens with what the    *)
(* previous one closed with, however many periods without rows or anchors  *)
(* lie in between (get_prior_closing_base_qty against daily_figure_view).  *)
OpeningContinuesClosing ==
    \A p \in Periods \ {1} :
        TrustedAnchor(p) \/ OrphanedLegacy(p) \/ Opening(p) = Closing(p - 1)

(* A period saved as a first period before its own history was entered     *)
(* recalculates from that history, even where the movements cancel out     *)
(* (_is_trusted_anchor re-checks on every read).                           *)
LateHistoryDemotes ==
    \A p \in Periods \ {1} :
        /\ rows[p].source \in LiveRevalidated
        /\ \E m \in posted : m.posts /\ m.period < p
        => OrphanedLegacy(p) \/ Opening(p) = Closing(p - 1)

(* A report over a range closes with the figure its last Night shows, when *)
(* no anchor restarts the balance inside the range (date_range_summary     *)
(* against daily_figure_view).                                             *)
RangeClosingAgrees ==
    \A from, to \in Periods :
        /\ from < to /\ IsDay(from) /\ ~IsDay(to)
        /\ \A p \in (from + 1)..to : ~TrustedAnchor(p) /\ ~OrphanedLegacy(p)
        => RangeClosing(from, to) = Closing(to)

(* The components the diagnostic ledger reads for itself add up to the     *)
(* closing every screen shows, short of nothing but the finalized legacy   *)
(* dispatches of a Night: no other period makes _period_entry() raise      *)
(* LedgerReconciliationError, whatever was posted, corrected, reset,       *)
(* migrated or cut over.                                                   *)
NightDispatched(p) ==
    IF IsDay(p) THEN 0 ELSE SumFunctionOnSet(Quantity, Lines("dispatch", p))

LedgerReconciles ==
    \A p \in Periods : ComponentClosing(p) = Closing(p) + NightDispatched(p)

(* The sixty days end in a balance that is negative already. *)
CutOff(p) ==
    /\ LookbackStart(p) > AnchorDate(p)
    /\ Opening(LookbackStart(p)) < 0

(* A negative balance in a period without movement is traced to an earlier *)
(* period that did move it, and no anchor restarted the balance since: the *)
(* preview of a reset never blames the period itself nor one the balance   *)
(* no longer depends on (_carried_negative_info).  Excepted are a last     *)
(* anchor on a Night, a lookback that cuts a negative balance off and a    *)
(* scan that meets a Night dispatch (README, Known disagreements).         *)
NegativeIsTraced ==
    \A p \in Periods :
        /\ CarriedNegative(p) /\ ~CutOff(p) /\ ~ScanFails(p)
        /\ AnchorsBefore(p) # {} => IsDay(LastAnchorBefore(p))
        => /\ Origin(p) < p
           /\ MovementHere(Origin(p))
           /\ \A a \in (Origin(p) + 1)..p : ~TrustedAnchor(a)

OpeningsKept(periods) == \A q \in periods : Opening(q)' = Opening(q)

(* A save without an authorized correction is invisible in every balance,  *)
(* whatever stale opening it carries.  A live-revalidated anchor that is   *)
(* still trusted is the exception: once the period has a predecessor, the  *)
(* save replaces it by the balance carried in.                             *)
RoutineSaveKeepsBalances ==
    [][\A p \in Periods :
          RoutineSave(p) /\ ~(TrustedAnchor(p) /\ rows[p].source \in LiveRevalidated)
              => OpeningsKept(Periods)]_vars

(* Posting or removing movements before an unconditional anchor never      *)
(* moves a balance at or after it, if no live-revalidated anchor follows.  *)
AnchorSealsHistory ==
    [][\A a \in Periods :
          /\ rows[a].source \in UnconditionalAnchors
          /\ \A q \in (a + 1)..NumPeriods : rows[q].source \notin LiveRevalidated
          /\ rows' = rows
          /\ \A m \in (posted \ posted') \cup (posted' \ posted) : m.period < a
          => OpeningsKept(a..NumPeriods)]_vars

(* Movements of a period or of later ones never move its opening, nor any  *)
(* earlier one: the "at or before" of the activity check stops short of    *)
(* the row it judges.                                                      *)
NothingFlowsBackward ==
    [][\A p \in Periods :
          /\ rows' = rows
          /\ \A m \in (posted \ posted') \cup (posted' \ posted) : m.period >= p
          => OpeningsKept(1..p)]_vars

(* A Full Reset restarts its period from the balance carried into it and   *)
(* leaves every earlier period as it was.                                  *)
FullResetRestartsFromCarry ==
    [][\A p \in Periods :
          FullReset(p) => /\ OpeningsKept(1..(p - 1))
                          /\ Opening(p)' = CarriedOpening(p)]_vars
=============================================================================
