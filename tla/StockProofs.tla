---------------------------- MODULE StockProofs ----------------------------
(***************************************************************************)
(* Theorems about the two stocks that are kept as sums of movements:       *)
(* StockLedger, for every number of periods, every set of movements,       *)
(* counts, legacy entries and initial rows, and SparePartStock, for any    *)
(* number of workers, any length of the ledger and any quantities.         *)
(***************************************************************************)
EXTENDS StockLedger, SparePartStock, SumLemmas

(* Windows of the ledger: what was moved in a span of periods. *)

(* What a movement moves is an integer. *)
LEMMA EffectInt ==
  \A m \in Movements : Effect[m] \in Int
BY MovementsAssumption DEF Effect

(* Only finitely many movements are posted. *)
LEMMA EffectiveFinite ==
  ASSUME TypeOK, NEW T \in SUBSET Effective
  PROVE  IsFiniteSet(T) /\ T \subseteq Movements
<1>1. T \in SUBSET Movements  BY DEF TypeOK, Effective
<1> QED  BY <1>1, MovementsAssumption, FS_Subset

(* The source books' movement over a stretch of periods is an integer. *)
LEMMA BookMovementInt ==
  ASSUME TypeOK, NEW from, NEW to
  PROVE  BookMovement(from, to) \in Int
<1> DEFINE S == {m \in Effective : m.period \in from..to}
<1>1. S \in SUBSET Effective  OBVIOUS
<1>2. IsFiniteSet(S) /\ S \subseteq Movements
  <2> HIDE DEF S
  <2> QED  BY <1>1, EffectiveFinite
<1>3. SumFunctionOnSet(Effect, S) \in Int
  <2> HIDE DEF S
  <2> QED  BY <1>2, EffectInt, SumInt
<1> QED  BY <1>3 DEF BookMovement

(* What a period's legacy columns add is a natural number. *)
LEMMA LegacyColumnNat ==
  ASSUME TypeOK, NEW p \in Periods
  PROVE  LegacyColumns[p] \in Nat
BY DEF TypeOK, LegacyColumns, Row, NoRow

(* The legacy columns of a span of existing periods add up to a natural *)
(* number that none of them exceeds.                                    *)
LEMMA LegacyStoredNat ==
  ASSUME TypeOK, NEW from \in Int, NEW to \in Int, from..to \subseteq Periods
  PROVE  /\ LegacyStoredMovement(from, to) \in Nat
         /\ \A p \in from..to : LegacyColumns[p] <= LegacyStoredMovement(from, to)
<1>1. IsFiniteSet(from..to)  BY FS_Interval
<1>2. \A p \in from..to : LegacyColumns[p] \in Nat  BY LegacyColumnNat
<1> QED  BY <1>1, <1>2, SumNat DEF LegacyStoredMovement

(* The whole movement over a stretch of periods is an integer. *)
LEMMA MovementInt ==
  ASSUME TypeOK, NEW from \in Int, NEW to \in Int, from..to \subseteq Periods
  PROVE  MovementBetween(from, to) \in Int
BY BookMovementInt, LegacyStoredNat DEF MovementBetween

(* Nothing is moved in an empty window. *)
LEMMA MovementEmpty ==
  ASSUME NEW from \in Int, NEW to \in Int, to < from
  PROVE  MovementBetween(from, to) = 0
<1>1. from..to = {}  OBVIOUS
<1>2. {m \in Effective : m.period \in from..to} = {}  BY <1>1
<1>3. BookMovement(from, to) = 0  BY <1>2, SumEmpty DEF BookMovement
<1>4. LegacyStoredMovement(from, to) = 0
  BY <1>1, SumEmpty DEF LegacyStoredMovement
<1> QED  BY <1>3, <1>4 DEF MovementBetween

(* Adjacent windows add up (the day-by-day and the shift-by-shift sums of  *)
(* _movement_base_qty_between_periods are one).                            *)
LEMMA BookMovementSplit ==
  ASSUME TypeOK, NEW from \in Int, NEW mid \in Int, NEW to \in Int,
         from <= mid + 1, mid <= to
  PROVE  BookMovement(from, to) = BookMovement(from, mid) + BookMovement(mid + 1, to)
<1> DEFINE A == {m \in Effective : m.period \in from..mid}
           B == {m \in Effective : m.period \in (mid + 1)..to}
<1>1. \A m \in Effective : m.period \in Int
  BY MovementsAssumption DEF TypeOK, Effective, Periods
<1>2. {m \in Effective : m.period \in from..to} = A \cup B  BY <1>1
<1>3. A \cap B = {}  BY <1>1
<1>4. A \in SUBSET Effective /\ B \in SUBSET Effective  OBVIOUS
<1>5. SumFunctionOnSet(Effect, A \cup B) =
        SumFunctionOnSet(Effect, A) + SumFunctionOnSet(Effect, B)
  <2> HIDE DEF A, B
  <2>1. IsFiniteSet(A) /\ IsFiniteSet(B) /\ A \cup B \subseteq Movements
    BY <1>4, EffectiveFinite
  <2> QED  BY <1>3, <2>1, EffectInt, SumUnion
<1> QED  BY <1>2, <1>5 DEF BookMovement

(* Legacy columns over a stretch split at any period in it. *)
LEMMA LegacyStoredSplit ==
  ASSUME TypeOK, NEW from \in Int, NEW mid \in Int, NEW to \in Int,
         from <= mid + 1, mid <= to, from..to \subseteq Periods
  PROVE  LegacyStoredMovement(from, to) =
            LegacyStoredMovement(from, mid) + LegacyStoredMovement(mid + 1, to)
<1>1. from..to = (from..mid) \cup ((mid + 1)..to)  OBVIOUS
<1>2. (from..mid) \cap ((mid + 1)..to) = {}  OBVIOUS
<1>3. IsFiniteSet(from..mid) /\ IsFiniteSet((mid + 1)..to)  BY FS_Interval
<1>4. \A p \in (from..mid) \cup ((mid + 1)..to) : LegacyColumns[p] \in Int
  BY <1>1, LegacyColumnNat
<1> QED  BY <1>1, <1>2, <1>3, <1>4, SumUnion DEF LegacyStoredMovement

(* The whole movement over a stretch splits at any period in it. *)
LEMMA MovementSplit ==
  ASSUME TypeOK, NEW from \in Int, NEW mid \in Int, NEW to \in Int,
         from <= mid + 1, mid <= to, from..to \subseteq Periods
  PROVE  MovementBetween(from, to) =
            MovementBetween(from, mid) + MovementBetween(mid + 1, to)
<1>1. from..mid \subseteq Periods /\ (mid + 1)..to \subseteq Periods  OBVIOUS
<1>2. /\ LegacyStoredMovement(from, mid) \in Nat
      /\ LegacyStoredMovement(mid + 1, to) \in Nat
  BY <1>1, LegacyStoredNat
<1>3. BookMovement(from, mid) \in Int /\ BookMovement(mid + 1, to) \in Int
  BY BookMovementInt
<1>4. BookMovement(from, to) = BookMovement(from, mid) + BookMovement(mid + 1, to)
  BY BookMovementSplit
<1>5. LegacyStoredMovement(from, to) =
        LegacyStoredMovement(from, mid) + LegacyStoredMovement(mid + 1, to)
  BY LegacyStoredSplit
<1> QED  BY <1>2, <1>3, <1>4, <1>5 DEF MovementBetween

-----------------------------------------------------------------------------
(* Anchors. *)

(* The nearest anchor before a period is one, and no later one exists. *)
LEMMA LastAnchorIsLast ==
  ASSUME NEW p \in Periods, AnchorsBefore(p) # {}
  PROVE  /\ LastAnchorBefore(p) \in AnchorsBefore(p)
         /\ \A b \in AnchorsBefore(p) : b <= LastAnchorBefore(p)
<1>1. AnchorsBefore(p) \in SUBSET (1..(p - 1)) /\ p - 1 \in Nat
  BY NumPeriodsAssumption DEF AnchorsBefore, Periods
<1>2. \E a \in AnchorsBefore(p) : \A b \in AnchorsBefore(p) : b <= a
  BY <1>1, GreatestNat
<1> QED  BY <1>2 DEF LastAnchorBefore

(* A stored opening is an integer. *)
LEMMA StoredOpeningInt ==
  ASSUME TypeOK, NEW p \in Periods
  PROVE  rows[p].opening \in Int
BY DEF TypeOK, Row, NoRow

(* The carried balance is an integer. *)
LEMMA PriorClosingInt ==
  ASSUME TypeOK, NEW p \in Periods
  PROVE  PriorClosing(p) \in Int
<1>1. p \in Nat /\ p >= 1 /\ p <= NumPeriods /\ NumPeriods \in Nat
  BY NumPeriodsAssumption DEF Periods
<1>2. CASE AnchorsBefore(p) = {}
  <2>1. 1..(p - 1) \subseteq Periods  BY <1>1 DEF Periods
  <2>2. MovementBetween(1, p - 1) \in Int  BY <1>1, <2>1, MovementInt
  <2> QED  BY <1>2, <2>2 DEF PriorClosing
<1>3. CASE AnchorsBefore(p) # {}
  <2> DEFINE a == LastAnchorBefore(p)
  <2>1. a \in 1..(p - 1)  BY <1>3, LastAnchorIsLast DEF AnchorsBefore
  <2> HIDE DEF a
  <2>2. a \in Periods /\ a..a \subseteq Periods /\ (a + 1)..(p - 1) \subseteq Periods
    BY <1>1, <2>1 DEF Periods
  <2>3. MovementBetween(a, a) \in Int /\ MovementBetween(a + 1, p - 1) \in Int
    <3>1. a \in Int /\ a + 1 \in Int /\ p - 1 \in Int  BY <1>1, <2>1
    <3>2. MovementBetween(a, a) \in Int  BY <2>2, <3>1, MovementInt
    <3>3. \A i, j \in Int : i..j \subseteq Periods => MovementBetween(i, j) \in Int
      BY MovementInt
    <3>4. MovementBetween(a + 1, p - 1) \in Int  BY <2>2, <3>1, <3>3
    <3> QED  BY <3>2, <3>4
  <2>4. rows[a].opening \in Int  BY <2>2, StoredOpeningInt
  <2> USE DEF a
  <2> QED  BY <1>3, <2>3, <2>4 DEF PriorClosing, ClosingOfRow
<1> QED  BY <1>2, <1>3

(* An opening is an integer. *)
LEMMA OpeningInt ==
  ASSUME TypeOK, NEW p \in Periods
  PROVE  CarriedOpening(p) \in Int /\ Opening(p) \in Int
BY PriorClosingInt, StoredOpeningInt DEF CarriedOpening, Opening

-----------------------------------------------------------------------------
(* Type correctness.  Every stored opening is an integer because every     *)
(* balance is, which is what the lemmas above are for.                     *)

(* Storing an integer opening keeps the rows well typed. *)
LEMMA StoreOpeningType ==
  ASSUME TypeOK, NEW p \in Periods, NEW source \in Sources, NEW count \in Int,
         StoreOpening(p, source, count)
  PROVE  TypeOK'
<1>1. rows[p].legacy \in Nat  BY DEF TypeOK, Row, NoRow
<1>2. [source |-> source, opening |-> count, legacy |-> rows[p].legacy] \in Row
  BY <1>1 DEF Row
<1> QED  BY <1>2 DEF TypeOK, StoreOpening

(* Type correctness of every reachable state, for every instance. *)
THEOREM TypeCorrect == Spec => []TypeOK
<1>1. Init => TypeOK
  BY InitialRowsAssumption DEF Init, TypeOK
<1>2. TypeOK /\ [Next]_vars => TypeOK'
  <2> SUFFICES ASSUME TypeOK, [Next]_vars PROVE TypeOK'  OBVIOUS
  <2>1. ASSUME NEW m \in Movements, FinalizeLine(m) \/ CreateAdjustment(m) PROVE TypeOK'
    BY <2>1 DEF TypeOK, FinalizeLine, CreateAdjustment, Post
  <2>2. ASSUME NEW m \in Movements, RemoveLine(m) \/ DeleteAdjustment(m) PROVE TypeOK'
    BY <2>2 DEF TypeOK, RemoveLine, DeleteAdjustment, Remove
  <2>3. ASSUME NEW p \in Periods, NEW submitted \in Counts \cup {Nothing},
               NEW explicit \in BOOLEAN, Upsert(p, submitted, explicit)
        PROVE  TypeOK'
    <3>1. submitted \in Int  BY CountsAssumption DEF Nothing
    <3>2. CASE SaveFirstEver(p, submitted)
      <4>1. "initial_manual" \in Sources  BY DEF Sources, AnchorEligible
      <4> QED  BY <3>1, <3>2, <4>1, StoreOpeningType DEF SaveFirstEver
    <3>3. CASE CorrectOpening(p, submitted)
      <4>1. "manual_correction" \in Sources
        BY DEF Sources, AnchorEligible, UnconditionalAnchors
      <4> QED  BY <3>1, <3>3, <4>1, StoreOpeningType DEF CorrectOpening
    <3>4. CASE PreserveAnchor(p)
      BY <3>4 DEF PreserveAnchor, TypeOK, vars
    <3>5. CASE RefreshDerived(p)
      <4>1. "derived" \in Sources  BY DEF Sources
      <4> QED  BY <3>5, <4>1, PriorClosingInt, StoreOpeningType DEF RefreshDerived
    <3> QED  BY <2>3, <3>2, <3>3, <3>4, <3>5 DEF Upsert, RoutineSave
  <2>4. ASSUME NEW p \in Periods, FullReset(p) PROVE TypeOK'
    <3>1. ResetRow(p) \in Row \cup {NoRow}
      <4>1. CarriedOpening(p) \in Int  BY OpeningInt
      <4>2. rows[p].legacy \in Nat  BY DEF TypeOK, Row, NoRow
      <4>3. "reset_created" \in Sources  BY DEF Sources
      <4> QED  BY <4>1, <4>2, <4>3 DEF ResetRow, Row
    <3> QED  BY <2>4, <3>1 DEF FullReset, TypeOK
  <2>5. ASSUME NEW p \in Periods, NEW count \in Counts, ActivateCutover(p, count)
        PROVE  TypeOK'
    <3>1. rows[p].legacy \in Nat  BY DEF TypeOK, Row, NoRow
    <3>2. [source |-> "ledger_cutover", opening |-> count, legacy |-> rows[p].legacy]
            \in Row
      BY <3>1, CountsAssumption DEF Row, Sources, AnchorEligible, UnconditionalAnchors
    <3> QED  BY <2>5, <3>2 DEF ActivateCutover, TypeOK
  <2>6. ASSUME NEW e \in LegacyEntries, MigrateLegacyEntry(e) PROVE TypeOK'
    <3>1. [source |-> "legacy_migrated_opening", opening |-> e.opening,
           legacy |-> e.legacy] \in Row
      BY LegacyEntriesAssumption DEF Row, Sources, AnchorEligible, UnconditionalAnchors
    <3>2. e.period \in Periods /\ e.issued \subseteq Movements
      BY LegacyEntriesAssumption
    <3> QED  BY <2>6, <3>1, <3>2 DEF MigrateLegacyEntry, TypeOK
  <2>7. CASE UNCHANGED vars  BY <2>7 DEF TypeOK, vars
  <2> QED  BY <2>1, <2>2, <2>3, <2>4, <2>5, <2>6, <2>7 DEF Next
<1> QED  BY <1>1, <1>2, PTL DEF Spec

-----------------------------------------------------------------------------
(* One period carries on from the one before it.  The balance is not kept  *)
(* anywhere: both sides walk back to their own anchor, so the proof        *)
(* compares the two walks.                                                 *)

(* Before the first activity the books have moved nothing. *)
LEMMA QuietBooks ==
  ASSUME NEW q, ~AnyActivityAtOrBefore(q), NEW from \in Int, NEW to \in Int,
         q \in Int, to <= q
  PROVE  BookMovement(from, to) = 0
<1>1. {m \in Effective : m.period \in from..to} = {}
  BY DEF AnyActivityAtOrBefore
<1> QED  BY <1>1, SumEmpty DEF BookMovement

(* A trusted anchor is the nearest one to the period after it. *)
LEMMA StepFromAnchor ==
  ASSUME TypeOK, NEW p \in Periods \ {1}, TrustedAnchor(p - 1)
  PROVE  CarriedOpening(p) = Closing(p - 1)
<1>1. p \in Nat /\ p - 1 >= 1 /\ p - 1 \in Periods
  BY NumPeriodsAssumption DEF Periods
<1>2. p - 1 \in AnchorsBefore(p)  BY <1>1 DEF AnchorsBefore
<1>3. LastAnchorBefore(p) = p - 1
  BY <1>1, <1>2, LastAnchorIsLast DEF AnchorsBefore
<1>4. CarriedOpening(p) =
        ClosingOfRow(p - 1) + MovementBetween((p - 1) + 1, p - 1)
  BY <1>2, <1>3 DEF CarriedOpening, FirstEver, PriorClosing
<1>5. MovementBetween((p - 1) + 1, p - 1) = 0  BY <1>1, MovementEmpty
<1>6. ClosingOfRow(p - 1) = Closing(p - 1)  BY DEF ClosingOfRow, Closing, Opening
<1>7. ClosingOfRow(p - 1) \in Int
  <2>1. (p - 1)..(p - 1) \subseteq Periods  BY <1>1
  <2>2. MovementBetween(p - 1, p - 1) \in Int  BY <1>1, <2>1, MovementInt
  <2> QED  BY <1>1, <2>2, StoredOpeningInt DEF ClosingOfRow
<1> QED  BY <1>4, <1>5, <1>6, <1>7

(* Otherwise both periods have the same anchors before them. *)
LEMMA SameAnchors ==
  ASSUME NEW p \in Periods \ {1}, ~TrustedAnchor(p - 1)
  PROVE  AnchorsBefore(p) = AnchorsBefore(p - 1)
<1>1. p \in Nat /\ p - 1 >= 1  BY NumPeriodsAssumption DEF Periods
<1>2. 1..(p - 1) = (1..((p - 1) - 1)) \cup {p - 1}  BY <1>1
<1> QED  BY <1>2 DEF AnchorsBefore

(* With an anchor further back both walks end at it. *)
LEMMA StepFromEarlierAnchor ==
  ASSUME TypeOK, NEW p \in Periods \ {1}, ~TrustedAnchor(p - 1),
         AnchorsBefore(p - 1) # {}
  PROVE  CarriedOpening(p) = Closing(p - 1)
<1> DEFINE q == p - 1
           a == LastAnchorBefore(q)
<1>1. p \in Nat /\ q \in Nat /\ q >= 1 /\ q \in Periods /\ p - 1 = q
  BY NumPeriodsAssumption DEF Periods
<1>2. AnchorsBefore(p) = AnchorsBefore(q)  BY SameAnchors
<1>3. LastAnchorBefore(p) = a  BY <1>2 DEF LastAnchorBefore
<1>4. CarriedOpening(p) = ClosingOfRow(a) + MovementBetween(a + 1, p - 1)
  BY <1>2, <1>3 DEF CarriedOpening, FirstEver, PriorClosing
<1>5. Closing(q) = (ClosingOfRow(a) + MovementBetween(a + 1, q - 1)) + MovementBetween(q, q)
  BY DEF Closing, Opening, CarriedOpening, FirstEver, PriorClosing
<1>6. a \in 1..(q - 1)  BY <1>1, LastAnchorIsLast DEF AnchorsBefore
<1> HIDE DEF q, a
<1>7. a \in Periods /\ (a + 1)..q \subseteq Periods /\ a..a \subseteq Periods
      /\ (a + 1)..(q - 1) \subseteq Periods /\ q..q \subseteq Periods
  BY <1>1, <1>6, NumPeriodsAssumption DEF Periods
<1>8. MovementBetween(a + 1, q) =
        MovementBetween(a + 1, q - 1) + MovementBetween(q, q)
  <2>1. a + 1 \in Int /\ q - 1 \in Int /\ q \in Int
        /\ a + 1 <= (q - 1) + 1 /\ q - 1 <= q /\ (q - 1) + 1 = q
    BY <1>1, <1>6
  <2>2. \A from, mid, to \in Int :
            from <= mid + 1 /\ mid <= to /\ from..to \subseteq Periods =>
               MovementBetween(from, to) =
                  MovementBetween(from, mid) + MovementBetween(mid + 1, to)
    BY MovementSplit
  <2>3. MovementBetween(a + 1, q) =
          MovementBetween(a + 1, q - 1) + MovementBetween((q - 1) + 1, q)
    BY <1>7, <2>1, <2>2
  <2> QED  BY <2>1, <2>3
<1>9. /\ MovementBetween(a, a) \in Int /\ MovementBetween(q, q) \in Int
      /\ MovementBetween(a + 1, q - 1) \in Int
  <2>1. a \in Int /\ q \in Int /\ a + 1 \in Int /\ q - 1 \in Int  BY <1>1, <1>6
  <2>2. \A i, j \in Int : i..j \subseteq Periods => MovementBetween(i, j) \in Int
    BY MovementInt
  <2> QED  BY <1>7, <2>1, <2>2
<1>10. ClosingOfRow(a) \in Int
  BY <1>7, <1>9, StoredOpeningInt DEF ClosingOfRow
<1> QED  BY <1>1, <1>4, <1>5, <1>8, <1>9, <1>10

(* Without any anchor both walks reach the beginning of time, and differ   *)
(* only in legacy columns of periods before the first activity.            *)
LEMMA StepWithoutAnchor ==
  ASSUME TypeOK, NEW p \in Periods \ {1}, ~TrustedAnchor(p - 1),
         AnchorsBefore(p - 1) = {}, ~OrphanedLegacy(p)
  PROVE  CarriedOpening(p) = Closing(p - 1)
<1> DEFINE q == p - 1
<1>1. p \in Nat /\ q \in Nat /\ q >= 1 /\ q \in Periods /\ p - 1 = q
  BY NumPeriodsAssumption DEF Periods
<1>2. AnchorsBefore(p) = {}  BY SameAnchors
<1>3. Closing(q) = CarriedOpening(q) + MovementBetween(q, q)
  BY DEF Closing, Opening
<1>4. ~TrustedAnchor(q) /\ AnchorsBefore(q) = {}  OBVIOUS
<1>5. FirstEver(q) => LegacyStoredMovement(1, q) = 0
  BY DEF OrphanedLegacy
<1> HIDE DEF q
<1>6. 1..q \subseteq Periods /\ q..q \subseteq Periods /\ 1..(q - 1) \subseteq Periods
  BY <1>1, NumPeriodsAssumption DEF Periods
<1>7. 1 \in Int /\ q \in Int /\ q - 1 \in Int /\ (q - 1) + 1 = q
      /\ 1 <= (q - 1) + 1 /\ q - 1 <= q
  BY <1>1
<1>8. MovementBetween(1, q) = MovementBetween(1, q - 1) + MovementBetween(q, q)
  <2>1. MovementBetween(1, q) =
          MovementBetween(1, q - 1) + MovementBetween((q - 1) + 1, q)
    BY ONLY TypeOK, <1>6, <1>7, MovementSplit
  <2> QED  BY <1>7, <2>1
<1>9. CASE FirstEver(q)
  <2>1. ~AnyActivityAtOrBefore(q - 1)  BY <1>9 DEF FirstEver
  <2>2. CarriedOpening(q) = 0  BY <1>9 DEF CarriedOpening
  <2>3. BookMovement(1, q - 1) = 0  BY <1>7, <2>1, QuietBooks
  <2>4. /\ LegacyStoredMovement(1, q) = 0
        /\ LegacyStoredMovement(1, q - 1) = 0
        /\ LegacyStoredMovement(q, q) = 0
    <3>1. LegacyStoredMovement(1, q) = 0  BY <1>5, <1>9
    <3>2. LegacyStoredMovement(1, q) =
            LegacyStoredMovement(1, q - 1) + LegacyStoredMovement((q - 1) + 1, q)
      BY ONLY TypeOK, <1>6, <1>7, LegacyStoredSplit
    <3>3. LegacyStoredMovement(1, q - 1) \in Nat /\ LegacyStoredMovement(q, q) \in Nat
      BY ONLY TypeOK, <1>6, <1>7, LegacyStoredNat
    <3> QED  BY <1>7, <3>1, <3>2, <3>3
  <2>5. BookMovement(q, q) \in Int  BY BookMovementInt
  <2>6. Closing(q) = BookMovement(q, q)
    BY <1>3, <2>2, <2>4, <2>5 DEF MovementBetween
  <2>7. CASE FirstEver(p)
    <3>1. ~AnyActivityAtOrBefore(q)  BY <1>1, <2>7 DEF FirstEver
    <3>2. BookMovement(q, q) = 0  BY <1>7, <3>1, QuietBooks
    <3> QED  BY <1>1, <2>6, <2>7, <3>2 DEF CarriedOpening
  <2>8. CASE ~FirstEver(p)
    <3>1. CarriedOpening(p) = MovementBetween(1, q)
      BY <1>1, <1>2, <2>8 DEF CarriedOpening, PriorClosing
    <3>2. MovementBetween(1, q) = BookMovement(q, q)
      BY <1>8, <2>3, <2>4, <2>5 DEF MovementBetween
    <3> QED  BY <1>1, <2>6, <3>1, <3>2
  <2> QED  BY <2>7, <2>8
<1>10. CASE ~FirstEver(q)
  <2>1. AnyActivityAtOrBefore(q - 1)  BY <1>4, <1>10 DEF FirstEver
  <2>2. AnyActivityAtOrBefore(q)
    <3>1. \A m \in Effective : m.period \in Int
      BY MovementsAssumption DEF TypeOK, Effective, Periods
    <3> QED  BY <1>1, <2>1, <3>1 DEF AnyActivityAtOrBefore
  <2>3. CarriedOpening(p) = MovementBetween(1, q)
    BY <1>1, <1>2, <2>2 DEF CarriedOpening, FirstEver, PriorClosing
  <2>4. CarriedOpening(q) = MovementBetween(1, q - 1)
    BY <1>4, <1>10 DEF CarriedOpening, PriorClosing
  <2> QED  BY <1>1, <1>3, <1>8, <2>3, <2>4
<1> QED  BY <1>9, <1>10

(* The three cases together. *)
LEMMA TypedStatesContinue ==
  ASSUME TypeOK
  PROVE  OpeningContinuesClosing
<1> SUFFICES ASSUME NEW p \in Periods \ {1}, ~TrustedAnchor(p), ~OrphanedLegacy(p)
             PROVE  Opening(p) = Closing(p - 1)
  BY DEF OpeningContinuesClosing
<1>1. Opening(p) = CarriedOpening(p)  BY DEF Opening
<1>2. CarriedOpening(p) = Closing(p - 1)
  BY StepFromAnchor, StepFromEarlierAnchor, StepWithoutAnchor
<1> QED  BY <1>1, <1>2

(* In every reachable state of every instance, a period that is not a      *)
(* trusted anchor opens with the closing of the period before it.          *)
THEOREM OpeningAlwaysContinues == Spec => []OpeningContinuesClosing
<1>1. Spec => []TypeOK  BY TypeCorrect
<1>2. TypeOK => OpeningContinuesClosing  BY TypedStatesContinue
<1> QED  BY <1>1, <1>2, PTL

(* A period saved as a first one stops being an anchor as soon as activity *)
(* before it exists, and then follows the balance like any other.          *)
THEOREM LateHistoryAlwaysDemotes == Spec => []LateHistoryDemotes
<1>1. Spec => []TypeOK  BY TypeCorrect
<1>2. TypeOK => LateHistoryDemotes
  <2> SUFFICES ASSUME TypeOK, NEW p \in Periods \ {1},
                      rows[p].source \in LiveRevalidated,
                      NEW m \in posted, m.posts, m.period < p
               PROVE  OrphanedLegacy(p) \/ Opening(p) = Closing(p - 1)
    BY DEF LateHistoryDemotes
  <2>1. AnyActivityAtOrBefore(p - 1)
    <3>1. m \in Effective /\ m.period \in Int /\ p \in Int
      BY MovementsAssumption, NumPeriodsAssumption DEF TypeOK, Effective, Periods
    <3>2. m.period <= p - 1  BY <3>1
    <3> QED  BY <3>1, <3>2 DEF AnyActivityAtOrBefore
  <2>2. ~TrustedAnchor(p)  BY <2>1 DEF TrustedAnchor, LiveRevalidated
  <2> QED  BY <2>2, TypedStatesContinue DEF OpeningContinuesClosing
<1> QED  BY <1>1, <1>2, PTL

(* A window that meets no anchor carries its first opening to its end. *)
LEMMA RangeFollowsPeriods ==
  ASSUME TypeOK, NEW from \in Periods, NEW to \in Periods, from <= to,
         \A p \in (from + 1)..to : ~TrustedAnchor(p) /\ ~OrphanedLegacy(p)
  PROVE  RangeClosing(from, to) = Closing(to)
<1> DEFINE D == {q \in from..to : RangeClosing(from, q) # Closing(q)}
<1> SUFFICES ASSUME D # {} PROVE FALSE
  BY DEF Periods
<1>1. D \in SUBSET Nat  BY DEF Periods
<1>2. PICK d \in D : \A k \in D : d <= k
  <2> HIDE DEF D
  <2> QED  BY <1>1, LeastNat
<1>3. d \in from..to /\ RangeClosing(from, d) # Closing(d)  OBVIOUS
<1>4. d # from  BY <1>3 DEF RangeClosing, Closing
<1> DEFINE q == d - 1
<1>5. /\ from \in Nat /\ from >= 1 /\ d \in Nat /\ q \in Nat /\ q \in from..to
      /\ q + 1 = d /\ d \in Periods \ {1} /\ d \in (from + 1)..to
      /\ from..d \subseteq Periods /\ from..q \subseteq Periods /\ d..d \subseteq Periods
  BY <1>3, <1>4, NumPeriodsAssumption DEF Periods
<1>6. RangeClosing(from, q) = Closing(q)
  <2>1. q \notin D  BY <1>2, <1>5
  <2> QED  BY <1>5, <2>1
<1>7. Opening(d) = Closing(q)
  BY <1>5, TypedStatesContinue DEF OpeningContinuesClosing
<1> HIDE DEF D, q
<1>8. from \in Int /\ q \in Int /\ d \in Int /\ from <= q + 1 /\ q <= d
  BY <1>5
<1>9. MovementBetween(from, d) = MovementBetween(from, q) + MovementBetween(d, d)
  <2>1. MovementBetween(from, d) = MovementBetween(from, q) + MovementBetween(q + 1, d)
    BY ONLY TypeOK, <1>5, <1>8, MovementSplit
  <2> QED  BY <1>5, <2>1
<1>10. MovementBetween(from, q) \in Int /\ MovementBetween(d, d) \in Int
  BY ONLY TypeOK, <1>5, <1>8, MovementInt
<1>11. Opening(from) \in Int  BY OpeningInt
<1>12. RangeClosing(from, d) = Closing(d)
  BY <1>6, <1>7, <1>9, <1>10, <1>11 DEF RangeClosing, Closing
<1> QED  BY <1>3, <1>12

(* A report over a range without anchors inside it closes with what the    *)
(* screen of its last period shows.                                        *)
THEOREM RangeAlwaysAgrees == Spec => []RangeClosingAgrees
<1>1. Spec => []TypeOK  BY TypeCorrect
<1>2. TypeOK => RangeClosingAgrees
  <2> SUFFICES ASSUME TypeOK, NEW from \in Periods, NEW to \in Periods, from < to,
                      \A p \in (from + 1)..to : ~TrustedAnchor(p) /\ ~OrphanedLegacy(p)
               PROVE  RangeClosing(from, to) = Closing(to)
    BY DEF RangeClosingAgrees
  <2>1. from <= to  BY DEF Periods
  <2> QED  BY <2>1, RangeFollowsPeriods
<1> QED  BY <1>1, <1>2, PTL

-----------------------------------------------------------------------------
(* Time does not flow backward. *)

(* What is carried into a period is computed from rows and movements of    *)
(* earlier periods only.                                                   *)
LEMMA CarryReadsThePast ==
  ASSUME TypeOK, TypeOK', NEW p \in Periods,
         \A k \in 1..(p - 1) : rows'[k] = rows[k],
         \A m \in Movements : m.period < p => (m \in posted' <=> m \in posted),
         NEW q \in 1..p
  PROVE  /\ CarriedOpening(q)' = CarriedOpening(q)
         /\ AnyActivityAtOrBefore(q - 1)' <=> AnyActivityAtOrBefore(q - 1)
<1>1. p \in Nat /\ q \in Nat /\ q >= 1 /\ q <= p /\ p <= NumPeriods /\ NumPeriods \in Nat
  BY NumPeriodsAssumption DEF Periods
<1>2. \A m \in Movements : m.period \in Nat  BY MovementsAssumption DEF Periods
<1>3. posted \subseteq Movements /\ posted' \subseteq Movements  BY DEF TypeOK
<1>4. \A k \in Int : k < p => (AnyActivityAtOrBefore(k)' <=> AnyActivityAtOrBefore(k))
  BY <1>1, <1>2, <1>3 DEF AnyActivityAtOrBefore, Effective
<1>5. \A a \in 1..(p - 1) : TrustedAnchor(a)' <=> TrustedAnchor(a)
  BY <1>1, <1>4 DEF TrustedAnchor
<1>6. \A i, j \in Int : 1 <= i /\ j < p => MovementBetween(i, j)' = MovementBetween(i, j)
  <2> SUFFICES ASSUME NEW i \in Int, NEW j \in Int, 1 <= i, j < p
               PROVE  MovementBetween(i, j)' = MovementBetween(i, j)
    OBVIOUS
  <2>1. {m \in Effective : m.period \in i..j}' = {m \in Effective : m.period \in i..j}
    BY <1>1, <1>2, <1>3 DEF Effective
  <2>2. BookMovement(i, j)' = BookMovement(i, j)  BY <2>1 DEF BookMovement, Effect
  <2>3. \A k \in i..j : LegacyColumns'[k] = LegacyColumns[k]
    BY <1>1 DEF LegacyColumns, Periods
  <2>4. LegacyStoredMovement(i, j)' = LegacyStoredMovement(i, j)
    <3>1. IsFiniteSet(i..j)  BY FS_Interval
    <3> QED  BY <2>3, <3>1, SumSame DEF LegacyStoredMovement
  <2> QED  BY <2>2, <2>4 DEF MovementBetween
<1>7. AnchorsBefore(q)' = AnchorsBefore(q)  BY <1>1, <1>5 DEF AnchorsBefore
<1>8. LastAnchorBefore(q)' = LastAnchorBefore(q)  BY <1>7 DEF LastAnchorBefore
<1>9. FirstEver(q)' <=> FirstEver(q)  BY <1>1, <1>4, <1>7 DEF FirstEver
<1>10. PriorClosing(q)' = PriorClosing(q)
  <2>1. CASE AnchorsBefore(q) = {}
    <3>1. MovementBetween(1, q - 1)' = MovementBetween(1, q - 1)  BY <1>1, <1>6
    <3> QED  BY <1>7, <2>1, <3>1 DEF PriorClosing
  <2>2. CASE AnchorsBefore(q) # {}
    <3> DEFINE a == LastAnchorBefore(q)
    <3>1. a \in 1..(q - 1)
      <4>1. q \in Periods  BY <1>1 DEF Periods
      <4> QED  BY <2>2, <4>1, LastAnchorIsLast DEF AnchorsBefore
    <3>2. a' = a  BY <1>8
    <3> HIDE DEF a
    <3>3. /\ MovementBetween(a, a)' = MovementBetween(a, a)
          /\ MovementBetween(a + 1, q - 1)' = MovementBetween(a + 1, q - 1)
      BY <1>1, <1>6, <3>1, <3>2
    <3>4. a \in 1..(p - 1)  BY <1>1, <3>1
    <3>5. ClosingOfRow(a)' = ClosingOfRow(a)  BY <3>2, <3>3, <3>4 DEF ClosingOfRow
    <3> USE DEF a
    <3> QED  BY <1>7, <1>8, <2>2, <3>3, <3>5 DEF PriorClosing
  <2> QED  BY <2>1, <2>2
<1> QED  BY <1>1, <1>4, <1>9, <1>10 DEF CarriedOpening

(* So is its opening, except for its own row. *)
LEMMA OpeningReadsThePast ==
  ASSUME TypeOK, TypeOK', NEW p \in Periods, NEW q \in 1..p,
         \A k \in 1..(p - 1) : rows'[k] = rows[k], rows'[q] = rows[q],
         \A m \in Movements : m.period < p => (m \in posted' <=> m \in posted)
  PROVE  Opening(q)' = Opening(q)
<1>1. /\ CarriedOpening(q)' = CarriedOpening(q)
      /\ AnyActivityAtOrBefore(q - 1)' <=> AnyActivityAtOrBefore(q - 1)
  BY CarryReadsThePast
<1>2. TrustedAnchor(q)' <=> TrustedAnchor(q)  BY <1>1 DEF TrustedAnchor
<1> QED  BY <1>1, <1>2 DEF Opening

(* No step that posts or removes movements from some period on moves the   *)
(* opening of that period or of an earlier one.                            *)
THEOREM NothingEverFlowsBackward == Spec => NothingFlowsBackward
<1>1. Spec => []TypeOK  BY TypeCorrect
<1> DEFINE Kept ==
      \A p \in Periods :
          /\ rows' = rows
          /\ \A m \in (posted \ posted') \cup (posted' \ posted) : m.period >= p
          => OpeningsKept(1..p)
<1>2. TypeOK /\ TypeOK' => Kept
  <2> SUFFICES ASSUME TypeOK, TypeOK', NEW p \in Periods, rows' = rows,
                      \A m \in (posted \ posted') \cup (posted' \ posted) : m.period >= p,
                      NEW q \in 1..p
               PROVE  Opening(q)' = Opening(q)
    BY DEF OpeningsKept
  <2>1. \A m \in Movements : m.period < p => (m \in posted' <=> m \in posted)
    BY MovementsAssumption, NumPeriodsAssumption DEF Periods
  <2>2. \A k \in 1..(p - 1) : rows'[k] = rows[k]  OBVIOUS
  <2> QED  BY <2>1, <2>2, OpeningReadsThePast
<1> QED  BY <1>1, <1>2, PTL DEF NothingFlowsBackward

(* A Full Reset restarts its period from the balance carried into it and   *)
(* leaves every earlier period as it was.                                  *)
THEOREM FullResetAlwaysRestarts == Spec => FullResetRestartsFromCarry
<1>1. Spec => []TypeOK  BY TypeCorrect
<1> DEFINE Restarts ==
      \A p \in Periods :
          FullReset(p) => /\ OpeningsKept(1..(p - 1))
                          /\ Opening(p)' = CarriedOpening(p)
<1>2. TypeOK /\ TypeOK' => Restarts
  <2> SUFFICES ASSUME TypeOK, TypeOK', NEW p \in Periods, FullReset(p)
               PROVE  /\ OpeningsKept(1..(p - 1))
                      /\ Opening(p)' = CarriedOpening(p)
    OBVIOUS
  <2>1. p \in Nat /\ p >= 1 /\ p \in 1..p /\ p <= NumPeriods /\ NumPeriods \in Nat
    BY NumPeriodsAssumption DEF Periods
  <2>2. \A k \in 1..(p - 1) : rows'[k] = rows[k]
    BY <2>1 DEF FullReset, TypeOK, Periods
  <2>3. \A m \in Movements : m.period < p => (m \in posted' <=> m \in posted)
    BY <2>1, MovementsAssumption DEF FullReset, Periods
  <2>4. OpeningsKept(1..(p - 1))
    <3> SUFFICES ASSUME NEW q \in 1..(p - 1) PROVE Opening(q)' = Opening(q)
      BY DEF OpeningsKept
    <3>1. q \in 1..p  BY <2>1
    <3>2. rows'[q] = rows[q]  BY <2>2
    <3> QED  BY <2>2, <2>3, <3>1, <3>2, OpeningReadsThePast
  <2>5. CarriedOpening(p)' = CarriedOpening(p)
    BY <2>1, <2>2, <2>3, CarryReadsThePast
  <2>6. ~TrustedAnchor(p)'
    <3>1. rows'[p] = ResetRow(p)  BY DEF FullReset, TypeOK
    <3>2. rows'[p].source \in {"reset_created", "none"}
      BY <3>1 DEF ResetRow, NoRow
    <3> QED  BY <3>2 DEF TrustedAnchor, AnchorEligible, UnconditionalAnchors
  <2> QED  BY <2>4, <2>5, <2>6 DEF Opening
<1> QED  BY <1>1, <1>2, PTL DEF FullResetRestartsFromCarry

-----------------------------------------------------------------------------
(* The diagnostic ledger adds up. *)

(* What a set of posted lines adds up to, and that it is an integer. *)
LEMMA QuantityInt ==
  ASSUME TypeOK, NEW T \in SUBSET posted
  PROVE  /\ IsFiniteSet(T) /\ T \subseteq Movements
         /\ \A m \in T : Quantity[m] \in Int
         /\ SumFunctionOnSet(Quantity, T) \in Int
<1>1. T \in SUBSET Movements  BY DEF TypeOK
<1>2. IsFiniteSet(T)  BY <1>1, MovementsAssumption, FS_Subset
<1>3. \A m \in T : Quantity[m] \in Int  BY <1>1, MovementsAssumption DEF Quantity
<1> QED  BY <1>1, <1>2, <1>3, SumInt

(* Lines of the adding books move the balance up by their quantities, the  *)
(* others down.                                                            *)
LEMMA UpwardLines ==
  ASSUME TypeOK, NEW T \in SUBSET posted, \A m \in T : m.book \in {"production", "returns"}
  PROVE  SumFunctionOnSet(Effect, T) = SumFunctionOnSet(Quantity, T)
<1>1. \A m \in T : Effect[m] = Quantity[m]  BY QuantityInt DEF Effect, Quantity
<1> QED  BY <1>1, QuantityInt, SumSame

(* Dispatches and adjustments move it down. *)
LEMMA DownwardLines ==
  ASSUME TypeOK, NEW T \in SUBSET posted, \A m \in T : m.book \in {"dispatch", "adjustment"}
  PROVE  SumFunctionOnSet(Effect, T) = -SumFunctionOnSet(Quantity, T)
<1>1. \A m \in T : Quantity[m] \in Int /\ Effect[m] = -Quantity[m]
  BY QuantityInt DEF Effect, Quantity
<1> QED  BY <1>1, QuantityInt, SumOpposite

(* The books of one period, queried together, are the four queried apart   *)
(* and the Night dispatches that are not queried.                          *)
LEMMA BooksOfOnePeriod ==
  ASSUME TypeOK, NEW p \in Periods
  PROVE  BookMovement(p, p) =
            ProductionLines(p) + ReturnsLines(p)
              - (DispatchLines(p) + AdjustmentEntries(p) + NightDispatched(p))
<1> DEFINE P == Lines("production", p)
           R == {m \in Lines("returns", p) : m.posts}
           D == Lines("dispatch", p)
           A == Lines("adjustment", p)
           Sum(T) == SumFunctionOnSet(Effect, T)
           Count(T) == SumFunctionOnSet(Quantity, T)
<1>1. P \in SUBSET posted /\ R \in SUBSET posted /\ D \in SUBSET posted /\ A \in SUBSET posted
  BY DEF Lines
<1>2. {m \in Effective : m.period \in p..p} = (P \cup R) \cup (D \cup A)
  <2>1. \A m \in posted : m.period \in p..p <=> m.period = p
    BY MovementsAssumption, NumPeriodsAssumption DEF TypeOK, Periods
  <2>2. \A m \in posted : m.book \in Books /\ m.posts \in BOOLEAN
                           /\ (m.book # "returns" => m.posts)
    BY MovementsAssumption DEF TypeOK
  <2> QED  BY <2>1, <2>2 DEF Effective, Lines, Books
<1>3. P \cap R = {} /\ D \cap A = {} /\ (P \cup R) \cap (D \cup A) = {}  BY DEF Lines
<1>4. /\ \A m \in P \cup R : m.book \in {"production", "returns"}
      /\ \A m \in D \cup A : m.book \in {"dispatch", "adjustment"}
  BY DEF Lines
<1>5. P \cup R \in SUBSET posted /\ D \cup A \in SUBSET posted  BY <1>1
<1>6. /\ Count(P) \in Int /\ Count(R) \in Int /\ Count(D) \in Int /\ Count(A) \in Int
  <2> HIDE DEF P, R, D, A
  <2> QED  BY <1>1, QuantityInt
<1>7. Count(P \cup R) = Count(P) + Count(R)
  <2> HIDE DEF P, R
  <2> QED  BY <1>1, <1>3, <1>5, QuantityInt, SumUnion
<1>8. Count(D \cup A) = Count(D) + Count(A)
  <2> HIDE DEF D, A
  <2> QED  BY <1>1, <1>3, <1>5, QuantityInt, SumUnion
<1>9. Sum(P \cup R) = Count(P \cup R) /\ Sum(D \cup A) = -Count(D \cup A)
  <2> HIDE DEF P, R, D, A
  <2> QED  BY <1>4, <1>5, UpwardLines, DownwardLines
<1>10. Sum((P \cup R) \cup (D \cup A)) = Sum(P \cup R) + Sum(D \cup A)
  <2> HIDE DEF P, R, D, A
  <2> QED  BY <1>3, <1>5, QuantityInt, EffectInt, SumUnion
<1>11. ~IsDay(p) => R = {}
  <2>1. \A m \in posted : m.book = "returns" => IsDay(m.period)
    BY MovementsAssumption DEF TypeOK
  <2> QED  BY <2>1 DEF Lines
<1>12. /\ ReturnsLines(p) = Count(R)
       /\ \/ DispatchLines(p) = Count(D) /\ NightDispatched(p) = 0
          \/ DispatchLines(p) = 0 /\ NightDispatched(p) = Count(D)
  <2>1. SumFunctionOnSet(Quantity, {}) = 0  BY SumEmpty
  <2>2. CASE IsDay(p)  BY <2>2 DEF ReturnsLines, DispatchLines, NightDispatched
  <2>3. CASE ~IsDay(p)
    <3>1. Count(R) = 0  BY <1>11, <2>1, <2>3
    <3> QED  BY <2>3, <3>1 DEF ReturnsLines, DispatchLines, NightDispatched
  <2> QED  BY <2>2, <2>3
<1>13. BookMovement(p, p) = Sum((P \cup R) \cup (D \cup A))  BY <1>2 DEF BookMovement
<1>14. ProductionLines(p) = Count(P) /\ AdjustmentEntries(p) = Count(A)
  BY DEF ProductionLines, AdjustmentEntries
<1> HIDE DEF P, R, D, A, Sum, Count
<1> QED  BY <1>6, <1>7, <1>8, <1>9, <1>10, <1>12, <1>13, <1>14

(* The legacy columns of one period are those of its row. *)
LEMMA LegacyOfOnePeriod ==
  ASSUME TypeOK, NEW p \in Periods
  PROVE  LegacyStoredMovement(p, p) = rows[p].legacy
<1>1. p \in Int /\ p..p = {p}  BY NumPeriodsAssumption DEF Periods
<1>2. LegacyColumns[p] = rows[p].legacy /\ rows[p].legacy \in Nat
  BY LegacyColumnNat DEF LegacyColumns
<1>3. IsFiniteSet({p}) /\ {p} \ {p} = {}  BY FS_Singleton
<1>4. SumFunctionOnSet(LegacyColumns, {p}) =
        LegacyColumns[p] + SumFunctionOnSet(LegacyColumns, {p} \ {p})
  BY <1>2, <1>3, SumSplit
<1>5. SumFunctionOnSet(LegacyColumns, {}) = 0  BY SumEmpty
<1> QED  BY <1>1, <1>2, <1>3, <1>4, <1>5 DEF LegacyStoredMovement

(* The ledger's components always add up to the closing of the period and  *)
(* the legacy dispatches of its Night.                                     *)
THEOREM LedgerAlwaysReconciles == Spec => []LedgerReconciles
<1>1. TypeOK => LedgerReconciles
  <2> SUFFICES ASSUME TypeOK, NEW p \in Periods
               PROVE  ComponentClosing(p) = Closing(p) + NightDispatched(p)
    BY DEF LedgerReconciles
  <2>1. Opening(p) \in Int /\ rows[p].legacy \in Nat
    BY OpeningInt DEF TypeOK, Row, NoRow
  <2>2. /\ Lines("production", p) \in SUBSET posted /\ Lines("dispatch", p) \in SUBSET posted
        /\ {m \in Lines("returns", p) : m.posts} \in SUBSET posted
        /\ Lines("adjustment", p) \in SUBSET posted
    BY DEF Lines
  <2>3. /\ ProductionLines(p) \in Int /\ ReturnsLines(p) \in Int
        /\ DispatchLines(p) \in Int /\ AdjustmentEntries(p) \in Int
        /\ NightDispatched(p) \in Int
    BY <2>2, QuantityInt
       DEF ProductionLines, ReturnsLines, DispatchLines, AdjustmentEntries, NightDispatched
  <2>4. MovementBetween(p, p) = BookMovement(p, p) + rows[p].legacy
    BY LegacyOfOnePeriod DEF MovementBetween
  <2> QED  BY <2>1, <2>3, <2>4, BooksOfOnePeriod DEF ComponentClosing, Closing
<1> QED  BY <1>1, TypeCorrect, PTL

-----------------------------------------------------------------------------
(* What a step may change without moving a balance. *)

(* A window whose movements and legacy columns stay keeps its movement. *)
LEMMA SameMovement ==
  ASSUME TypeOK, TypeOK', NEW i \in Int, NEW j \in Int, i..j \subseteq Periods,
         \A m \in Movements : m.period \in i..j => (m \in posted' <=> m \in posted),
         \A k \in i..j : rows'[k].legacy = rows[k].legacy
  PROVE  MovementBetween(i, j)' = MovementBetween(i, j)
<1>1. {m \in Effective : m.period \in i..j}' = {m \in Effective : m.period \in i..j}
  BY DEF TypeOK, Effective
<1>2. BookMovement(i, j)' = BookMovement(i, j)  BY <1>1 DEF BookMovement, Effect
<1>3. \A k \in i..j : LegacyColumns'[k] = LegacyColumns[k]  BY DEF LegacyColumns
<1>4. LegacyStoredMovement(i, j)' = LegacyStoredMovement(i, j)
  <2>1. IsFiniteSet(i..j)  BY FS_Interval
  <2> QED  BY <1>3, <2>1, SumSame DEF LegacyStoredMovement
<1> QED  BY <1>2, <1>4 DEF MovementBetween

(* A balance whose nearest anchor, and everything moved since, stays as it *)
(* was is carried as before.                                               *)
LEMMA SameCarryFromAnchor ==
  ASSUME TypeOK, TypeOK', NEW q \in Periods, AnchorsBefore(q) # {},
         AnchorsBefore(q)' # {}, LastAnchorBefore(q)' = LastAnchorBefore(q),
         LET a == LastAnchorBefore(q)
         IN  /\ rows'[a].opening = rows[a].opening
             /\ \A k \in a..(q - 1) : rows'[k].legacy = rows[k].legacy
             /\ \A m \in Movements :
                   m.period \in a..(q - 1) => (m \in posted' <=> m \in posted)
  PROVE  CarriedOpening(q)' = CarriedOpening(q)
<1>0. LastAnchorBefore(q) \in 1..(q - 1)  BY LastAnchorIsLast DEF AnchorsBefore
<1> PICK a \in 1..(q - 1) : a = LastAnchorBefore(q)  BY <1>0
<1>1. q \in Nat /\ q <= NumPeriods /\ NumPeriods \in Nat
  BY NumPeriodsAssumption DEF Periods
<1>2. CarriedOpening(q) =
        rows[a].opening + MovementBetween(a, a) + MovementBetween(a + 1, q - 1)
  BY DEF CarriedOpening, FirstEver, PriorClosing, ClosingOfRow
<1>3. CarriedOpening(q)' =
        rows'[a].opening + MovementBetween(a, a)' + MovementBetween(a + 1, q - 1)'
  BY DEF CarriedOpening, FirstEver, PriorClosing, ClosingOfRow
<1>4. /\ rows'[a].opening = rows[a].opening
      /\ \A k \in a..(q - 1) : rows'[k].legacy = rows[k].legacy
      /\ \A m \in Movements :
            m.period \in a..(q - 1) => (m \in posted' <=> m \in posted)
  OBVIOUS
<1>5. /\ a..a \subseteq Periods /\ (a + 1)..(q - 1) \subseteq Periods
      /\ a..a \subseteq a..(q - 1) /\ (a + 1)..(q - 1) \subseteq a..(q - 1)
      /\ a \in Int /\ a + 1 \in Int /\ q - 1 \in Int
  BY <1>1 DEF Periods
<1>6. \A i, j \in Int : i..j \subseteq Periods /\ i..j \subseteq a..(q - 1)
            => MovementBetween(i, j)' = MovementBetween(i, j)
  <2> SUFFICES ASSUME NEW i \in Int, NEW j \in Int, i..j \subseteq Periods,
                      i..j \subseteq a..(q - 1)
               PROVE  MovementBetween(i, j)' = MovementBetween(i, j)
    OBVIOUS
  <2>1. /\ \A m \in Movements : m.period \in i..j => (m \in posted' <=> m \in posted)
        /\ \A k \in i..j : rows'[k].legacy = rows[k].legacy
    BY <1>4
  <2> QED  BY <2>1, SameMovement
<1>7. /\ MovementBetween(a, a)' = MovementBetween(a, a)
      /\ MovementBetween(a + 1, q - 1)' = MovementBetween(a + 1, q - 1)
  BY <1>5, <1>6
<1> QED  BY <1>2, <1>3, <1>4, <1>7

(* So is one without an anchor before it, when nothing before it moves. *)
LEMMA SameCarryFromStart ==
  ASSUME TypeOK, TypeOK', NEW q \in Periods, AnchorsBefore(q) = {},
         AnchorsBefore(q)' = {}, posted' = posted,
         \A k \in Periods : rows'[k].legacy = rows[k].legacy
  PROVE  CarriedOpening(q)' = CarriedOpening(q)
<1>1. q \in Nat /\ q <= NumPeriods /\ NumPeriods \in Nat
  BY NumPeriodsAssumption DEF Periods
<1>2. FirstEver(q)' <=> FirstEver(q)
  BY DEF FirstEver, AnyActivityAtOrBefore, Effective
<1>3. MovementBetween(1, q - 1)' = MovementBetween(1, q - 1)
  <2>1. 1..(q - 1) \subseteq Periods  BY <1>1 DEF Periods
  <2>2. \A i, j \in Int : i..j \subseteq Periods
          => MovementBetween(i, j)' = MovementBetween(i, j)
    BY SameMovement
  <2> QED  BY <1>1, <2>1, <2>2
<1> QED  BY <1>2, <1>3 DEF CarriedOpening, PriorClosing

(* The trusted anchors, what was moved and the legacy columns determine    *)
(* every opening: no other stored opening is read.                         *)
LEMMA BalancesReadAnchorsOnly ==
  ASSUME TypeOK, TypeOK', posted' = posted,
         \A k \in Periods : rows'[k].legacy = rows[k].legacy,
         \A k \in Periods : TrustedAnchor(k)' <=> TrustedAnchor(k),
         \A k \in Periods : TrustedAnchor(k) => rows'[k].opening = rows[k].opening
  PROVE  OpeningsKept(Periods)
<1> SUFFICES ASSUME NEW q \in Periods PROVE Opening(q)' = Opening(q)
  BY DEF OpeningsKept
<1>1. 1..(q - 1) \subseteq Periods  BY NumPeriodsAssumption DEF Periods
<1>2. AnchorsBefore(q)' = AnchorsBefore(q)  BY <1>1 DEF AnchorsBefore
<1>3. LastAnchorBefore(q)' = LastAnchorBefore(q)  BY <1>2 DEF LastAnchorBefore
<1>4. CASE AnchorsBefore(q) = {}
  <2>1. CarriedOpening(q)' = CarriedOpening(q)  BY <1>2, <1>4, SameCarryFromStart
  <2> QED  BY <2>1 DEF Opening
<1>5. CASE AnchorsBefore(q) # {}
  <2>0. LastAnchorBefore(q) \in AnchorsBefore(q)  BY <1>5, LastAnchorIsLast
  <2> PICK a \in 1..(q - 1) : a = LastAnchorBefore(q) /\ TrustedAnchor(a)
    BY <2>0 DEF AnchorsBefore
  <2>1. a \in Periods /\ a..(q - 1) \subseteq Periods
    BY NumPeriodsAssumption DEF Periods
  <2>2. /\ rows'[a].opening = rows[a].opening
        /\ \A k \in a..(q - 1) : rows'[k].legacy = rows[k].legacy
        /\ \A m \in Movements :
              m.period \in a..(q - 1) => (m \in posted' <=> m \in posted)
    BY <2>1
  <2>3. CarriedOpening(q)' = CarriedOpening(q)
    BY <1>2, <1>3, <1>5, <2>2, SameCarryFromAnchor
  <2> QED  BY <2>3 DEF Opening
<1> QED  BY <1>4, <1>5

(* A save that is no authorized correction moves no balance anywhere: the  *)
(* row it writes was no trusted anchor before, and is none after.          *)
THEOREM RoutineSaveAlwaysKeeps == Spec => RoutineSaveKeepsBalances
<1>1. Spec => []TypeOK  BY TypeCorrect
<1> DEFINE Kept ==
      \A p \in Periods :
          RoutineSave(p) /\ ~(TrustedAnchor(p) /\ rows[p].source \in LiveRevalidated)
              => OpeningsKept(Periods)
<1>2. TypeOK /\ TypeOK' => Kept
  <2> SUFFICES ASSUME TypeOK, TypeOK', NEW p \in Periods, RoutineSave(p),
                      ~(TrustedAnchor(p) /\ rows[p].source \in LiveRevalidated)
               PROVE  OpeningsKept(Periods)
    OBVIOUS
  <2>1. CASE PreserveAnchor(p)
    <3>1. rows' = rows /\ posted' = posted  BY <2>1 DEF PreserveAnchor, vars
    <3>2. \A k \in Periods : TrustedAnchor(k)' <=> TrustedAnchor(k)
      BY <3>1 DEF TrustedAnchor, AnyActivityAtOrBefore, Effective
    <3> QED  BY <3>1, <3>2, BalancesReadAnchorsOnly
  <2>2. CASE RefreshDerived(p)
    <3>1. /\ rows[p].source \notin UnconditionalAnchors
          /\ posted' = posted
          /\ rows' = [rows EXCEPT ![p] =
                [source |-> "derived", opening |-> PriorClosing(p), legacy |-> @.legacy]]
      BY <2>2 DEF RefreshDerived, StoreOpening
    <3>2. ~TrustedAnchor(p)  BY <3>1 DEF TrustedAnchor, LiveRevalidated
    <3>3. \A k \in Periods : k # p => rows'[k] = rows[k]  BY <3>1 DEF TypeOK
    <3>4. rows'[p].source = "derived" /\ rows'[p].legacy = rows[p].legacy
      BY <3>1 DEF TypeOK
    <3>5. ~TrustedAnchor(p)'
      BY <3>4 DEF TrustedAnchor, AnchorEligible, UnconditionalAnchors
    <3>6. \A k \in Periods : TrustedAnchor(k)' <=> TrustedAnchor(k)
      <4> SUFFICES ASSUME NEW k \in Periods, k # p
                   PROVE  TrustedAnchor(k)' <=> TrustedAnchor(k)
        BY <3>2, <3>5
      <4> QED  BY <3>1, <3>3 DEF TrustedAnchor, AnyActivityAtOrBefore, Effective
    <3>7. /\ \A k \in Periods : rows'[k].legacy = rows[k].legacy
          /\ \A k \in Periods : TrustedAnchor(k) => rows'[k].opening = rows[k].opening
      BY <3>2, <3>3, <3>4
    <3> QED  BY <3>1, <3>6, <3>7, BalancesReadAnchorsOnly
  <2> QED  BY <2>1, <2>2 DEF RoutineSave
<1> QED  BY <1>1, <1>2, PTL DEF RoutineSaveKeepsBalances

(* What is posted or removed before an unconditional anchor never reaches  *)
(* a balance at or after it: every later walk back stops at that anchor or *)
(* at one after it, and which ones these are no activity can change.       *)
THEOREM AnchorAlwaysSeals == Spec => AnchorSealsHistory
<1>1. Spec => []TypeOK  BY TypeCorrect
<1> DEFINE Sealed ==
      \A a \in Periods :
          /\ rows[a].source \in UnconditionalAnchors
          /\ \A q \in (a + 1)..NumPeriods : rows[q].source \notin LiveRevalidated
          /\ rows' = rows
          /\ \A m \in (posted \ posted') \cup (posted' \ posted) : m.period < a
          => OpeningsKept(a..NumPeriods)
<1>2. TypeOK /\ TypeOK' => Sealed
  <2> SUFFICES ASSUME TypeOK, TypeOK', NEW a \in Periods,
                      rows[a].source \in UnconditionalAnchors,
                      \A q \in (a + 1)..NumPeriods : rows[q].source \notin LiveRevalidated,
                      rows' = rows,
                      \A m \in (posted \ posted') \cup (posted' \ posted) : m.period < a,
                      NEW q \in a..NumPeriods
               PROVE  Opening(q)' = Opening(q)
    BY DEF OpeningsKept
  <2>1. /\ a \in Nat /\ a >= 1 /\ NumPeriods \in Nat /\ q \in Nat /\ q >= a
        /\ q \in Periods /\ a..NumPeriods \subseteq Periods
    BY NumPeriodsAssumption DEF Periods
  <2>2. \A k \in a..NumPeriods : TrustedAnchor(k)' <=> TrustedAnchor(k)
    <3>1. \A k \in a..NumPeriods : rows[k].source \notin LiveRevalidated
      BY <2>1 DEF LiveRevalidated
    <3> QED  BY <3>1 DEF TrustedAnchor, LiveRevalidated
  <2>3. TrustedAnchor(a) /\ TrustedAnchor(a)'
    BY DEF TrustedAnchor, AnchorEligible
  <2>4. CASE q = a  BY <2>3, <2>4 DEF Opening
  <2>5. CASE q # a
    <3>1. a \in AnchorsBefore(q) /\ a \in AnchorsBefore(q)'
      BY <2>1, <2>3, <2>5 DEF AnchorsBefore
    <3>2. PICK b \in 1..(q - 1) :
             b = LastAnchorBefore(q) /\ b >= a /\ TrustedAnchor(b)
      BY <2>1, <3>1, LastAnchorIsLast DEF AnchorsBefore
    <3>3. LastAnchorBefore(q)' = b
      <4>1. b \in AnchorsBefore(q)'  BY <2>1, <2>2, <3>2 DEF AnchorsBefore
      <4>2. \A k \in AnchorsBefore(q)' : k <= b
        <5> SUFFICES ASSUME NEW k \in AnchorsBefore(q)', k > b PROVE FALSE
          BY <2>1 DEF AnchorsBefore
        <5>1. k \in 1..(q - 1) /\ TrustedAnchor(k)'  BY DEF AnchorsBefore
        <5>2. k \in AnchorsBefore(q)
          BY <2>1, <2>2, <3>2, <5>1 DEF AnchorsBefore
        <5>3. AnchorsBefore(q) # {}  BY <3>1
        <5>4. \A c \in AnchorsBefore(q) : c <= LastAnchorBefore(q)
          BY <2>1, <5>3, LastAnchorIsLast
        <5>5. k <= b  BY <3>2, <5>2, <5>4
        <5> QED  BY <2>1, <3>2, <5>1, <5>5
      <4>3. \A k \in AnchorsBefore(q)' : k \in Nat  BY <2>1 DEF AnchorsBefore
      <4>4. /\ LastAnchorBefore(q)' \in AnchorsBefore(q)'
            /\ \A k \in AnchorsBefore(q)' : k <= LastAnchorBefore(q)'
        BY <4>1, <4>2 DEF LastAnchorBefore
      <4>5. LastAnchorBefore(q)' <= b /\ b <= LastAnchorBefore(q)'
        BY <4>1, <4>2, <4>4
      <4>6. LastAnchorBefore(q)' \in Nat /\ b \in Nat  BY <2>1, <4>3, <4>4
      <4> QED  BY <4>5, <4>6
    <3>4. /\ rows'[b].opening = rows[b].opening
          /\ \A k \in b..(q - 1) : rows'[k].legacy = rows[k].legacy
          /\ \A m \in Movements :
                m.period \in b..(q - 1) => (m \in posted' <=> m \in posted)
      BY <2>1, <3>2
    <3>5. CarriedOpening(q)' = CarriedOpening(q)
      <4>1. AnchorsBefore(q) # {} /\ AnchorsBefore(q)' # {}  BY <3>1
      <4> QED  BY <2>1, <3>2, <3>3, <3>4, <4>1, SameCarryFromAnchor
    <3>6. TrustedAnchor(q)' <=> TrustedAnchor(q)  BY <2>2
    <3> QED  BY <3>5, <3>6 DEF Opening
  <2> QED  BY <2>4, <2>5
<1> QED  BY <1>1, <1>2, PTL DEF AnchorSealsHistory

-----------------------------------------------------------------------------
(* Where a negative balance comes from. *)

(* What is stored as an anchor was counted: it is never negative.  Without *)
(* this a negative balance could begin with an anchor and no movement.     *)
AnchorsAreCounts ==
    \A p \in Periods : rows[p].source \in AnchorEligible => rows[p].opening >= 0

(* Anchors are written from counts only; what is carried, and may be       *)
(* negative, is stored as derived or as created by a reset.                *)
LEMMA AnchorsStayCounts == Spec => []AnchorsAreCounts
<1>1. Spec => []TypeOK  BY TypeCorrect
<1>2. Init => AnchorsAreCounts
  BY InitialAnchorsAssumption DEF Init, AnchorsAreCounts
<1>3. TypeOK /\ AnchorsAreCounts /\ [Next]_vars => AnchorsAreCounts'
  <2> SUFFICES ASSUME TypeOK, AnchorsAreCounts, [Next]_vars PROVE AnchorsAreCounts'
    OBVIOUS
  <2>1. CASE UNCHANGED rows  BY <2>1 DEF AnchorsAreCounts
  <2>2. ASSUME NEW p \in Periods, NEW row, row.source \in AnchorEligible => row.opening >= 0,
               rows' = [rows EXCEPT ![p] = row]
        PROVE  AnchorsAreCounts'
    <3>1. rows'[p] = row /\ \A q \in Periods : q # p => rows'[q] = rows[q]
      BY <2>2 DEF TypeOK
    <3> QED  BY <2>2, <3>1 DEF AnchorsAreCounts
  <2>3. ASSUME NEW m \in Movements,
               FinalizeLine(m) \/ RemoveLine(m) \/ CreateAdjustment(m) \/ DeleteAdjustment(m)
        PROVE  UNCHANGED rows
    BY <2>3 DEF FinalizeLine, RemoveLine, CreateAdjustment, DeleteAdjustment, Post, Remove
  <2>4. ASSUME NEW p \in Periods, NEW submitted \in Counts \cup {Nothing},
               NEW explicit \in BOOLEAN, Upsert(p, submitted, explicit)
        PROVE  AnchorsAreCounts'
    <3>1. submitted # Nothing => submitted >= 0  BY CountsAssumption
    <3>2. CASE SaveFirstEver(p, submitted)
      BY <2>2, <3>1, <3>2 DEF SaveFirstEver, StoreOpening
    <3>3. CASE CorrectOpening(p, submitted)
      BY <2>2, <3>1, <3>3 DEF CorrectOpening, StoreOpening
    <3>4. CASE PreserveAnchor(p)  BY <2>1, <3>4 DEF PreserveAnchor, vars
    <3>5. CASE RefreshDerived(p)
      <4>1. "derived" \notin AnchorEligible  BY DEF AnchorEligible, UnconditionalAnchors
      <4> QED  BY <2>2, <3>5, <4>1 DEF RefreshDerived, StoreOpening
    <3> QED  BY <2>4, <3>2, <3>3, <3>4, <3>5 DEF Upsert, RoutineSave
  <2>5. ASSUME NEW p \in Periods, FullReset(p) PROVE AnchorsAreCounts'
    <3>1. ResetRow(p).source \notin AnchorEligible
      BY DEF ResetRow, NoRow, AnchorEligible, UnconditionalAnchors
    <3> QED  BY <2>2, <2>5, <3>1 DEF FullReset
  <2>6. ASSUME NEW p \in Periods, NEW count \in Counts, ActivateCutover(p, count)
        PROVE  AnchorsAreCounts'
    <3>1. count >= 0  BY CountsAssumption
    <3> QED  BY <2>2, <2>6, <3>1 DEF ActivateCutover
  <2>7. ASSUME NEW e \in LegacyEntries, MigrateLegacyEntry(e) PROVE AnchorsAreCounts'
    <3>1. e.period \in Periods /\ e.opening >= 0  BY LegacyEntriesAssumption
    <3> QED  BY <2>2, <2>7, <3>1 DEF MigrateLegacyEntry
  <2>8. CASE UNCHANGED vars  BY <2>1, <2>8 DEF vars
  <2> QED  BY <2>1, <2>3, <2>4, <2>5, <2>6, <2>7, <2>8 DEF Next
<1> QED  BY <1>1, <1>2, <1>3, PTL DEF Spec

(* After a period that is not negative, no carried opening is: what legacy *)
(* columns the walk counts or leaves out before the first activity only    *)
(* ever raises it.                                                         *)
LEMMA CarriedFromNonNegative ==
  ASSUME TypeOK, NEW p \in Periods \ {1}, ~TrustedAnchor(p), Closing(p - 1) >= 0
  PROVE  Opening(p) >= 0
<1>1. p \in Nat /\ p - 1 \in Nat /\ p - 1 >= 1 /\ p - 1 \in Periods
  BY NumPeriodsAssumption DEF Periods
<1>2. CASE ~OrphanedLegacy(p)
  <2>1. Opening(p) = Closing(p - 1)
    BY <1>2, TypedStatesContinue DEF OpeningContinuesClosing
  <2> QED  BY <2>1
<1>3. CASE OrphanedLegacy(p)
  <2> DEFINE q == p - 1
  <2>1. FirstEver(q) /\ ~TrustedAnchor(q) /\ AnchorsBefore(q) = {}
    BY <1>3 DEF OrphanedLegacy, FirstEver
  <2>2. AnchorsBefore(p) = {}  BY <2>1, SameAnchors
  <2>3. Opening(p) = CarriedOpening(p)  BY DEF Opening
  <2>4. CASE FirstEver(p)  BY <2>3, <2>4 DEF CarriedOpening
  <2>5. CASE ~FirstEver(p)
    <3>1. Opening(p) = BookMovement(1, q) + LegacyStoredMovement(1, q)
      BY <2>2, <2>3, <2>5 DEF CarriedOpening, PriorClosing, MovementBetween
    <3>2. Closing(q) = BookMovement(q, q) + LegacyStoredMovement(q, q)
      <4>1. Opening(q) = 0  BY <2>1 DEF Opening, CarriedOpening
      <4>2. Closing(q) = 0 + MovementBetween(q, q)  BY <4>1 DEF Closing
      <4>3. q \in Int /\ q..q \subseteq Periods  BY <1>1
      <4>4. MovementBetween(q, q) \in Int  BY <4>3, MovementInt
      <4> QED  BY <4>2, <4>4 DEF MovementBetween
    <3>3. ~AnyActivityAtOrBefore(q - 1)  BY <2>1 DEF FirstEver
    <3> HIDE DEF q
    <3>4. q \in Int /\ q >= 1 /\ q - 1 \in Int /\ 1..q \subseteq Periods
          /\ q..q \subseteq Periods /\ q - 1 <= q /\ (q - 1) + 1 = q
          /\ 1 <= (q - 1) + 1 /\ 1..(q - 1) \subseteq Periods
      BY <1>1, NumPeriodsAssumption DEF q, Periods
    <3>5. BookMovement(1, q) = BookMovement(1, q - 1) + BookMovement(q, q)
      <4>1. BookMovement(1, q) = BookMovement(1, q - 1) + BookMovement((q - 1) + 1, q)
        BY ONLY TypeOK, <3>4, BookMovementSplit
      <4> QED  BY <3>4, <4>1
    <3>6. BookMovement(1, q - 1) = 0  BY <3>3, <3>4, QuietBooks
    <3>7. LegacyStoredMovement(1, q) =
            LegacyStoredMovement(1, q - 1) + LegacyStoredMovement(q, q)
      <4>1. LegacyStoredMovement(1, q) =
              LegacyStoredMovement(1, q - 1) + LegacyStoredMovement((q - 1) + 1, q)
        BY ONLY TypeOK, <3>4, LegacyStoredSplit
      <4> QED  BY <3>4, <4>1
    <3>8. LegacyStoredMovement(1, q - 1) \in Nat /\ LegacyStoredMovement(q, q) \in Nat
      BY ONLY TypeOK, <3>4, LegacyStoredNat
    <3>9. BookMovement(q, q) \in Int  BY BookMovementInt
    <3>10. Closing(q) >= 0  BY DEF q
    <3> QED  BY <3>1, <3>2, <3>5, <3>6, <3>7, <3>8, <3>9, <3>10
  <2> QED  BY <2>4, <2>5
<1> QED  BY <1>2, <1>3

(* A period that opens non-negative and closes negative was moved by a     *)
(* line of its own, and the diagnostic ledger sees it move, if no legacy   *)
(* dispatch of the Night moved it.                                         *)
LEMMA NegativeByItsOwnLines ==
  ASSUME TypeOK, NEW p \in Periods, Opening(p) >= 0, Closing(p) < 0,
         \A m \in posted \cap NightDispatches : m.period # p
  PROVE  MovementHere(p) /\ \E m \in posted \ NightDispatches : m.period = p
<1>1. p \in Int /\ p..p \subseteq Periods  BY NumPeriodsAssumption DEF Periods
<1>2. MovementBetween(p, p) < 0
  <2>1. MovementBetween(p, p) \in Int  BY <1>1, MovementInt
  <2> QED  BY <2>1, OpeningInt DEF Closing
<1>3. BookMovement(p, p) < 0
  <2>1. LegacyStoredMovement(p, p) \in Nat  BY <1>1, LegacyStoredNat
  <2> QED  BY <1>2, <2>1, BookMovementInt DEF MovementBetween
<1>4. MovementHere(p)
  <2>1. NightDispatched(p) = 0
    <3>1. CASE IsDay(p)  BY <3>1 DEF NightDispatched
    <3>2. CASE ~IsDay(p)
      <4>1. Lines("dispatch", p) = {}
        BY <3>2 DEF Lines, NightDispatches, TypeOK
      <4> QED  BY <3>2, <4>1, SumEmpty DEF NightDispatched
    <3> QED  BY <3>1, <3>2
  <2> QED  BY <1>3, <2>1, BooksOfOnePeriod DEF MovementHere
<1>5. \E m \in posted \ NightDispatches : m.period = p
  <2> SUFFICES ASSUME \A m \in posted : m.period # p PROVE FALSE  OBVIOUS
  <2>1. {m \in Effective : m.period \in p..p} = {}
    BY <1>1 DEF Effective
  <2> QED  BY <1>3, <2>1, SumEmpty DEF BookMovement
<1> QED  BY <1>4, <1>5

(* The last anchor's date opens non-negative, and no anchor follows it. *)
LEMMA AnchorDateNonNegative ==
  ASSUME TypeOK, AnchorsAreCounts, NEW p \in Periods,
         AnchorsBefore(p) # {} => IsDay(LastAnchorBefore(p))
  PROVE  /\ AnchorDate(p) \in 1..p
         /\ Opening(AnchorDate(p)) >= 0
         /\ \A a \in (AnchorDate(p) + 1)..(p - 1) : ~TrustedAnchor(a)
<1>1. p \in Nat /\ p >= 1 /\ p <= NumPeriods /\ NumPeriods \in Nat
  BY NumPeriodsAssumption DEF Periods
<1>2. CASE AnchorsBefore(p) = {}
  <2>1. AnchorDate(p) = 1  BY <1>2 DEF AnchorDate
  <2>2. AnchorsBefore(1) = {}  BY DEF AnchorsBefore
  <2>3. ~AnyActivityAtOrBefore(0)
    BY MovementsAssumption DEF AnyActivityAtOrBefore, Effective, TypeOK, Periods
  <2>4. CarriedOpening(1) = 0  BY <2>2, <2>3 DEF CarriedOpening, FirstEver
  <2>5. Opening(1) >= 0
    BY <1>1, <2>4 DEF Opening, TrustedAnchor, AnchorsAreCounts, Periods
  <2> QED  BY <1>1, <1>2, <2>1, <2>5 DEF AnchorsBefore
<1>3. CASE AnchorsBefore(p) # {}
  <2>1. PICK a \in 1..(p - 1) : a = LastAnchorBefore(p) /\ TrustedAnchor(a)
    BY <1>3, LastAnchorIsLast DEF AnchorsBefore
  <2>2. AnchorDate(p) = a  BY <1>3, <2>1 DEF AnchorDate, DayOf
  <2>3. Opening(a) >= 0
    BY <1>1, <2>1 DEF Opening, TrustedAnchor, AnchorsAreCounts, Periods
  <2>4. \A b \in (a + 1)..(p - 1) : ~TrustedAnchor(b)
    <3> SUFFICES ASSUME NEW b \in (a + 1)..(p - 1), TrustedAnchor(b) PROVE FALSE
      OBVIOUS
    <3>1. b \in AnchorsBefore(p)  BY <2>1 DEF AnchorsBefore
    <3>2. b <= a  BY <1>3, <2>1, <3>1, LastAnchorIsLast
    <3> QED  BY <1>1, <2>1, <3>2
  <2> QED  BY <1>1, <2>1, <2>2, <2>3, <2>4
<1> QED  BY <1>2, <1>3

(* Where the preview's scan begins, no negative balance is carried in,     *)
(* unless the lookback cuts one off.                                       *)
LEMMA ScanStartsNonNegative ==
  ASSUME TypeOK, AnchorsAreCounts, NEW p \in Periods, ~CutOff(p),
         AnchorsBefore(p) # {} => IsDay(LastAnchorBefore(p))
  PROVE  /\ ScanStart(p) \in 1..p
         /\ Opening(ScanStart(p)) >= 0
         /\ \A a \in (ScanStart(p) + 1)..(p - 1) : ~TrustedAnchor(a)
<1>1. p \in Nat /\ p >= 1 /\ p <= NumPeriods /\ NumPeriods \in Nat
  BY NumPeriodsAssumption DEF Periods
<1>2. PICK d \in 1..p : /\ d = AnchorDate(p)
                        /\ Opening(d) >= 0
                        /\ \A a \in (d + 1)..(p - 1) : ~TrustedAnchor(a)
  BY AnchorDateNonNegative
<1>3. PICK l \in Int : l = LookbackStart(p) /\ l <= p
  BY <1>1, LookbackAssumption DEF LookbackStart, DayOf
<1>4. CASE l > d
  <2>1. ScanStart(p) = l  BY <1>2, <1>3, <1>4 DEF ScanStart
  <2>2. l \in Periods  BY <1>1, <1>2, <1>3, <1>4 DEF Periods
  <2>3. Opening(l) >= 0
    BY <1>2, <1>3, <1>4, <2>2, OpeningInt DEF CutOff
  <2> QED  BY <1>1, <1>2, <1>3, <1>4, <2>1, <2>3
<1>5. CASE ~(l > d)
  <2>1. ScanStart(p) = d  BY <1>2, <1>3, <1>5 DEF ScanStart
  <2> QED  BY <1>2, <2>1
<1> QED  BY <1>4, <1>5

(* The preview of a reset traces a negative balance, in a period that      *)
(* moved nothing, to an earlier period that moved it, with no anchor       *)
(* between the two, unless the lookback cuts the negative balance off.     *)
THEOREM NegativeAlwaysTraced == Spec => []NegativeIsTraced
<1>1. Spec => []TypeOK  BY TypeCorrect
<1>2. TypeOK /\ AnchorsAreCounts => NegativeIsTraced
  <2> SUFFICES ASSUME TypeOK, AnchorsAreCounts, NEW p \in Periods, CarriedNegative(p),
                      ~CutOff(p), ~ScanFails(p),
                      AnchorsBefore(p) # {} => IsDay(LastAnchorBefore(p))
               PROVE  /\ Origin(p) < p
                      /\ MovementHere(Origin(p))
                      /\ \A a \in (Origin(p) + 1)..p : ~TrustedAnchor(a)
    BY DEF NegativeIsTraced
  <2>1. Closing(p) < 0 /\ ~\E m \in posted \ NightDispatches : m.period = p
    BY DEF CarriedNegative
  <2>2. PICK s \in 1..p : /\ s = ScanStart(p)
                          /\ Opening(s) >= 0
                          /\ \A a \in (s + 1)..(p - 1) : ~TrustedAnchor(a)
    BY ScanStartsNonNegative
  <2>3. p \in Nat /\ p >= 1 /\ s..p \subseteq Periods /\ s \in Nat
    BY <2>2, NumPeriodsAssumption DEF Periods
  <2> DEFINE N == NegativePeriods(s..p)
  <2>4. N \in SUBSET Nat /\ p \in N
    BY <2>1, <2>2, <2>3 DEF NegativePeriods
  <2>5. Origin(p) \in N /\ \A r \in N : Origin(p) <= r
    <3> HIDE DEF N
    <3>1. \E q \in N : \A r \in N : q <= r  BY <2>4, LeastNat
    <3>2. Origin(p) = CHOOSE q \in N : \A r \in N : q <= r
      BY <2>2 DEF Origin, N
    <3> QED  BY <3>1, <3>2
  <2>6. PICK o \in s..p : /\ o = Origin(p) /\ Closing(o) < 0
                          /\ \A r \in N : o <= r
    BY <2>5 DEF NegativePeriods
  <2>7. Opening(o) >= 0
    <3>1. CASE o = s  BY <2>2, <3>1
    <3>2. CASE o # s /\ TrustedAnchor(o)
      BY <2>3, <2>6, <3>2 DEF Opening, TrustedAnchor, AnchorsAreCounts
    <3>3. CASE o # s /\ ~TrustedAnchor(o)
      <4>1. o - 1 \in s..p /\ o \in Periods \ {1} /\ o - 1 \in Periods
        BY <2>3, <2>6, <3>3
      <4>2. o - 1 \notin N  BY <2>3, <2>6, <4>1
      <4>3. Closing(o - 1) >= 0
        <5>1. ~(Closing(o - 1) < 0)  BY <4>1, <4>2 DEF NegativePeriods
        <5>2. Closing(o - 1) \in Int
          <6>1. o - 1 \in Int /\ (o - 1)..(o - 1) \subseteq Periods  BY <2>3, <4>1
          <6>2. MovementBetween(o - 1, o - 1) \in Int  BY <6>1, MovementInt
          <6> QED  BY <4>1, <6>2, OpeningInt DEF Closing
        <5> QED  BY <5>1, <5>2
      <4> QED  BY <3>3, <4>1, <4>3, CarriedFromNonNegative
    <3> QED  BY <3>1, <3>2, <3>3
  <2>8. MovementHere(o) /\ \E m \in posted \ NightDispatches : m.period = o
    <3>1. \A m \in posted \cap NightDispatches : m.period # o
      BY <2>2, <2>3, <2>6 DEF ScanFails
    <3> QED  BY <2>3, <2>6, <2>7, <3>1, NegativeByItsOwnLines
  <2>9. o < p  BY <2>1, <2>3, <2>6, <2>8
  <2>10. ~TrustedAnchor(p)
    <3> SUFFICES ASSUME TrustedAnchor(p) PROVE FALSE  OBVIOUS
    <3>1. Opening(p) >= 0  BY DEF Opening, TrustedAnchor, AnchorsAreCounts
    <3>2. \A m \in posted \cap NightDispatches : m.period # p
      BY <2>2, <2>3 DEF ScanFails
    <3> QED  BY <2>1, <3>1, <3>2, NegativeByItsOwnLines
  <2>11. \A a \in (o + 1)..p : ~TrustedAnchor(a)
    <3> SUFFICES ASSUME NEW a \in (o + 1)..p, a # p PROVE ~TrustedAnchor(a)
      BY <2>10
    <3>1. a \in (s + 1)..(p - 1)  BY <2>3, <2>6
    <3> QED  BY <2>2, <3>1
  <2> QED  BY <2>6, <2>8, <2>9, <2>11
<1> QED  BY <1>1, <1>2, AnchorsStayCounts, PTL

-----------------------------------------------------------------------------
(* The stock of spare parts (SparePartStock). *)

(* A signed quantity is an integer. *)
LEMMA SignedInt ==
  ASSUME NEW m \in Movement \cup {NoMovement}
  PROVE  /\ m.direction \in {"in", "out"} /\ m.quantity \in Nat
         /\ Signed(m) \in Int
BY DEF Movement, NoMovement, Signed

(* What a movement contributes to the stock is an integer. *)
LEMMA ContributionInt ==
  ASSUME PartsTypeOK
  PROVE  \A id \in MovementIds : Contribution[id] \in Int
<1> TAKE id \in MovementIds
<1>1. ledger[id] \in Movement \cup {NoMovement}  BY DEF PartsTypeOK
<1>2. Signed(ledger[id]) \in Int  BY <1>1, SignedInt
<1> QED  BY <1>2 DEF Contribution

(* The ledger's sum is an integer. *)
LEMMA LedgerStockInt ==
  ASSUME PartsTypeOK
  PROVE  LedgerStock \in Int
BY ContributionInt, MovementIdsAssumption, SumInt DEF LedgerStock

(* Rewriting one row shifts the ledger's stock by what the row contributes *)
(* more than before.                                                       *)
LEMMA LedgerStockChange ==
  ASSUME PartsTypeOK, PartsTypeOK', NEW id \in MovementIds,
         \A other \in MovementIds \ {id} : ledger'[other] = ledger[other]
  PROVE  LedgerStock' = LedgerStock + Contribution'[id] - Contribution[id]
<1>1. \A x \in MovementIds : Contribution[x] \in Int  BY ContributionInt
<1>2. \A x \in MovementIds : Contribution'[x] \in Int
  <2> SUFFICES ASSUME NEW x \in MovementIds PROVE Contribution'[x] \in Int  OBVIOUS
  <2>1. ledger'[x] \in Movement \cup {NoMovement}  BY DEF PartsTypeOK
  <2>2. Signed(ledger'[x]) \in Int  BY <2>1, SignedInt
  <2>3. Signed(ledger[x])' = Signed(ledger'[x])  BY DEF Signed
  <2> QED  BY <2>2, <2>3 DEF Contribution
<1>3. \A x \in MovementIds \ {id} : Contribution[x] = Contribution'[x]
  BY DEF Contribution, Signed
<1> QED
  BY <1>1, <1>2, <1>3, MovementIdsAssumption, SumChange DEF LedgerStock

(* What an appended row contributes. *)
LEMMA AppendStock ==
  ASSUME PartsTypeOK, PartsTypeOK', NEW id \in MovementIds, NEW direction \in {"in", "out"},
         NEW quantity \in Nat, Append(id, direction, quantity)
  PROVE  LedgerStock' = LedgerStock + (IF direction = "in" THEN quantity ELSE -quantity)
<1>1. \A other \in MovementIds \ {id} : ledger'[other] = ledger[other]
  BY DEF Append, PartsTypeOK
<1>2. Contribution[id] = 0  BY DEF Append, Contribution, NoMovement
<1>3. ledger'[id] = [direction |-> direction, quantity |-> quantity, status |-> "active"]
  BY DEF Append, PartsTypeOK
<1>4. Contribution'[id] = IF direction = "in" THEN quantity ELSE -quantity
  BY <1>3 DEF Contribution, Signed
<1> QED  BY <1>1, <1>2, <1>4, LedgerStockInt, LedgerStockChange

-----------------------------------------------------------------------------
(* A new ledger row keeps the ledger well typed. *)
LEMMA AppendType ==
  ASSUME PartsTypeOK, NEW id \in MovementIds, NEW direction \in {"in", "out"},
         NEW quantity \in Nat, Append(id, direction, quantity)
  PROVE  ledger' \in [MovementIds -> Movement \cup {NoMovement}]
<1>1. [direction |-> direction, quantity |-> quantity, status |-> "active"] \in Movement
  BY DEF Movement
<1> QED  BY <1>1 DEF Append, PartsTypeOK

(* A gate that is moved stays an integer. *)
LEMMA MoveCacheType ==
  ASSUME PartsTypeOK, NEW direction, NEW quantity \in Nat, MoveCache(direction, quantity)
  PROVE  cache' \in Int
BY DEF PartsTypeOK, MoveCache

(* A pending count corrects by a natural number, one way or the other. *)
LEMMA CountNumbers ==
  ASSUME PartsTypeOK, NEW w \in Workers, request[w].op = "count"
  PROVE  /\ request[w] \in CountRequest
         /\ request[w].before \in Int /\ request[w].counted \in Nat
         /\ CountDirection(w) \in {"in", "out"} /\ CountDifference(w) \in Nat
         /\ request[w].counted = request[w].before +
              (IF CountDirection(w) = "in" THEN CountDifference(w) ELSE -CountDifference(w))
<1>1. request[w] \in CountRequest
  BY DEF PartsTypeOK, Idle, CountRequest, VoidRequest
<1>2. request[w].before \in Int /\ request[w].counted \in Nat
  BY <1>1 DEF CountRequest
<1> QED  BY <1>1, <1>2 DEF CountDirection, CountDifference, Magnitude

(* A pending void names a movement of the ledger. *)
LEMMA VoidNumbers ==
  ASSUME PartsTypeOK, NEW w \in Workers, request[w].op = "void"
  PROVE  /\ request[w].id \in MovementIds
         /\ ledger[request[w].id] \in Movement \cup {NoMovement}
<1>1. request[w] \in VoidRequest
  BY DEF PartsTypeOK, Idle, CountRequest, VoidRequest
<1>2. request[w].id \in MovementIds  BY <1>1 DEF VoidRequest
<1> QED  BY <1>2 DEF PartsTypeOK

(* Type correctness of every reachable state, for every instance. *)
THEOREM SparePartTypeCorrect == PartsSpec => []PartsTypeOK
<1>1. PartsInit => PartsTypeOK  BY DEF PartsInit, PartsTypeOK
<1>2. PartsTypeOK /\ [PartsNext]_partsVars => PartsTypeOK'
  <2> SUFFICES ASSUME PartsTypeOK, [PartsNext]_partsVars PROVE PartsTypeOK'  OBVIOUS
  <2>1. ASSUME NEW id \in MovementIds, NEW direction \in {"in", "out"},
               NEW quantity \in Quantities, RecordMovement(id, direction, quantity)
        PROVE  PartsTypeOK'
    <3>1. quantity \in Nat  BY QuantitiesAssumption
    <3>2. ledger' \in [MovementIds -> Movement \cup {NoMovement}]
      BY <2>1, <3>1, AppendType DEF RecordMovement
    <3>3. cache' \in Int  BY <2>1, <3>1, MoveCacheType DEF RecordMovement
    <3> QED  BY <2>1, <3>2, <3>3 DEF RecordMovement, PartsTypeOK
  <2>2. ASSUME NEW w \in Workers, NEW counted \in Counted, ReadStockCount(w, counted)
        PROVE  PartsTypeOK'
    <3>1. [op |-> "count", before |-> LedgerStock, counted |-> counted] \in CountRequest
      BY LedgerStockInt, CountedAssumption DEF CountRequest
    <3> QED  BY <2>2, <3>1 DEF ReadStockCount, PartsTypeOK
  <2>3. ASSUME NEW w \in Workers, NEW id \in MovementIds, WriteStockCount(w, id)
        PROVE  PartsTypeOK'
    <3>1. CountDirection(w) \in {"in", "out"} /\ CountDifference(w) \in Nat
      BY <2>3, CountNumbers DEF WriteStockCount
    <3>2. ledger' \in [MovementIds -> Movement \cup {NoMovement}]
      BY <2>3, <3>1, AppendType DEF WriteStockCount
    <3>3. cache' \in Int
      <4>1. CASE CountDifference(w) = 0  BY <2>3, <4>1 DEF WriteStockCount, PartsTypeOK
      <4>2. CASE CountDifference(w) # 0
        BY <2>3, <3>1, <4>2, MoveCacheType DEF WriteStockCount
      <4> QED  BY <4>1, <4>2
    <3> QED  BY <2>3, <3>2, <3>3 DEF WriteStockCount, PartsTypeOK
  <2>4. ASSUME NEW w \in Workers, NEW id \in MovementIds, ReadVoid(w, id)
        PROVE  PartsTypeOK'
    BY <2>4 DEF ReadVoid, PartsTypeOK, VoidRequest
  <2>5. ASSUME NEW w \in Workers, WriteVoid(w) PROVE PartsTypeOK'
    <3> DEFINE id == request[w].id
               m == ledger[id]
    <3>1. id \in MovementIds /\ m \in Movement \cup {NoMovement}
      BY <2>5, VoidNumbers DEF WriteVoid
    <3>2. m.quantity \in Nat /\ Signed(m) \in Int  BY <3>1, SignedInt
    <3>3. cache' \in Int  BY <2>5, <3>2, MoveCacheType DEF WriteVoid
    <3>4. [m EXCEPT !.status = "void"] \in Movement
      BY <3>1 DEF Movement, NoMovement
    <3>5. ledger' = [ledger EXCEPT ![id] = [m EXCEPT !.status = "void"]]
      BY <2>5 DEF WriteVoid
    <3>6. request' \in [Workers -> {Idle} \cup CountRequest \cup VoidRequest]
      BY <2>5 DEF WriteVoid, PartsTypeOK
    <3>7. surplus' \in Int  BY <2>5, <3>2 DEF WriteVoid, PartsTypeOK
    <3> HIDE DEF id, m
    <3> QED  BY <3>1, <3>3, <3>4, <3>5, <3>6, <3>7 DEF PartsTypeOK
  <2>6. ASSUME NEW w \in Workers, Reject(w) PROVE PartsTypeOK'
    BY <2>6 DEF Reject, PartsTypeOK
  <2>7. CASE UNCHANGED partsVars  BY <2>7 DEF PartsTypeOK, partsVars
  <2> QED  BY <2>1, <2>2, <2>3, <2>4, <2>5, <2>6, <2>7 DEF PartsNext
<1> QED  BY <1>1, <1>2, PTL DEF PartsSpec

-----------------------------------------------------------------------------
(* The cache and the ledger move together in every step. *)

CacheInv ==
    /\ PartsTypeOK
    /\ CacheDriftsOnlyByDoubleVoid
    /\ cache >= 0

(* An empty ledger and an empty cache agree. *)
LEMMA CacheInvInit == PartsInit => CacheInv
<1> SUFFICES ASSUME PartsInit PROVE CacheInv  OBVIOUS
<1>1. PartsTypeOK  BY DEF PartsInit, PartsTypeOK
<1>2. \A id \in MovementIds : Contribution[id] = 0
  BY DEF PartsInit, Contribution, NoMovement
<1>3. LedgerStock = 0  BY <1>2, MovementIdsAssumption, SumZero DEF LedgerStock
<1> QED  BY <1>1, <1>3 DEF PartsInit, CacheInv, CacheDriftsOnlyByDoubleVoid

(* A gated movement and its row shift both sides by the same amount. *)
LEMMA MoveAndAppend ==
  ASSUME CacheInv, PartsTypeOK', NEW id \in MovementIds,
         NEW direction \in {"in", "out"}, NEW quantity \in Nat,
         MoveCache(direction, quantity), Append(id, direction, quantity),
         UNCHANGED surplus
  PROVE  CacheInv'
<1>1. LedgerStock' = LedgerStock + (IF direction = "in" THEN quantity ELSE -quantity)
  BY AppendStock DEF CacheInv
<1>2. LedgerStock \in Int /\ cache \in Int /\ surplus \in Int
  BY LedgerStockInt DEF CacheInv, PartsTypeOK
<1> QED
  BY <1>1, <1>2 DEF CacheInv, MoveCache, CacheDriftsOnlyByDoubleVoid

(* Steps that leave ledger, cache and surplus alone keep the invariant. *)
LEMMA SameLedger ==
  ASSUME CacheInv, PartsTypeOK', UNCHANGED <<ledger, cache, surplus>>
  PROVE  CacheInv'
<1>1. LedgerStock' = LedgerStock  BY DEF LedgerStock, Contribution, Signed
<1> QED  BY <1>1 DEF CacheInv, CacheDriftsOnlyByDoubleVoid

(* A void takes out of the cache what it takes out of the ledger, and a    *)
(* void of a voided row what it adds to the surplus.                       *)
LEMMA VoidKeepsCache ==
  ASSUME CacheInv, PartsTypeOK', NEW w \in Workers, WriteVoid(w)
  PROVE  CacheInv'
<1> DEFINE id == request[w].id
           m == ledger[id]
<1>1. id \in MovementIds /\ m \in Movement \cup {NoMovement}
  BY VoidNumbers DEF WriteVoid, CacheInv
<1>2. m.direction \in {"in", "out"} /\ m.quantity \in Nat /\ Signed(m) \in Int
  BY <1>1, SignedInt
<1>3. /\ ledger' = [ledger EXCEPT ![id].status = "void"]
      /\ Opposite(m.direction) = "out" => cache >= m.quantity
      /\ cache' = cache + (IF Opposite(m.direction) = "in" THEN m.quantity ELSE -m.quantity)
      /\ surplus' = IF m.status = "void" THEN surplus - Signed(m) ELSE surplus
  BY DEF WriteVoid, MoveCache
<1>4. cache' = cache - Signed(m) /\ cache' >= 0
  BY <1>2, <1>3 DEF CacheInv, PartsTypeOK, Opposite, Signed
<1>5. LedgerStock' = LedgerStock + Contribution'[id] - Contribution[id]
  <2>1. \A other \in MovementIds \ {id} : ledger'[other] = ledger[other]
    BY <1>1, <1>3 DEF CacheInv, PartsTypeOK
  <2> HIDE DEF id, m
  <2> QED  BY <1>1, <2>1, LedgerStockChange DEF CacheInv
<1>6. Contribution'[id] = 0
  <2>1. ledger'[id].status = "void"
    BY <1>1, <1>3 DEF CacheInv, PartsTypeOK, Movement, NoMovement
  <2> QED  BY <1>1, <2>1 DEF Contribution
<1>7. Contribution[id] = IF m.status = "active" THEN Signed(m) ELSE 0
  BY <1>1 DEF Contribution
<1>8. m.status \in {"active", "void"} \/ Signed(m) = 0
  BY <1>1 DEF Movement, NoMovement, Signed
<1>9. LedgerStock \in Int /\ cache \in Int /\ surplus \in Int
  BY LedgerStockInt DEF CacheInv, PartsTypeOK
<1>10. cache = LedgerStock + surplus  BY DEF CacheInv, CacheDriftsOnlyByDoubleVoid
<1> HIDE DEF id, m
<1>11. cache' = LedgerStock' + surplus'
  BY <1>2, <1>3, <1>4, <1>5, <1>6, <1>7, <1>8, <1>9, <1>10
<1> QED  BY <1>4, <1>11 DEF CacheInv, CacheDriftsOnlyByDoubleVoid

(* Every step keeps the invariant, one case per action. *)
LEMMA CacheInvStep ==
  ASSUME CacheInv, PartsTypeOK', [PartsNext]_partsVars
  PROVE  CacheInv'
<1>1. ASSUME NEW id \in MovementIds, NEW direction \in {"in", "out"},
             NEW quantity \in Quantities, RecordMovement(id, direction, quantity)
      PROVE  CacheInv'
  BY <1>1, QuantitiesAssumption, MoveAndAppend DEF RecordMovement
<1>2. ASSUME NEW w \in Workers, NEW id \in MovementIds, WriteStockCount(w, id)
      PROVE  CacheInv'
  <2>1. CountDirection(w) \in {"in", "out"} /\ CountDifference(w) \in Nat
    BY <1>2, CountNumbers DEF WriteStockCount, CacheInv
  <2>2. MoveCache(CountDirection(w), CountDifference(w))
    BY <1>2, <2>1 DEF WriteStockCount, MoveCache, CacheInv, PartsTypeOK
  <2> QED  BY <1>2, <2>1, <2>2, MoveAndAppend DEF WriteStockCount
<1>3. ASSUME NEW w \in Workers, WriteVoid(w) PROVE CacheInv'
  BY <1>3, VoidKeepsCache
<1>4. ASSUME NEW w \in Workers, NEW counted \in Counted, ReadStockCount(w, counted)
      PROVE  CacheInv'
  BY <1>4, SameLedger DEF ReadStockCount
<1>5. ASSUME NEW w \in Workers, NEW id \in MovementIds, ReadVoid(w, id)
      PROVE  CacheInv'
  BY <1>5, SameLedger DEF ReadVoid
<1>6. ASSUME NEW w \in Workers, Reject(w) PROVE CacheInv'
  BY <1>6, SameLedger DEF Reject
<1>7. CASE UNCHANGED partsVars  BY <1>7, SameLedger DEF partsVars
<1> QED  BY <1>1, <1>2, <1>3, <1>4, <1>5, <1>6, <1>7 DEF PartsNext

(* The invariant holds of every reachable state. *)
LEMMA CacheInvAlways == PartsSpec => []CacheInv
<1>1. PartsSpec => []PartsTypeOK  BY SparePartTypeCorrect
<1>2. PartsInit => CacheInv  BY CacheInvInit
<1>3. CacheInv /\ PartsTypeOK' /\ [PartsNext]_partsVars => CacheInv'  BY CacheInvStep
<1> QED  BY <1>1, <1>2, <1>3, PTL DEF PartsSpec

(* Whatever the workers interleave, the cached stock differs from the      *)
(* ledger's by exactly what movements voided twice have added.             *)
THEOREM CacheAlwaysExplained == PartsSpec => []CacheDriftsOnlyByDoubleVoid
<1>1. CacheInv => CacheDriftsOnlyByDoubleVoid  BY DEF CacheInv
<1> QED  BY <1>1, CacheInvAlways, PTL

(* The ledger is never overdrawn unless a stock-out was voided twice. *)
THEOREM LedgerNeverOverdrawn == PartsSpec => []NeverOverdrawn
<1>1. CacheInv => NeverOverdrawn
  <2> SUFFICES ASSUME CacheInv PROVE NeverOverdrawn  OBVIOUS
  <2>1. LedgerStock \in Int /\ cache \in Int /\ surplus \in Int
    BY LedgerStockInt DEF CacheInv, PartsTypeOK
  <2> QED  BY <2>1 DEF CacheInv, CacheDriftsOnlyByDoubleVoid, NeverOverdrawn
<1> QED  BY <1>1, CacheInvAlways, PTL

(* A stock count that nothing overtakes leaves the counted quantity.       *)
THEOREM CountIsExact == PartsSpec => UndisturbedCountIsExact
<1> DEFINE Exact ==
      \A w \in Workers, id \in MovementIds :
          WriteStockCount(w, id) /\ request[w].before = LedgerStock
              => LedgerStock' = request[w].counted
<1>1. PartsTypeOK /\ PartsTypeOK' => Exact
  <2> SUFFICES ASSUME PartsTypeOK, PartsTypeOK', NEW w \in Workers, NEW id \in MovementIds,
                      WriteStockCount(w, id), request[w].before = LedgerStock
               PROVE  LedgerStock' = request[w].counted
    OBVIOUS
  <2>1. request[w].op = "count" /\ Append(id, CountDirection(w), CountDifference(w))
    BY DEF WriteStockCount
  <2> QED  BY <2>1, CountNumbers, AppendStock
<1>2. PartsSpec => []PartsTypeOK  BY SparePartTypeCorrect
<1> QED  BY <1>1, <1>2, PTL DEF UndisturbedCountIsExact

=============================================================================
