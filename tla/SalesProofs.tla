----------------------------- MODULE SalesProofs -----------------------------
(***************************************************************************)
(* Theorems about SalesDay, the stock, and SalesMoney, the money, of the   *)
(* Sales Days of a salesperson, for every number of days and workers and   *)
(* every set of sheets, quantities, amounts, invoices and payments.        *)
(*                                                                         *)
(* Stock is conserved from day to day, saving what is shown changes        *)
(* nothing, a day closes reconciled, and a closed day is moved only by     *)
(* what was already in flight or by a Manager's removal.  The balance a    *)
(* day arrives at is what it started with and what it shows, and nothing   *)
(* dated later changes either.                                             *)
(***************************************************************************)
EXTENDS SalesDay, SalesMoney, SumLemmas

(* Figures of a day. *)

(* The latest of some days is one of them, and none comes after it. *)
LEMMA LatestIsLast ==
  ASSUME NEW S \in SUBSET Days, S # {}
  PROVE  LatestOf(S) \in S /\ \A e \in S : e <= LatestOf(S)
<1>1. \E m \in S : \A k \in S : k <= m
  BY LastDayAssumption, GreatestNat DEF Days
<1> QED  BY <1>1 DEF LatestOf

(* No other day is the latest. *)
LEMMA LatestIsUnique ==
  ASSUME NEW S \in SUBSET Days, NEW g \in S, \A e \in S : e <= g
  PROVE  LatestOf(S) = g
<1>1. LatestOf(S) \in S /\ \A e \in S : e <= LatestOf(S)  BY LatestIsLast
<1>2. LatestOf(S) <= g /\ g <= LatestOf(S)  BY <1>1
<1>3. LatestOf(S) \in Int /\ g \in Int
  <2>1. LatestOf(S) \in Days /\ g \in Days  BY <1>1
  <2> QED  BY <2>1, LastDayAssumption DEF Days
<1> QED  BY <1>2, <1>3

(* A day starts with a quantity or, without a history, with nothing known. *)
LEMMA OpeningStockType ==
  ASSUME TypeOK, NEW d \in Days
  PROVE  /\ OpeningStock(d) \in Figures
         /\ DeclaredBy(d) # {} => OpeningStock(d) \in Nat
<1>1. CountedBefore(d) \in SUBSET Days /\ DeclaredBy(d) \in SUBSET Days
  BY DEF CountedBefore, DeclaredBy
<1>2. CASE CountedBefore(d) # {}
  <2>1. LatestOf(CountedBefore(d)) \in Days  BY <1>1, <1>2, LatestIsLast
  <2>2. line[LatestOf(CountedBefore(d))].returned \in Nat
    BY <2>1 DEF TypeOK, Line
  <2> QED  BY <1>2, <2>2 DEF OpeningStock, Figures
<1>3. CASE CountedBefore(d) = {} /\ DeclaredBy(d) # {}
  <2>1. LatestOf(DeclaredBy(d)) \in DeclaredBy(d)  BY <1>1, <1>3, LatestIsLast
  <2>2. baseline[LatestOf(DeclaredBy(d))] \in Nat
    BY <2>1 DEF TypeOK, DeclaredBy, Figures
  <2> QED  BY <1>3, <2>2 DEF OpeningStock, Figures
<1>4. CASE CountedBefore(d) = {} /\ DeclaredBy(d) = {}
  BY <1>4 DEF OpeningStock, Figures
<1> QED  BY <1>2, <1>3, <1>4

-----------------------------------------------------------------------------
(* Type correctness. *)

(* A card a request may carry: of the sheet, or a return counted alone. *)
LEMMA ReturnOnlyIsSheet ==
  ASSUME NEW returned \in Quantities
  PROVE  ReturnOnly(returned) \in Sheet
BY QuantitiesAssumption DEF ReturnOnly, Sheet, Figures

(* What is stored of a card is a line. *)
LEMMA StoredType ==
  ASSUME TypeOK, NEW d \in Days, NEW sheet \in Sheet
  PROVE  Stored(d, sheet) \in Line /\ SheetStored(d, sheet) \in Line
<1>1. /\ sheet.previous \in Figures /\ sheet.issued \in Figures
      /\ sheet.total \in Figures /\ sheet.returned \in Figures
  BY DEF Sheet
<1>2. \A figure \in Figures : \A default : Correction(figure, default) \in Figures
  BY DEF Correction, Figures
<1>3. Or(sheet.returned, 0) \in Nat  BY <1>1 DEF Or, Figures
<1>4. (sheet.returned # Nothing) \in BOOLEAN  OBVIOUS
<1>5. Stored(d, sheet) \in Line  BY <1>1, <1>2, <1>3, <1>4 DEF Stored, Line
<1>6. line[d] \in Line  BY DEF TypeOK
<1> QED  BY <1>5, <1>6 DEF SheetStored

(* A Save or Close Day keeps the types of what it writes. *)
LEMMA WriteWorkingDayType ==
  ASSUME TypeOK, NEW w \in Workers, NEW sheet \in Sheets \cup {Nothing},
         NEW card \in Quantities \cup {Nothing}, NEW elevated, NEW requireBalance,
         request[w] # Idle,
         WriteWorkingDay(w, sheet, card, elevated, requireBalance)
  PROVE  /\ request[w].day \in Days
         /\ line' \in [Days -> Line] /\ recorded' \in [Days -> Nat]
         /\ request' \in [Workers -> Request \cup {Idle}]
         /\ given' = given /\ baseline' = baseline
         /\ \A d \in Days : d # request[w].day =>
               line'[d] = line[d] /\ recorded'[d] = recorded[d]
<1> DEFINE day == request[w].day
<1>1. day \in Days  BY DEF TypeOK, Request
<1>2. /\ request' = [request EXCEPT ![w] = Idle]
      /\ given' = given /\ baseline' = baseline
  BY DEF WriteWorkingDay, Answer
<1>3. request' \in [Workers -> Request \cup {Idle}]  BY <1>2 DEF TypeOK
<1>4. CASE sheet = Nothing
  <2>1. line' = line /\ recorded' = recorded  BY <1>4 DEF WriteWorkingDay
  <2> QED  BY <1>1, <1>2, <1>3, <2>1 DEF TypeOK
<1>5. CASE sheet # Nothing
  <2>1. sheet \in Sheets  BY <1>5
  <2>2. /\ line' = [line EXCEPT ![day] = SheetStored(day, sheet)]
        /\ recorded' = [recorded EXCEPT ![day] = Or(card, @)]
    BY <1>5 DEF WriteWorkingDay, SaveSalesCards
  <2> HIDE DEF day
  <2>3. SheetStored(day, sheet) \in Line  BY <1>1, <2>1, SheetsAssumption, StoredType
  <2>4. Or(card, recorded[day]) \in Nat
    BY <1>1, QuantitiesAssumption DEF Or, TypeOK
  <2>5. line' \in [Days -> Line] /\ recorded' \in [Days -> Nat]
    BY <2>2, <2>3, <2>4 DEF TypeOK
  <2>6. \A d \in Days : d # day => line'[d] = line[d] /\ recorded'[d] = recorded[d]
    BY <2>2 DEF TypeOK
  <2> QED  BY <1>1, <1>2, <1>3, <2>5, <2>6 DEF day
<1> QED  BY <1>4, <1>5

(* So does a card stored alone. *)
LEMMA SaveVehicleStockType ==
  ASSUME TypeOK, NEW w \in Workers, NEW sheet \in Sheet, NEW elevated \in BOOLEAN,
         SaveVehicleStock(w, sheet, elevated)
  PROVE  /\ TypeOK'
         /\ request[w].op = "edit" /\ request[w].day \in Days
         /\ recorded' = recorded /\ status' = status
         /\ \A d \in Days : d # request[w].day => line'[d] = line[d]
<1>1. request[w].op = "edit" /\ request[w].day \in Days
  BY DEF SaveVehicleStock, TypeOK, Request, Idle
<1>2. SheetStored(request[w].day, sheet) \in Line  BY <1>1, StoredType
<1>3. TypeOK'  BY <1>1, <1>2 DEF SaveVehicleStock, Answer, TypeOK
<1> QED  BY <1>1, <1>3 DEF SaveVehicleStock, TypeOK

(* Every other request, and every change that needs none, keeps the types. *)
LEMMA EditsKeepTypes ==
  ASSUME TypeOK, NEW w \in Workers,
         \/ \E quantity \in Quantities :
               ProductSales(w, quantity) \/ CreateInvoice(w, quantity) \/ VoidOwn(w, quantity)
         \/ \E quantity \in Declared : DeclareOpeningStock(w, quantity)
         \/ \E delta \in Deltas : StockAdjustment(w, delta)
  PROVE  /\ TypeOK'
         /\ request[w].op = "edit" /\ request[w].day \in Days
         /\ status' = status /\ line' = line
         /\ \A d \in Days : d # request[w].day => recorded'[d] = recorded[d]
<1> DEFINE day == request[w].day
<1>1. request[w].op = "edit"
  BY DEF ProductSales, CreateInvoice, VoidOwn, DeclareOpeningStock, StockAdjustment
<1>2. day \in Days  BY <1>1 DEF TypeOK, Request, Idle
<1>3. recorded[day] \in Nat  BY <1>2 DEF TypeOK
<1>4. /\ request' = [request EXCEPT ![w] = Idle]
      /\ status' = status /\ line' = line
  BY DEF ProductSales, CreateInvoice, VoidOwn, VoidRecorded, DeclareOpeningStock,
         StockAdjustment, Answer
<1>5. request' \in [Workers -> Request \cup {Idle}]  BY <1>4 DEF TypeOK
<1>6. ASSUME NEW quantity \in Quantities, ProductSales(w, quantity)
      PROVE  recorded' = [recorded EXCEPT ![day] = quantity] /\ quantity \in Nat
             /\ given' = given /\ baseline' = baseline
  BY <1>6, QuantitiesAssumption DEF ProductSales, SaveProductSales
<1>7. ASSUME NEW quantity \in Quantities, CreateInvoice(w, quantity)
      PROVE  recorded' = [recorded EXCEPT ![day] = recorded[day] + quantity]
             /\ recorded[day] + quantity \in Nat
             /\ given' = given /\ baseline' = baseline
  BY <1>3, <1>7, QuantitiesAssumption DEF CreateInvoice
<1>8. ASSUME NEW quantity \in Quantities, VoidOwn(w, quantity)
      PROVE  recorded' = [recorded EXCEPT ![day] = recorded[day] - quantity]
             /\ recorded[day] - quantity \in Nat
             /\ given' = given /\ baseline' = baseline
  BY <1>3, <1>8 DEF VoidOwn, VoidRecorded
<1>9. ASSUME NEW quantity \in Declared, DeclareOpeningStock(w, quantity)
      PROVE  recorded' = recorded /\ given' = given
             /\ baseline' = [baseline EXCEPT ![day] = quantity] /\ quantity \in Figures
  BY <1>9, DeclaredAssumption DEF DeclareOpeningStock, SetOpeningReturn, Figures
<1>10. ASSUME NEW delta \in Deltas, StockAdjustment(w, delta)
       PROVE  recorded' = recorded /\ baseline' = baseline
              /\ given' = [given EXCEPT ![day] = given[day] + delta]
              /\ given[day] + delta \in Nat
  BY <1>10, QuantitiesAssumption DEF StockAdjustment
<1> HIDE DEF day
<1>11. /\ recorded' \in [Days -> Nat] /\ given' \in [Days -> Nat]
       /\ baseline' \in [Days -> Figures]
       /\ \A d \in Days : d # day => recorded'[d] = recorded[d]
  BY <1>6, <1>7, <1>8, <1>9, <1>10 DEF TypeOK
<1>12. TypeOK'  BY <1>4, <1>5, <1>11 DEF TypeOK
<1> QED  BY <1>1, <1>2, <1>4, <1>11, <1>12 DEF day

(* Type correctness of every reachable state, for every instance. *)
THEOREM SalesDayTypeCorrect == Spec => []TypeOK
<1>1. Init => TypeOK
  <2> SUFFICES ASSUME Init PROVE TypeOK  OBVIOUS
  <2>1. NoLine \in Line /\ Nothing \in Figures  BY DEF NoLine, Line, Figures
  <2>2. given \in [Days -> Nat]  BY QuantitiesAssumption DEF Init
  <2>3. status \in [Days -> Statuses]  BY DEF Init, Statuses
  <2> QED  BY <2>1, <2>2, <2>3 DEF Init, TypeOK
<1>2. TypeOK /\ [Next]_vars => TypeOK'
  <2> SUFFICES ASSUME TypeOK, [Next]_vars PROVE TypeOK'  OBVIOUS
  <2>1. ASSUME NEW w \in Workers, NEW op \in Ops, NEW d \in Days, Receive(w, op, d)
        PROVE  TypeOK'
    <3>1. [op |-> op, day |-> d, seen |-> status[d]] \in Request
      BY DEF TypeOK, Request
    <3> QED  BY <2>1, <3>1 DEF Receive, TypeOK
  <2>2. ASSUME NEW w \in Workers, Refuse(w) PROVE TypeOK'
    BY <2>2 DEF Refuse, Answer, TypeOK
  <2>3. ASSUME NEW w \in Workers, NEW sheet \in Sheets \cup {Nothing},
               NEW card \in Quantities \cup {Nothing}, NEW elevated \in BOOLEAN,
               SaveWorkingDay(w, sheet, card, elevated)
        PROVE  TypeOK'
    <3>1. request[w] # Idle  BY <2>3 DEF SaveWorkingDay, Idle
    <3>3. WriteWorkingDay(w, sheet, card, elevated, FALSE)  BY <2>3 DEF SaveWorkingDay
    <3>2. status' \in [Days -> Statuses]
      BY <2>3 DEF SaveWorkingDay, TypeOK, Statuses
    <3> QED  BY <3>1, <3>2, <3>3, WriteWorkingDayType DEF TypeOK
  <2>4. ASSUME NEW w \in Workers, NEW sheet \in Sheets \cup {Nothing},
               NEW card \in Quantities \cup {Nothing}, NEW elevated \in BOOLEAN,
               CloseWorkingDay(w, sheet, card, elevated)
        PROVE  TypeOK'
    <3>1. request[w] # Idle  BY <2>4 DEF CloseWorkingDay, Idle
    <3>3. WriteWorkingDay(w, sheet, card, elevated, TRUE)  BY <2>4 DEF CloseWorkingDay
    <3>2. status' \in [Days -> Statuses]
      BY <2>4 DEF CloseWorkingDay, TypeOK, Statuses
    <3> QED  BY <3>1, <3>2, <3>3, WriteWorkingDayType DEF TypeOK
  <2>5. ASSUME NEW w \in Workers, NEW sheet \in Sheets, NEW elevated \in BOOLEAN,
               SaveVehicleStock(w, sheet, elevated)
        PROVE  TypeOK'
    BY <2>5, SheetsAssumption, SaveVehicleStockType
  <2>6. ASSUME NEW w \in Workers, NEW quantity \in Quantities, NEW elevated \in BOOLEAN,
               SetClosingStock(w, quantity, elevated)
        PROVE  TypeOK'
    BY <2>6, ReturnOnlyIsSheet, SaveVehicleStockType DEF SetClosingStock
  <2>7. ASSUME NEW w \in Workers, ReopenDay(w) PROVE TypeOK'
    BY <2>7 DEF ReopenDay, Answer, TypeOK, Statuses
  <2>8. ASSUME NEW d \in Days, RemoveVehicleStock(d) PROVE TypeOK'
    <3>1. line' \in [Days -> Line]
      BY <2>8 DEF RemoveVehicleStock, RemoveVehicleLine, TypeOK, Line
    <3> QED  BY <2>8, <3>1 DEF RemoveVehicleStock, TypeOK
  <2>9. ASSUME NEW d \in Days, NEW quantity \in Quantities,
               VoidEntity(d, quantity) \/ GivenChanges(d, quantity)
        PROVE  TypeOK'
    <3>1. CASE VoidEntity(d, quantity)
      <4>1. recorded[d] - quantity \in Nat
        BY <3>1 DEF VoidEntity, VoidRecorded, TypeOK
      <4> QED  BY <3>1, <4>1 DEF VoidEntity, VoidRecorded, TypeOK
    <3>2. CASE GivenChanges(d, quantity)
      BY <3>2, QuantitiesAssumption DEF GivenChanges, TypeOK
    <3> QED  BY <2>9, <3>1, <3>2
  <2>10. ASSUME NEW d \in Days, NEW quantity \in Declared, SaveBaseline(d, quantity)
         PROVE  TypeOK'
    BY <2>10, DeclaredAssumption DEF SaveBaseline, TypeOK, Figures
  <2>11. CASE ResetSalesTransactions
    BY <2>11, QuantitiesAssumption
       DEF ResetSalesTransactions, TypeOK, Statuses, NoLine, Line, Figures
  <2>12. CASE UNCHANGED vars  BY <2>12 DEF vars, TypeOK
  <2> QED
    BY <2>1, <2>2, <2>3, <2>4, <2>5, <2>6, <2>7, <2>8, <2>9, <2>10, <2>11, <2>12,
       EditsKeepTypes DEF Next
<1> QED  BY <1>1, <1>2, PTL DEF Spec

-----------------------------------------------------------------------------
(* Saving what is shown. *)

(* Saving again what the screen shows changes no figure, and turns none    *)
(* that follows the books into a correction.                               *)
THEOREM ResaveAlwaysStable == Spec => []ResaveIsStable
<1>1. TypeOK => ResaveIsStable
  <2> SUFFICES ASSUME TypeOK, NEW d \in Days, OnSheet(d), Shown(d) \in Sheet,
                      Shown(d).previous # Nothing
               PROVE  LET stored == Stored(d, Shown(d))
                      IN  /\ Previous(d, stored) = Shown(d).previous
                          /\ Total(d, stored) = Shown(d).total
                          /\ Issued(d, stored) = Shown(d).issued
                          /\ \A figure \in {"previous", "issued", "total"} :
                                 line[d][figure] = Nothing => stored[figure] = Nothing
    BY DEF ResaveIsStable
  <2> DEFINE l == line[d]
             shown == Shown(d)
             stored == Stored(d, shown)
             previous == Previous(d, l)
             issued == Issued(d, l)
             total == Total(d, l)
             opening == OpeningStock(d)
  <2>1. /\ shown.previous = previous /\ shown.issued = issued /\ shown.total = total
        /\ previous # Nothing
    BY DEF Shown
  <2>2. /\ l.previous \in Figures /\ l.issued \in Figures /\ l.total \in Figures
        /\ given[d] \in Nat /\ opening \in Figures
    BY OpeningStockType DEF TypeOK, Line
  <2>3. previous = Or(l.previous, opening) /\ issued = Or(l.issued, given[d])
    BY DEF Previous, Issued
  <2>4. Nothing \notin Nat  BY NothingAssumption
  <2>5. previous \in Nat /\ issued \in Nat
    BY <2>1, <2>2, <2>3, <2>4 DEF Or, Figures
  <2>6. total = IF l.total # Nothing THEN l.total ELSE previous + issued
    BY <2>1 DEF Total
  <2>7. total # Nothing  BY <2>5, <2>6, NothingAssumption
  <2>8. /\ stored.previous = Correction(previous, opening)
        /\ stored.issued = Correction(issued, given[d])
        /\ stored.total = Correction(total, previous + issued)
    <3>1. SheetPrevious(d, l, shown) = previous  BY <2>1 DEF SheetPrevious, Or
    <3>2. Or(shown.issued, Issued(d, l)) = issued  BY <2>1 DEF Or
    <3> QED  BY <2>1, <3>1, <3>2 DEF Stored
  <2>9. Previous(d, stored) = previous
    BY <2>1, <2>8 DEF Previous, Or, Correction
  <2>10. Issued(d, stored) = issued
    BY <2>4, <2>5, <2>8 DEF Issued, Or, Correction
  <2>11. Total(d, stored) = total
    <3>1. CASE total = previous + issued
      <4>1. stored.total = Nothing  BY <2>8, <3>1 DEF Correction
      <4>2. Total(d, stored) = Previous(d, stored) + Issued(d, stored)
        BY <2>1, <2>9, <4>1 DEF Total
      <4> QED  BY <2>9, <2>10, <3>1, <4>2
    <3>2. CASE total # previous + issued
      <4>1. stored.total = total  BY <2>8, <3>2 DEF Correction
      <4> QED  BY <2>7, <4>1 DEF Total
    <3> QED  BY <3>1, <3>2
  <2>12. /\ l.previous = Nothing => stored.previous = Nothing
         /\ l.issued = Nothing => stored.issued = Nothing
         /\ l.total = Nothing => stored.total = Nothing
    BY <2>3, <2>6, <2>8 DEF Or, Correction
  <2> QED  BY <2>1, <2>9, <2>10, <2>11, <2>12
<1> QED  BY <1>1, SalesDayTypeCorrect, PTL

-----------------------------------------------------------------------------
(* Conservation. *)

PlainUpTo(d) == {e \in 1 .. d : Plain(e)}

(* The stretch that the conservation of stock is about. *)
Uncorrected(d) == Plain(d) /\ \A e \in 1 .. d : Plain(e) \/ Still(e)

(* On such a stretch the counted sheets are those of the plain days, so a  *)
(* plain day starts with what the plain day before it counted back.        *)
LEMMA CountedArePlain ==
  ASSUME NEW d \in Days, Uncorrected(d)
  PROVE  CountedBefore(d) = PlainUpTo(d) \ {d}
<1>1. \A e \in 1 .. d : (OnSheet(e) /\ line[e].counted) <=> Plain(e)
  BY DEF Uncorrected, Plain, Still
<1>2. CountedBefore(d) = {e \in Days : e < d /\ Plain(e)}
  BY <1>1, LastDayAssumption DEF CountedBefore, Days
<1> QED  BY <1>2, LastDayAssumption DEF PlainUpTo, Days

(* What a plain day sells is what it starts with and was given, less what  *)
(* came back.                                                              *)
LEMMA PlainDaySells ==
  ASSUME TypeOK, NEW d \in Days, Plain(d), OpeningStock(d) \in Nat
  PROVE  Sold(d, line[d]) = OpeningStock(d) + given[d] - line[d].returned
<1>1. line[d].previous = Nothing /\ line[d].issued = Nothing /\ line[d].total = Nothing
  BY DEF Plain
<1>2. Previous(d, line[d]) = OpeningStock(d) /\ Issued(d, line[d]) = given[d]
  BY <1>1 DEF Previous, Issued, Or
<1>3. OpeningStock(d) # Nothing  BY NothingAssumption
<1>4. Total(d, line[d]) = OpeningStock(d) + given[d]
  BY <1>1, <1>2, <1>3 DEF Total
<1>5. given[d] \in Nat /\ line[d].returned \in Nat  BY DEF TypeOK, Line
<1>6. Sold(d, line[d]) = Total(d, line[d]) - line[d].returned  BY DEF Sold
<1> QED  BY <1>4, <1>5, <1>6

Gifts == [e \in Days |-> given[e]]
Sales == [e \in Days |-> Sold(e, line[e])]

(* The balance of a stretch that begins with the stock declared by f. *)
Balanced(f, d) ==
    baseline[LatestOf(DeclaredBy(f))] + SumFunctionOnSet(Gifts, PlainUpTo(d))
      = SumFunctionOnSet(Sales, PlainUpTo(d)) + line[d].returned

(* Once stock was declared, every later day starts with a quantity, and    *)
(* what it sells is a number.                                              *)
LEMMA SoldInStretch ==
  ASSUME TypeOK, NEW f \in Days, DeclaredBy(f) # {}, NEW e \in Days, f <= e, Plain(e)
  PROVE  /\ OpeningStock(e) \in Nat /\ Gifts[e] \in Nat /\ line[e].returned \in Nat
         /\ Sales[e] \in Int
         /\ Sales[e] = OpeningStock(e) + Gifts[e] - line[e].returned
<1>1. DeclaredBy(e) # {}  BY LastDayAssumption DEF DeclaredBy, Days
<1>2. OpeningStock(e) \in Nat  BY <1>1, OpeningStockType
<1>3. given[e] \in Nat /\ line[e].returned \in Nat  BY DEF TypeOK, Line
<1>4. Sales[e] = OpeningStock(e) + given[e] - line[e].returned
  BY <1>2, PlainDaySells DEF Sales
<1> QED  BY <1>2, <1>3, <1>4 DEF Gifts

(* A stretch balances: its first day starts with the declared stock, every *)
(* other plain day with the last return, and what it was given and sold is *)
(* the difference to its own.  (By the earliest day that would not.)       *)
LEMMA StretchBalances ==
  ASSUME TypeOK, NEW f \in Days, Plain(f), \A e \in 1 .. (f - 1) : ~Plain(e),
         DeclaredBy(f) # {}, NEW last \in Days, f <= last, Uncorrected(last)
  PROVE  Balanced(f, last)
<1> DEFINE D == {d \in Days : f <= d /\ Uncorrected(d) /\ ~Balanced(f, d)}
<1> SUFFICES ASSUME D # {} PROVE FALSE  OBVIOUS
<1>0. Days \subseteq Nat /\ \A e \in Days : e >= 1 /\ 1 .. e \subseteq Days
  BY LastDayAssumption DEF Days
<1>1. PICK d \in D : \A k \in D : d <= k
  <2>1. D \in SUBSET Nat  BY <1>0
  <2> HIDE DEF D
  <2> QED  BY <2>1, LeastNat
<1>2. d \in Days /\ f <= d /\ Uncorrected(d) /\ Plain(d) /\ ~Balanced(f, d)
  BY DEF Uncorrected
<1>3. \A k \in Days : f <= k /\ Uncorrected(k) /\ k < d => Balanced(f, k)
  BY <1>0, <1>1
<1> HIDE DEF D
<1> DEFINE P == PlainUpTo(d)
           Q == P \ {d}
<1>4. d \in P /\ P \subseteq Days /\ IsFiniteSet(P)
  <2>1. P \in SUBSET (1 .. d)  BY DEF PlainUpTo
  <2>2. IsFiniteSet(1 .. d)  BY <1>0, <1>2, FS_Interval
  <2>3. IsFiniteSet(P)
    <3> HIDE DEF P
    <3> QED  BY <2>1, <2>2, FS_Subset
  <2>4. d \in P  BY <1>0, <1>2 DEF PlainUpTo
  <2> QED  BY <1>0, <1>2, <2>1, <2>3, <2>4
<1>5. \A e \in P : f <= e /\ Plain(e)
  <2>1. \A e \in P : e \in 1 .. d /\ Plain(e)  BY DEF PlainUpTo
  <2>2. \A e \in P : ~(e < f)  BY <1>0, <2>1
  <2> QED  BY <1>0, <1>4, <2>1, <2>2
<1>6. \A e \in P : Gifts[e] \in Int /\ Sales[e] \in Int
  BY <1>4, <1>5, SoldInStretch
<1>7. /\ SumFunctionOnSet(Gifts, P) = Gifts[d] + SumFunctionOnSet(Gifts, Q)
      /\ SumFunctionOnSet(Sales, P) = Sales[d] + SumFunctionOnSet(Sales, Q)
  <2> HIDE DEF P
  <2> QED  BY <1>4, <1>6, SumSplit
<1>8. CountedBefore(d) = Q  BY <1>2, CountedArePlain
<1>9. /\ OpeningStock(d) \in Nat /\ Gifts[d] \in Nat /\ line[d].returned \in Nat
      /\ Sales[d] = OpeningStock(d) + Gifts[d] - line[d].returned
  BY <1>2, SoldInStretch
<1>10. CASE d = f
  <2>1. Q = {}  BY <1>0, <1>10 DEF PlainUpTo
  <2>2. OpeningStock(d) = baseline[LatestOf(DeclaredBy(f))]
    BY <1>8, <1>10, <2>1 DEF OpeningStock
  <2>3. SumFunctionOnSet(Gifts, Q) = 0 /\ SumFunctionOnSet(Sales, Q) = 0
    <3> HIDE DEF P, Q
    <3> QED  BY <2>1, SumEmpty
  <2> HIDE DEF P, Q
  <2>4. SumFunctionOnSet(Gifts, P) = Gifts[d] /\ SumFunctionOnSet(Sales, P) = Sales[d]
        /\ Sales[d] \in Int
    BY <1>7, <1>9, <2>3
  <2>5. Balanced(f, d)  BY <1>9, <2>2, <2>4 DEF Balanced, P
  <2> QED  BY <1>2, <2>5
<1>11. CASE d # f
  <2>1. f \in Q  BY <1>0, <1>2, <1>11 DEF PlainUpTo
  <2>2. Q \in SUBSET Days  BY <1>4
  <2> DEFINE g == LatestOf(Q)
  <2>3. g \in Q /\ \A e \in Q : e <= g
    <3> HIDE DEF Q
    <3> QED  BY <2>1, <2>2, LatestIsLast
  <2>4. OpeningStock(d) = line[g].returned
    BY <1>8, <2>1 DEF OpeningStock
  <2>5. /\ g \in Days /\ f <= g /\ g < d /\ Plain(g) /\ 1 .. g \subseteq 1 .. d
    <3>1. g \in Days /\ g \in 1 .. d /\ g # d  BY <2>2, <2>3 DEF PlainUpTo
    <3>2. f <= g /\ Plain(g)  BY <1>5, <2>3
    <3> QED  BY <1>0, <1>2, <3>1, <3>2
  <2>6. Uncorrected(g)  BY <1>2, <2>5 DEF Uncorrected
  <2>7. PlainUpTo(g) = Q
    <3>1. ASSUME NEW e \in Q PROVE e \in 1 .. g /\ Plain(e)
      <4>1. e \in Days /\ e <= g /\ Plain(e)  BY <1>5, <2>2, <2>3
      <4> HIDE DEF g, P, Q
      <4> QED  BY <1>0, <2>5, <4>1
    <3>2. ASSUME NEW e \in 1 .. g, Plain(e) PROVE e \in Q
      <4>1. e \in 1 .. d  BY <2>5
      <4>2. e # d
        <5> HIDE DEF g, P, Q
        <5> QED  BY <1>0, <1>2, <2>5
      <4> QED  BY <3>2, <4>1, <4>2 DEF PlainUpTo
    <3>3. PlainUpTo(g) = {e \in 1 .. g : Plain(e)}  BY DEF PlainUpTo
    <3> HIDE DEF g, P, Q
    <3> QED  BY <3>1, <3>2, <3>3
  <2>8. Balanced(f, g)  BY <1>3, <2>5, <2>6
  <2> HIDE DEF g, P, Q
  <2>9. baseline[LatestOf(DeclaredBy(f))] + SumFunctionOnSet(Gifts, Q)
          = SumFunctionOnSet(Sales, Q) + OpeningStock(d)
    BY <2>4, <2>7, <2>8 DEF Balanced
  <2>10. baseline[LatestOf(DeclaredBy(f))] \in Nat
    <3>1. DeclaredBy(f) \in SUBSET Days  BY DEF DeclaredBy
    <3>2. LatestOf(DeclaredBy(f)) \in DeclaredBy(f)  BY <3>1, LatestIsLast
    <3> QED  BY <3>2 DEF DeclaredBy, TypeOK, Figures
  <2>11. SumFunctionOnSet(Gifts, Q) \in Int /\ SumFunctionOnSet(Sales, Q) \in Int
    <3>1. Q \in SUBSET P  BY DEF Q
    <3>2. IsFiniteSet(Q)  BY <1>4, <3>1, FS_Subset
    <3> QED  BY <1>6, <3>1, <3>2, SumInt
  <2>12. Balanced(f, d)
    BY <1>7, <1>9, <2>9, <2>10, <2>11 DEF Balanced, P
  <2> QED  BY <1>2, <2>12
<1> QED  BY <1>10, <1>11

(* Nothing is lost or made between days: whatever was opened, corrected,   *)
(* recounted or removed, on a stretch without hand-corrected figures the   *)
(* stock that went in is the stock that was sold and the last return.      *)
THEOREM StockAlwaysConserved == Spec => []StockIsConserved
<1>1. TypeOK => StockIsConserved
  <2> SUFFICES ASSUME TypeOK, NEW d \in Days, Uncorrected(d),
                      NEW f, f = (CHOOSE e \in PlainUpTo(d) : \A k \in PlainUpTo(d) : e <= k),
                      DeclaredBy(f) # {}
               PROVE  Balanced(f, d)
    BY DEF StockIsConserved, Uncorrected, PlainUpTo, Balanced, Gifts, Sales
  <2>1. Days \subseteq Nat /\ 1 .. d \subseteq Days /\ d \in 1 .. d
    BY LastDayAssumption DEF Days
  <2>2. PlainUpTo(d) \in SUBSET Nat /\ d \in PlainUpTo(d)
    BY <2>1 DEF PlainUpTo, Uncorrected
  <2>3. f \in PlainUpTo(d) /\ \A k \in PlainUpTo(d) : f <= k
    <3>1. \E e \in PlainUpTo(d) : \A k \in PlainUpTo(d) : e <= k  BY <2>2, LeastNat
    <3> QED  BY <3>1
  <2>4. f \in Days /\ Plain(f) /\ f <= d  BY <2>1, <2>2, <2>3 DEF PlainUpTo
  <2>5. \A e \in 1 .. (f - 1) : ~Plain(e)
    BY <2>1, <2>3, <2>4 DEF PlainUpTo
  <2> QED  BY <2>4, <2>5, StretchBalances
<1> QED  BY <1>1, SalesDayTypeCorrect, PTL

-----------------------------------------------------------------------------
(* Closed days. *)

(* Nothing but Close Day makes a day closed. *)
LEMMA OnlyCloseDayCloses ==
  ASSUME TypeOK, [Next]_vars, NEW d \in Days, status[d] # "closed", status'[d] = "closed"
  PROVE  \E w \in Workers, sheet \in Sheets \cup {Nothing}, card \in Quantities \cup {Nothing},
            elevated \in BOOLEAN :
               CloseWorkingDay(w, sheet, card, elevated) /\ request[w].day = d
<1>1. ASSUME status' = status PROVE FALSE  BY <1>1
<1>2. ASSUME NEW w \in Workers, NEW op \in Ops, NEW e \in Days, Receive(w, op, e)
      PROVE  FALSE
  BY <1>1, <1>2 DEF Receive
<1>3. ASSUME NEW w \in Workers, Refuse(w) PROVE FALSE  BY <1>1, <1>3 DEF Refuse
<1>4. ASSUME NEW w \in Workers, NEW sheet \in Sheets \cup {Nothing},
             NEW card \in Quantities \cup {Nothing}, NEW elevated \in BOOLEAN,
             SaveWorkingDay(w, sheet, card, elevated)
      PROVE  FALSE
  <2>1. status' = [status EXCEPT ![request[w].day] = IF @ = "none" THEN "draft" ELSE @]
    BY <1>4 DEF SaveWorkingDay
  <2> QED  BY <2>1 DEF TypeOK
<1>5. ASSUME NEW w \in Workers, NEW sheet \in Sheets \cup {Nothing},
             NEW card \in Quantities \cup {Nothing}, NEW elevated \in BOOLEAN,
             CloseWorkingDay(w, sheet, card, elevated)
      PROVE  request[w].day = d
  <2>1. status' = [status EXCEPT ![request[w].day] = "closed"]
    BY <1>5 DEF CloseWorkingDay
  <2> QED  BY <2>1 DEF TypeOK
<1>6. ASSUME NEW w \in Workers, NEW sheet \in Sheet, NEW elevated \in BOOLEAN,
             SaveVehicleStock(w, sheet, elevated)
      PROVE  FALSE
  BY <1>1, <1>6, SaveVehicleStockType
<1>7. ASSUME NEW w \in Workers, NEW quantity \in Quantities, NEW elevated \in BOOLEAN,
             SetClosingStock(w, quantity, elevated)
      PROVE  FALSE
  BY <1>6, <1>7, ReturnOnlyIsSheet DEF SetClosingStock
<1>8. ASSUME NEW w \in Workers, ReopenDay(w) PROVE FALSE
  BY <1>8 DEF ReopenDay, TypeOK
<1>9. ASSUME NEW e \in Days, RemoveVehicleStock(e) PROVE FALSE
  BY <1>1, <1>9 DEF RemoveVehicleStock
<1>10. ASSUME NEW e \in Days, NEW quantity \in Quantities,
              VoidEntity(e, quantity) \/ GivenChanges(e, quantity)
       PROVE  FALSE
  BY <1>1, <1>10 DEF VoidEntity, VoidRecorded, GivenChanges
<1>11. ASSUME NEW e \in Days, NEW quantity \in Declared, SaveBaseline(e, quantity)
       PROVE  FALSE
  BY <1>1, <1>11 DEF SaveBaseline
<1>12. CASE ResetSalesTransactions  BY <1>12 DEF ResetSalesTransactions
<1>13. CASE UNCHANGED vars  BY <1>1, <1>13 DEF vars
<1>14. Sheets \subseteq Sheet  BY SheetsAssumption
<1> QED
  BY <1>1, <1>2, <1>3, <1>4, <1>5, <1>6, <1>7, <1>8, <1>9, <1>10, <1>11, <1>12, <1>13,
     <1>14, EditsKeepTypes DEF Next

(* A day is closed only with every product counted and, without an         *)
(* elevated user's reason, on sales that price what the vehicle sold       *)
(* wherever that is known, however requests overlap.                       *)
THEOREM CloseAlwaysReconciles == Spec => CloseReconciles
<1> DEFINE Reconciling ==
      \A d \in Days :
          status[d] # "closed" /\ status'[d] = "closed" =>
              /\ Counted(d)'
              /\ \/ \E w \in Workers : request[w].op = "waive" /\ request[w].day = d
                 \/ ~Mismatch(d)'
<1>1. TypeOK /\ [Next]_vars => Reconciling
  <2> SUFFICES ASSUME TypeOK, [Next]_vars, NEW d \in Days,
                      status[d] # "closed", status'[d] = "closed"
               PROVE  /\ Counted(d)'
                      /\ \/ \E w \in Workers : request[w].op = "waive" /\ request[w].day = d
                         \/ ~Mismatch(d)'
    OBVIOUS
  <2>1. PICK w \in Workers, sheet \in Sheets \cup {Nothing},
             card \in Quantities \cup {Nothing}, elevated \in BOOLEAN :
                CloseWorkingDay(w, sheet, card, elevated) /\ request[w].day = d
    BY OnlyCloseDayCloses
  <2>2. CloseDay(d, request[w].op = "waive")  BY <2>1 DEF CloseWorkingDay
  <2> QED  BY <2>1, <2>2 DEF CloseDay
<1> QED  BY <1>1, SalesDayTypeCorrect, PTL DEF Spec, CloseReconciles

(* Who writes a sheet or the sales of a day found it open: the status is   *)
(* checked once, when the request comes in.                                *)
Writing == {"save", "close", "waive", "edit"}
FoundOpen == \A w \in Workers : request[w].op \in Writing => request[w].seen # "closed"

(* A request keeps what it has seen until it is answered. *)
LEMMA RequestsKept ==
  ASSUME TypeOK, [Next]_vars, NEW v \in Workers
  PROVE  \/ request'[v] = request[v]
         \/ request'[v] = Idle
         \/ \E op \in Ops, d \in Days : Receive(v, op, d)
<1>1. ASSUME NEW w \in Workers, Answer(w)
      PROVE  request'[v] = request[v] \/ request'[v] = Idle
  BY <1>1 DEF Answer, TypeOK
<1>2. ASSUME NEW w \in Workers, NEW op \in Ops, NEW d \in Days, Receive(w, op, d)
      PROVE  request'[v] = request[v] \/ v = w
  BY <1>2 DEF Receive, TypeOK
<1>3. ASSUME NEW w \in Workers, Refuse(w) PROVE Answer(w)  BY <1>3 DEF Refuse
<1>4. ASSUME NEW w \in Workers, NEW sheet, NEW card, NEW elevated,
             \/ SaveWorkingDay(w, sheet, card, elevated)
             \/ CloseWorkingDay(w, sheet, card, elevated)
      PROVE  Answer(w)
  BY <1>4 DEF SaveWorkingDay, CloseWorkingDay, WriteWorkingDay
<1>5. ASSUME NEW w \in Workers, NEW sheet, NEW elevated,
             SaveVehicleStock(w, sheet, elevated)
      PROVE  Answer(w)
  BY <1>5 DEF SaveVehicleStock
<1>6. ASSUME NEW w \in Workers, NEW quantity, NEW elevated,
             SetClosingStock(w, quantity, elevated)
      PROVE  Answer(w)
  BY <1>5, <1>6 DEF SetClosingStock
<1>7. ASSUME NEW w \in Workers, NEW quantity,
             \/ ProductSales(w, quantity) \/ CreateInvoice(w, quantity) \/ VoidOwn(w, quantity)
             \/ DeclareOpeningStock(w, quantity) \/ StockAdjustment(w, quantity)
             \/ ReopenDay(w)
      PROVE  Answer(w)
  BY <1>7 DEF ProductSales, CreateInvoice, VoidOwn, DeclareOpeningStock, StockAdjustment,
              ReopenDay
<1>8. ASSUME NEW d \in Days, NEW quantity,
             \/ RemoveVehicleStock(d) \/ VoidEntity(d, quantity)
             \/ GivenChanges(d, quantity) \/ SaveBaseline(d, quantity)
      PROVE  request' = request
  BY <1>8 DEF RemoveVehicleStock, VoidEntity, GivenChanges, SaveBaseline
<1>9. ResetSalesTransactions \/ UNCHANGED vars => request' = request
  BY DEF ResetSalesTransactions, vars
<1> QED  BY <1>1, <1>2, <1>3, <1>4, <1>5, <1>6, <1>7, <1>8, <1>9 DEF Next

(* No writing request has seen the day closed. *)
LEMMA AlwaysFoundOpen == Spec => []FoundOpen
<1>1. Init => FoundOpen  BY DEF Init, FoundOpen, Idle, Writing
<1>2. TypeOK /\ FoundOpen /\ [Next]_vars => FoundOpen'
  <2> SUFFICES ASSUME TypeOK, FoundOpen, [Next]_vars, NEW v \in Workers,
                      request'[v].op \in Writing
               PROVE  request'[v].seen # "closed"
    BY DEF FoundOpen
  <2>1. CASE request'[v] = request[v]  BY <2>1 DEF FoundOpen
  <2>2. CASE request'[v] = Idle  BY <2>2 DEF Idle, Writing
  <2>3. ASSUME NEW op \in Ops, NEW d \in Days, Receive(v, op, d)
        PROVE  request'[v].seen # "closed"
    <3>1. request'[v] = [op |-> op, day |-> d, seen |-> status[d]]
      BY <2>3 DEF Receive, TypeOK
    <3>2. op \in {"save", "close", "waive"} => status[d] # "closed"
      BY <2>3 DEF Receive
    <3>3. op = "edit" => status[d] # "closed"
      BY <2>3 DEF Receive, RequireEditableDay
    <3> QED  BY <3>1, <3>2, <3>3 DEF Writing
  <2> QED  BY <2>1, <2>2, <2>3, RequestsKept
<1> QED  BY <1>1, <1>2, SalesDayTypeCorrect, PTL DEF Spec

(* The sheet and the sales of a closed day are moved only by a Manager's   *)
(* removal or void, by a reset of the books, or by a request that found    *)
(* the day open and has been in flight since.                              *)
THEOREM ClosedDayAlwaysKept == Spec => ClosedDayMovesOnlyLate
<1> DEFINE Kept ==
      \A d \in Days :
          status[d] = "closed" /\ <<line[d], recorded[d]>>' # <<line[d], recorded[d]>> =>
              \/ ResetSalesTransactions
              \/ line'[d] = [line[d] EXCEPT !.removed = TRUE]
              \/ line'[d] = line[d] /\ \E quantity \in Quantities : VoidEntity(d, quantity)
              \/ \E w \in Workers : request[w].day = d /\ request[w].seen # "closed"
<1>1. TypeOK /\ FoundOpen /\ [Next]_vars => Kept
  <2> SUFFICES ASSUME TypeOK, FoundOpen, [Next]_vars, NEW d \in Days,
                      line'[d] # line[d] \/ recorded'[d] # recorded[d],
                      ~ResetSalesTransactions,
                      line'[d] # [line[d] EXCEPT !.removed = TRUE],
                      ~(line'[d] = line[d]
                          /\ \E quantity \in Quantities : VoidEntity(d, quantity))
               PROVE  \E w \in Workers : request[w].day = d /\ request[w].seen # "closed"
    OBVIOUS
  <2>1. ASSUME NEW w \in Workers, request[w].op \in Writing, request[w].day = d
        PROVE  request[w].day = d /\ request[w].seen # "closed"
    BY <2>1 DEF FoundOpen
  <2>2. ASSUME line' = line, recorded' = recorded PROVE FALSE  BY <2>2
  <2>3. ASSUME NEW w \in Workers, NEW op \in Ops, NEW e \in Days, Receive(w, op, e)
        PROVE  FALSE
    BY <2>2, <2>3 DEF Receive
  <2>4. ASSUME NEW w \in Workers, Refuse(w) PROVE FALSE  BY <2>2, <2>4 DEF Refuse
  <2>5. ASSUME NEW w \in Workers, NEW sheet \in Sheets \cup {Nothing},
               NEW card \in Quantities \cup {Nothing}, NEW elevated \in BOOLEAN,
               SaveWorkingDay(w, sheet, card, elevated)
        PROVE  request[w].op \in Writing /\ request[w].day = d
    <3>1. request[w] # Idle /\ request[w].op \in Writing
      BY <2>5 DEF SaveWorkingDay, Idle, Writing
    <3>2. WriteWorkingDay(w, sheet, card, elevated, FALSE)  BY <2>5 DEF SaveWorkingDay
    <3>3. request[w].day # d => line'[d] = line[d] /\ recorded'[d] = recorded[d]
      BY <3>1, <3>2, WriteWorkingDayType
    <3> QED  BY <3>1, <3>3
  <2>6. ASSUME NEW w \in Workers, NEW sheet \in Sheets \cup {Nothing},
               NEW card \in Quantities \cup {Nothing}, NEW elevated \in BOOLEAN,
               CloseWorkingDay(w, sheet, card, elevated)
        PROVE  request[w].op \in Writing /\ request[w].day = d
    <3>1. request[w] # Idle /\ request[w].op \in Writing
      BY <2>6 DEF CloseWorkingDay, Idle, Writing
    <3>2. WriteWorkingDay(w, sheet, card, elevated, TRUE)  BY <2>6 DEF CloseWorkingDay
    <3>3. request[w].day # d => line'[d] = line[d] /\ recorded'[d] = recorded[d]
      BY <3>1, <3>2, WriteWorkingDayType
    <3> QED  BY <3>1, <3>3
  <2>7. ASSUME NEW w \in Workers, NEW sheet \in Sheet, NEW elevated \in BOOLEAN,
               SaveVehicleStock(w, sheet, elevated)
        PROVE  request[w].op \in Writing /\ request[w].day = d
    <3>1. /\ request[w].op = "edit" /\ recorded' = recorded
          /\ request[w].day # d => line'[d] = line[d]
      BY <2>7, SaveVehicleStockType
    <3> QED  BY <3>1 DEF Writing
  <2>8. ASSUME NEW w \in Workers, NEW quantity \in Quantities, NEW elevated \in BOOLEAN,
               SetClosingStock(w, quantity, elevated)
        PROVE  request[w].op \in Writing /\ request[w].day = d
    BY <2>7, <2>8, ReturnOnlyIsSheet DEF SetClosingStock
  <2>9. ASSUME NEW w \in Workers,
               \/ \E quantity \in Quantities :
                     \/ ProductSales(w, quantity) \/ CreateInvoice(w, quantity)
                     \/ VoidOwn(w, quantity)
               \/ \E quantity \in Declared : DeclareOpeningStock(w, quantity)
               \/ \E delta \in Deltas : StockAdjustment(w, delta)
        PROVE  request[w].op \in Writing /\ request[w].day = d
    <3>1. /\ request[w].op = "edit" /\ line' = line
          /\ request[w].day # d => recorded'[d] = recorded[d]
      BY <2>9, EditsKeepTypes
    <3> QED  BY <3>1 DEF Writing
  <2>10. ASSUME NEW w \in Workers, ReopenDay(w) PROVE FALSE
    BY <2>2, <2>10 DEF ReopenDay
  <2>11. ASSUME NEW e \in Days, RemoveVehicleStock(e) PROVE FALSE
    <3>1. /\ line' = [line EXCEPT ![e] = [line[e] EXCEPT !.removed = TRUE]]
          /\ recorded' = recorded
      BY <2>11 DEF RemoveVehicleStock, RemoveVehicleLine
    <3> QED  BY <3>1 DEF TypeOK
  <2>12. ASSUME NEW e \in Days, NEW quantity \in Quantities, VoidEntity(e, quantity)
         PROVE  FALSE
    <3>1. line' = line /\ (e # d => recorded'[d] = recorded[d])
      BY <2>12 DEF VoidEntity, VoidRecorded, TypeOK
    <3> QED  BY <2>12, <3>1
  <2>13. ASSUME NEW e \in Days, NEW quantity \in Quantities, GivenChanges(e, quantity)
         PROVE  FALSE
    BY <2>2, <2>13 DEF GivenChanges
  <2>14. ASSUME NEW e \in Days, NEW quantity \in Declared, SaveBaseline(e, quantity)
         PROVE  FALSE
    BY <2>2, <2>14 DEF SaveBaseline
  <2>15. ASSUME UNCHANGED vars PROVE FALSE  BY <2>2, <2>15 DEF vars
  <2>16. ASSUME NEW w \in Workers, NEW sheet \in Sheets, NEW elevated \in BOOLEAN,
                SaveVehicleStock(w, sheet, elevated)
         PROVE  request[w].op \in Writing /\ request[w].day = d
    BY <2>7, <2>16, SheetsAssumption
  <2>17. Next  BY <2>15
  <2>18. PICK w \in Workers : request[w].op \in Writing /\ request[w].day = d
    BY <2>3, <2>4, <2>5, <2>6, <2>8, <2>9, <2>10, <2>11, <2>12, <2>13, <2>14, <2>16, <2>17
       DEF Next
  <2> QED  BY <2>1, <2>18
<1> QED  BY <1>1, AlwaysFoundOpen, SalesDayTypeCorrect, PTL DEF Spec, ClosedDayMovesOnlyLate

-----------------------------------------------------------------------------
(* Sums over the books. *)

(* The sets and numbers that the sums of a day are built from. *)
LEMMA MoneyNumbers ==
  ASSUME MoneyTypeOK
  PROVE  /\ \A d \in Days : d \in Nat \ {0} /\ d <= LastDay
         /\ \A p \in PaymentIds :
               /\ AmountPaid[p] = payments[p].amount /\ AmountPaid[p] \in Nat
               /\ payments[p].day \in Int
               /\ payments[p] # NoPayment =>
                     /\ AmountPaid[p] > 0 /\ payments[p].day \in Days
                     /\ payments[p].invoice \in InvoiceIds
         /\ \A i \in InvoiceIds :
               /\ InvoiceAmount[i] = invoices[i].amount /\ InvoiceAmount[i] \in Nat
               /\ invoices[i].day \in Int
               /\ invoices[i] # NoInvoice => invoices[i].day \in Days
<1>1. \A d \in Days : d \in Nat \ {0} /\ d <= LastDay  BY LastDayAssumption DEF Days
<1>2. \A a \in Amounts : a \in Nat /\ a > 0  BY AmountsAssumption
<1>3. ASSUME NEW p \in PaymentIds
      PROVE  /\ AmountPaid[p] = payments[p].amount /\ AmountPaid[p] \in Nat
             /\ payments[p].day \in Int
             /\ payments[p] # NoPayment =>
                   /\ AmountPaid[p] > 0 /\ payments[p].day \in Days
                   /\ payments[p].invoice \in InvoiceIds
  <2>1. payments[p] \in Payment \cup {NoPayment}  BY DEF MoneyTypeOK
  <2>2. AmountPaid[p] = payments[p].amount  BY DEF AmountPaid
  <2>3. CASE payments[p] = NoPayment  BY <2>2, <2>3 DEF NoPayment
  <2>4. CASE payments[p] \in Payment  BY <1>1, <1>2, <2>2, <2>4 DEF Payment
  <2> QED  BY <2>1, <2>3, <2>4
<1>4. ASSUME NEW i \in InvoiceIds
      PROVE  /\ InvoiceAmount[i] = invoices[i].amount /\ InvoiceAmount[i] \in Nat
             /\ invoices[i].day \in Int
             /\ invoices[i] # NoInvoice => invoices[i].day \in Days
  <2>1. invoices[i] \in Invoice \cup {NoInvoice}  BY DEF MoneyTypeOK
  <2>2. InvoiceAmount[i] = invoices[i].amount  BY DEF InvoiceAmount
  <2>3. CASE invoices[i] = NoInvoice  BY <2>2, <2>3 DEF NoInvoice
  <2>4. CASE invoices[i] \in Invoice  BY <1>1, <1>2, <2>2, <2>4 DEF Invoice
  <2> QED  BY <2>1, <2>3, <2>4
<1> QED  BY <1>1, <1>3, <1>4

(* Any payments add up to a natural number, *)
LEMMA PaymentSums ==
  ASSUME MoneyTypeOK, NEW S \in SUBSET PaymentIds
  PROVE  IsFiniteSet(S) /\ SumFunctionOnSet(AmountPaid, S) \in Nat
<1>1. IsFiniteSet(S)  BY IdsAssumption, FS_Subset
<1>2. \A p \in S : AmountPaid[p] \in Nat  BY MoneyNumbers
<1> QED  BY <1>1, <1>2, SumNat

(* and so do any invoices. *)
LEMMA InvoiceSums ==
  ASSUME MoneyTypeOK, NEW S \in SUBSET InvoiceIds
  PROVE  IsFiniteSet(S) /\ SumFunctionOnSet(InvoiceAmount, S) \in Nat
<1>1. IsFiniteSet(S)  BY IdsAssumption, FS_Subset
<1>2. \A p \in S : InvoiceAmount[p] \in Nat  BY MoneyNumbers
<1> QED  BY <1>1, <1>2, SumNat

(* Disjoint payments add up separately. *)
LEMMA PaymentsSplit ==
  ASSUME MoneyTypeOK, NEW A \in SUBSET PaymentIds, NEW B \in SUBSET PaymentIds, A \cap B = {}
  PROVE  SumFunctionOnSet(AmountPaid, A \cup B)
           = SumFunctionOnSet(AmountPaid, A) + SumFunctionOnSet(AmountPaid, B)
<1>1. IsFiniteSet(A) /\ IsFiniteSet(B)  BY PaymentSums
<1>2. \A p \in A \cup B : AmountPaid[p] \in Int  BY MoneyNumbers
<1> QED  BY <1>1, <1>2, SumUnion

(* So do invoices. *)
LEMMA InvoicesSplit ==
  ASSUME MoneyTypeOK, NEW A \in SUBSET InvoiceIds, NEW B \in SUBSET InvoiceIds, A \cap B = {}
  PROVE  SumFunctionOnSet(InvoiceAmount, A \cup B)
           = SumFunctionOnSet(InvoiceAmount, A) + SumFunctionOnSet(InvoiceAmount, B)
<1>1. IsFiniteSet(A) /\ IsFiniteSet(B)  BY InvoiceSums
<1>2. \A p \in A \cup B : InvoiceAmount[p] \in Int  BY MoneyNumbers
<1> QED  BY <1>1, <1>2, SumUnion

-----------------------------------------------------------------------------
(* A range of days is the range before its last day and that day. *)

(* Mobile Money: each day of a range counts what was written down for it   *)
(* or what its payments say (_range_tender()).                             *)
LEMMA RangeMobileStep ==
  ASSUME MoneyTypeOK, NEW s \in Days, NEW d \in Days, s <= d
  PROVE  /\ RangeMobile(s, d) = RangeMobile(s, d - 1) + MobileFromSales(d)
         /\ RangeMobile(s, d - 1) \in Int /\ MobileFromSales(d) \in Int
<1> DEFINE M == MobileSet(s, d)
           N == MobileSet(s, d - 1)
           L == (s .. d) \ M
           K == (s .. (d - 1)) \ N
<1>1. s \in Int /\ d \in Int /\ s .. d \subseteq Days
  BY LastDayAssumption DEF Days
<1>2. IsFiniteSet(M) /\ IsFiniteSet(N) /\ IsFiniteSet(L) /\ IsFiniteSet(K)
  <2>1. IsFiniteSet(s .. d) /\ IsFiniteSet(s .. (d - 1))  BY <1>1, FS_Interval
  <2> QED  BY <2>1, FS_Subset DEF MobileSet
<1>3. ASSUME NEW x \in s .. d
      PROVE  /\ LegacyMobileOf[x] = LegacyMobile(x) /\ LegacyMobileOf[x] \in Int
             /\ mobile[x] # Nothing => mobile[x] \in Int
  <2>1. x \in Days  BY <1>1
  <2>2. {p \in SameDayPayments(x) : payments[p].account = "mobile_money"} \in SUBSET PaymentIds
    BY DEF SameDayPayments
  <2>3. LegacyMobile(x) \in Nat  BY <2>2, PaymentSums DEF LegacyMobile
  <2>4. mobile[x] \in Nat \cup {Nothing}  BY <2>1 DEF MoneyTypeOK
  <2> QED  BY <2>1, <2>3, <2>4 DEF LegacyMobileOf
<1>4. /\ \A x \in M : mobile[x] \in Int
      /\ \A x \in L : LegacyMobileOf[x] \in Int
  BY <1>3 DEF MobileSet
<1>5. N \subseteq M /\ K \subseteq L  BY <1>1 DEF MobileSet
<1>6. /\ SumFunctionOnSet(mobile, N) \in Int
      /\ SumFunctionOnSet(LegacyMobileOf, K) \in Int
  <2>1. /\ \A x \in N : mobile[x] \in Int
        /\ \A x \in K : LegacyMobileOf[x] \in Int
    BY <1>4, <1>5
  <2> HIDE DEF N, K
  <2> QED  BY <1>2, <2>1, SumInt
<1>7. /\ RangeMobile(s, d) = SumFunctionOnSet(mobile, M) + SumFunctionOnSet(LegacyMobileOf, L)
      /\ RangeMobile(s, d - 1)
           = SumFunctionOnSet(mobile, N) + SumFunctionOnSet(LegacyMobileOf, K)
  BY DEF RangeMobile
<1>8. d \in s .. d  BY <1>1
<1>9. CASE mobile[d] # Nothing
  <2>1. d \in M /\ M \ {d} = N /\ L = K  BY <1>1, <1>9 DEF MobileSet
  <2>2. SumFunctionOnSet(mobile, M) = mobile[d] + SumFunctionOnSet(mobile, N)
    <3> HIDE DEF M, N
    <3> QED  BY <1>2, <1>4, <2>1, SumSplit
  <2>3. MobileFromSales(d) = mobile[d] /\ mobile[d] \in Int
    BY <1>3, <1>8, <1>9 DEF MobileFromSales
  <2> HIDE DEF M, N, L, K
  <2> QED  BY <1>6, <1>7, <2>1, <2>2, <2>3
<1>10. CASE mobile[d] = Nothing
  <2>1. d \in L /\ L \ {d} = K /\ M = N  BY <1>1, <1>10 DEF MobileSet
  <2>2. SumFunctionOnSet(LegacyMobileOf, L)
          = LegacyMobileOf[d] + SumFunctionOnSet(LegacyMobileOf, K)
    <3> HIDE DEF L, K
    <3> QED  BY <1>2, <1>4, <2>1, SumSplit
  <2>3. MobileFromSales(d) = LegacyMobileOf[d] /\ LegacyMobileOf[d] \in Int
    BY <1>3, <1>8, <1>10 DEF MobileFromSales
  <2> HIDE DEF M, N, L, K
  <2> QED  BY <1>6, <1>7, <2>1, <2>2, <2>3
<1> QED  BY <1>9, <1>10

(* A payment is of an invoice that exists and is not dated after it; so is *)
(* the one that has passed its check and is not stored yet.                *)
BilledBefore(payment) ==
    payment # NoPayment =>
        /\ invoices[payment.invoice] # NoInvoice
        /\ invoices[payment.invoice].day <= payment.day
PaymentsSane == BilledBefore(pending) /\ \A p \in PaymentIds : BilledBefore(payments[p])

(* What a day leaves unpaid, invoice by invoice, is what its customers     *)
(* were invoiced less what they paid the same day, unless one of the       *)
(* invoices is void, an opening or overpaid (outstanding() as of a date).  *)
LEMMA UnpaidIsInvoicedLessPaid ==
  ASSUME MoneyTypeOK, PaymentsSane, NEW d \in Days, ~Contested(d)
  PROVE  LegacyCredit(d) = SumFunctionOnSet(InvoiceAmount, OnCredit(SaleInvoices(d)))
                             - SumFunctionOnSet(AmountPaid, PaidOnCreditIn(d, d))
<1> DEFINE S == OnCredit(SaleInvoices(d))
           T == PaidOnCreditIn(d, d)
           part == [i \in InvoiceIds |-> PaidBy(i, d)]
           paid == [i \in InvoiceIds |-> PaidTotal(i, d)]
           unpaid == [i \in InvoiceIds |-> NoLessThanZero(Outstanding(i, d))]
<1>1. d \in Int /\ LastDay \in Int /\ d <= LastDay  BY MoneyNumbers, LastDayAssumption
<1>2. S \in SUBSET InvoiceIds /\ T \in SUBSET PaymentIds
  BY DEF OnCredit, SaleInvoices, PaidOnCreditIn, SameDayPayments
<1>3. T = {p \in SameDayPayments(d) : invoices[payments[p].invoice].credit}
  <2>1. d .. d = {d}  BY <1>1
  <2> QED  BY <2>1 DEF PaidOnCreditIn
<1>4. ASSUME NEW i \in InvoiceIds
      PROVE  /\ PaidBy(i, d) \in SUBSET PaymentIds /\ PaidBy(i, LastDay) \in SUBSET PaymentIds
             /\ PaidTotal(i, d) \in Nat /\ PaidTotal(i, LastDay) \in Nat
             /\ PaidTotal(i, d) <= PaidTotal(i, LastDay)
  <2>1. PaidBy(i, d) \in SUBSET PaymentIds /\ PaidBy(i, LastDay) \in SUBSET PaymentIds
    BY DEF PaidBy
  <2>2. PaidBy(i, d) \subseteq PaidBy(i, LastDay)
    <3>1. \A p \in PaymentIds : payments[p].day \in Int  BY MoneyNumbers
    <3> QED  BY <1>1, <3>1 DEF PaidBy
  <2>3. PaidTotal(i, d) \in Nat /\ PaidTotal(i, LastDay) \in Nat
    BY <2>1, PaymentSums DEF PaidTotal
  <2>4. IsFiniteSet(PaidBy(i, LastDay)) /\ \A p \in PaidBy(i, LastDay) : AmountPaid[p] \in Nat
    BY <2>1, PaymentSums, MoneyNumbers
  <2>5. PaidTotal(i, d) <= PaidTotal(i, LastDay)
    BY <2>2, <2>4, SumMonotone DEF PaidTotal
  <2> QED  BY <2>1, <2>3, <2>5
<1>5. ASSUME NEW i \in S PROVE PaidBy(i, d) = {p \in T : payments[p].invoice = i}
  <2>1. i \in InvoiceIds /\ invoices[i].day = d /\ invoices[i].credit
    BY <1>2 DEF OnCredit, SaleInvoices
  <2>2. ASSUME NEW p \in PaymentIds, payments[p].invoice = i, payments[p].day <= d
        PROVE  p \in T
    <3>1. payments[p] # NoPayment  BY <2>1, <2>2, MoneyNothingAssumption DEF NoPayment
    <3>2. d <= payments[p].day  BY <2>1, <2>2, <3>1 DEF PaymentsSane, BilledBefore
    <3>3. payments[p].day = d  BY <1>1, <2>2, <3>2, MoneyNumbers
    <3> QED  BY <1>3, <2>1, <2>2, <3>1, <3>3 DEF SameDayPayments
  <2>3. ASSUME NEW p \in T PROVE payments[p].day <= d
    <3>1. payments[p].day = d  BY <1>3 DEF SameDayPayments
    <3> QED  BY <1>1, <3>1
  <2> QED  BY <1>2, <2>2, <2>3 DEF PaidBy
<1>6. ASSUME NEW p \in T PROVE payments[p].invoice \in S
  <2>1. /\ p \in PaymentIds /\ payments[p] # NoPayment /\ payments[p].day = d
        /\ invoices[payments[p].invoice].day = d /\ invoices[payments[p].invoice].credit
    BY <1>3 DEF SameDayPayments
  <2> DEFINE i == payments[p].invoice
  <2>2. i \in InvoiceIds /\ AmountPaid[p] > 0 /\ AmountPaid[p] \in Nat  BY <2>1, MoneyNumbers
  <2>3. p \in PaidBy(i, LastDay)  BY <1>1, <2>1 DEF PaidBy
  <2>4. PaidTotal(i, LastDay) > 0
    <3>1. IsFiniteSet(PaidBy(i, LastDay)) /\ \A q \in PaidBy(i, LastDay) : AmountPaid[q] \in Nat
      BY <1>4, <2>2, PaymentSums, MoneyNumbers
    <3>2. AmountPaid[p] <= PaidTotal(i, LastDay)  BY <2>3, <3>1, SumNat DEF PaidTotal
    <3>3. PaidTotal(i, LastDay) \in Nat  BY <1>4, <2>2
    <3> QED  BY <2>2, <3>2, <3>3
  <2>5. ~Disputed(i)  BY <2>1, <2>2 DEF Contested
  <2>6. invoices[i].status = "active" /\ ~invoices[i].opening  BY <2>4, <2>5 DEF Disputed
  <2> QED  BY <2>1, <2>2, <2>6 DEF OnCredit, SaleInvoices
<1>7. ASSUME NEW i \in S
      PROVE  /\ InvoiceAmount[i] \in Int /\ paid[i] \in Int
             /\ unpaid[i] = InvoiceAmount[i] - paid[i]
  <2>1. i \in InvoiceIds /\ invoices[i].day = d /\ invoices[i].credit
    BY <1>2 DEF OnCredit, SaleInvoices
  <2>2. ~(Outstanding(i, LastDay) < 0)  BY <2>1 DEF Contested, Disputed
  <2>3. /\ InvoiceAmount[i] = invoices[i].amount /\ InvoiceAmount[i] \in Nat
    BY <2>1, MoneyNumbers
  <2>4. Outstanding(i, d) = InvoiceAmount[i] - PaidTotal(i, d) /\ Outstanding(i, d) >= 0
    BY <1>4, <2>1, <2>2, <2>3 DEF Outstanding
  <2>5. NoLessThanZero(Outstanding(i, d)) = InvoiceAmount[i] - PaidTotal(i, d)
    BY <1>4, <2>1, <2>3, <2>4 DEF NoLessThanZero
  <2> QED  BY <1>4, <2>1, <2>3, <2>5
<1>8. IsFiniteSet(S) /\ IsFiniteSet(T)  BY <1>2, InvoiceSums, PaymentSums
<1>9. SumFunctionOnSet(unpaid, S)
        = SumFunctionOnSet(InvoiceAmount, S) - SumFunctionOnSet(paid, S)
  <2> HIDE DEF S, paid, unpaid
  <2> QED  BY <1>7, <1>8, SumMinus
<1>10. SumFunctionOnSet(paid, S) = SumFunctionOnSet(AmountPaid, T)
  <2>1. \A i \in S : part[i] \subseteq T /\ paid[i] = SumFunctionOnSet(AmountPaid, part[i])
    BY <1>2, <1>5 DEF PaidTotal
  <2>2. \A i, j \in S : i # j => part[i] \cap part[j] = {}  BY <1>2 DEF PaidBy
  <2>3. \A p \in T : \E i \in S : p \in part[i]  BY <1>2, <1>5, <1>6
  <2>4. \A p \in T : AmountPaid[p] \in Int  BY <1>2, MoneyNumbers
  <2> HIDE DEF S, T, part, paid
  <2> QED  BY <1>8, <2>1, <2>2, <2>3, <2>4, SumParts
<1>11. LegacyCredit(d) = SumFunctionOnSet(unpaid, S)  BY DEF LegacyCredit
<1>12. SumFunctionOnSet(unpaid, S)
         = SumFunctionOnSet(InvoiceAmount, S) - SumFunctionOnSet(AmountPaid, T)
  BY <1>9, <1>10
<1> QED  BY <1>11, <1>12

(* Cash: what a range adds for its last day is what that day shows         *)
(* (_range_tender() against tender_split()).                               *)
LEMMA RangeCashStep ==
  ASSUME MoneyTypeOK, PaymentsSane, NEW s \in Days, NEW d \in Days, s <= d, ~Contested(d)
  PROVE  /\ RangeCash(s, d) = RangeCash(s, d - 1) + CashFromSales(d)
         /\ RangeCash(s, d - 1) \in Int /\ CashFromSales(d) \in Int
<1>0. PICK e : e = d - 1  OBVIOUS
<1> DEFINE A == SoldIn(s, e)
           B == SaleInvoices(d)
           P == PaidOnCreditIn(s, e)
           Q == PaidOnCreditIn(d, d)
           Billed(I) == SumFunctionOnSet(InvoiceAmount, I)
           Paid(I) == SumFunctionOnSet(AmountPaid, I)
<1>1. s \in Int /\ d \in Int /\ s .. d \subseteq Days /\ e \in Int
  BY <1>0, LastDayAssumption DEF Days
<1>2. /\ SumFunctionOnSet(sales, s .. d) = SumFunctionOnSet(sales, s .. e) + sales[d]
      /\ SumFunctionOnSet(sales, s .. e) \in Int /\ sales[d] \in Int
  <2>1. \A x \in s .. d : sales[x] \in Int  BY <1>1 DEF MoneyTypeOK
  <2> QED  BY <1>0, <1>1, <2>1, SumLast
<1>3. /\ SumFunctionOnSet(debts, s .. d) = SumFunctionOnSet(debts, s .. e) + debts[d]
      /\ SumFunctionOnSet(debts, s .. e) \in Int /\ debts[d] \in Int
  <2>1. \A x \in s .. d : debts[x] \in Int  BY <1>1 DEF MoneyTypeOK
  <2> QED  BY <1>0, <1>1, <2>1, SumLast
<1>4. A \in SUBSET InvoiceIds /\ B \in SUBSET InvoiceIds
      /\ OnCredit(A) \in SUBSET InvoiceIds /\ OnCredit(B) \in SUBSET InvoiceIds
  BY DEF SoldIn, SaleInvoices, OnCredit
<1>5. P \in SUBSET PaymentIds /\ Q \in SUBSET PaymentIds
  BY DEF PaidOnCreditIn, SameDayPayments
<1>6. /\ Billed(A) \in Int /\ Billed(B) \in Int /\ Billed(OnCredit(A)) \in Int
      /\ Billed(OnCredit(B)) \in Int /\ Paid(P) \in Int /\ Paid(Q) \in Int
  BY <1>4, <1>5, InvoiceSums, PaymentSums
<1>7. SoldIn(s, d) = A \cup B /\ A \cap B = {}
  <2>1. \A i \in InvoiceIds : invoices[i].day \in Int  BY MoneyNumbers
  <2>2. \A x \in Int : x \in s .. d <=> x \in s .. e \/ x = d  BY <1>0, <1>1
  <2>3. d \notin s .. e  BY <1>0, <1>1
  <2> QED  BY <2>1, <2>2, <2>3 DEF SoldIn, SaleInvoices
<1>8. /\ OnCredit(SoldIn(s, d)) = OnCredit(A) \cup OnCredit(B)
      /\ OnCredit(A) \cap OnCredit(B) = {}
  <2> HIDE DEF A, B
  <2> QED  BY <1>7 DEF OnCredit
<1>9. PaidOnCreditIn(s, d) = P \cup Q /\ P \cap Q = {}
  <2>1. s .. d = (s .. e) \cup (d .. d) /\ d \notin s .. e /\ d .. d = {d}
    BY <1>0, <1>1
  <2> QED  BY <2>1 DEF PaidOnCreditIn, SameDayPayments
<1>10. Billed(SoldIn(s, d)) = Billed(A) + Billed(B)
  <2> HIDE DEF A, B
  <2> QED  BY <1>4, <1>7, InvoicesSplit
<1>11. Billed(OnCredit(SoldIn(s, d))) = Billed(OnCredit(A)) + Billed(OnCredit(B))
  <2> HIDE DEF A, B
  <2> QED  BY <1>4, <1>8, InvoicesSplit
<1>12. Paid(PaidOnCreditIn(s, d)) = Paid(P) + Paid(Q)
  <2> HIDE DEF P, Q
  <2> QED  BY <1>5, <1>9, PaymentsSplit
<1>13. LegacyCredit(d) = Billed(OnCredit(B)) - Paid(Q)  BY UnpaidIsInvoicedLessPaid
<1>14. /\ RangeMobile(s, d) = RangeMobile(s, e) + MobileFromSales(d)
       /\ RangeMobile(s, e) \in Int /\ MobileFromSales(d) \in Int
  BY <1>0, RangeMobileStep
<1>15. RangeCash(s, d) =
         SumFunctionOnSet(sales, s .. d) + Billed(SoldIn(s, d))
           - (Billed(OnCredit(SoldIn(s, d))) - Paid(PaidOnCreditIn(s, d)))
           - SumFunctionOnSet(debts, s .. d) - RangeMobile(s, d)
  BY DEF RangeCash
<1>16. RangeCash(s, e) =
         SumFunctionOnSet(sales, s .. e) + Billed(A)
           - (Billed(OnCredit(A)) - Paid(P))
           - SumFunctionOnSet(debts, s .. e) - RangeMobile(s, e)
  BY DEF RangeCash
<1>17. CashFromSales(d) =
         sales[d] + Billed(B) - (LegacyCredit(d) + debts[d]) - MobileFromSales(d)
  <2>1. TotalSales(d) = sales[d] + Billed(B)  BY DEF TotalSales
  <2>2. NewDebt(d) = LegacyCredit(d) + debts[d]  BY DEF NewDebt
  <2>3. CashFromSales(d) = TotalSales(d) - NewDebt(d) - MobileFromSales(d)
    BY DEF CashFromSales
  <2>4. /\ sales[d] \in Int /\ Billed(B) \in Int /\ LegacyCredit(d) \in Int
        /\ debts[d] \in Int /\ MobileFromSales(d) \in Int
    BY <1>2, <1>3, <1>6, <1>13, <1>14
  <2> HIDE DEF Billed, B
  <2> QED  BY <2>1, <2>2, <2>3, <2>4
<1>18. RangeCash(s, d) =
         (SumFunctionOnSet(sales, s .. e) + sales[d]) + (Billed(A) + Billed(B))
           - ((Billed(OnCredit(A)) + Billed(OnCredit(B))) - (Paid(P) + Paid(Q)))
           - (SumFunctionOnSet(debts, s .. e) + debts[d])
           - (RangeMobile(s, e) + MobileFromSales(d))
  <2> HIDE DEF A, B, P, Q, Billed, Paid
  <2> QED  BY <1>2, <1>3, <1>10, <1>11, <1>12, <1>14, <1>15
<1>19. /\ SumFunctionOnSet(sales, s .. e) \in Int /\ sales[d] \in Int
       /\ SumFunctionOnSet(debts, s .. e) \in Int /\ debts[d] \in Int
       /\ RangeMobile(s, e) \in Int /\ MobileFromSales(d) \in Int
  BY <1>2, <1>3, <1>14
<1> HIDE DEF A, B, P, Q, Billed, Paid
<1>20. /\ RangeCash(s, d) = RangeCash(s, e) + CashFromSales(d)
       /\ RangeCash(s, e) \in Int /\ CashFromSales(d) \in Int
  <2>1. LegacyCredit(d) \in Int  BY <1>6, <1>13
  <2>2. CashFromSales(d) \in Int  BY <1>6, <1>17, <1>19, <2>1
  <2>3. RangeCash(s, e) \in Int  BY <1>6, <1>16, <1>19
  <2>4. CashFromSales(d) =
          sales[d] + Billed(B) - (Billed(OnCredit(B)) - Paid(Q) + debts[d]) - MobileFromSales(d)
    BY <1>13, <1>17
  <2>5. PICK x, y, z \in Int :
            /\ x = SumFunctionOnSet(sales, s .. e) /\ y = SumFunctionOnSet(debts, s .. e)
            /\ z = RangeMobile(s, e)
    BY <1>19
  <2>6. PICK u, v, w \in Int : u = sales[d] /\ v = debts[d] /\ w = MobileFromSales(d)
    BY <1>19
  <2>7. PICK a, b, f, g, p, q \in Int :
            /\ a = Billed(A) /\ b = Billed(B) /\ f = Billed(OnCredit(A))
            /\ g = Billed(OnCredit(B)) /\ p = Paid(P) /\ q = Paid(Q)
    BY <1>6
  <2>8. RangeCash(s, d) = (x + u) + (a + b) - ((f + g) - (p + q)) - (y + v) - (z + w)
    BY <1>18, <2>5, <2>6, <2>7, Zenon
  <2>9. RangeCash(s, e) = x + a - (f - p) - y - z  BY <1>16, <2>5, <2>7, Zenon
  <2>10. CashFromSales(d) = u + b - (g - q + v) - w  BY <2>4, <2>6, <2>7, Zenon
  <2>11. RangeCash(s, d) = RangeCash(s, e) + CashFromSales(d)  BY <2>8, <2>9, <2>10
  <2> QED  BY <2>2, <2>3, <2>11
<1> QED  BY <1>0, <1>20

(* An empty range has no money. *)
LEMMA EmptyRange ==
  ASSUME MoneyTypeOK, NEW d \in Days
  PROVE  RangeCash(d, d - 1) = 0 /\ RangeMobile(d, d - 1) = 0
<1>1. d .. (d - 1) = {}  BY LastDayAssumption DEF Days
<1>2. MobileSet(d, d - 1) = {} /\ SoldIn(d, d - 1) = {} /\ PaidOnCreditIn(d, d - 1) = {}
  BY <1>1 DEF MobileSet, SoldIn, PaidOnCreditIn
<1>3. OnCredit(SoldIn(d, d - 1)) = {}  BY <1>2 DEF OnCredit
<1>4. (d .. (d - 1)) \ MobileSet(d, d - 1) = {}  BY <1>1
<1>5. /\ SumFunctionOnSet(mobile, {}) = 0 /\ SumFunctionOnSet(LegacyMobileOf, {}) = 0
      /\ SumFunctionOnSet(sales, {}) = 0 /\ SumFunctionOnSet(debts, {}) = 0
      /\ SumFunctionOnSet(InvoiceAmount, {}) = 0 /\ SumFunctionOnSet(AmountPaid, {}) = 0
  BY SumEmpty
<1>6. RangeMobile(d, d - 1) = 0  BY <1>2, <1>4, <1>5 DEF RangeMobile
<1>7. RangeCash(d, d - 1) = 0 + 0 - (0 - 0) - 0 - 0
  BY <1>1, <1>2, <1>3, <1>5, <1>6, Zenon DEF RangeCash
<1> QED  BY <1>6, <1>7

(* Collections and movements of a day are whole numbers. *)
LEMMA DayNumbers ==
  ASSUME MoneyTypeOK, NEW d \in Days, NEW account
  PROVE  DebtCollections(d, account) \in Int /\ Moved(d, account) \in Int
<1>1. ASSUME NEW entry \in Entry \cup {NoEntry}
      PROVE  entry.amount \in Int
  <2>1. \A a \in Amounts : a \in Int  BY AmountsAssumption
  <2> QED  BY <2>1 DEF Entry, NoEntry
<1>2. SumFunctionOnSet(AmountPaid, LatePayments(d, account)) \in Int
  <2>1. LatePayments(d, account) \in SUBSET PaymentIds  BY DEF LatePayments
  <2>2. SumFunctionOnSet(AmountPaid, LatePayments(d, account)) \in Nat  BY <2>1, PaymentSums
  <2> QED  BY <2>2
<1>3. /\ collected[d].amount \in Int /\ expenses[d].amount \in Int
      /\ transfers[d].amount \in Int /\ adjusted[d].amount \in Int
  <2>1. /\ collected[d] \in Entry \cup {NoEntry} /\ expenses[d] \in Entry \cup {NoEntry}
        /\ transfers[d] \in Transfer \cup {NoTransfer}
        /\ adjusted[d] \in [amount : Int, account : Balances]
    BY DEF MoneyTypeOK
  <2>2. transfers[d].amount \in Int
    <3>1. \A a \in Amounts : a \in Int  BY AmountsAssumption
    <3>2. \A t \in Transfer : t.amount \in Amounts  BY DEF Transfer
    <3>3. NoTransfer.amount = 0  BY DEF NoTransfer
    <3> QED  BY <2>1, <3>1, <3>2, <3>3
  <2> QED  BY <1>1, <2>1, <2>2
<1>4. DebtCollections(d, account) \in Int  BY <1>2, <1>3 DEF DebtCollections
<1>5. /\ (IF transfers[d].to = account THEN transfers[d].amount ELSE 0) \in Int
      /\ In(transfers[d], account) \in Int
      /\ In(expenses[d], account) \in Int /\ In(adjusted[d], account) \in Int
  BY <1>3 DEF In
<1>6. Moved(d, account) \in Int  BY <1>5 DEF Moved
<1> QED  BY <1>4, <1>6

(* The first of some days. *)
LEMMA EarliestIsFirst ==
  ASSUME NEW S \in SUBSET Days, S # {}
  PROVE  EarliestOf(S) \in S /\ \A e \in S : EarliestOf(S) <= e
<1>1. S \in SUBSET Nat  BY LastDayAssumption DEF Days
<1>2. \E m \in S : \A k \in S : m <= k  BY <1>1, LeastNat
<1> QED  BY <1>2 DEF EarliestOf

(* No other day is the first. *)
LEMMA EarliestIsUnique ==
  ASSUME NEW S \in SUBSET Days, NEW g \in S, \A e \in S : g <= e
  PROVE  EarliestOf(S) = g
<1>1. EarliestOf(S) \in S /\ \A e \in S : EarliestOf(S) <= e  BY EarliestIsFirst
<1>2. EarliestOf(S) <= g /\ g <= EarliestOf(S)  BY <1>1
<1>3. EarliestOf(S) \in Int /\ g \in Int
  <2>1. EarliestOf(S) \in Days /\ g \in Days  BY <1>1
  <2> QED  BY <2>1, LastDayAssumption DEF Days
<1> QED  BY <1>2, <1>3

(* Where a day starts counting from: with drafts or without, a day not     *)
(* after it.                                                               *)
LEMMA AnchorsAreDays ==
  ASSUME MoneyTypeOK, NEW d \in Days
  PROVE  /\ \A withDrafts \in BOOLEAN :
               /\ Anchors(d, withDrafts) \in SUBSET Days
               /\ \A e \in Anchors(d, withDrafts) : e <= d
         /\ Anchors(d, FALSE) \subseteq Anchors(d, TRUE)
         /\ status[d] # "none" => Anchors(d, TRUE) # {}
         /\ MoneyDeclared(d) # {} => Anchors(d, FALSE) # {}
         /\ Opening(d) \in Int
         /\ MoneyDeclared(d) = {} => Opening(d) = 0
<1>1. d \in Int /\ d <= d  BY MoneyNumbers
<1>2. MoneyDeclared(d) \in SUBSET Days  BY DEF MoneyDeclared
<1>3. ASSUME MoneyDeclared(d) # {}
      PROVE  /\ LatestOf(MoneyDeclared(d)) \in Days /\ LatestOf(MoneyDeclared(d)) <= d
             /\ startingMoney[LatestOf(MoneyDeclared(d))] \in Nat
  <2>1. LatestOf(MoneyDeclared(d)) \in MoneyDeclared(d)  BY <1>2, <1>3, LatestIsLast
  <2> QED  BY <2>1 DEF MoneyDeclared, MoneyTypeOK
<1>4. Opening(d) \in Int /\ (MoneyDeclared(d) = {} => Opening(d) = 0)
  BY <1>3 DEF Opening
<1>5. CASE MoneyDeclared(d) # {}
  <2>1. \A b \in BOOLEAN : Anchors(d, b) = {LatestOf(MoneyDeclared(d))}  BY <1>5 DEF Anchors
  <2> QED  BY <1>3, <1>4, <1>5, <2>1
<1>6. CASE MoneyDeclared(d) = {}
  <2>1. /\ Anchors(d, TRUE) = {e \in Days : e <= d /\ status[e] \notin {"none"}}
        /\ Anchors(d, FALSE) = {e \in Days : e <= d /\ status[e] \notin {"none", "draft"}}
    BY <1>6 DEF Anchors
  <2> QED  BY <1>1, <1>4, <1>6, <2>1
<1> QED  BY <1>5, <1>6

(* Collections and movements by day; the cash or Mobile Money from sales.  *)
Collections(account) == [e \in Days |-> DebtCollections(e, account)]
Movements(account) == [e \in Days |-> Moved(e, account)]
RangeTender(s, t, account) == IF account = "cash" THEN RangeCash(s, t) ELSE RangeMobile(s, t)
DayTender(d, account) == IF account = "cash" THEN CashFromSales(d) ELSE MobileFromSales(d)

(* What a range and a day hold of an account, in these terms. *)
LEMMA MoneyOfRange ==
  ASSUME NEW s, NEW t, NEW d, NEW account
  PROVE  /\ RangeMoney(s, t, account)
              = RangeTender(s, t, account) + SumFunctionOnSet(Collections(account), s .. t)
                  + SumFunctionOnSet(Movements(account), s .. t)
         /\ DayMoney(d, account)
              = DayTender(d, account) + DebtCollections(d, account) + Moved(d, account)
BY Zenon DEF RangeMoney, DayMoney, RangeTender, DayTender, Collections, Movements

(* A range grows by what its last day shows. *)
LEMMA RangeMoneyStep ==
  ASSUME MoneyTypeOK, PaymentsSane, NEW s \in Days, NEW d \in Days, s <= d, ~Contested(d),
         NEW account \in Balances
  PROVE  /\ RangeMoney(s, d, account) = RangeMoney(s, d - 1, account) + DayMoney(d, account)
         /\ RangeMoney(s, d - 1, account) \in Int /\ DayMoney(d, account) \in Int
<1>0. PICK e : e = d - 1  OBVIOUS
<1>1. s \in Int /\ d \in Int /\ s .. d \subseteq Days  BY LastDayAssumption DEF Days
<1>2. PICK x, y \in Int : x = RangeTender(s, e, account) /\ y = DayTender(d, account)
  BY <1>0, RangeCashStep, RangeMobileStep DEF RangeTender, DayTender
<1>3. RangeTender(s, d, account) = x + y
  BY <1>0, <1>2, RangeCashStep, RangeMobileStep DEF RangeTender, DayTender
<1>4. /\ \A k \in s .. d : Collections(account)[k] \in Int /\ Movements(account)[k] \in Int
      /\ Collections(account)[d] = DebtCollections(d, account)
      /\ Movements(account)[d] = Moved(d, account)
  BY <1>1, DayNumbers DEF Collections, Movements
<1>5. PICK u, v \in Int : u = DebtCollections(d, account) /\ v = Moved(d, account)
  BY DayNumbers
<1>6. PICK a, b \in Int : /\ a = SumFunctionOnSet(Collections(account), s .. e)
                          /\ b = SumFunctionOnSet(Movements(account), s .. e)
  BY <1>0, <1>1, <1>4, SumLast
<1>7. /\ SumFunctionOnSet(Collections(account), s .. d) = a + u
      /\ SumFunctionOnSet(Movements(account), s .. d) = b + v
  BY <1>0, <1>1, <1>4, <1>5, <1>6, SumLast
<1>8. RangeMoney(s, d, account) = (x + y) + (a + u) + (b + v)
  <2>1. RangeMoney(s, d, account)
          = RangeTender(s, d, account) + SumFunctionOnSet(Collections(account), s .. d)
              + SumFunctionOnSet(Movements(account), s .. d)
    BY MoneyOfRange
  <2> QED  BY <1>3, <1>7, <2>1, Zenon
<1>9. RangeMoney(s, e, account) = x + a + b  BY <1>2, <1>6, MoneyOfRange, Zenon
<1>10. DayMoney(d, account) = y + u + v  BY <1>2, <1>5, MoneyOfRange, Zenon
<1> QED  BY <1>0, <1>8, <1>9, <1>10

(* A range that has not begun holds nothing. *)
LEMMA EmptyRangeMoney ==
  ASSUME MoneyTypeOK, NEW d \in Days, NEW account \in Balances
  PROVE  RangeMoney(d, d - 1, account) = 0
<1>1. d .. (d - 1) = {}  BY LastDayAssumption DEF Days
<1>2. RangeTender(d, d - 1, account) = 0  BY EmptyRange DEF RangeTender
<1>3. /\ SumFunctionOnSet(Collections(account), {}) = 0
      /\ SumFunctionOnSet(Movements(account), {}) = 0
  BY SumEmpty
<1>4. RangeMoney(d, d - 1, account) = 0 + 0 + 0
  <2>1. RangeMoney(d, d - 1, account)
          = RangeTender(d, d - 1, account) + SumFunctionOnSet(Collections(account), d .. (d - 1))
              + SumFunctionOnSet(Movements(account), d .. (d - 1))
    BY MoneyOfRange
  <2> QED  BY <1>1, <1>2, <1>3, <2>1, Zenon
<1> QED  BY <1>4

(* A balance, by cases of where it starts. *)
LEMMA BalanceCases ==
  ASSUME NEW d, NEW account, NEW t, NEW withDrafts, NEW start,
         start = EarliestOf(Anchors(d, withDrafts))
  PROVE  /\ Anchors(d, withDrafts) = {}
              => MoneyBalance(d, account, t, withDrafts) = Nothing
         /\ Anchors(d, withDrafts) # {} /\ t < start
              => MoneyBalance(d, account, t, withDrafts) = Opening(d)
         /\ Anchors(d, withDrafts) # {} /\ ~(t < start)
              => MoneyBalance(d, account, t, withDrafts)
                   = Opening(d) + RangeMoney(start, t, account)
BY DEF MoneyBalance

(* The property of a state, from its types and its payments.               *)
LEMMA StateAddsUp ==
  ASSUME MoneyTypeOK, PaymentsSane
  PROVE  ExpectedMoneyAddsUp
<1> SUFFICES ASSUME NEW d \in Days, NEW account \in Balances,
                    status[d] # "none",
                    ~AfterDraft(d),
                    ~Contested(d)
             PROVE  ExpectedMoney(d, account)
                    = (IF CarriedMoneyBalance(d, account) = Nothing THEN 0
                       ELSE CarriedMoneyBalance(d, account))
                      + DayMoney(d, account)
  BY Zenon DEF ExpectedMoneyAddsUp
<1> DEFINE start == EarliestOf(Anchors(d, TRUE))
           before == EarliestOf(Anchors(d, FALSE))
<1>1. d \in Int /\ d - 1 \in Int /\ \A e \in Days : e \in Int  BY MoneyNumbers
<1>2. /\ Anchors(d, TRUE) \in SUBSET Days /\ Anchors(d, FALSE) \in SUBSET Days
      /\ \A e \in Anchors(d, TRUE) : e <= d
      /\ Anchors(d, FALSE) \subseteq Anchors(d, TRUE) /\ Anchors(d, TRUE) # {}
      /\ Opening(d) \in Int
      /\ Anchors(d, FALSE) = {} => Opening(d) = 0
  BY AnchorsAreDays
<1>3. start \in Anchors(d, TRUE) /\ start \in Days /\ start <= d /\ start \in Int
  BY <1>1, <1>2, EarliestIsFirst
<1>4. Nothing \notin Int  BY MoneyNothingAssumption
<1>10. start \in Anchors(d, FALSE) \/ start = d
  BY <1>1, <1>3 DEF AfterDraft, Anchors
<1>5. /\ RangeMoney(start, d, account) = RangeMoney(start, d - 1, account) + DayMoney(d, account)
      /\ RangeMoney(start, d - 1, account) \in Int /\ DayMoney(d, account) \in Int
  BY <1>3, RangeMoneyStep
<1>6. RangeMoney(d, d - 1, account) = 0  BY EmptyRangeMoney
<1>7. ExpectedMoney(d, account) = Opening(d) + RangeMoney(start, d, account)
  <2>1. start = EarliestOf(Anchors(d, TRUE))  OBVIOUS
  <2> HIDE DEF start
  <2>2. ~(d < start)  BY <1>1, <1>3
  <2>3. MoneyBalance(d, account, d, TRUE) = Opening(d) + RangeMoney(start, d, account)
    BY <1>2, <2>1, <2>2, BalanceCases
  <2> QED  BY <2>3 DEF ExpectedMoney
<1>8. CASE Anchors(d, FALSE) = {}
  <2>1. CarriedMoneyBalance(d, account) = Nothing
    BY <1>8, BalanceCases DEF CarriedMoneyBalance
  <2>2. start = d  BY <1>8, <1>10
  <2>3. Opening(d) = 0  BY <1>2, <1>8
  <2> HIDE DEF start
  <2>4. RangeMoney(d, d, account) = DayMoney(d, account)  BY <1>5, <1>6, <2>2
  <2>5. ExpectedMoney(d, account) = 0 + DayMoney(d, account)
    BY <1>7, <2>2, <2>3, <2>4, Zenon
  <2> QED  BY <2>1, <2>5, Zenon
<1>9. CASE Anchors(d, FALSE) # {}
  <2>1. before \in Anchors(d, FALSE) /\ \A e \in Anchors(d, FALSE) : before <= e
    BY <1>2, <1>9, EarliestIsFirst
  <2>2. \A e \in Anchors(d, TRUE) : start <= e  BY <1>2, EarliestIsFirst
  <2>3. start = before
    <3>1. start <= before /\ before \in Int /\ before <= d
      BY <1>1, <1>2, <2>1, <2>2
    <3>2. CASE start \in Anchors(d, FALSE)
      <4>1. before <= start  BY <2>1, <3>2
      <4> HIDE DEF start, before
      <4> QED  BY <1>3, <3>1, <4>1
    <3>3. CASE start = d
      <4> HIDE DEF start, before
      <4> QED  BY <1>1, <3>1, <3>3
    <3> QED  BY <1>10, <3>2, <3>3
  <2>4. CASE d - 1 < start
    <3>1. before = EarliestOf(Anchors(d, FALSE))  OBVIOUS
    <3> HIDE DEF start, before
    <3>2. start = d  BY <1>1, <1>3, <2>4
    <3>3. MoneyBalance(d, account, d - 1, FALSE) = Opening(d)
      BY <1>9, <2>3, <2>4, <3>1, BalanceCases
    <3>4. CarriedMoneyBalance(d, account) = Opening(d) /\ Opening(d) # Nothing
      BY <1>2, <1>4, <3>3 DEF CarriedMoneyBalance
    <3>5. RangeMoney(d, d, account) = DayMoney(d, account)  BY <1>5, <1>6, <3>2
    <3>6. ExpectedMoney(d, account) = Opening(d) + DayMoney(d, account)
      BY <1>7, <3>2, <3>5, Zenon
    <3> QED  BY <3>4, <3>6, Zenon
  <2>5. CASE ~(d - 1 < start)
    <3>1. before = EarliestOf(Anchors(d, FALSE))  OBVIOUS
    <3> HIDE DEF start, before
    <3>2. MoneyBalance(d, account, d - 1, FALSE)
            = Opening(d) + RangeMoney(start, d - 1, account)
      BY <1>9, <2>3, <2>5, <3>1, BalanceCases
    <3>3. CarriedMoneyBalance(d, account) = Opening(d) + RangeMoney(start, d - 1, account)
      BY <3>2 DEF CarriedMoneyBalance
    <3>4. CarriedMoneyBalance(d, account) \in Int  BY <1>2, <1>5, <3>3
    <3>5. CarriedMoneyBalance(d, account) # Nothing  BY <1>4, <3>4
    <3>6. ExpectedMoney(d, account) = CarriedMoneyBalance(d, account) + DayMoney(d, account)
      <4>1. PICK o, r, m \in Int : /\ o = Opening(d) /\ r = RangeMoney(start, d - 1, account)
                                  /\ m = DayMoney(d, account)
        BY <1>2, <1>5
      <4>2. ExpectedMoney(d, account) = o + (r + m)  BY <1>5, <1>7, <4>1, Zenon
      <4>3. CarriedMoneyBalance(d, account) = o + r  BY <3>3, <4>1, Zenon
      <4> QED  BY <4>1, <4>2, <4>3
    <3> QED  BY <3>5, <3>6, Zenon
  <2> QED  BY <2>4, <2>5
<1> QED  BY <1>8, <1>9

-----------------------------------------------------------------------------
(* The books are well formed, step by step. *)

(* What is known of a payment, *)
LEMMA PaymentFacts ==
  ASSUME NEW payment \in Payment \cup {NoPayment}
  PROVE  /\ payment.day \in Int
         /\ payment # NoPayment => payment \in Payment
         /\ payment.invoice \in InvoiceIds => payment # NoPayment
         /\ payment # NoPayment => /\ payment.day >= 1 /\ payment.invoice \in InvoiceIds
                                   /\ payment.day \in Days
<1>1. \A e \in Days : e \in Int /\ e >= 1  BY LastDayAssumption DEF Days
<1>2. CASE payment = NoPayment  BY <1>2, MoneyNothingAssumption DEF NoPayment
<1>3. CASE payment \in Payment
  BY <1>1, <1>3, MoneyNothingAssumption DEF Payment, NoPayment
<1> QED  BY <1>2, <1>3

(* and of an invoice: only a stored one is on credit or has a status. *)
LEMMA InvoiceFacts ==
  ASSUME NEW invoice \in Invoice \cup {NoInvoice}
  PROVE  /\ invoice.day \in Int
         /\ invoice # NoInvoice => invoice \in Invoice /\ invoice.day >= 1
         /\ invoice.credit \/ invoice.status \in {"active", "void"} => invoice # NoInvoice
<1>1. \A e \in Days : e \in Int /\ e >= 1  BY LastDayAssumption DEF Days
<1>2. CASE invoice = NoInvoice  BY <1>2 DEF NoInvoice
<1>3. CASE invoice \in Invoice  BY <1>1, <1>3 DEF Invoice, NoInvoice
<1> QED  BY <1>2, <1>3

MoneyInv == MoneyTypeOK /\ PaymentsSane

(* Empty books are well formed. *)
LEMMA MoneyInitInv ==
  ASSUME MoneyInit
  PROVE  MoneyInv
<1>1. NoEntry \in [amount : Int, account : Balances]  BY DEF NoEntry, Balances
<1>2. MoneyTypeOK  BY <1>1 DEF MoneyInit, MoneyTypeOK, Statuses
<1>3. PaymentsSane  BY DEF MoneyInit, PaymentsSane, BilledBefore
<1> QED  BY <1>2, <1>3 DEF MoneyInv

(* Whoever leaves invoices and payments alone leaves them in order. *)
LEMMA SaneUnchanged ==
  ASSUME PaymentsSane, UNCHANGED <<invoices, payments, pending>>
  PROVE  PaymentsSane'
BY DEF PaymentsSane, BilledBefore

(* Save and Close Day write the figures of one day. *)
LEMMA WriteInv ==
  ASSUME MoneyInv, NEW d \in Days, NEW total \in Amounts \cup {0}, NEW debt \in Amounts \cup {0},
         NEW m \in Amounts \cup {Nothing}, NEW collection \in Entries,
         NEW requireBalance \in BOOLEAN,
         WriteWorkingDayMoney(d, total, m, debt, collection, requireBalance),
         status' \in [Days -> Statuses]
  PROVE  MoneyInv'
<1>1. \A a \in Amounts : a \in Nat  BY AmountsAssumption
<1>2. /\ debts' = [debts EXCEPT ![d] = debt]
      /\ collected' = [collected EXCEPT ![d] = collection]
  BY DEF WriteWorkingDayMoney, ReplaceDayDebts, CreateDebt, ReplaceDayDebtPayments,
         RecordDebtPayment
<1>3. /\ sales' = [sales EXCEPT ![d] = total] /\ mobile' = [mobile EXCEPT ![d] = m]
      /\ UNCHANGED <<opened, moved, startingMoney, invoices, payments, pending>>
  BY DEF WriteWorkingDayMoney
<1>4. MoneyTypeOK'  BY <1>1, <1>2, <1>3 DEF MoneyInv, MoneyTypeOK, Entries, moved
<1>5. PaymentsSane'  BY <1>3, SaneUnchanged DEF MoneyInv
<1> QED  BY <1>4, <1>5 DEF MoneyInv

(* The steps that change the figures of one day. *)
LEMMA DayStepInv ==
  ASSUME MoneyInv, NEW d \in Days,
         \/ ReopenDayMoney(d) \/ VoidDay(d)
         \/ \E m \in Amounts \cup {Nothing} : PatchMobile(d, m)
         \/ \E amount \in Amounts :
               PostDebt(d, amount) \/ OpeningDebt(d, amount) \/ SaveBaselineMoney(d, amount)
         \/ \E entry \in Entries : ReplaceDayExpenses(d, entry)
         \/ \E transfer \in Transfers : ReplaceDayTransfers(d, transfer)
         \/ \E entry \in Entry : PostExpense(d, entry) \/ AddDebtPayment(d, entry)
         \/ \E transfer \in Transfer : PostTransfer(d, transfer)
         \/ \E account \in Balances, amount \in Amounts :
               CashAdjustment(d, account, amount) \/ CashAdjustment(d, account, -amount)
  PROVE  MoneyInv'
<1> USE DEF MoneyInv
<1>1. \A a \in Amounts : a \in Nat /\ a \in Int /\ -a \in Int  BY AmountsAssumption
<1>2. CASE ReopenDayMoney(d)
  <2>1. MoneyTypeOK'  BY <1>2 DEF MoneyTypeOK, ReopenDayMoney, Statuses, moved
  <2> QED  BY <1>2, <2>1, SaneUnchanged DEF ReopenDayMoney
<1>3. CASE VoidDay(d)
  <2>1. /\ sales' \in {sales, [sales EXCEPT ![d] = 0]}
        /\ debts' \in {debts, [debts EXCEPT ![d] = 0]}
        /\ opened' \in {opened, [opened EXCEPT ![d] = 0]}
        /\ collected' \in {collected, [collected EXCEPT ![d] = NoEntry]}
        /\ expenses' \in {expenses, [expenses EXCEPT ![d] = NoEntry]}
        /\ transfers' \in {transfers, [transfers EXCEPT ![d] = NoTransfer]}
    BY <1>3 DEF VoidDay
  <2>2. /\ sales' \in [Days -> Nat] /\ debts' \in [Days -> Nat] /\ opened' \in [Days -> Nat]
    <3>1. \A f \in [Days -> Nat] : [f EXCEPT ![d] = 0] \in [Days -> Nat]  OBVIOUS
    <3>2. sales \in [Days -> Nat] /\ debts \in [Days -> Nat] /\ opened \in [Days -> Nat]
      BY DEF MoneyTypeOK
    <3>3. sales' \in [Days -> Nat]  BY <2>1, <3>1, <3>2
    <3>4. debts' \in [Days -> Nat]  BY <2>1, <3>1, <3>2
    <3>5. opened' \in [Days -> Nat]  BY <2>1, <3>1, <3>2
    <3> QED  BY <3>3, <3>4, <3>5
  <2>3. /\ collected' \in [Days -> Entry \cup {NoEntry}]
        /\ expenses' \in [Days -> Entry \cup {NoEntry}]
        /\ transfers' \in [Days -> Transfer \cup {NoTransfer}]
    <3>1. \A f \in [Days -> Entry \cup {NoEntry}] :
            [f EXCEPT ![d] = NoEntry] \in [Days -> Entry \cup {NoEntry}]
      OBVIOUS
    <3>2. \A f \in [Days -> Transfer \cup {NoTransfer}] :
            [f EXCEPT ![d] = NoTransfer] \in [Days -> Transfer \cup {NoTransfer}]
      OBVIOUS
    <3> QED  BY <2>1, <3>1, <3>2, Zenon DEF MoneyTypeOK
  <2>4. MoneyTypeOK'  BY <1>3, <2>2, <2>3 DEF MoneyTypeOK, VoidDay
  <2> QED  BY <1>3, <2>4, SaneUnchanged DEF VoidDay
<1>4. ASSUME NEW m \in Amounts \cup {Nothing}, PatchMobile(d, m) PROVE MoneyInv'
  <2>1. MoneyTypeOK'  BY <1>1, <1>4 DEF MoneyTypeOK, PatchMobile, moved
  <2> QED  BY <1>4, <2>1, SaneUnchanged DEF PatchMobile
<1>5. ASSUME NEW amount \in Amounts, PostDebt(d, amount) PROVE MoneyInv'
  <2>1. MoneyTypeOK'  BY <1>1, <1>5 DEF MoneyTypeOK, PostDebt, CreateDebt, moved
  <2> QED  BY <1>5, <2>1, SaneUnchanged DEF PostDebt
<1>6. ASSUME NEW amount \in Amounts, OpeningDebt(d, amount) PROVE MoneyInv'
  <2>1. MoneyTypeOK'  BY <1>1, <1>6 DEF MoneyTypeOK, OpeningDebt, moved
  <2> QED  BY <1>6, <2>1, SaneUnchanged DEF OpeningDebt
<1>7. ASSUME NEW amount \in Amounts, SaveBaselineMoney(d, amount) PROVE MoneyInv'
  <2>1. MoneyTypeOK'  BY <1>1, <1>7 DEF MoneyTypeOK, SaveBaselineMoney, moved
  <2> QED  BY <1>7, <2>1, SaneUnchanged DEF SaveBaselineMoney
<1>8. ASSUME NEW entry \in Entries, ReplaceDayExpenses(d, entry) PROVE MoneyInv'
  <2>1. status' \in [Days -> Statuses]
    BY <1>8 DEF MoneyTypeOK, ReplaceDayExpenses, Statuses
  <2>2. MoneyTypeOK'
    BY <1>8, <2>1 DEF MoneyTypeOK, ReplaceDayExpenses, CreateExpense, Entries
  <2> QED  BY <1>8, <2>2, SaneUnchanged DEF ReplaceDayExpenses
<1>9. ASSUME NEW entry \in Entry, PostExpense(d, entry) PROVE MoneyInv'
  <2>1. MoneyTypeOK'  BY <1>9 DEF MoneyTypeOK, PostExpense, CreateExpense
  <2> QED  BY <1>9, <2>1, SaneUnchanged DEF PostExpense
<1>13. ASSUME NEW transfer \in Transfers, ReplaceDayTransfers(d, transfer) PROVE MoneyInv'
  <2>1. status' \in [Days -> Statuses]
    BY <1>13 DEF MoneyTypeOK, ReplaceDayTransfers, Statuses
  <2>2. MoneyTypeOK'
    BY <1>13, <2>1 DEF MoneyTypeOK, ReplaceDayTransfers, CreateTransfer, Transfers
  <2> QED  BY <1>13, <2>2, SaneUnchanged DEF ReplaceDayTransfers
<1>14. ASSUME NEW transfer \in Transfer, PostTransfer(d, transfer) PROVE MoneyInv'
  <2>1. MoneyTypeOK'  BY <1>14 DEF MoneyTypeOK, PostTransfer, CreateTransfer
  <2> QED  BY <1>14, <2>1, SaneUnchanged DEF PostTransfer
<1>10. ASSUME NEW entry \in Entry, AddDebtPayment(d, entry) PROVE MoneyInv'
  <2>1. MoneyTypeOK'  BY <1>10 DEF MoneyTypeOK, AddDebtPayment, RecordDebtPayment, moved
  <2> QED  BY <1>10, <2>1, SaneUnchanged DEF AddDebtPayment
<1>11. ASSUME NEW account \in Balances, NEW delta \in Int, CashAdjustment(d, account, delta)
       PROVE  MoneyInv'
  <2>1. MoneyTypeOK'  BY <1>11 DEF MoneyTypeOK, CashAdjustment
  <2> QED  BY <1>11, <2>1, SaneUnchanged DEF CashAdjustment
<1>12. ASSUME NEW account \in Balances, NEW amount \in Amounts,
              CashAdjustment(d, account, amount) \/ CashAdjustment(d, account, -amount)
       PROVE  MoneyInv'
  <2>1. amount \in Int /\ -amount \in Int  BY <1>1
  <2> QED  BY <1>11, <1>12, <2>1
<1> QED
  BY <1>2, <1>3, <1>4, <1>5, <1>6, <1>7, <1>8, <1>9, <1>10, <1>12, <1>13, <1>14

(* The steps of invoices. *)
LEMMA CreateInvoiceInv ==
  ASSUME MoneyInv, NEW i \in InvoiceIds, NEW d \in Days, NEW amount \in Amounts,
         NEW credit \in BOOLEAN, NEW opening \in BOOLEAN,
         CreateInvoiceMoney(i, d, amount, credit, opening)
  PROVE  MoneyInv'
<1> DEFINE new == [status |-> "active", day |-> d, amount |-> amount,
                   credit |-> credit, opening |-> opening]
<1>1. new \in Invoice  BY DEF Invoice
<1>2. /\ invoices[i] = NoInvoice /\ invoices' = [invoices EXCEPT ![i] = new]
      /\ UNCHANGED <<status, sales, mobile, debts, opened, collected, moved,
                     startingMoney, payments, pending>>
  BY DEF CreateInvoiceMoney
<1> HIDE DEF new
<1>3. MoneyTypeOK'  BY <1>1, <1>2 DEF MoneyInv, MoneyTypeOK, moved
<1>4. ASSUME NEW payment \in Payment \cup {NoPayment}, BilledBefore(payment),
             payment # NoPayment
      PROVE  /\ invoices'[payment.invoice] # NoInvoice
             /\ invoices'[payment.invoice].day <= payment.day
  <2>1. payment.invoice \in InvoiceIds  BY <1>4, PaymentFacts
  <2>2. invoices[payment.invoice] # NoInvoice  BY <1>4 DEF BilledBefore
  <2>3. invoices'[payment.invoice] = invoices[payment.invoice]
    BY <1>2, <2>1, <2>2 DEF MoneyInv, MoneyTypeOK
  <2> QED  BY <1>4, <2>2, <2>3 DEF BilledBefore
<1>5. /\ pending \in Payment \cup {NoPayment}
      /\ \A p \in PaymentIds : payments[p] \in Payment \cup {NoPayment}
  BY DEF MoneyInv, MoneyTypeOK
<1>6. PaymentsSane'  BY <1>2, <1>4, <1>5 DEF MoneyInv, PaymentsSane, BilledBefore
<1> QED  BY <1>3, <1>6 DEF MoneyInv

(* Voiding keeps an invoice, its date and its payments. *)
LEMMA VoidInvoiceInv ==
  ASSUME MoneyInv, NEW i \in InvoiceIds, VoidInvoice(i)
  PROVE  MoneyInv'
<1>1. /\ invoices[i].status = "active" /\ invoices' = [invoices EXCEPT ![i].status = "void"]
      /\ UNCHANGED <<status, sales, mobile, debts, opened, collected, moved,
                     startingMoney, payments, pending>>
  BY DEF VoidInvoice
<1>2. invoices[i] \in Invoice
  BY <1>1, InvoiceFacts DEF MoneyInv, MoneyTypeOK
<1>3. /\ invoices'[i] \in Invoice /\ invoices'[i] # NoInvoice
      /\ invoices'[i].day = invoices[i].day
  BY <1>1, <1>2 DEF MoneyInv, MoneyTypeOK, Invoice, NoInvoice
<1>4. \A j \in InvoiceIds : j # i => invoices'[j] = invoices[j]
  BY <1>1 DEF MoneyInv, MoneyTypeOK
<1>5. invoices' \in [InvoiceIds -> Invoice \cup {NoInvoice}]
  BY <1>1, <1>3, <1>4 DEF MoneyInv, MoneyTypeOK
<1>6. MoneyTypeOK'  BY <1>1, <1>5 DEF MoneyInv, MoneyTypeOK, moved
<1>7. ASSUME NEW payment \in Payment \cup {NoPayment}, BilledBefore(payment),
             payment # NoPayment
      PROVE  /\ invoices'[payment.invoice] # NoInvoice
             /\ invoices'[payment.invoice].day <= payment.day
  <2>1. payment.invoice \in InvoiceIds  BY <1>7, PaymentFacts
  <2> QED  BY <1>3, <1>4, <1>7, <2>1 DEF BilledBefore
<1>8. /\ pending \in Payment \cup {NoPayment}
      /\ \A p \in PaymentIds : payments[p] \in Payment \cup {NoPayment}
  BY DEF MoneyInv, MoneyTypeOK
<1>9. PaymentsSane'  BY <1>1, <1>7, <1>8 DEF MoneyInv, PaymentsSane, BilledBefore
<1> QED  BY <1>6, <1>9 DEF MoneyInv

(* The steps of payments: a new one has passed its check, now or before    *)
(* other requests (create_payment()).                                      *)
LEMMA FittingIsBilled ==
  ASSUME MoneyInv, NEW payment \in Payment,
         PaymentFits(payment.invoice, payment.day, payment.amount)
  PROVE  BilledBefore(payment)
<1>1. invoices[payment.invoice] \in Invoice \cup {NoInvoice}
  BY DEF MoneyInv, MoneyTypeOK, Payment
<1> QED  BY <1>1, InvoiceFacts DEF PaymentFits, BilledBefore

(* A payment of an existing invoice may be stored. *)
LEMMA StoreInv ==
  ASSUME MoneyInv, NEW p \in PaymentIds, NEW payment \in Payment, BilledBefore(payment),
         StorePayment(p, payment), pending' \in {pending, NoPayment}
  PROVE  MoneyInv'
<1>1. MoneyTypeOK'  BY DEF MoneyInv, MoneyTypeOK, StorePayment, moved
<1>2. \A q \in PaymentIds : payments'[q] \in {payments[q], payment}
  BY DEF MoneyInv, MoneyTypeOK, StorePayment
<1>3. PaymentsSane'
  BY <1>2 DEF MoneyInv, PaymentsSane, BilledBefore, StorePayment
<1> QED  BY <1>1, <1>3 DEF MoneyInv

(* All steps of payments. *)
LEMMA PaymentStepInv ==
  ASSUME MoneyInv,
         \/ \E payment \in Payment :
              ReadPayment(payment) \/ \E p \in PaymentIds : CreatePayment(p, payment)
         \/ \E p \in PaymentIds : WritePayment(p) \/ VoidPayment(p)
  PROVE  MoneyInv'
<1>1. ASSUME NEW payment \in Payment, ReadPayment(payment) PROVE MoneyInv'
  <2>1. MoneyTypeOK'  BY <1>1 DEF MoneyInv, MoneyTypeOK, ReadPayment, moved
  <2>2. BilledBefore(payment)  BY <1>1, FittingIsBilled DEF ReadPayment
  <2>3. PaymentsSane'
    BY <1>1, <2>2 DEF MoneyInv, PaymentsSane, BilledBefore, ReadPayment
  <2> QED  BY <2>1, <2>3 DEF MoneyInv
<1>2. ASSUME NEW payment \in Payment, NEW p \in PaymentIds, CreatePayment(p, payment)
      PROVE  MoneyInv'
  <2>1. BilledBefore(payment)  BY <1>2, FittingIsBilled DEF CreatePayment
  <2> QED  BY <1>2, <2>1, StoreInv DEF CreatePayment
<1>3. ASSUME NEW p \in PaymentIds, WritePayment(p) PROVE MoneyInv'
  <2>1. pending \in Payment  BY <1>3 DEF MoneyInv, MoneyTypeOK, WritePayment
  <2>2. BilledBefore(pending)  BY DEF MoneyInv, PaymentsSane
  <2> QED  BY <1>3, <2>1, <2>2, StoreInv DEF WritePayment
<1>4. ASSUME NEW p \in PaymentIds, VoidPayment(p) PROVE MoneyInv'
  <2>1. MoneyTypeOK'  BY <1>4 DEF MoneyInv, MoneyTypeOK, VoidPayment, moved
  <2>2. \A q \in PaymentIds : payments'[q] \in {payments[q], NoPayment}
    BY <1>4 DEF MoneyInv, MoneyTypeOK, VoidPayment
  <2>3. PaymentsSane'
    BY <1>4, <2>2 DEF MoneyInv, PaymentsSane, BilledBefore, VoidPayment
  <2> QED  BY <2>1, <2>3 DEF MoneyInv
<1> QED  BY <1>1, <1>2, <1>3, <1>4

(* No step leaves the books otherwise. *)
LEMMA MoneyStepInv ==
  ASSUME MoneyInv, [MoneyNext]_moneyVars
  PROVE  MoneyInv'
<1>1. ASSUME NEW d \in Days, NEW total \in Amounts \cup {0}, NEW debt \in Amounts \cup {0},
             NEW m \in Amounts \cup {Nothing}, NEW collection \in Entries,
             \/ SaveWorkingDayMoney(d, total, m, debt, collection)
             \/ CloseWorkingDayMoney(d, total, m, debt, collection)
      PROVE  MoneyInv'
  <2>1. status' \in [Days -> Statuses]
    BY <1>1 DEF MoneyInv, MoneyTypeOK, SaveWorkingDayMoney, CloseWorkingDayMoney, Statuses
  <2>2. \E requireBalance \in BOOLEAN :
            WriteWorkingDayMoney(d, total, m, debt, collection, requireBalance)
    BY <1>1 DEF SaveWorkingDayMoney, CloseWorkingDayMoney
  <2> QED  BY <2>1, <2>2, WriteInv
<1>2. CASE UNCHANGED moneyVars
  <2>1. MoneyTypeOK'  BY <1>2 DEF MoneyInv, MoneyTypeOK, moneyVars, moved
  <2> QED  BY <1>2, <2>1, SaneUnchanged DEF MoneyInv, moneyVars
<1>3. CASE MoneyNext
  BY <1>1, <1>3, DayStepInv, CreateInvoiceInv, VoidInvoiceInv, PaymentStepInv DEF MoneyNext
<1> QED  BY <1>2, <1>3

(* Every payment stored, or checked and about to be, is of an invoice that *)
(* exists and is dated no later (create_payment()).                        *)
THEOREM MoneySane == MoneySpec => []MoneyInv
<1>1. MoneyInit => MoneyInv  BY MoneyInitInv
<1>2. MoneyInv /\ [MoneyNext]_moneyVars => MoneyInv'  BY MoneyStepInv
<1> QED  BY <1>1, <1>2, PTL DEF MoneySpec

(* What a day arrives at is what it started with and its own cash or       *)
(* Mobile Money, collections and movements (money_balance(),               *)
(* daily_summary()).                                                       *)
THEOREM MoneyAddsUp == MoneySpec => []ExpectedMoneyAddsUp
<1>1. MoneyInv => ExpectedMoneyAddsUp  BY StateAddsUp DEF MoneyInv
<1> QED  BY <1>1, MoneySane, PTL

-----------------------------------------------------------------------------
(* Nothing dated later counts. *)

(* What a step that keeps the dates up to d leaves as it was. *)
SameUpTo(d) ==
  /\ \A e \in 1 .. d :
        /\ status'[e] = status[e] /\ sales'[e] = sales[e] /\ mobile'[e] = mobile[e]
        /\ debts'[e] = debts[e] /\ collected'[e] = collected[e]
        /\ expenses'[e] = expenses[e] /\ transfers'[e] = transfers[e]
        /\ adjusted'[e] = adjusted[e] /\ startingMoney'[e] = startingMoney[e]
  /\ \A i \in InvoiceIds :
        invoices[i].day \in 1 .. d \/ invoices'[i].day \in 1 .. d => invoices'[i] = invoices[i]
  /\ \A p \in PaymentIds :
        payments[p].day \in 1 .. d \/ payments'[p].day \in 1 .. d => payments'[p] = payments[p]

(* Unchanged books up to d: record by record. *)
LEMMA DatesKept ==
  ASSUME NEW d \in Days, DatedUpTo(d)' = DatedUpTo(d)
  PROVE  SameUpTo(d)
<1> DEFINE Row(e) == <<status[e], sales[e], mobile[e], debts[e], collected[e],
                       expenses[e], transfers[e], adjusted[e], startingMoney[e]>>
           rows == [e \in 1 .. d |-> Row(e)]
           bills == {<<i, invoices[i]>> : i \in {j \in InvoiceIds : invoices[j].day \in 1 .. d}}
           paid == {<<p, payments[p]>> : p \in {q \in PaymentIds : payments[q].day \in 1 .. d}}
<1>1. rows' = rows /\ bills' = bills /\ paid' = paid  BY DEF DatedUpTo
<1>2. ASSUME NEW e \in 1 .. d
      PROVE  /\ status'[e] = status[e] /\ sales'[e] = sales[e] /\ mobile'[e] = mobile[e]
             /\ debts'[e] = debts[e] /\ collected'[e] = collected[e]
             /\ expenses'[e] = expenses[e] /\ transfers'[e] = transfers[e]
             /\ adjusted'[e] = adjusted[e] /\ startingMoney'[e] = startingMoney[e]
  <2>1. rows'[e] = rows[e]  BY <1>1
  <2>2. Row(e)' = Row(e)  BY <2>1
  <2> QED  BY <2>2
<1>3. ASSUME NEW i \in InvoiceIds,
             invoices[i].day \in 1 .. d \/ invoices'[i].day \in 1 .. d
      PROVE  invoices'[i] = invoices[i]
  <2>1. CASE invoices[i].day \in 1 .. d
    <3>1. <<i, invoices[i]>> \in bills  BY <2>1
    <3>2. <<i, invoices[i]>> \in bills'  BY <1>1, <3>1
    <3> QED  BY <3>2
  <2>2. CASE invoices'[i].day \in 1 .. d
    <3>1. <<i, invoices'[i]>> \in bills'  BY <2>2
    <3>2. <<i, invoices'[i]>> \in bills  BY <1>1, <3>1
    <3> QED  BY <3>2
  <2> QED  BY <1>3, <2>1, <2>2
<1>4. ASSUME NEW p \in PaymentIds,
             payments[p].day \in 1 .. d \/ payments'[p].day \in 1 .. d
      PROVE  payments'[p] = payments[p]
  <2>1. CASE payments[p].day \in 1 .. d
    <3>1. <<p, payments[p]>> \in paid  BY <2>1
    <3>2. <<p, payments[p]>> \in paid'  BY <1>1, <3>1
    <3> QED  BY <3>2
  <2>2. CASE payments'[p].day \in 1 .. d
    <3>1. <<p, payments'[p]>> \in paid'  BY <2>2
    <3>2. <<p, payments'[p]>> \in paid  BY <1>1, <3>1
    <3> QED  BY <3>2
  <2> QED  BY <1>4, <2>1, <2>2
<1> QED  BY <1>2, <1>3, <1>4 DEF SameUpTo

(* The same payments, dated up to d, add up to the same. *)
LEMMA SamePaymentSum ==
  ASSUME MoneyTypeOK, NEW d \in Days, SameUpTo(d), NEW S \in SUBSET PaymentIds,
         \A p \in S : payments[p].day \in 1 .. d
  PROVE  SumFunctionOnSet(AmountPaid', S) = SumFunctionOnSet(AmountPaid, S)
<1>1. IsFiniteSet(S)  BY PaymentSums
<1>2. \A p \in S : AmountPaid'[p] = AmountPaid[p]  BY DEF AmountPaid, SameUpTo
<1> QED  BY <1>1, <1>2, SumSame

(* So do invoices. *)
LEMMA SameInvoiceSum ==
  ASSUME MoneyTypeOK, NEW d \in Days, SameUpTo(d), NEW S \in SUBSET InvoiceIds,
         \A i \in S : invoices[i].day \in 1 .. d
  PROVE  SumFunctionOnSet(InvoiceAmount', S) = SumFunctionOnSet(InvoiceAmount, S)
<1>1. IsFiniteSet(S)  BY InvoiceSums
<1>2. \A i \in S : InvoiceAmount'[i] = InvoiceAmount[i]  BY DEF InvoiceAmount, SameUpTo
<1> QED  BY <1>1, <1>2, SumSame

(* The records that count on a day are the same ones. *)
LEMMA SameRecords ==
  ASSUME MoneyTypeOK, MoneyTypeOK', NEW d \in Days, SameUpTo(d), NEW x \in 1 .. d
  PROVE  /\ SaleInvoices(x)' = SaleInvoices(x)
         /\ SameDayPayments(x)' = SameDayPayments(x)
         /\ \A i \in InvoiceIds : PaidBy(i, x)' = PaidBy(i, x)
         /\ \A account : LatePayments(x, account)' = LatePayments(x, account)
         /\ \A p \in SameDayPayments(x) :
               /\ payments[p].day \in 1 .. d /\ payments[p].invoice \in InvoiceIds
               /\ invoices[payments[p].invoice].day \in 1 .. d
<1>1. d \in Int /\ x \in Int /\ x <= d /\ x >= 1  BY LastDayAssumption DEF Days
<1>2. ASSUME NEW p \in PaymentIds
      PROVE  /\ payments[p].day \in Int /\ payments'[p].day \in Int
             /\ payments[p] # NoPayment =>
                  payments[p].invoice \in InvoiceIds /\ payments[p].day >= 1
             /\ payments'[p] # NoPayment =>
                  payments'[p].invoice \in InvoiceIds /\ payments'[p].day >= 1
             /\ payments[p].invoice \in InvoiceIds => payments[p] # NoPayment
             /\ payments'[p].invoice \in InvoiceIds => payments'[p] # NoPayment
  <2>1. /\ payments[p] \in Payment \cup {NoPayment}
        /\ payments'[p] \in Payment \cup {NoPayment}
    BY DEF MoneyTypeOK
  <2> QED  BY <2>1, PaymentFacts
<1>3. ASSUME NEW i \in InvoiceIds
      PROVE  /\ invoices[i].day \in Int /\ invoices'[i].day \in Int
             /\ invoices[i].credit => invoices[i].day >= 1
             /\ invoices'[i].credit => invoices'[i].day >= 1
  <2>1. /\ invoices[i] \in Invoice \cup {NoInvoice}
        /\ invoices'[i] \in Invoice \cup {NoInvoice}
    BY DEF MoneyTypeOK
  <2> QED  BY <2>1, InvoiceFacts
<1>4. \A n \in Int : n >= 1 /\ n <= x => n \in 1 .. d  BY <1>1
<1>5. SaleInvoices(x)' = SaleInvoices(x)  BY DEF SaleInvoices, SameUpTo
<1>6. SameDayPayments(x)' = SameDayPayments(x)
  <2>1. ASSUME NEW p \in SameDayPayments(x) PROVE p \in SameDayPayments(x)'
    <3>1. payments'[p] = payments[p]  BY DEF SameDayPayments, SameUpTo
    <3>2. payments[p].invoice \in InvoiceIds  BY <1>2 DEF SameDayPayments
    <3>3. invoices'[payments[p].invoice] = invoices[payments[p].invoice]
      BY <3>2 DEF SameDayPayments, SameUpTo
    <3> QED  BY <3>1, <3>3 DEF SameDayPayments
  <2>2. ASSUME NEW p \in SameDayPayments(x)' PROVE p \in SameDayPayments(x)
    <3>1. p \in PaymentIds /\ payments'[p] = payments[p]  BY DEF SameDayPayments, SameUpTo
    <3>2. payments'[p].invoice \in InvoiceIds  BY <1>2 DEF SameDayPayments
    <3>3. invoices'[payments'[p].invoice] = invoices[payments'[p].invoice]
      BY <3>2 DEF SameDayPayments, SameUpTo
    <3> QED  BY <3>1, <3>3 DEF SameDayPayments
  <2> QED  BY <2>1, <2>2
<1>7. ASSUME NEW i \in InvoiceIds PROVE PaidBy(i, x)' = PaidBy(i, x)
  <2>1. ASSUME NEW p \in PaymentIds,
               \/ payments[p].invoice = i /\ payments[p].day <= x
               \/ payments'[p].invoice = i /\ payments'[p].day <= x
        PROVE  payments'[p] = payments[p]
    <3>1. payments[p].day \in 1 .. d \/ payments'[p].day \in 1 .. d  BY <1>2, <1>4, <2>1
    <3> QED  BY <3>1 DEF SameUpTo
  <2> QED  BY <2>1 DEF PaidBy
<1>8. ASSUME NEW account PROVE LatePayments(x, account)' = LatePayments(x, account)
  <2>1. ASSUME NEW p \in LatePayments(x, account) PROVE p \in LatePayments(x, account)'
    <3>1. payments'[p] = payments[p]  BY DEF LatePayments, SameUpTo
    <3>2. payments[p].invoice \in InvoiceIds  BY <1>2 DEF LatePayments
    <3>3. invoices[payments[p].invoice].day \in 1 .. d
      BY <1>1, <1>3, <1>4, <3>2 DEF LatePayments
    <3>4. invoices'[payments[p].invoice] = invoices[payments[p].invoice]
      BY <3>2, <3>3 DEF SameUpTo
    <3> QED  BY <3>1, <3>4 DEF LatePayments
  <2>2. ASSUME NEW p \in LatePayments(x, account)' PROVE p \in LatePayments(x, account)
    <3>1. p \in PaymentIds /\ payments'[p] = payments[p]  BY DEF LatePayments, SameUpTo
    <3>2. payments'[p].invoice \in InvoiceIds  BY <1>2 DEF LatePayments
    <3>3. invoices'[payments'[p].invoice].day \in 1 .. d
      BY <1>1, <1>3, <1>4, <3>2 DEF LatePayments
    <3>4. invoices'[payments'[p].invoice] = invoices[payments'[p].invoice]
      BY <3>2, <3>3 DEF SameUpTo
    <3> QED  BY <3>1, <3>4 DEF LatePayments
  <2> QED  BY <2>1, <2>2
<1>9. ASSUME NEW p \in SameDayPayments(x)
      PROVE  /\ payments[p].day \in 1 .. d /\ payments[p].invoice \in InvoiceIds
             /\ invoices[payments[p].invoice].day \in 1 .. d
  BY <1>2 DEF SameDayPayments
<1> QED  BY <1>5, <1>6, <1>7, <1>8, <1>9

(* The tender of a day up to d is what it was, *)
LEMMA SameTender ==
  ASSUME MoneyTypeOK, MoneyTypeOK', NEW d \in Days, SameUpTo(d), NEW x \in 1 .. d
  PROVE  /\ LegacyMobile(x)' = LegacyMobile(x)
         /\ MobileFromSales(x)' = MobileFromSales(x)
         /\ NewDebt(x)' = NewDebt(x)
         /\ CashFromSales(x)' = CashFromSales(x)
<1>1. /\ SaleInvoices(x)' = SaleInvoices(x)
      /\ SameDayPayments(x)' = SameDayPayments(x)
      /\ \A i \in InvoiceIds : PaidBy(i, x)' = PaidBy(i, x)
      /\ \A p \in SameDayPayments(x) : payments[p].day \in 1 .. d
  BY SameRecords
<1>2. d \in Int /\ x \in Int /\ x <= d /\ x >= 1  BY LastDayAssumption DEF Days
<1>3. LegacyMobile(x)' = LegacyMobile(x)
  <2> DEFINE S == {p \in SameDayPayments(x) : payments[p].account = "mobile_money"}
  <2>1. S' = S  BY <1>1 DEF SameDayPayments, SameUpTo
  <2>2. S \in SUBSET PaymentIds /\ \A p \in S : payments[p].day \in 1 .. d
    BY <1>1 DEF SameDayPayments
  <2>3. LegacyMobile(x) = SumFunctionOnSet(AmountPaid, S)  BY DEF LegacyMobile
  <2>4. LegacyMobile(x)' = SumFunctionOnSet(AmountPaid', S')  BY DEF LegacyMobile
  <2> HIDE DEF S
  <2>5. SumFunctionOnSet(AmountPaid', S) = SumFunctionOnSet(AmountPaid, S)
    BY <2>2, SamePaymentSum
  <2> QED  BY <2>1, <2>3, <2>4, <2>5
<1>4. MobileFromSales(x)' = MobileFromSales(x)  BY <1>3 DEF MobileFromSales, SameUpTo
<1>5. ASSUME NEW i \in InvoiceIds PROVE PaidTotal(i, x)' = PaidTotal(i, x)
  <2>1. \A p \in PaidBy(i, x) : payments[p].day \in 1 .. d
    <3> TAKE p \in PaidBy(i, x)
    <3>1. /\ p \in PaymentIds /\ payments[p] \in Payment \cup {NoPayment}
          /\ payments[p].invoice \in InvoiceIds /\ payments[p].day <= x
      BY DEF PaidBy, MoneyTypeOK
    <3>2. payments[p].day \in Int /\ payments[p].day >= 1  BY <3>1, PaymentFacts
    <3> QED  BY <1>2, <3>1, <3>2
  <2>2. PaidBy(i, x) \in SUBSET PaymentIds  BY DEF PaidBy
  <2>3. PaidTotal(i, x)' = SumFunctionOnSet(AmountPaid', PaidBy(i, x))
    BY <1>1 DEF PaidTotal
  <2>4. SumFunctionOnSet(AmountPaid', PaidBy(i, x)) = SumFunctionOnSet(AmountPaid, PaidBy(i, x))
    BY <2>1, <2>2, SamePaymentSum
  <2> QED  BY <2>3, <2>4 DEF PaidTotal
<1>6. /\ SaleInvoices(x) \in SUBSET InvoiceIds
      /\ \A i \in SaleInvoices(x) : invoices[i].day \in 1 .. d
  BY DEF SaleInvoices
<1>7. NewDebt(x)' = NewDebt(x)
  <2> DEFINE S == OnCredit(SaleInvoices(x))
             unpaid == [i \in InvoiceIds |-> NoLessThanZero(Outstanding(i, x))]
  <2>1. S' = S /\ S \in SUBSET InvoiceIds /\ S \subseteq SaleInvoices(x)
    BY <1>1, <1>6 DEF OnCredit, SameUpTo
  <2>2. \A i \in S : unpaid'[i] = unpaid[i]
    <3> TAKE i \in S
    <3>1. i \in InvoiceIds /\ invoices'[i] = invoices[i]  BY <1>6, <2>1 DEF SameUpTo
    <3>2. Outstanding(i, x)' = Outstanding(i, x)  BY <1>5, <3>1 DEF Outstanding
    <3> QED  BY <3>1, <3>2 DEF NoLessThanZero
  <2>3. IsFiniteSet(S)  BY <2>1, InvoiceSums
  <2>4. LegacyCredit(x) = SumFunctionOnSet(unpaid, S)  BY DEF LegacyCredit
  <2>5. LegacyCredit(x)' = SumFunctionOnSet(unpaid', S')  BY DEF LegacyCredit
  <2>6. SumFunctionOnSet(unpaid', S) = SumFunctionOnSet(unpaid, S)
    <3> HIDE DEF S, unpaid
    <3> QED  BY <2>2, <2>3, SumSame
  <2>7. LegacyCredit(x)' = LegacyCredit(x)
    <3> HIDE DEF S, unpaid
    <3> QED  BY <2>1, <2>4, <2>5, <2>6
  <2> QED  BY <2>7 DEF NewDebt, SameUpTo
<1>8. TotalSales(x)' = TotalSales(x)
  <2>1. SumFunctionOnSet(InvoiceAmount', SaleInvoices(x))
          = SumFunctionOnSet(InvoiceAmount, SaleInvoices(x))
    BY <1>6, SameInvoiceSum
  <2> QED  BY <1>1, <2>1 DEF TotalSales, SameUpTo
<1>9. CashFromSales(x)' = CashFromSales(x)  BY <1>4, <1>7, <1>8 DEF CashFromSales
<1> QED  BY <1>3, <1>4, <1>7, <1>9

(* and so are its collections and movements. *)
LEMMA SameMovements ==
  ASSUME MoneyTypeOK, MoneyTypeOK', NEW d \in Days, SameUpTo(d), NEW x \in 1 .. d, NEW account
  PROVE  /\ DebtCollections(x, account)' = DebtCollections(x, account)
         /\ Moved(x, account)' = Moved(x, account)
<1>1. LatePayments(x, account)' = LatePayments(x, account)  BY SameRecords
<1>2. /\ LatePayments(x, account) \in SUBSET PaymentIds
      /\ \A p \in LatePayments(x, account) : payments[p].day \in 1 .. d
  BY DEF LatePayments
<1>3. SumFunctionOnSet(AmountPaid', LatePayments(x, account))
        = SumFunctionOnSet(AmountPaid, LatePayments(x, account))
  <2> DEFINE S == LatePayments(x, account)
  <2>1. S \in SUBSET PaymentIds /\ \A p \in S : payments[p].day \in 1 .. d  BY <1>2
  <2> HIDE DEF S
  <2>2. SumFunctionOnSet(AmountPaid', S) = SumFunctionOnSet(AmountPaid, S)
    BY <2>1, SamePaymentSum
  <2> QED  BY <2>2 DEF S
<1>4. DebtCollections(x, account)' = DebtCollections(x, account)
  BY <1>1, <1>3 DEF DebtCollections, SameUpTo
<1>5. Moved(x, account)' = Moved(x, account)
  BY DEF Moved, In, SameUpTo
<1> QED  BY <1>4, <1>5

(* A range up to d holds what it held. *)
LEMMA SameRange ==
  ASSUME MoneyTypeOK, MoneyTypeOK', NEW d \in Days, SameUpTo(d), NEW s \in 1 .. d
  PROVE  /\ RangeMobile(s, d)' = RangeMobile(s, d)
         /\ RangeCash(s, d)' = RangeCash(s, d)
<1>1. d \in Int /\ s \in Int /\ s .. d \subseteq 1 .. d /\ 1 .. d \subseteq Days
  BY LastDayAssumption DEF Days
<1>2. IsFiniteSet(s .. d)  BY <1>1, FS_Interval
<1>3. /\ MobileSet(s, d)' = MobileSet(s, d) /\ MobileSet(s, d) \subseteq s .. d
  BY <1>1 DEF MobileSet, SameUpTo
<1>4. IsFiniteSet(MobileSet(s, d)) /\ IsFiniteSet((s .. d) \ MobileSet(s, d))
  BY <1>2, <1>3, FS_Subset
<1>5. SumFunctionOnSet(mobile', MobileSet(s, d)) = SumFunctionOnSet(mobile, MobileSet(s, d))
  <2>1. \A x \in MobileSet(s, d) : mobile'[x] = mobile[x]  BY <1>1, <1>3 DEF SameUpTo
  <2> QED  BY <1>4, <2>1, SumSame
<1>6. SumFunctionOnSet(LegacyMobileOf', (s .. d) \ MobileSet(s, d))
        = SumFunctionOnSet(LegacyMobileOf, (s .. d) \ MobileSet(s, d))
  <2>1. \A x \in s .. d : LegacyMobileOf'[x] = LegacyMobileOf[x]
    BY <1>1, SameTender DEF LegacyMobileOf
  <2> QED  BY <1>4, <2>1, SumSame
<1>7. RangeMobile(s, d)' = RangeMobile(s, d)  BY <1>3, <1>5, <1>6 DEF RangeMobile
<1>8. /\ SumFunctionOnSet(sales', s .. d) = SumFunctionOnSet(sales, s .. d)
      /\ SumFunctionOnSet(debts', s .. d) = SumFunctionOnSet(debts, s .. d)
  <2>1. \A x \in s .. d : sales'[x] = sales[x] /\ debts'[x] = debts[x]
    BY <1>1 DEF SameUpTo
  <2> QED  BY <1>2, <2>1, SumSame
<1> DEFINE A == SoldIn(s, d)
           B == OnCredit(A)
           P == PaidOnCreditIn(s, d)
<1>9. A' = A /\ A \in SUBSET InvoiceIds /\ \A i \in A : invoices[i].day \in 1 .. d
  BY <1>1 DEF SoldIn, SameUpTo
<1>10. B' = B /\ B \in SUBSET InvoiceIds /\ \A i \in B : invoices[i].day \in 1 .. d
  BY <1>9 DEF OnCredit, SameUpTo
<1>11. P' = P
  <2>1. ASSUME NEW x \in s .. d, NEW p \in SameDayPayments(x)
        PROVE  payments'[p] = payments[p]
               /\ invoices'[payments[p].invoice] = invoices[payments[p].invoice]
    <3>1. x \in 1 .. d  BY <1>1
    <3>2. /\ p \in PaymentIds /\ payments[p].day \in 1 .. d
          /\ payments[p].invoice \in InvoiceIds
          /\ invoices[payments[p].invoice].day \in 1 .. d
      BY <3>1, SameRecords DEF SameDayPayments
    <3> QED  BY <3>2 DEF SameUpTo
  <2>2. \A x \in s .. d : SameDayPayments(x)' = SameDayPayments(x)  BY <1>1, SameRecords
  <2> QED  BY <2>1, <2>2 DEF PaidOnCreditIn
<1>12. P \in SUBSET PaymentIds /\ \A p \in P : payments[p].day \in 1 .. d
  BY <1>1, SameRecords DEF PaidOnCreditIn, SameDayPayments
<1>13. /\ SumFunctionOnSet(InvoiceAmount', A) = SumFunctionOnSet(InvoiceAmount, A)
       /\ SumFunctionOnSet(InvoiceAmount', B) = SumFunctionOnSet(InvoiceAmount, B)
       /\ SumFunctionOnSet(AmountPaid', P) = SumFunctionOnSet(AmountPaid, P)
  <2> HIDE DEF A, B, P
  <2>1. SumFunctionOnSet(InvoiceAmount', A) = SumFunctionOnSet(InvoiceAmount, A)
    BY <1>9, SameInvoiceSum
  <2>2. SumFunctionOnSet(InvoiceAmount', B) = SumFunctionOnSet(InvoiceAmount, B)
    BY <1>10, SameInvoiceSum
  <2>3. SumFunctionOnSet(AmountPaid', P) = SumFunctionOnSet(AmountPaid, P)
    BY <1>12, SamePaymentSum
  <2> QED  BY <2>1, <2>2, <2>3
<1>14. RangeCash(s, d) =
         SumFunctionOnSet(sales, s .. d) + SumFunctionOnSet(InvoiceAmount, A)
           - (SumFunctionOnSet(InvoiceAmount, B) - SumFunctionOnSet(AmountPaid, P))
           - SumFunctionOnSet(debts, s .. d) - RangeMobile(s, d)
  BY DEF RangeCash
<1>15. RangeCash(s, d)' =
         SumFunctionOnSet(sales', s .. d) + SumFunctionOnSet(InvoiceAmount', A')
           - (SumFunctionOnSet(InvoiceAmount', B') - SumFunctionOnSet(AmountPaid', P'))
           - SumFunctionOnSet(debts', s .. d) - RangeMobile(s, d)'
  BY DEF RangeCash
<1> HIDE DEF A, B, P
<1>16. RangeCash(s, d)' = RangeCash(s, d)
  BY <1>7, <1>8, <1>9, <1>10, <1>11, <1>13, <1>14, <1>15, Zenon
<1> QED  BY <1>7, <1>16

(* Tender, collections and movements together. *)
LEMMA SameRangeMoney ==
  ASSUME MoneyTypeOK, MoneyTypeOK', NEW d \in Days, SameUpTo(d), NEW s \in 1 .. d, NEW account
  PROVE  RangeMoney(s, d, account)' = RangeMoney(s, d, account)
<1>1. d \in Int /\ s \in Int /\ s .. d \subseteq 1 .. d /\ 1 .. d \subseteq Days
  BY LastDayAssumption DEF Days
<1>2. IsFiniteSet(s .. d)  BY <1>1, FS_Interval
<1>3. \A x \in s .. d : /\ Collections(account)'[x] = Collections(account)[x]
                        /\ Movements(account)'[x] = Movements(account)[x]
  BY <1>1, SameMovements DEF Collections, Movements
<1>4. /\ SumFunctionOnSet(Collections(account)', s .. d)
           = SumFunctionOnSet(Collections(account), s .. d)
      /\ SumFunctionOnSet(Movements(account)', s .. d)
           = SumFunctionOnSet(Movements(account), s .. d)
  BY <1>2, <1>3, SumSame
<1>5. RangeTender(s, d, account)' = RangeTender(s, d, account)
  BY SameRange DEF RangeTender
<1>6. RangeMoney(s, d, account)
        = RangeTender(s, d, account) + SumFunctionOnSet(Collections(account), s .. d)
            + SumFunctionOnSet(Movements(account), s .. d)
  BY MoneyOfRange
<1>7. RangeMoney(s, d, account)'
        = RangeTender(s, d, account)' + SumFunctionOnSet(Collections(account)', s .. d)
            + SumFunctionOnSet(Movements(account)', s .. d)
  BY Zenon DEF RangeMoney, RangeTender, Collections, Movements
<1> QED  BY <1>4, <1>5, <1>6, <1>7, Zenon

(* The balance of d starts where it did and arrives where it did. *)
LEMMA SameBalance ==
  ASSUME MoneyTypeOK, MoneyTypeOK', NEW d \in Days, SameUpTo(d), NEW account
  PROVE  ExpectedMoney(d, account)' = ExpectedMoney(d, account)
<1>1. d \in Int /\ 1 .. d \subseteq Days /\ \A e \in Days : e <= d => e \in 1 .. d
  BY LastDayAssumption DEF Days
<1>2. MoneyDeclared(d)' = MoneyDeclared(d)  BY <1>1 DEF MoneyDeclared, SameUpTo
<1>3. Opening(d)' = Opening(d)
  <2>1. ASSUME MoneyDeclared(d) # {}
        PROVE  startingMoney'[LatestOf(MoneyDeclared(d))]
                 = startingMoney[LatestOf(MoneyDeclared(d))]
    <3>1. MoneyDeclared(d) \in SUBSET Days  BY DEF MoneyDeclared
    <3>2. LatestOf(MoneyDeclared(d)) \in MoneyDeclared(d)  BY <2>1, <3>1, LatestIsLast
    <3>3. LatestOf(MoneyDeclared(d)) \in 1 .. d  BY <1>1, <3>2 DEF MoneyDeclared
    <3> QED  BY <3>3 DEF SameUpTo
  <2> QED  BY <1>2, <2>1 DEF Opening, LatestOf
<1>4. Anchors(d, TRUE)' = Anchors(d, TRUE)
  <2>1. {e \in Days : e <= d /\ status'[e] \notin {"none"}}
          = {e \in Days : e <= d /\ status[e] \notin {"none"}}
    BY <1>1 DEF SameUpTo
  <2> QED  BY <1>2, <2>1 DEF Anchors, LatestOf
<1> DEFINE start == EarliestOf(Anchors(d, TRUE))
<1>5. start' = start  BY <1>4 DEF EarliestOf
<1>6. CASE Anchors(d, TRUE) = {}
  BY <1>4, <1>6 DEF ExpectedMoney, MoneyBalance
<1>7. CASE Anchors(d, TRUE) # {}
  <2>1. start \in 1 .. d
    <3>1. Anchors(d, TRUE) \in SUBSET Days /\ \A e \in Anchors(d, TRUE) : e <= d
      BY AnchorsAreDays
    <3>2. start \in Anchors(d, TRUE)  BY <1>7, <3>1, EarliestIsFirst
    <3> QED  BY <1>1, <3>1, <3>2
  <2>2. ~(d < start)
    <3> HIDE DEF start
    <3> QED  BY <1>1, <2>1
  <2>3. RangeMoney(start, d, account)' = RangeMoney(start, d, account)
    <3>1. \A s \in 1 .. d : RangeMoney(s, d, account)' = RangeMoney(s, d, account)
      BY SameRangeMoney
    <3> QED  BY <1>5, <2>1, <3>1 DEF RangeMoney
  <2>4. ExpectedMoney(d, account) = Opening(d) + RangeMoney(start, d, account)
    BY <1>7, <2>2, BalanceCases DEF ExpectedMoney
  <2>5. ExpectedMoney(d, account)' = Opening(d)' + RangeMoney(start, d, account)'
    BY <1>4, <1>5, <1>7, <2>2 DEF ExpectedMoney, MoneyBalance
  <2> QED  BY <1>3, <2>3, <2>4, <2>5
<1> QED  BY <1>6, <1>7

(* Nothing dated after a day changes what that day showed, nor the balance *)
(* it arrived at (tender_split(), outstanding() as of a date,              *)
(* money_balance()).                                                       *)
THEOREM MoneyOfPastKept == MoneySpec => LaterDatesChangeNothing
<1>1. ASSUME MoneyInv, MoneyInv', NEW d \in Days, DatedUpTo(d)' = DatedUpTo(d)
      PROVE  /\ CashFromSales(d)' = CashFromSales(d)
             /\ NewDebt(d)' = NewDebt(d)
             /\ \A account \in Balances :
                   ExpectedMoney(d, account)' = ExpectedMoney(d, account)
  <2>1. SameUpTo(d)  BY <1>1, DatesKept
  <2>2. d \in 1 .. d  BY LastDayAssumption DEF Days
  <2> QED  BY <1>1, <2>1, <2>2, SameTender, SameBalance DEF MoneyInv
<1> DEFINE Kept == \A d \in Days \ {LastDay} :
          DatedUpTo(d)' = DatedUpTo(d)
          => /\ CashFromSales(d)' = CashFromSales(d)
             /\ NewDebt(d)' = NewDebt(d)
             /\ \A account \in Balances :
                   ExpectedMoney(d, account)' = ExpectedMoney(d, account)
<1>2. MoneyInv /\ MoneyInv' => Kept  BY <1>1
<1>3. MoneySpec => [][Kept]_moneyVars
  <2> HIDE DEF Kept
  <2> QED  BY <1>2, MoneySane, PTL
<1> QED  BY <1>3 DEF LaterDatesChangeNothing
==============================================================================
