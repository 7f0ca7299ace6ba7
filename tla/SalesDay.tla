------------------------------- MODULE SalesDay -------------------------------
(***************************************************************************)
(* The vehicle of one salesperson and one product on it, over a run of     *)
(* Sales Days (services/sales_service.py, routes/sales.py): what a day     *)
(* opens with, what it was given, what came back, and the quantity its     *)
(* sales price.  Save and Close Day write a whole day in one transaction;  *)
(* the correction endpoints edit a day a Manager has reopened.  SalesMoney *)
(* models what the same requests do to the day's money.                    *)
(*                                                                         *)
(* A handler checks the status of the day on a row it loads before its     *)
(* first write (a Receive action) and never reads that row again.  Save    *)
(* and Close Day read lines, invoices and loads after their first write,   *)
(* under SQLite's write lock, in the transaction that stores the result.   *)
(* The endpoints of single corrections (set_opening_return(), PUT          *)
(* vehicle-stock and products/<id>/sales) check the figures they read      *)
(* before they take that lock: here that is the step that stores them, and *)
(* what another request changes in between is left out.                    *)
(*                                                                         *)
(* What is given to a day is one number: a load that adjustments cancel    *)
(* exactly counts as none.                                                 *)
(*                                                                         *)
(* A definition named Faulty... stands in for the one below it when the    *)
(* properties are tested against a plausible mistake; nothing uses it.     *)
(***************************************************************************)
EXTENDS SalesCalendar, FiniteSets, FiniteSetsExt, Functions

CONSTANTS
    Workers,   \* processes serving requests
    Sheets,    \* the vehicle stock cards a request may carry
    Quantities,\* what may be loaded, counted or priced
    Declared,  \* what may be declared as starting stock
    Deltas,    \* stock adjustments
    MaxPriced  \* bound on what the invoices of a day price

(* Nothing: a figure left blank, or not known. *)
Figures == Nat \cup {Nothing}

(* One card of the sheet: every figure may be left blank. *)
Sheet == [previous : Figures, issued : Figures, total : Figures, returned : Figures]

ASSUME SheetsAssumption == Sheets \subseteq Sheet
ASSUME QuantitiesAssumption == Quantities \subseteq Nat
ASSUME DeclaredAssumption == Declared \subseteq Nat
ASSUME DeltasAssumption == Deltas \subseteq Int
ASSUME MaxPricedAssumption == MaxPriced \in Nat
ASSUME NothingAssumption == Nothing \notin Int

(* The SalesVehicleClosingLine row: today's corrections, and the return    *)
(* once it is counted.                                                     *)
Line == [exists : BOOLEAN, removed : BOOLEAN, counted : BOOLEAN, returned : Nat,
         previous : Figures, issued : Figures, total : Figures]
NoLine == [exists |-> FALSE, removed |-> FALSE, counted |-> FALSE, returned |-> 0,
           previous |-> Nothing, issued |-> Nothing, total |-> Nothing]

(* waive: a close with an elevated user's reason for a difference. *)
Ops == {"save", "close", "waive", "edit", "reopen"}
Idle == [op |-> "idle", day |-> 0, seen |-> "none"]
Request == [op : Ops, day : Days, seen : Statuses]

VARIABLES
    line,     \* the product's line on the day's sheet
    recorded, \* quantity priced by the day's active invoices
    given,    \* what finalized dispatches and active adjustments put on the vehicle
    baseline, \* starting stock declared on a date
    request   \* what each worker is serving, with the status it has seen

vars == <<status, line, recorded, given, baseline, request>>

TypeOK ==
    /\ status \in [Days -> Statuses]
    /\ line \in [Days -> Line]
    /\ recorded \in [Days -> Nat]
    /\ given \in [Days -> Nat]
    /\ baseline \in [Days -> Figures]
    /\ request \in [Workers -> Request \cup {Idle}]

Init ==
    /\ status = [d \in Days |-> "none"]
    /\ line = [d \in Days |-> NoLine]
    /\ recorded = [d \in Days |-> 0]
    /\ given \in [Days -> Quantities]
    /\ baseline = [d \in Days |-> Nothing]
    /\ request = [w \in Workers |-> Idle]

-----------------------------------------------------------------------------
(* The working figures of a day. *)

OnSheet(d) == line[d].exists /\ ~line[d].removed

(* A return carried from a line a Manager has removed, or not yet counted. *)
FaultyCountedBefore(d) == {e \in Days : e < d /\ line[e].exists}

CountedBefore(d) == {e \in Days : e < d /\ OnSheet(e) /\ line[e].counted}
DeclaredBy(d) == {e \in Days : e <= d /\ baseline[e] # Nothing}

(* opening_stock() *)
OpeningStock(d) ==
    CASE CountedBefore(d) # {} -> line[LatestOf(CountedBefore(d))].returned
      [] CountedBefore(d) = {} /\ DeclaredBy(d) # {} -> baseline[LatestOf(DeclaredBy(d))]
      [] OTHER -> Nothing

Or(figure, default) == IF figure = Nothing THEN default ELSE figure

(* resolve_vehicle_stock(): a figure of today's row wins for this day only. *)
Previous(d, l) == Or(l.previous, OpeningStock(d))
Issued(d, l) == Or(l.issued, given[d])
Total(d, l) ==
    CASE l.total # Nothing -> l.total
      [] l.total = Nothing /\ Previous(d, l) = Nothing -> Nothing
      [] OTHER -> Previous(d, l) + Issued(d, l)
Known(d, l) == l.counted /\ Total(d, l) # Nothing
Sold(d, l) == Total(d, l) - l.returned

(* stock_reconciliation(): the products that belong to the day. *)
Listed(d) ==
    \/ given[d] # 0 \/ recorded[d] > 0 \/ OnSheet(d)
    \/ DeclaredBy(d) # {} /\ baseline[LatestOf(DeclaredBy(d))] > 0
    \/ \E e \in Days : e < d /\ OnSheet(e) /\ line[e].returned > 0

LiveLine(d) == IF OnSheet(d) THEN line[d] ELSE NoLine
Counted(d) == Listed(d) => LiveLine(d).counted

(* The variance: None, no difference, as long as the total is not known.   *)
Variance(d) == Sold(d, LiveLine(d)) - recorded[d]
Mismatch(d) == Listed(d) /\ Known(d, LiveLine(d)) /\ Variance(d) # 0

-----------------------------------------------------------------------------
(* save_vehicle_stock(): check the card, then store what differs from the  *)
(* system's own figures.                                                   *)

(* The sheet read against a row's own figures where it is blank. *)
SheetPrevious(d, l, sheet) == Or(sheet.previous, Previous(d, l))
SheetTotal(d, l, sheet) ==
    Or(sheet.total, SheetPrevious(d, l, sheet) + Or(sheet.issued, Issued(d, l)))

Acceptable(d, l, sheet) ==
    /\ SheetPrevious(d, l, sheet) # Nothing
    /\ sheet.returned # Nothing => sheet.returned <= SheetTotal(d, l, sheet)

Correction(figure, default) == IF figure = default THEN Nothing ELSE figure

(* Every figure on screen stored as today's own. *)
FaultyStored(d, sheet) ==
    [exists |-> TRUE, removed |-> FALSE,
     counted |-> sheet.returned # Nothing, returned |-> Or(sheet.returned, 0),
     previous |-> sheet.previous, issued |-> sheet.issued,
     total |-> sheet.total]

Stored(d, sheet) ==
    [exists |-> TRUE, removed |-> FALSE,
     counted |-> sheet.returned # Nothing, returned |-> Or(sheet.returned, 0),
     previous |-> Correction(sheet.previous, OpeningStock(d)),
     issued |-> Correction(sheet.issued, given[d]),
     total |-> Correction(sheet.total,
                  SheetPrevious(d, line[d], sheet) + Or(sheet.issued, Issued(d, line[d])))]

(* A row that already says the same is left alone, its removal included. *)
SheetStored(d, sheet) ==
    IF line[d].exists /\ Stored(d, sheet) = [line[d] EXCEPT !.removed = FALSE]
    THEN line[d] ELSE Stored(d, sheet)

(* Only an elevated user may change a row of a day that is not a draft. *)
MayStore(d, sheet, seen, elevated) ==
    /\ Acceptable(d, line[d], sheet)
    /\ line[d].exists /\ SheetStored(d, sheet) # line[d]
          => elevated \/ seen \in {"none", "draft"}

(* save_product_sales() against the sheet on screen, read over the row     *)
(* that save_vehicle_stock() has just written (live_vehicle_stock()).      *)
(* card = Nothing: the request carries no card for the product.            *)
CardFits(d, l, sheet, card, requireBalance) ==
    card # Nothing =>
        /\ Acceptable(d, l, sheet)
        /\ requireBalance =>
              /\ sheet.returned # Nothing
              /\ card = SheetTotal(d, l, sheet) - sheet.returned

Answer(w) == request' = [request EXCEPT ![w] = Idle]

(* The cards of a Save or Close Day, each replacing its product's sales. *)
SaveSalesCards(d, l, sheet, card, requireBalance) ==
    /\ CardFits(d, l, sheet, card, requireBalance)
    /\ recorded' = [recorded EXCEPT ![d] = Or(card, @)]

(* _write_working_day(): the sheet and the cards of the request; a sheet   *)
(* without the product (Nothing) leaves its line, and can carry no sales   *)
(* card for it.                                                            *)
WriteWorkingDay(w, sheet, card, elevated, requireBalance) ==
    LET d == request[w].day
    IN  /\ request[w].seen = "none" => status[d] = "none"
        /\ IF sheet = Nothing
           THEN card = Nothing /\ UNCHANGED <<line, recorded>>
           ELSE /\ MayStore(d, sheet, request[w].seen, elevated)
                /\ line' = [line EXCEPT ![d] = SheetStored(d, sheet)]
                /\ SaveSalesCards(d, IF line'[d].removed THEN NoLine ELSE line'[d],
                                  sheet, card, requireBalance)
        /\ Answer(w)
        /\ UNCHANGED <<given, baseline>>

-----------------------------------------------------------------------------
(* Requests. *)

(* A closed day written by whoever asks. *)
FaultyReceive(w, op, d) ==
    /\ request[w] = Idle
    /\ op = "edit" => status[d] \in {"reopened", "closed"}
    /\ op = "reopen" => status[d] # "none"
    /\ request' = [request EXCEPT ![w] = [op |-> op, day |-> d, seen |-> status[d]]]
    /\ UNCHANGED <<status, line, recorded, given, baseline>>

(* _open_or_create_working_day() for Save and Close Day. *)
Receive(w, op, d) ==
    /\ request[w] = Idle
    /\ op \in {"save", "close", "waive"} => status[d] # "closed"
    /\ op = "edit" => RequireEditableDay(d)
    /\ op = "reopen" => status[d] # "none"
    /\ request' = [request EXCEPT ![w] = [op |-> op, day |-> d, seen |-> status[d]]]
    /\ UNCHANGED <<status, line, recorded, given, baseline>>

(* 400, 409, or 500 on a unique constraint: everything is rolled back. *)
Refuse(w) ==
    /\ request[w] # Idle
    /\ Answer(w)
    /\ UNCHANGED <<status, line, recorded, given, baseline>>

(* save_working_day(): the row it creates is a draft, any other status is  *)
(* left as it is stored.                                                   *)
SaveWorkingDay(w, sheet, card, elevated) ==
    LET d == request[w].day
    IN  /\ request[w].op = "save"
        /\ WriteWorkingDay(w, sheet, card, elevated, FALSE)
        /\ status' = [status EXCEPT ![d] = IF @ = "none" THEN "draft" ELSE @]

(* The day checked on the rows it had before the request. *)
FaultyCloseDay(d, override) == Counted(d) /\ (override \/ ~Mismatch(d))

(* close_day(): on the rows just written.  The count of every product is   *)
(* never waived; a difference is, by an elevated user's reason.  A request *)
(* without the cash counted, which only such a reason excuses, is refused  *)
(* like any other that does not fit.                                       *)
CloseDay(d, override) == Counted(d)' /\ (override \/ ~Mismatch(d)')

CloseWorkingDay(w, sheet, card, elevated) ==
    /\ request[w].op \in {"close", "waive"}
    /\ request[w].op = "waive" => elevated
    /\ WriteWorkingDay(w, sheet, card, elevated, TRUE)
    /\ \E d \in {request[w].day} :
          /\ status' = [status EXCEPT ![d] = "closed"]
          /\ CloseDay(d, request[w].op = "waive")

(* PUT vehicle-stock *)
SaveVehicleStock(w, sheet, elevated) ==
    LET d == request[w].day
    IN  /\ request[w].op = "edit"
        /\ MayStore(d, sheet, request[w].seen, elevated)
        /\ line' = [line EXCEPT ![d] = SheetStored(d, sheet)]
        /\ Answer(w)
        /\ UNCHANGED <<status, recorded, given, baseline>>

ReturnOnly(returned) ==
    [previous |-> Nothing, issued |-> Nothing, total |-> Nothing, returned |-> returned]

(* PUT closing-stock, PUT returns: set_closing_stock() sends the return     *)
(* alone, for a product the vehicle already has.                           *)
SetClosingStock(w, returned, elevated) ==
    /\ request[w].op = "edit" /\ Listed(request[w].day)
    /\ SaveVehicleStock(w, ReturnOnly(returned), elevated)

(* set_opening_return(): until a day has been counted or sales recorded.   *)
SetOpeningReturn(d, quantity) ==
    /\ DeclaredBy(d) # {} => LatestOf(DeclaredBy(d)) = d
    /\ \A e \in Days : e < d => ~line[e].exists
    /\ recorded[d] = 0
    /\ baseline' = [baseline EXCEPT ![d] = quantity]

(* PUT opening-stock *)
DeclareOpeningStock(w, quantity) ==
    /\ request[w].op = "edit"
    /\ SetOpeningReturn(request[w].day, quantity)
    /\ Answer(w)
    /\ UNCHANGED <<status, line, recorded, given>>

(* save_product_sales(): priced against the stored day, or against a sheet *)
(* that comes with the card and is not stored.                             *)
SaveProductSales(d, card) ==
    /\ \/ Listed(d) /\ Known(d, LiveLine(d)) /\ card = Sold(d, LiveLine(d))
       \/ \E sheet \in Sheets : CardFits(d, LiveLine(d), sheet, card, TRUE)
    /\ recorded' = [recorded EXCEPT ![d] = card]

(* PUT products/<id>/sales *)
ProductSales(w, card) ==
    /\ request[w].op = "edit"
    /\ SaveProductSales(request[w].day, card)
    /\ Answer(w)
    /\ UNCHANGED <<status, line, given, baseline>>

(* POST invoices: create_invoice() checks no stock. *)
CreateInvoice(w, quantity) ==
    LET d == request[w].day
    IN  /\ request[w].op = "edit"
        /\ quantity > 0 /\ recorded[d] + quantity <= MaxPriced
        /\ recorded' = [recorded EXCEPT ![d] = @ + quantity]
        /\ Answer(w)
        /\ UNCHANGED <<status, line, given, baseline>>

(* POST stock-adjustments, or the void of one. *)
StockAdjustment(w, delta) ==
    LET d == request[w].day
    IN  /\ request[w].op = "edit"
        /\ given[d] + delta \in Quantities
        /\ given' = [given EXCEPT ![d] = @ + delta]
        /\ Answer(w)
        /\ UNCHANGED <<status, line, recorded, baseline>>

(* POST void: an invoice of a reopened day ... *)
VoidRecorded(d, quantity) ==
    /\ quantity \in 1 .. recorded[d]
    /\ recorded' = [recorded EXCEPT ![d] = @ - quantity]
    /\ UNCHANGED <<status, line, given, baseline>>

VoidOwn(w, quantity) ==
    /\ request[w].op = "edit"
    /\ VoidRecorded(request[w].day, quantity)
    /\ Answer(w)

(* ... or, for an elevated user, of any day. *)
VoidEntity(d, quantity) ==
    VoidRecorded(d, quantity) /\ UNCHANGED request

(* reopen_day(): whatever the status; no write of it if it already was. *)
ReopenDay(w) ==
    /\ request[w].op = "reopen"
    /\ status' = [status EXCEPT ![request[w].day] =
                     IF request[w].seen = "reopened" THEN @ ELSE "reopened"]
    /\ Answer(w)
    /\ UNCHANGED <<line, recorded, given, baseline>>

(* remove_vehicle_line(), by an elevated user: the line and the day it     *)
(* checks cannot go away, so nothing comes between its check and write.    *)
RemoveVehicleLine(d) ==
    /\ line[d].exists
    /\ line' = [line EXCEPT ![d].removed = TRUE]

RemoveVehicleStock(d) ==
    /\ status[d] \notin {"none", "draft"}
    /\ RemoveVehicleLine(d)
    /\ UNCHANGED <<status, recorded, given, baseline, request>>

(* POST baselines, by an elevated user, for any date. *)
SaveBaseline(d, quantity) ==
    /\ baseline' = [baseline EXCEPT ![d] = quantity]
    /\ UNCHANGED <<status, line, recorded, given, request>>

(* dispatch_loads() and adjustment_loads() read the books: Finished Goods  *)
(* finalizes, corrects or voids a dispatch, the profile gets another       *)
(* recipient, or an elevated user voids an adjustment.                     *)
GivenChanges(d, quantity) ==
    /\ quantity # given[d]
    /\ given' = [given EXCEPT ![d] = quantity]
    /\ UNCHANGED <<status, line, recorded, baseline, request>>

(* reset_sales_transactions(): run from the command line; the dispatches   *)
(* stay, the adjustments go.                                               *)
ResetSalesTransactions ==
    /\ \A w \in Workers : request[w] = Idle
    /\ status' = [d \in Days |-> "none"]
    /\ line' = [d \in Days |-> NoLine]
    /\ recorded' = [d \in Days |-> 0]
    /\ given' \in [Days -> Quantities]
    /\ baseline' = [d \in Days |-> Nothing]
    /\ UNCHANGED request

Next ==
    \/ \E w \in Workers :
          \/ \E op \in Ops, d \in Days : Receive(w, op, d)
          \/ Refuse(w)
          \/ \E elevated \in BOOLEAN :
                \/ \E sheet \in Sheets \cup {Nothing}, card \in Quantities \cup {Nothing} :
                      \/ SaveWorkingDay(w, sheet, card, elevated)
                      \/ CloseWorkingDay(w, sheet, card, elevated)
                \/ \E sheet \in Sheets : SaveVehicleStock(w, sheet, elevated)
          \/ \E quantity \in Quantities :
                \/ \E elevated \in BOOLEAN : SetClosingStock(w, quantity, elevated)
                \/ ProductSales(w, quantity)
                \/ CreateInvoice(w, quantity)
                \/ VoidOwn(w, quantity)
          \/ \E quantity \in Declared : DeclareOpeningStock(w, quantity)
          \/ \E delta \in Deltas : StockAdjustment(w, delta)
          \/ ReopenDay(w)
    \/ \E d \in Days :
          \/ RemoveVehicleStock(d)
          \/ \E quantity \in Quantities : VoidEntity(d, quantity) \/ GivenChanges(d, quantity)
          \/ \E quantity \in Declared : SaveBaseline(d, quantity)
    \/ ResetSalesTransactions

Spec == Init /\ [][Next]_vars

-----------------------------------------------------------------------------
(* Properties. *)

(* A day without corrections of its own, or one that moved nothing. *)
Plain(d) ==
    /\ OnSheet(d) /\ line[d].counted
    /\ {line[d].previous, line[d].issued, line[d].total} = {Nothing}
Still(d) == given[d] = 0 /\ ~(OnSheet(d) /\ line[d].counted)

(* Nothing is lost or made between days: when every load has been counted  *)
(* and no figure corrected by hand, the starting stock and all that was    *)
(* given since equal all that was sold and what came back last, however    *)
(* many days were skipped, reopened, recounted or removed in between       *)
(* (opening_stock(), resolve_vehicle_stock()).                             *)
StockIsConserved ==
    \A d \in Days :
        LET plain == {e \in 1 .. d : Plain(e)}
            first == CHOOSE e \in plain : \A f \in plain : e <= f
        IN  /\ Plain(d) /\ \A e \in 1 .. d : Plain(e) \/ Still(e)
            /\ DeclaredBy(first) # {}
            => baseline[LatestOf(DeclaredBy(first))]
                   + SumFunctionOnSet([e \in Days |-> given[e]], plain)
               = SumFunctionOnSet([e \in Days |-> Sold(e, line[e])], plain)
                   + line[d].returned

(* The sheet as the screen shows it, all its figures filled in. *)
Shown(d) ==
    [previous |-> Previous(d, line[d]), issued |-> Issued(d, line[d]),
     total |-> Total(d, line[d]),
     returned |-> IF line[d].counted THEN line[d].returned ELSE Nothing]

(* Saving again what the screen shows changes no figure and turns none     *)
(* that follows the books into a correction, which would stop an earlier   *)
(* day's recount from carrying forward (save_vehicle_stock()).             *)
ResaveIsStable ==
    \A d \in Days :
        LET shown == Shown(d)
            stored == Stored(d, shown)
        IN  OnSheet(d) /\ shown \in Sheet /\ shown.previous # Nothing =>
                /\ Previous(d, stored) = shown.previous
                /\ Total(d, stored) = shown.total
                /\ Issued(d, stored) = shown.issued
                /\ \A figure \in {"previous", "issued", "total"} :
                       line[d][figure] = Nothing => stored[figure] = Nothing

(* A day is closed only with every product of the vehicle counted and,     *)
(* unless an elevated user has given a reason, with sales that price what  *)
(* the vehicle sold wherever that is known, whatever other requests have   *)
(* changed since the salesman pressed Close (close_working_day()).  What   *)
(* was sold is not known when a product's line is counted and what it      *)
(* started with is no longer there: then close_day() compares nothing.     *)
CloseReconciles ==
    [][\A d \in Days :
          status[d] # "closed" /\ status'[d] = "closed" =>
              /\ Counted(d)'
              /\ \/ \E w \in Workers : request[w].op = "waive" /\ request[w].day = d
                 \/ ~Mismatch(d)']_vars

(* The sheet and the sales of a closed day are changed only by a Manager's *)
(* removal or void, or by a request that found the day still open and has  *)
(* been in flight since (the status checks of Save, Close and              *)
(* _require_editable_day(), which are not repeated under the write lock).  *)
ClosedDayMovesOnlyLate ==
    [][\A d \in Days :
          status[d] = "closed" /\ <<line[d], recorded[d]>>' # <<line[d], recorded[d]>> =>
              \/ ResetSalesTransactions
              \/ line'[d] = [line[d] EXCEPT !.removed = TRUE]
              \/ line'[d] = line[d] /\ \E quantity \in Quantities : VoidEntity(d, quantity)
              \/ \E w \in Workers : request[w].day = d /\ request[w].seen # "closed"]_vars
=============================================================================
