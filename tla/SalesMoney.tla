------------------------------ MODULE SalesMoney ------------------------------
(***************************************************************************)
(* The money of one salesperson over a run of Sales Days                   *)
(* (services/sales_service.py, routes/sales.py): the tender of each day's  *)
(* sales (cash, Mobile Money, unpaid), the collections of older debts,     *)
(* and the running balance of the two accounts.  SalesDay models the stock *)
(* side of the same days; a Close here is one its checks let through.      *)
(*                                                                         *)
(* A request is one transaction; only a payment's check of what is still   *)
(* outstanding, made before its first write, is an action of its own.  The *)
(* checks of PATCH days, POST debts and POST debtors/<id>/payments come    *)
(* before their first write as well: here they are one step with it, and   *)
(* what another request changes in between is left out.  The debts of a    *)
(* day are represented by their total, its collections, expenses,          *)
(* transfers and cash adjustments by one of each.  Everything is owed by   *)
(* one debtor.                                                             *)
(*                                                                         *)
(* A definition named Faulty... stands in for the one below it when the    *)
(* properties are tested against a plausible mistake; nothing uses it.     *)
(***************************************************************************)
EXTENDS SalesCalendar, FiniteSets, Functions

CONSTANTS
    InvoiceIds, \* identities of invoices other than the day's sales cards
    PaymentIds, \* identities of payments of those invoices
    Amounts,    \* positive amounts, in whole UGX
    MaxRecords  \* bound on the records the books hold at once

(* The two accounts whose balance is carried from day to day; "other"      *)
(* stands for the bank, the company and every other place of money.        *)
Balances == {"cash", "mobile_money"}
Accounts == Balances \cup {"other"}

ASSUME IdsAssumption == IsFiniteSet(InvoiceIds) /\ IsFiniteSet(PaymentIds)
ASSUME AmountsAssumption == Amounts \subseteq Nat \ {0}
ASSUME MoneyNothingAssumption == Nothing \notin Int \cup InvoiceIds

(* credit: it names a customer, who may leave it unpaid; opening: a        *)
(* receivable from before the books, which is no sale.                     *)
Invoice == [status : {"active", "void"}, day : Days, amount : Amounts,
            credit : BOOLEAN, opening : BOOLEAN]
NoInvoice == [status |-> "none", day |-> 0, amount |-> 0, credit |-> FALSE, opening |-> FALSE]
(* A voided payment counts nowhere and is forgotten. *)
Payment == [invoice : InvoiceIds, day : Days, amount : Amounts, account : Accounts]
NoPayment == [invoice |-> Nothing, day |-> 0, amount |-> 0, account |-> "cash"]
(* A collection or an expense of a day. *)
Entry == [amount : Amounts, account : Accounts]
NoEntry == [amount |-> 0, account |-> "cash"]
Transfer == {t \in [amount : Amounts, account : Accounts, to : Accounts] : t.account # t.to}
NoTransfer == [amount |-> 0, account |-> "cash", to |-> "mobile_money"]

VARIABLES
    sales,      \* total of the day's sales cards
    mobile,     \* mobile_money_from_sales_ugx of the day
    debts,      \* unpaid part of the day's sales written down under Debtors
    opened,     \* opening debts dated on the day
    collected,  \* debt payments received on the day
    expenses, transfers,
    adjusted,   \* the cash adjustment of the day, by a signed amount
    startingMoney,   \* declared starting money of a date, per account
    invoices, payments,
    pending     \* a payment that has passed its check and is not stored yet

moved == <<expenses, transfers, adjusted>>
moneyVars == <<status, sales, mobile, debts, opened, collected, moved, startingMoney,
          invoices, payments, pending>>

MoneyTypeOK ==
    /\ status \in [Days -> Statuses]
    /\ sales \in [Days -> Nat]
    /\ mobile \in [Days -> Nat \cup {Nothing}]
    /\ debts \in [Days -> Nat] /\ opened \in [Days -> Nat]
    /\ collected \in [Days -> Entry \cup {NoEntry}]
    /\ expenses \in [Days -> Entry \cup {NoEntry}]
    /\ transfers \in [Days -> Transfer \cup {NoTransfer}]
    /\ adjusted \in [Days -> [amount : Int, account : Balances]]
    /\ startingMoney \in [Days -> Nat \cup {Nothing}]
    /\ invoices \in [InvoiceIds -> Invoice \cup {NoInvoice}]
    /\ payments \in [PaymentIds -> Payment \cup {NoPayment}]
    /\ pending \in Payment \cup {NoPayment}

MoneyInit ==
    /\ status = [d \in Days |-> "none"]
    /\ sales = [d \in Days |-> 0]
    /\ mobile = [d \in Days |-> Nothing]
    /\ debts = [d \in Days |-> 0]
    /\ opened = [d \in Days |-> 0]
    /\ collected = [d \in Days |-> NoEntry]
    /\ expenses = [d \in Days |-> NoEntry]
    /\ transfers = [d \in Days |-> NoTransfer]
    /\ adjusted = [d \in Days |-> NoEntry]
    /\ startingMoney = [d \in Days |-> Nothing]
    /\ invoices = [i \in InvoiceIds |-> NoInvoice]
    /\ payments = [p \in PaymentIds |-> NoPayment]
    /\ pending = NoPayment

-----------------------------------------------------------------------------
(* The tender of one day. *)

NoLessThanZero(n) == IF n > 0 THEN n ELSE 0

PaidBy(i, d) == {p \in PaymentIds : payments[p].invoice = i /\ payments[p].day <= d}
AmountPaid == [p \in PaymentIds |-> payments[p].amount]
PaidTotal(i, d) == SumFunctionOnSet(AmountPaid, PaidBy(i, d))
Outstanding(i, d) == invoices[i].amount - PaidTotal(i, d)

SaleInvoices(d) ==
    {i \in InvoiceIds : invoices[i].status = "active" /\ invoices[i].day = d
                        /\ ~invoices[i].opening}
InvoiceAmount == [i \in InvoiceIds |-> invoices[i].amount]
TotalSales(d) == sales[d] + SumFunctionOnSet(InvoiceAmount, SaleInvoices(d))

OnCredit(ids) == {i \in ids : invoices[i].credit}
LegacyCredit(d) ==
    SumFunctionOnSet([i \in InvoiceIds |-> NoLessThanZero(Outstanding(i, d))],
                     OnCredit(SaleInvoices(d)))
NewDebt(d) == LegacyCredit(d) + debts[d]

(* Payments made on the date of their own invoice, whatever became of it. *)
SameDayPayments(d) ==
    {p \in PaymentIds : payments[p] # NoPayment /\ payments[p].day = d
                        /\ invoices[payments[p].invoice].day = d}
LegacyMobile(d) ==
    SumFunctionOnSet(AmountPaid,
                     {p \in SameDayPayments(d) : payments[p].account = "mobile_money"})

(* tender_split(): an amount written down replaces the payments' own. *)
MobileFromSales(d) == IF mobile[d] # Nothing THEN mobile[d] ELSE LegacyMobile(d)
CashFromSales(d) == TotalSales(d) - NewDebt(d) - MobileFromSales(d)
ExceedsTotalSales(d) == NewDebt(d) + MobileFromSales(d) > TotalSales(d)

(* debt_collections(): money received on a day for what arose before it. *)
LatePayments(d, account) ==
    {p \in PaymentIds : /\ payments[p] # NoPayment /\ payments[p].day = d
                        /\ invoices[payments[p].invoice].day < d
                        /\ invoices[payments[p].invoice].credit
                        /\ payments[p].account = account}
DebtCollections(d, account) ==
    SumFunctionOnSet(AmountPaid, LatePayments(d, account))
      + (IF collected[d].account = account THEN collected[d].amount ELSE 0)

-----------------------------------------------------------------------------
(* The running balance. *)

(* _range_tender(): its own sums, over the whole range. *)
SoldIn(from, to) ==
    {i \in InvoiceIds : /\ invoices[i].status = "active" /\ ~invoices[i].opening
                        /\ invoices[i].day \in from .. to}

MobileSet(from, to) == {d \in from .. to : mobile[d] # Nothing}
LegacyMobileOf == [d \in Days |-> LegacyMobile(d)]

(* Mobile Money written down on a day not taken out of the payments'. *)
FaultyRangeMobile(from, to) ==
    SumFunctionOnSet(mobile, MobileSet(from, to)) + SumFunctionOnSet(LegacyMobileOf, from .. to)

RangeMobile(from, to) ==
    SumFunctionOnSet(mobile, MobileSet(from, to))
      + SumFunctionOnSet(LegacyMobileOf, (from .. to) \ MobileSet(from, to))

(* Same-day payments of customers, which leave that much less unpaid. *)
PaidOnCreditIn(from, to) ==
    {p \in UNION {SameDayPayments(d) : d \in from .. to} :
        invoices[payments[p].invoice].credit}
RangeCash(from, to) ==
    LET sold == SoldIn(from, to)
        unpaid == SumFunctionOnSet(InvoiceAmount, OnCredit(sold))
                    - SumFunctionOnSet(AmountPaid, PaidOnCreditIn(from, to))
    IN  SumFunctionOnSet(sales, from .. to) + SumFunctionOnSet(InvoiceAmount, sold)
          - unpaid - SumFunctionOnSet(debts, from .. to) - RangeMobile(from, to)

In(entry, account) == IF entry.account = account THEN entry.amount ELSE 0

(* A transfer leaves one account and enters the other. *)
Moved(d, account) ==
    (IF transfers[d].to = account THEN transfers[d].amount ELSE 0)
      - In(transfers[d], account) - In(expenses[d], account) + In(adjusted[d], account)

EarliestOf(S) == CHOOSE d \in S : \A e \in S : d <= e

(* money_anchor(): a declared starting point, or else the first Sales Day; *)
(* the reader who passes a day counts drafts too.                          *)
(* A starting point counts before its own date. *)
FaultyMoneyDeclared(d) == {e \in Days : startingMoney[e] # Nothing}

MoneyDeclared(d) == {e \in Days : e <= d /\ startingMoney[e] # Nothing}
Anchors(d, withDrafts) ==
    IF MoneyDeclared(d) # {} THEN {LatestOf(MoneyDeclared(d))}
    ELSE {e \in Days : e <= d /\ status[e] \notin (IF withDrafts THEN {"none"}
                                                    ELSE {"none", "draft"})}

(* What is added to the starting point, and what a day shows of it. *)
RangeMoney(from, to, account) ==
    (IF account = "cash" THEN RangeCash(from, to) ELSE RangeMobile(from, to))
      + SumFunctionOnSet([e \in Days |-> DebtCollections(e, account)], from .. to)
      + SumFunctionOnSet([e \in Days |-> Moved(e, account)], from .. to)
DayMoney(d, account) ==
    (IF account = "cash" THEN CashFromSales(d) ELSE MobileFromSales(d))
      + DebtCollections(d, account) + Moved(d, account)

(* money_balance(d, upto): Nothing when the books have not started. *)
Opening(d) == IF MoneyDeclared(d) # {} THEN startingMoney[LatestOf(MoneyDeclared(d))] ELSE 0
MoneyBalance(d, account, upto, withDrafts) ==
    LET start == EarliestOf(Anchors(d, withDrafts))
    IN  CASE Anchors(d, withDrafts) = {} -> Nothing
          [] Anchors(d, withDrafts) # {} /\ upto < start -> Opening(d)
          [] OTHER -> Opening(d) + RangeMoney(start, upto, account)

(* What daily_summary() shows a day as starting with and arriving at. *)
CarriedMoneyBalance(d, account) == MoneyBalance(d, account, d - 1, FALSE)
ExpectedMoney(d, account) == MoneyBalance(d, account, d, TRUE)

-----------------------------------------------------------------------------
(* Save and Close Day. *)

Records ==
    Cardinality({i \in InvoiceIds : invoices[i] # NoInvoice})
      + Cardinality({p \in PaymentIds : payments[p] # NoPayment})
      + Cardinality({pending} \ {NoPayment})
      + Cardinality({d \in Days : sales[d] # 0})
      + Cardinality({d \in Days : mobile[d] # Nothing})
      + Cardinality({d \in Days : debts[d] # 0})
      + Cardinality({d \in Days : opened[d] # 0})
      + Cardinality({d \in Days : collected[d] # NoEntry})
      + Cardinality({d \in Days : expenses[d] # NoEntry})
      + Cardinality({d \in Days : transfers[d] # NoTransfer})
      + Cardinality({d \in Days : adjusted[d] # NoEntry})
      + Cardinality({d \in Days : startingMoney[d] # Nothing})

(* debtor_balance(), and the date of the first debt. *)
DebtorBalance ==
    SumFunctionOnSet(debts, Days) + SumFunctionOnSet(opened, Days)
      - SumFunctionOnSet([d \in Days |-> collected[d].amount], Days)
DebtDays == {d \in Days : debts[d] + opened[d] > 0}

(* assert_tender_within_sales(), on the rows the request leaves. *)
TenderWithin(d) == ~ExceedsTotalSales(d)

CreateDebt(d, amount, enforceTender) ==
    /\ debts' = [debts EXCEPT ![d] = amount]
    /\ enforceTender => TenderWithin(d)'

(* replace_day_debts(): the same list again is not looked at. *)
ReplaceDayDebts(d, amount, requireBalance) ==
    IF amount \in {debts[d], 0} THEN debts' = [debts EXCEPT ![d] = amount]
    ELSE CreateDebt(d, amount, requireBalance)

(* record_debt_payment(): no more than is owed, not before the first debt. *)
RecordDebtPayment(d, collection) ==
    /\ collected' = [collected EXCEPT ![d] = collection]
    /\ DebtorBalance' >= 0
    /\ DebtDays' # {} /\ EarliestOf(DebtDays') <= d

(* replace_day_debt_payments(): likewise, the collections it replaces gone *)
(* from what has been paid.                                                *)
ReplaceDayDebtPayments(d, collection) ==
    IF collection \in {collected[d], NoEntry}
    THEN collected' = [collected EXCEPT ![d] = collection]
    ELSE RecordDebtPayment(d, collection)

(* _write_working_day(): the money of the day, all of it at once. *)
WriteWorkingDayMoney(d, total, m, debt, collection, requireBalance) ==
    /\ status[d] # "closed"
    /\ sales' = [sales EXCEPT ![d] = total]
    /\ mobile' = [mobile EXCEPT ![d] = m]
    /\ UNCHANGED <<opened, moved, startingMoney, invoices, payments, pending>>
    /\ ReplaceDayDebts(d, debt, requireBalance)
    /\ ReplaceDayDebtPayments(d, collection)

SaveWorkingDayMoney(d, total, m, debt, collection) ==
    /\ WriteWorkingDayMoney(d, total, m, debt, collection, FALSE)
    /\ status' = [status EXCEPT ![d] = IF @ = "none" THEN "draft" ELSE @]

CloseWorkingDayMoney(d, total, m, debt, collection) ==
    /\ WriteWorkingDayMoney(d, total, m, debt, collection, TRUE)
    /\ status' = [status EXCEPT ![d] = "closed"]

ReopenDayMoney(d) ==
    /\ status[d] # "none"
    /\ status' = [status EXCEPT ![d] = "reopened"]
    /\ UNCHANGED <<sales, mobile, debts, opened, collected, moved, startingMoney,
                   invoices, payments, pending>>

(* One expense, one movement of money between two accounts; NoEntry or     *)
(* NoTransfer is an emptied list.                                          *)
CreateExpense(d, expense) == expenses' = [expenses EXCEPT ![d] = expense]
CreateTransfer(d, transfer) == transfers' = [transfers EXCEPT ![d] = transfer]

(* replace_day_expenses(), replace_day_transfers(): a Save that changes    *)
(* only the one list.                                                      *)
ReplaceDayExpenses(d, expense) ==
    /\ status[d] # "closed" /\ expense # expenses[d]
    /\ CreateExpense(d, expense)
    /\ status' = [status EXCEPT ![d] = IF @ = "none" THEN "draft" ELSE @]
    /\ UNCHANGED <<sales, mobile, debts, opened, collected, transfers, adjusted,
                   startingMoney, invoices, payments, pending>>

ReplaceDayTransfers(d, transfer) ==
    /\ status[d] # "closed" /\ transfer # transfers[d]
    /\ CreateTransfer(d, transfer)
    /\ status' = [status EXCEPT ![d] = IF @ = "none" THEN "draft" ELSE @]
    /\ UNCHANGED <<sales, mobile, debts, opened, collected, expenses, adjusted,
                   startingMoney, invoices, payments, pending>>

-----------------------------------------------------------------------------
(* Corrections of a reopened day, and what needs no open day. *)

(* POST expenses, POST transfers *)
PostExpense(d, expense) ==
    /\ RequireEditableDay(d) /\ expenses[d] = NoEntry
    /\ CreateExpense(d, expense)
    /\ UNCHANGED <<status, sales, mobile, debts, opened, collected, transfers, adjusted,
                   startingMoney, invoices, payments, pending>>

PostTransfer(d, transfer) ==
    /\ RequireEditableDay(d) /\ transfers[d] = NoTransfer
    /\ CreateTransfer(d, transfer)
    /\ UNCHANGED <<status, sales, mobile, debts, opened, collected, expenses, adjusted,
                   startingMoney, invoices, payments, pending>>

(* POST cash-adjustments, by an elevated user; nothing removes one. *)
CashAdjustment(d, account, delta) ==
    /\ RequireEditableDay(d) /\ adjusted[d] = NoEntry
    /\ adjusted' = [adjusted EXCEPT ![d] = [amount |-> delta, account |-> account]]
    /\ UNCHANGED <<status, sales, mobile, debts, opened, collected, expenses, transfers,
                   startingMoney, invoices, payments, pending>>

(* PATCH days: day_detail() *)
PatchMobile(d, m) ==
    /\ RequireEditableDay(d)
    /\ mobile' = [mobile EXCEPT ![d] = m]
    /\ UNCHANGED <<status, sales, debts, opened, collected, moved, startingMoney,
                   invoices, payments, pending>>
    /\ m # Nothing => TenderWithin(d)'

(* POST debts *)
PostDebt(d, amount) ==
    /\ RequireEditableDay(d) /\ debts[d] = 0
    /\ UNCHANGED <<status, sales, mobile, opened, collected, moved, startingMoney,
                   invoices, payments, pending>>
    /\ CreateDebt(d, amount, TRUE)

(* POST opening-debts, by an elevated user. *)
OpeningDebt(d, amount) ==
    /\ opened' = [opened EXCEPT ![d] = amount]
    /\ UNCHANGED <<status, sales, mobile, debts, collected, moved, startingMoney,
                   invoices, payments, pending>>

(* POST debtors/<id>/payments *)
AddDebtPayment(d, collection) ==
    /\ RequireEditableDay(d) /\ collected[d] = NoEntry
    /\ UNCHANGED <<status, sales, mobile, debts, opened, moved, startingMoney,
                   invoices, payments, pending>>
    /\ RecordDebtPayment(d, collection)

(* POST invoices, or opening-receivables by an elevated user. *)
CreateInvoiceMoney(i, d, amount, credit, opening) ==
    /\ invoices[i] = NoInvoice
    /\ IF opening THEN credit ELSE RequireEditableDay(d)
    /\ invoices' = [invoices EXCEPT ![i] =
           [status |-> "active", day |-> d, amount |-> amount,
            credit |-> credit, opening |-> opening]]
    /\ UNCHANGED <<status, sales, mobile, debts, opened, collected, moved,
                   startingMoney, payments, pending>>

(* create_payment(): what it checks ... *)
PaymentFits(i, d, amount) ==
    /\ invoices[i].status = "active"
    /\ amount <= Outstanding(i, LastDay)
    /\ ~invoices[i].credit => amount = Outstanding(i, LastDay)
    /\ invoices[i].day <= d

StorePayment(p, payment) ==
    /\ payments[p] = NoPayment
    /\ payments' = [payments EXCEPT ![p] = payment]
    /\ UNCHANGED <<status, sales, mobile, debts, opened, collected, moved,
                   startingMoney, invoices>>

CreatePayment(p, payment) ==
    /\ PaymentFits(payment.invoice, payment.day, payment.amount)
    /\ StorePayment(p, payment)
    /\ UNCHANGED pending

(* ... and the same with another request between the check and the insert. *)
ReadPayment(payment) ==
    /\ pending = NoPayment
    /\ PaymentFits(payment.invoice, payment.day, payment.amount)
    /\ pending' = payment
    /\ UNCHANGED <<status, sales, mobile, debts, opened, collected, moved,
                   startingMoney, invoices, payments>>

WritePayment(p) ==
    /\ pending # NoPayment
    /\ StorePayment(p, pending)
    /\ pending' = NoPayment

(* POST void, by an elevated user: the record alone, not what hangs on it. *)
VoidInvoice(i) ==
    /\ invoices[i].status = "active"
    /\ invoices' = [invoices EXCEPT ![i].status = "void"]
    /\ UNCHANGED <<status, sales, mobile, debts, opened, collected, moved,
                   startingMoney, payments, pending>>
VoidPayment(p) ==
    /\ payments[p] # NoPayment
    /\ payments' = [payments EXCEPT ![p] = NoPayment]
    /\ UNCHANGED <<status, sales, mobile, debts, opened, collected, moved,
                   startingMoney, invoices, pending>>
VoidDay(d) ==
    /\ \/ /\ sales[d] # 0 /\ sales' = [sales EXCEPT ![d] = 0]
          /\ UNCHANGED <<debts, opened, collected, expenses, transfers>>
       \/ /\ debts[d] # 0 /\ debts' = [debts EXCEPT ![d] = 0]
          /\ UNCHANGED <<sales, opened, collected, expenses, transfers>>
       \/ /\ opened[d] # 0 /\ opened' = [opened EXCEPT ![d] = 0]
          /\ UNCHANGED <<sales, debts, collected, expenses, transfers>>
       \/ /\ collected[d] # NoEntry /\ collected' = [collected EXCEPT ![d] = NoEntry]
          /\ UNCHANGED <<sales, debts, opened, expenses, transfers>>
       \/ /\ expenses[d] # NoEntry /\ expenses' = [expenses EXCEPT ![d] = NoEntry]
          /\ UNCHANGED <<sales, debts, opened, collected, transfers>>
       \/ /\ transfers[d] # NoTransfer /\ transfers' = [transfers EXCEPT ![d] = NoTransfer]
          /\ UNCHANGED <<sales, debts, opened, collected, expenses>>
    /\ UNCHANGED <<status, mobile, adjusted, startingMoney, invoices, payments, pending>>

(* POST baselines; the same amount for both accounts. *)
SaveBaselineMoney(d, amount) ==
    /\ startingMoney' = [startingMoney EXCEPT ![d] = amount]
    /\ UNCHANGED <<status, sales, mobile, debts, opened, collected, moved,
                   invoices, payments, pending>>

Entries == {NoEntry} \cup Entry
Transfers == {NoTransfer} \cup Transfer

MoneyNext ==
    /\ \/ \E d \in Days :
            \/ \E total, debt \in Amounts \cup {0}, m \in Amounts \cup {Nothing},
                  collection \in Entries :
                  \/ SaveWorkingDayMoney(d, total, m, debt, collection)
                  \/ CloseWorkingDayMoney(d, total, m, debt, collection)
            \/ ReopenDayMoney(d) \/ VoidDay(d)
            \/ \E m \in Amounts \cup {Nothing} : PatchMobile(d, m)
            \/ \E amount \in Amounts :
                  \/ PostDebt(d, amount) \/ OpeningDebt(d, amount) \/ SaveBaselineMoney(d, amount)
                  \/ \E i \in InvoiceIds, credit, opening \in BOOLEAN :
                        CreateInvoiceMoney(i, d, amount, credit, opening)
            \/ \E entry \in Entries : ReplaceDayExpenses(d, entry)
            \/ \E transfer \in Transfers : ReplaceDayTransfers(d, transfer)
            \/ \E entry \in Entry : PostExpense(d, entry) \/ AddDebtPayment(d, entry)
            \/ \E transfer \in Transfer : PostTransfer(d, transfer)
            \/ \E account \in Balances, amount \in Amounts :
                  CashAdjustment(d, account, amount) \/ CashAdjustment(d, account, -amount)
       \/ \E payment \in Payment :
            ReadPayment(payment) \/ \E p \in PaymentIds : CreatePayment(p, payment)
       \/ \E p \in PaymentIds : WritePayment(p) \/ VoidPayment(p)
       \/ \E i \in InvoiceIds : VoidInvoice(i)
    /\ Records' <= MaxRecords

MoneySpec == MoneyInit /\ [][MoneyNext]_moneyVars

-----------------------------------------------------------------------------
(* Properties. *)

(* An invoice no longer a sale, or paid beyond its amount, that has        *)
(* payments; such a one with a customer, the per-day tender and the        *)
(* range's sums take differently.                                          *)
Disputed(i) ==
    \/ ~(invoices[i].status = "active" /\ ~invoices[i].opening) /\ PaidTotal(i, LastDay) > 0
    \/ Outstanding(i, LastDay) < 0
Contested(d) ==
    \E i \in InvoiceIds : invoices[i].day = d /\ invoices[i].credit /\ Disputed(i)

(* No starting money is declared and the first day saved is still a draft: *)
(* what a later day starts with is reckoned without that draft             *)
(* (carried_money_balance()), what it arrives at from it (daily_summary()  *)
(* passes its day).                                                        *)
AfterDraft(d) ==
    LET first == EarliestOf(Anchors(d, TRUE))
    IN  MoneyDeclared(d) = {} /\ first < d /\ status[first] = "draft"

(* The balance a day arrives at is what it started with, and its own cash  *)
(* or Mobile Money from sales, collections and movements as the day shows  *)
(* them: a payment is counted on exactly one day and in one account,       *)
(* however the books are extended, corrected and voided (_range_tender()   *)
(* against tender_split(), money_balance()).  Left out are the days where  *)
(* the code's two starting points differ (AfterDraft; README, Known        *)
(* disagreements) and the invoices its two sums treat differently          *)
(* (Contested).                                                            *)
ExpectedMoneyAddsUp ==
    \A d \in Days, account \in Balances :
        /\ status[d] # "none"
        /\ ~AfterDraft(d)
        /\ ~Contested(d)
        => ExpectedMoney(d, account)
           = (IF CarriedMoneyBalance(d, account) = Nothing THEN 0
              ELSE CarriedMoneyBalance(d, account))
             + DayMoney(d, account)

(* What the books hold with a date no later than d. *)
DatedUpTo(d) ==
    << [e \in 1 .. d |-> <<status[e], sales[e], mobile[e], debts[e], collected[e],
                          expenses[e], transfers[e], adjusted[e], startingMoney[e]>>],
       {<<i, invoices[i]>> : i \in {j \in InvoiceIds : invoices[j].day \in 1 .. d}},
       {<<p, payments[p]>> : p \in {q \in PaymentIds : payments[q].day \in 1 .. d}} >>

(* Nothing dated after a day changes what that day showed: neither its own *)
(* cash, Mobile Money and unpaid part, nor the balance it arrived at. A    *)
(* debt collected later stays unpaid on the day it arose, a starting point *)
(* declared later carries nothing back (tender_split(), outstanding()      *)
(* as of a date, money_balance()).                                         *)
LaterDatesChangeNothing ==
    [][\A d \in Days \ {LastDay} :
          DatedUpTo(d)' = DatedUpTo(d)
          => /\ CashFromSales(d)' = CashFromSales(d)
             /\ NewDebt(d)' = NewDebt(d)
             /\ \A account \in Balances :
                   ExpectedMoney(d, account)' = ExpectedMoney(d, account)]_moneyVars

(* The unpaid debts of a day never exceed its sales once it is closed:     *)
(* what a Save may leave open, "that check can only be authoritative at    *)
(* Close Day" (create_debt(), replace_day_debts()).                        *)
CloseChecksDebts ==
    [][\A d \in Days :
          status[d] # "closed" /\ status'[d] = "closed" =>
              NewDebt(d)' <= TotalSales(d)']_moneyVars
=============================================================================
