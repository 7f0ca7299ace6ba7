---------------------------- MODULE SalesCalendar ----------------------------
(***************************************************************************)
(* The Sales Days of one salesperson (models/sales.py SalesDay): their     *)
(* dates and what has become of each.  SalesDay keeps the stock of these   *)
(* days, SalesMoney their money; both start from this module, so what is   *)
(* said of the status of a day is said of the same row.                    *)
(***************************************************************************)
EXTENDS Integers

CONSTANTS
    LastDay, \* the business dates are 1 .. LastDay
    Nothing  \* a figure left blank, not known or not recorded

ASSUME LastDayAssumption == LastDay \in Nat

Days == 1 .. LastDay
Statuses == {"none", "draft", "closed", "reopened"}

VARIABLE status \* the day's row: none, draft (Saved), closed, reopened

(* The latest of some dates. *)
LatestOf(S) == CHOOSE d \in S : \A e \in S : e <= d

(* _require_editable_day(): only a reopened day has the endpoints of       *)
(* single corrections.                                                     *)
RequireEditableDay(d) == status[d] = "reopened"
==============================================================================
