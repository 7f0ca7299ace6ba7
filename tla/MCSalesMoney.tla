----------------------------- MODULE MCSalesMoney -----------------------------
(* Instances of SalesMoney for TLC. *)
EXTENDS SalesMoney, TLC

CONSTANTS i1, p1, p2

MCInvoiceIds == {i1}
MCPaymentIds == {p1, p2}
MCAmounts == {1}

(* Payments differ only in their identity. *)
MCSymmetry == Permutations(MCPaymentIds)

(* The books hold one opening debt, expense, transfer or adjustment at a   *)
(* time, and of three records none is such a one or one with another       *)
(* account (bounds).                                                       *)
OtherAccount ==
    \/ \E p \in PaymentIds : payments[p].account = "other"
    \/ pending.account = "other"
    \/ \E d \in Days : collected[d].account = "other"

OpenedOrMoved ==
    Cardinality({d \in Days : opened[d] # 0}) + Cardinality({d \in Days : expenses[d] # NoEntry})
      + Cardinality({d \in Days : transfers[d] # NoTransfer})
      + Cardinality({d \in Days : adjusted[d] # NoEntry})

SmallBooks ==
    /\ OpenedOrMoved <= 1
    /\ OtherAccount \/ OpenedOrMoved > 0 => Records <= 2
===============================================================================
