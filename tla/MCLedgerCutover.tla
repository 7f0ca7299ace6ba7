---------------------------- MODULE MCLedgerCutover ----------------------------
(* Instances of LedgerCutover for TLC. *)
EXTENDS LedgerCutover, TLC

CONSTANTS w1, w2, c1, c2, p1

MCWorkers == {w1, w2}
MCCutoverIds == {c1, c2}
MCProducts == {p1}
MCQuantities == {0, 1}
MCPeriods == {1, 2}

MCSymmetry == Permutations(MCWorkers) \cup Permutations(MCCutoverIds)
===============================================================================
