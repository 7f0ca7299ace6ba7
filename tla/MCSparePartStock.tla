-------------------------- MODULE MCSparePartStock --------------------------
(* Instances of SparePartStock for TLC: workers are interchangeable. *)
EXTENDS SparePartStock, TLC

CONSTANTS w1, w2, m1, m2, m3

MCWorkers == {w1, w2}
MCMovementIds == {m1, m2, m3}
MCQuantities == {1, 2}
MCCounted == {0, 2}
Symmetry == Permutations(MCWorkers) \cup Permutations(MCMovementIds)
=============================================================================
