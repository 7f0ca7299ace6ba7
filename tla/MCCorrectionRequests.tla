------------------------- MODULE MCCorrectionRequests -------------------------
(* Instances of CorrectionRequests for TLC. *)
EXTENDS CorrectionRequests, TLC

CONSTANTS w1, w2, o1, o2, q1, q2

MCWorkers == {w1, w2}
MCOperators == {o1, o2}
MCRequestIds == {q1, q2}

MCSymmetry == Permutations(MCWorkers) \cup Permutations(MCOperators)
                \cup Permutations(MCRequestIds)
===============================================================================
