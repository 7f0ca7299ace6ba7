--------------------------- MODULE MCSourceRecords ---------------------------
(* Instances of SourceRecords for TLC. *)
EXTENDS SourceRecords, TLC

CONSTANTS w1, w2, o1, m1, a, b, k1

MCWorkers == {w1, w2}
MCOperators == {o1}
MCManagers == {m1}
MCProducts == {a, b}
MCKeys == {k1}
MCKinds == {"dispatch", "returns", "production"}

MCSymmetry == Permutations(MCWorkers) \cup Permutations(MCProducts)
=============================================================================
