---------------------------- MODULE MCFigureSave ----------------------------
(* Instances of FigureSave for TLC. *)
EXTENDS FigureSave, TLC

UserSymmetry == Permutations(Operators)
=============================================================================
