------------------------------ MODULE MCSalesDay ------------------------------
(* Instances of SalesDay for TLC. *)
EXTENDS SalesDay, TLC

CONSTANTS w1, w2

Card(previous, issued, total, returned) ==
    [previous |-> previous, issued |-> issued, total |-> total, returned |-> returned]

MCWorkers == {w1, w2}
MCQuantities == {0, 1}
MCDeclared == {1}
MCDeltas == {-1, 1}
(* A sheet not counted yet, and one that corrects every figure and says    *)
(* that all was sold; a return counted alone comes from SetClosingStock.   *)
MCSheets == {Card(Nothing, Nothing, Nothing, Nothing), Card(1, 1, 1, 0)}

MCSymmetry == Permutations(MCWorkers)

(* Requests overlap on the first day, while nothing is known of the second *)
(* and no stock is declared: what a day carries to the next, or starts     *)
(* with, is explored with one request at a time.                           *)
OverlapOnFirstDay ==
    (\A w \in Workers : request[w] # Idle) =>
        /\ \A w \in Workers : request[w].day = 1
        /\ \A d \in Days : baseline[d] = Nothing
        /\ \A d \in Days \ {1} :
               status[d] = "none" /\ line[d] = NoLine /\ recorded[d] = 0 /\ given[d] = 0

(* Stock is declared on one day at most. *)
DeclaredOnce == Cardinality({d \in Days : baseline[d] # Nothing}) <= 1

(* Figures are corrected by hand on one day at most: what the other day    *)
(* makes of them is only the return that was counted.                      *)
CorrectedOnce ==
    Cardinality({d \in Days : {line[d].previous, line[d].issued, line[d].total} # {Nothing}}) <= 1
=============================================================================
