----------------------------- MODULE MCDailyReview -----------------------------
(* Instances of DailyReview for TLC. *)
EXTENDS DailyReview, FiniteSets, TLC

CONSTANTS w1, w2, p1, p2, r1

MCWorkers == {w1, w2}
MCProducts == {p1, p2}
MCRecords == {r1}

MCSymmetry == Permutations(MCWorkers) \cup Permutations(MCProducts)

(* At most one product is marked as edited or skipped, and of the requests *)
(* under way one each marks so, changes a record or resets (a bound).      *)
Exceptional == {"edited", "skipped"}

OneOfAKind ==
    /\ Cardinality({p \in Products : marks[p].state \in Exceptional}) <= 1
    /\ Cardinality({w \in Workers : work[w].op = "mark" /\ work[w].state \in Exceptional}) <= 1
    /\ \A op \in {"source", "reset"} : Cardinality({w \in Workers : work[w].op = op}) <= 1
===============================================================================
