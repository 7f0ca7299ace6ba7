---------------------------- MODULE MCStockLedger ----------------------------
(* Instances of StockLedger for TLC. *)
EXTENDS StockLedger

Line(book, period, qty) ==
    [book |-> book, period |-> period, qty |-> qty, posts |-> TRUE]

Unposted(period, qty) ==
    [book |-> "returns", period |-> period, qty |-> qty, posts |-> FALSE]

NoRows == [p \in Periods |-> NoRow]
WithRow(p, source, opening) ==
    [NoRows EXCEPT ![p] = [source |-> source, opening |-> opening, legacy |-> 0]]

(* Production, a legacy dispatch of the first Night that cancels it out,   *)
(* an adjustment two dates before the last period and a Metro Sales return *)
(* that does not post.                                                     *)
MCMovements ==
    {Line("production", 1, 2), Line("dispatch", 2, 2), Line("adjustment", 3, 1),
     Unposted(1, 1)}
MCInitialRows == {NoRows, WithRow(3, "legacy_inferred", 5)}

(* A migrated entry with Production on its own row and an Issued figure. *)
MCLegacyEntries ==
    {[period |-> 3, opening |-> 4, legacy |-> 2, issued |-> {Line("adjustment", 3, 1)}]}

(* What the ledger holds at once (a bound). *)
SmallLedger ==
    LET held == Cardinality({p \in Periods : HasRow(p)})
    IN  /\ held <= 2
        /\ Cardinality(cutovers) <= 1
        /\ held + Cardinality(posted) + Cardinality(cutovers) <= 4

=============================================================================
