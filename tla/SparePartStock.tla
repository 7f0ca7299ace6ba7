---------------------------- MODULE SparePartStock ----------------------------
(***************************************************************************)
(* The stock of one spare part (services/spare_part_movement_service.py): *)
(* an append-only ledger of movements from which the stock is derived, and *)
(* spare_parts.current_stock_cache, a running total kept beside it as the  *)
(* concurrency gate of the operations that take stock out.                 *)
(*                                                                         *)
(* A request is served by one of the web server's workers.  What it reads  *)
(* before its first write is read outside any transaction; from the first  *)
(* UPDATE to the commit it holds SQLite's write lock.  A handler that      *)
(* decides on something it read is therefore two actions, one that decides *)
(* and one that writes, and a handler that does not is one.                *)
(*                                                                         *)
(* A definition named Faulty... stands in for the one below it when the    *)
(* properties are tested against a plausible mistake; nothing uses it.     *)
(***************************************************************************)
EXTENDS Integers, FiniteSets, Functions

CONSTANTS
    Workers,     \* processes serving requests
    MovementIds, \* identities of ledger rows (a bound on the ledger's length)
    Quantities,  \* positive movement quantities
    Counted      \* results of a physical count

ASSUME MovementIdsAssumption == IsFiniteSet(MovementIds)
ASSUME QuantitiesAssumption == Quantities \subseteq Nat \ {0}
ASSUME CountedAssumption == Counted \subseteq Nat

VARIABLES
    ledger,   \* the movement stored under each id
    cache,    \* current_stock_cache
    request,  \* what each worker has decided and not yet written
    surplus   \* history: net effect on the cache of voids written twice

partsVars == <<ledger, cache, request, surplus>>

(* in = STOCK_IN and ADJUSTMENT_IN, out = STOCK_OUT and ADJUSTMENT_OUT. *)
Movement == [direction : {"in", "out"}, quantity : Nat, status : {"active", "void"}]
NoMovement == [direction |-> "in", quantity |-> 0, status |-> "unused"]

Idle == [op |-> "idle"]
CountRequest == [op : {"count"}, before : Int, counted : Nat]
VoidRequest == [op : {"void"}, id : MovementIds]

PartsTypeOK ==
    /\ ledger \in [MovementIds -> Movement \cup {NoMovement}]
    /\ cache \in Int
    /\ request \in [Workers -> {Idle} \cup CountRequest \cup VoidRequest]
    /\ surplus \in Int

-----------------------------------------------------------------------------
Signed(m) == IF m.direction = "in" THEN m.quantity ELSE -m.quantity

Contribution ==
    [id \in MovementIds |->
        IF ledger[id].status = "active" THEN Signed(ledger[id]) ELSE 0]

(* current_stock(): every active movement, summed from the ledger. *)
LedgerStock == SumFunctionOnSet(Contribution, MovementIds)

Magnitude(d) == IF d >= 0 THEN d ELSE -d

PartsInit ==
    /\ ledger = [id \in MovementIds |-> NoMovement]
    /\ cache = 0
    /\ request = [w \in Workers |-> Idle]
    /\ surplus = 0

(* The update without its WHERE current_stock_cache >= quantity. *)
FaultyMoveCache(direction, quantity) ==
    cache' = cache + (IF direction = "in" THEN quantity ELSE -quantity)

(* The compare-and-swap of _decrease_cache(), or the plain _increase_cache(). *)
MoveCache(direction, quantity) ==
    /\ direction = "out" => cache >= quantity
    /\ cache' = cache + (IF direction = "in" THEN quantity ELSE -quantity)

Append(id, direction, quantity) ==
    /\ ledger[id] = NoMovement
    /\ ledger' = [ledger EXCEPT ![id] =
                     [direction |-> direction, quantity |-> quantity,
                      status |-> "active"]]

(* Stock In, Stock Out, an adjustment or an opening balance: the cache     *)
(* moves first, and the row is added in the same transaction.              *)
RecordMovement(id, direction, quantity) ==
    /\ MoveCache(direction, quantity)
    /\ Append(id, direction, quantity)
    /\ UNCHANGED <<request, surplus>>

(* record_stock_count(): the correction is computed from a ledger read ... *)
ReadStockCount(w, counted) ==
    /\ request[w] = Idle
    /\ request' = [request EXCEPT ![w] =
                      [op |-> "count", before |-> LedgerStock, counted |-> counted]]
    /\ UNCHANGED <<ledger, cache, surplus>>

(* Found and expected stock exchanged; the sign kept in the quantity. *)
FaultyDirection(w) == IF request[w].counted <= request[w].before THEN "in" ELSE "out"
FaultyDifference(w) == request[w].counted - request[w].before

CountDirection(w) == IF request[w].counted >= request[w].before THEN "in" ELSE "out"
CountDifference(w) == Magnitude(request[w].counted - request[w].before)

(* ... and appended later; an exact count leaves the cache alone. *)
WriteStockCount(w, id) ==
    /\ request[w].op = "count"
    /\ IF CountDifference(w) = 0
       THEN UNCHANGED cache
       ELSE MoveCache(CountDirection(w), CountDifference(w))
    /\ Append(id, CountDirection(w), CountDifference(w))
    /\ request' = [request EXCEPT ![w] = Idle]
    /\ UNCHANGED surplus

(* void_movement() checks the status of the row as it was loaded ... *)
ReadVoid(w, id) ==
    /\ request[w] = Idle
    /\ ledger[id].status = "active"
    /\ request' = [request EXCEPT ![w] = [op |-> "void", id |-> id]]
    /\ UNCHANGED <<ledger, cache, surplus>>

(* A void that repeats the movement. *)
FaultyOpposite(direction) == direction

Opposite(direction) == IF direction = "in" THEN "out" ELSE "in"

(* ... and reverses its effect whatever has become of the row since. *)
WriteVoid(w) ==
    LET id == request[w].id
        m  == ledger[id]
    IN  /\ request[w].op = "void"
        /\ MoveCache(Opposite(m.direction), m.quantity)
        /\ ledger' = [ledger EXCEPT ![id].status = "void"]
        /\ request' = [request EXCEPT ![w] = Idle]
        /\ surplus' = IF m.status = "void" THEN surplus - Signed(m) ELSE surplus

(* The compare-and-swap matched no row: rolled back, an error is answered. *)
Reject(w) ==
    /\ \/ /\ request[w].op = "count"
          /\ CountDirection(w) = "out" /\ cache < CountDifference(w)
       \/ /\ request[w].op = "void"
          /\ ledger[request[w].id].direction = "in"
          /\ cache < ledger[request[w].id].quantity
    /\ request' = [request EXCEPT ![w] = Idle]
    /\ UNCHANGED <<ledger, cache, surplus>>

PartsNext ==
    \/ \E id \in MovementIds, direction \in {"in", "out"}, quantity \in Quantities :
          RecordMovement(id, direction, quantity)
    \/ \E w \in Workers, counted \in Counted : ReadStockCount(w, counted)
    \/ \E w \in Workers, id \in MovementIds : WriteStockCount(w, id) \/ ReadVoid(w, id)
    \/ \E w \in Workers : WriteVoid(w) \/ Reject(w)

PartsSpec == PartsInit /\ [][PartsNext]_partsVars

-----------------------------------------------------------------------------
(* Properties. *)

(* The cache equals the ledger up to movements that two requests voided at *)
(* once: no other interleaving of movements, counts and voids makes the    *)
(* gate and the ledger disagree.                                           *)
CacheDriftsOnlyByDoubleVoid == cache = LedgerStock + surplus

(* Stock is never issued that the ledger does not hold, as long as no      *)
(* issue has been voided twice.                                            *)
NeverOverdrawn == surplus <= 0 => LedgerStock >= 0

(* A stock count leaves the counted quantity as the stock if nothing was   *)
(* written between its read and its write.                                 *)
UndisturbedCountIsExact ==
    [][\A w \in Workers, id \in MovementIds :
          WriteStockCount(w, id) /\ request[w].before = LedgerStock
              => LedgerStock' = request[w].counted]_partsVars
=============================================================================
