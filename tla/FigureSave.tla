------------------------------ MODULE FigureSave ------------------------------
(***************************************************************************)
(* One Daily Figures entry (a date, a shift and a product) and the         *)
(* requests that overlap on it: operators who lock, save and complete it,  *)
(* and elevated users who correct, take over, reopen and reset it          *)
(* (services/daily_entry_status_service.py, routes/daily_entry_status.py,  *)
(* the upsert route of routes/daily_figures.py).                           *)
(*                                                                         *)
(* The server runs MaxInFlight workers.  A handler reads its rows outside  *)
(* a transaction and decides on them (a Read action); its first write      *)
(* takes SQLite's write lock, held to the commit (a Write action).  The    *)
(* ORM writes a column only if the handler gave it another value than the  *)
(* one it had loaded, so a late write mixes with what was committed since. *)
(*                                                                         *)
(* A definition named Faulty... stands in for the one below it when the    *)
(* properties are tested against a plausible mistake; nothing uses it.     *)
(***************************************************************************)
EXTENDS Integers, FiniteSets

CONSTANTS
    Operators, Elevated, \* users by role; Elevated = Manager or Super Admin
    None,                \* no user
    MaxInFlight,         \* requests served at once (the web server's workers)
    Counts,              \* opening counts a request or a cutover may carry
    Carried              \* balances the books may carry into the period

Users == Operators \cup Elevated
Nothing == -1

ASSUME UsersAssumption == Operators \cap Elevated = {} /\ None \notin Users
ASSUME MaxInFlightAssumption == MaxInFlight \in Nat \ {0}
ASSUME CountsAssumption == Counts \subseteq Nat /\ Carried \subseteq Int \ {Nothing}

(* What the handlers tell apart of a provenance; the legacy sources are    *)
(* like manual_correction or initial_manual.                               *)
Unconditional == {"manual_correction", "ledger_cutover"}
Figure == [source : Unconditional \cup {"derived", "initial_manual", "reset_created"},
           opening : Counts \cup Carried \cup {0}]
NoFigure == [source |-> "none", opening |-> 0]

(* The daily_entry_status row; fresh: the lock is at most                  *)
(* LOCK_STALE_MINUTES old.                                                 *)
Entry == [exists : BOOLEAN, lock : Users \cup {None}, fresh : BOOLEAN,
          completed : BOOLEAN, by : Users \cup {None}]
NoEntry == [exists |-> FALSE, lock |-> None, fresh |-> FALSE,
            completed |-> FALSE, by |-> None]

Ops == {"lock", "release", "noActivity", "save", "review", "takeover", "reopen",
        "reset", "fullReset"}
Idle == [op |-> "idle", entry |-> NoEntry, figure |-> NoFigure, decided |-> NoFigure,
         gives |-> FALSE]
(* gives: the save is an authorized correction or a first-ever period's,   *)
(* which takes the submitted opening; any other save is routine.           *)
Request == [op : Ops, entry : Entry, figure : Figure \cup {NoFigure},
            decided : Figure \cup {NoFigure}, gives : BOOLEAN]

VARIABLES
    entry, figure, \* the two rows of the entry
    carried,       \* the balance carried in; Nothing: it is a first-ever period
    request,       \* what each user's request has read and decided
    claimants      \* history: users told they completed it since it last opened

vars == <<entry, figure, carried, request, claimants>>

TypeOK ==
    /\ entry \in Entry /\ figure \in Figure \cup {NoFigure}
    /\ carried \in Carried \cup {Nothing}
    /\ request \in [Users -> Request \cup {Idle}]
    /\ claimants \subseteq Users

Init ==
    /\ entry = NoEntry /\ figure = NoFigure
    /\ carried \in Carried \cup {Nothing}
    /\ request = [u \in Users |-> Idle]
    /\ claimants = {}

-----------------------------------------------------------------------------
WorkerFree == Cardinality({u \in Users : request[u] # Idle}) < MaxInFlight

Receive(u, op, seenEntry, seenFigure, decided, gives) ==
    /\ request[u] = Idle
    /\ WorkerFree
    /\ request' = [request EXCEPT ![u] =
          [op |-> op, entry |-> seenEntry, figure |-> seenFigure, decided |-> decided,
           gives |-> gives]]
    /\ UNCHANGED <<entry, figure, carried, claimants>>

(* What a handler keeps of its reads is the row it is about to write. *)
ReceiveForEntry(u, op) == Receive(u, op, entry, NoFigure, NoFigure, FALSE)
ReceiveForFigure(u, op, decided, gives) ==
    Receive(u, op, NoEntry, figure, decided, gives)

Answer(u) == request' = [request EXCEPT ![u] = Idle]

(* check_operator_conflict() on the row as it is now. *)
Conflict(u) ==
    \/ entry.completed
    \/ entry.lock \notin {None, u} /\ entry.fresh

(* The columns a handler changed replace the stored ones, the others stay. *)
Merge(seen, decided, stored) ==
    [column \in DOMAIN stored |->
        IF decided[column] # seen[column] THEN decided[column] ELSE stored[column]]

(* A lock is written with its time; a refresh by its holder is only a time. *)
Locked(u, seen) ==
    [Merge(seen, [seen EXCEPT !.lock = u], entry) EXCEPT !.fresh = TRUE]

(* The entry cleared where only its lock should be. *)
FaultyUnlocked(seen) == [entry EXCEPT !.lock = None, !.fresh = FALSE,
                                      !.completed = FALSE, !.by = None]

Unlocked(seen) == Merge(seen, [seen EXCEPT !.lock = None, !.fresh = FALSE], entry)
Cleared(seen) ==
    Merge(seen, [seen EXCEPT !.lock = None, !.fresh = FALSE,
                             !.completed = FALSE, !.by = None], entry)

-----------------------------------------------------------------------------
(* Locks. *)

(* get_or_create(): the first touch inserts the row in the transaction of  *)
(* what it does next, and a request that loses this race starts over.      *)
CreateLocked(u) ==
    /\ request[u] = Idle /\ WorkerFree
    /\ ~entry.exists
    /\ entry' = [NoEntry EXCEPT !.exists = TRUE, !.lock = u, !.fresh = TRUE]
    /\ UNCHANGED <<figure, carried, request, claimants>>

ReadLock(u) == entry.exists /\ ~Conflict(u) /\ ReceiveForEntry(u, "lock")

WriteLock(u) ==
    /\ request[u].op = "lock"
    /\ entry' = Locked(u, request[u].entry)
    /\ Answer(u)
    /\ UNCHANGED <<figure, carried, claimants>>

ReadRelease(u) == entry.lock = u /\ ReceiveForEntry(u, "release")

WriteRelease(u) ==
    /\ request[u].op = "release"
    /\ entry' = Unlocked(request[u].entry)
    /\ Answer(u)
    /\ UNCHANGED <<figure, carried, claimants>>

CreateTakenOver(u) ==
    /\ u \in Elevated /\ request[u] = Idle /\ WorkerFree
    /\ ~entry.exists
    /\ entry' = [NoEntry EXCEPT !.exists = TRUE]
    /\ UNCHANGED <<figure, carried, request, claimants>>

ReadTakeover(u) ==
    u \in Elevated /\ entry.exists /\ ReceiveForEntry(u, "takeover")

WriteTakeover(u) ==
    /\ request[u].op = "takeover"
    /\ entry' = Unlocked(request[u].entry)
    /\ Answer(u)
    /\ UNCHANGED <<figure, carried, claimants>>

(* LOCK_STALE_MINUTES have passed without a refresh. *)
LockExpires ==
    /\ entry.lock # None /\ entry.fresh
    /\ entry' = [entry EXCEPT !.fresh = FALSE]
    /\ UNCHANGED <<figure, carried, request, claimants>>

-----------------------------------------------------------------------------
(* Completion: claim_completion()'s UPDATE ... WHERE completed = 0. *)

(* Check, then write. *)
FaultyClaim(u) ==
    /\ entry' = [exists |-> TRUE, lock |-> None, fresh |-> FALSE,
                 completed |-> TRUE, by |-> u]
    /\ claimants' = claimants \cup {u}

Claim(u) ==
    /\ ~entry.completed
    /\ entry' = [exists |-> TRUE, lock |-> None, fresh |-> FALSE,
                 completed |-> TRUE, by |-> u]
    /\ claimants' = claimants \cup {u}

ReadNoActivity(u) ==
    /\ ~entry.completed
    /\ u \in Operators => ~Conflict(u)
    /\ Receive(u, "noActivity", NoEntry, NoFigure, NoFigure, FALSE)

WriteNoActivity(u) ==
    /\ request[u].op = "noActivity"
    /\ Claim(u)
    /\ Answer(u)
    /\ UNCHANGED <<figure, carried>>

(* The opening the screen shows for a period with no past. *)
ShownFirstOpening ==
    IF figure.source \in {"none", "derived", "reset_created"} THEN 0 ELSE figure.opening

(* Explicit anchors refreshed like any other row. *)
FaultyDecision(submitted, isCorrection) ==
    CASE carried = Nothing -> [source |-> "initial_manual", opening |-> submitted]
      [] carried # Nothing /\ isCorrection ->
            [source |-> "manual_correction", opening |-> submitted]
      [] OTHER -> [source |-> "derived", opening |-> carried]

(* upsert_daily_figure(): the row it decides to leave behind. *)
Decision(submitted, isCorrection) ==
    CASE carried = Nothing -> [source |-> "initial_manual", opening |-> submitted]
      [] carried # Nothing /\ isCorrection ->
            [source |-> "manual_correction", opening |-> submitted]
      [] carried # Nothing /\ ~isCorrection /\ figure.source \in Unconditional -> figure
      [] OTHER -> [source |-> "derived", opening |-> carried]

(* No opening required of a first-ever period. *)
FaultyReadSave(u, submitted, explicit, permitted, op) ==
    /\ op = "review" => u \in Elevated
    /\ u \in Operators => ~Conflict(u)
    /\ ReceiveForFigure(u, op, Decision(submitted, explicit /\ submitted # Nothing),
                        explicit)

(* `permitted`: the operators' can_edit_opening flag, as read right now. *)
ReadSave(u, submitted, explicit, permitted, op) ==
    LET isCorrection == explicit /\ submitted # Nothing /\ (u \in Elevated \/ permitted)
    IN  /\ op = "review" => u \in Elevated
        /\ u \in Operators =>
              /\ ~Conflict(u)
              /\ carried = Nothing /\ ~permitted => submitted = ShownFirstOpening
        /\ carried = Nothing => submitted # Nothing
        /\ ReceiveForFigure(u, op, Decision(submitted, isCorrection),
                            isCorrection \/ carried = Nothing)

(* An insert meets the unique constraint if a row has appeared since. *)
StoreFigure(u) ==
    LET r == request[u]
    IN  /\ r.figure = NoFigure => figure = NoFigure
        /\ figure' = IF r.figure = NoFigure THEN r.decided
                     ELSE Merge(r.figure, r.decided, figure)

(* The conflict swallowed after the figure was written. *)
FaultyOperatorSave(u) ==
    /\ u \in Operators /\ request[u].op = "save"
    /\ StoreFigure(u)
    /\ \/ Claim(u)
       \/ entry.completed /\ UNCHANGED <<entry, claimants>>
    /\ Answer(u)
    /\ UNCHANGED carried

WriteOperatorSave(u) ==
    /\ u \in Operators /\ request[u].op = "save"
    /\ StoreFigure(u)
    /\ Claim(u)
    /\ Answer(u)
    /\ UNCHANGED carried

(* An elevated save completes an open entry, unless made in review mode,   *)
(* and leaves the attribution of a completed one alone.                    *)
WriteElevatedSave(u) ==
    /\ u \in Elevated /\ request[u].op \in {"save", "review"}
    /\ StoreFigure(u)
    /\ IF request[u].op = "review" \/ entry.completed
       THEN UNCHANGED <<entry, claimants>>
       ELSE Claim(u)
    /\ Answer(u)
    /\ UNCHANGED carried

(* 409, or 500 on the unique constraint: everything is rolled back. *)
Refuse(u) ==
    /\ \/ request[u].op = "noActivity" /\ entry.completed
       \/ u \in Operators /\ request[u].op = "save" /\ entry.completed
       \/ /\ request[u].op \in {"save", "review"}
          /\ request[u].figure = NoFigure /\ figure # NoFigure
    /\ Answer(u)
    /\ UNCHANGED <<entry, figure, carried, claimants>>

-----------------------------------------------------------------------------
(* Reopening and resetting. *)

Reopened(u) ==
    /\ claimants' = IF entry'.completed THEN claimants ELSE {}
    /\ Answer(u)
    /\ UNCHANGED carried

ReadReopen(u) == u \in Elevated /\ entry.completed /\ ReceiveForEntry(u, "reopen")

WriteReopen(u) ==
    /\ request[u].op = "reopen"
    /\ entry' = Cleared(request[u].entry)
    /\ Reopened(u)
    /\ UNCHANGED figure

(* A status-only reset, or a full one of a period without a row. *)
ReadReset(u) == u \in Elevated /\ entry.exists /\ ReceiveForEntry(u, "reset")

WriteReset(u) ==
    /\ request[u].op = "reset"
    /\ entry' = Cleared(request[u].entry)
    /\ Reopened(u)
    /\ UNCHANGED figure

(* A Full Reset rewrites the row it has read, unless that was a cutover's; *)
(* the entry is read once the row is written, so nothing comes between.    *)
ReadFullReset(u) ==
    /\ u \in Elevated /\ figure.source \notin {"none", "ledger_cutover"}
    /\ ReceiveForFigure(u, "fullReset",
               [source |-> "reset_created",
                opening |-> IF carried = Nothing THEN 0 ELSE carried],
               FALSE)

WriteFullReset(u) ==
    /\ request[u].op = "fullReset"
    /\ StoreFigure(u)
    /\ entry' = Cleared(entry)
    /\ Reopened(u)

-----------------------------------------------------------------------------
(* What else moves the two rows' surroundings. *)

ActivateCutover(count) ==
    /\ WorkerFree
    /\ figure' = [source |-> "ledger_cutover", opening |-> count]
    /\ UNCHANGED <<entry, carried, request, claimants>>

BooksChange(balance) ==
    /\ WorkerFree
    /\ carried' = balance
    /\ UNCHANGED <<entry, figure, request, claimants>>

Next ==
    \/ \E u \in Users :
          \/ CreateLocked(u) \/ ReadLock(u) \/ WriteLock(u)
          \/ ReadRelease(u) \/ WriteRelease(u)
          \/ CreateTakenOver(u) \/ ReadTakeover(u) \/ WriteTakeover(u)
          \/ ReadNoActivity(u) \/ WriteNoActivity(u)
          \/ WriteOperatorSave(u) \/ WriteElevatedSave(u) \/ Refuse(u)
          \/ ReadReopen(u) \/ WriteReopen(u)
          \/ ReadReset(u) \/ WriteReset(u)
          \/ ReadFullReset(u) \/ WriteFullReset(u)
    \/ \E u \in Users, submitted \in Counts \cup {Nothing}, explicit \in BOOLEAN,
          permitted \in BOOLEAN, op \in {"save", "review"} :
          ReadSave(u, submitted, explicit, permitted, op)
    \/ LockExpires
    \/ \E count \in Counts : ActivateCutover(count)
    \/ \E balance \in Carried \cup {Nothing} : BooksChange(balance)

Spec == Init /\ [][Next]_vars

-----------------------------------------------------------------------------
(* Properties. *)

(* u's request commits its write (or is refused) in this step. *)
Ends(u, ops) == request[u].op \in ops /\ request'[u] = Idle

Saves == {"save", "review"}

(* Of all the users who were told that they completed the entry since it   *)
(* last opened there is one, the one every screen names, however requests  *)
(* and late reopenings overlap (claim_completion's compare-and-swap).      *)
OneClaimant ==
    /\ entry.completed <=> entry.by # None
    /\ claimants = IF entry.completed THEN {entry.by} ELSE {}

(* An operator's save changes the figure only together with a completion   *)
(* of his own: the loser of a race leaves no figure behind (the upsert     *)
(* route's rollback).                                                      *)
OperatorWritesOnlyWhatHeCompletes ==
    [][\A u \in Operators :
          Ends(u, {"save"}) /\ figure' # figure
              => claimants = {} /\ entry'.completed /\ entry'.by = u]_vars

(* Elevated users go on correcting a completed entry, and late locks and   *)
(* takeovers still land on it, but the name it was completed under stays   *)
(* until an elevated user who asked for it opens it.                       *)
CompletionKeepsItsAuthor ==
    [][entry.completed =>
          \/ entry'.completed /\ entry'.by = entry.by
          \/ ~entry'.completed
             /\ \E u \in Elevated : Ends(u, {"reopen", "reset", "fullReset"})]_vars

(* A routine save that found an unconditional anchor (a correction, a      *)
(* migrated opening or a cutover) leaves the stored opening alone, whoever *)
(* saves it with whatever stale opening, even if other requests replaced   *)
(* that anchor between its read and its write.  A routine save that found  *)
(* none can still write over one set in between (README, Known             *)
(* disagreements).                                                         *)
FoundAnchorIsKept ==
    [][\A u \in Users :
          /\ Ends(u, Saves) /\ ~request[u].gives
          /\ request[u].figure.source \in Unconditional
          => figure' = figure]_vars
=============================================================================
