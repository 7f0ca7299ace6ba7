-------------------------- MODULE CorrectionRequests --------------------------
(***************************************************************************)
(* An operator's way to a record he may no longer edit himself             *)
(* (services/correction_request_service.py, routes/correction_requests.py, *)
(* the correct() handlers of the source books): he asks, a reviewer        *)
(* approves or rejects, and an approval is a grant for one correction      *)
(* within a window of time.  SourceRecords models what a correction does   *)
(* to the record.                                                          *)
(*                                                                         *)
(* Rows are read outside a transaction, so a handler is a read and a       *)
(* write; the two statements that name the status they expect, consuming   *)
(* and expiring a grant, decide on the row as it is when they run.         *)
(* The end of a window may fall between the two.                           *)
(*                                                                         *)
(* A definition named Faulty... stands in for the one below it when the    *)
(* properties are tested against a plausible mistake; nothing uses it.     *)
(***************************************************************************)
EXTENDS Naturals

CONSTANTS
    Workers,    \* requests that may be served at once
    Operators,
    RequestIds,
    MaxEntries, \* bound on the records ever entered under the row id
    MaxTime,    \* bound on the clock
    Window      \* OPERATOR_EDIT_WINDOW and GRANT_WINDOW, in ticks

ASSUME BoundsAssumption == MaxEntries \in Nat /\ MaxTime \in Nat
ASSUME WindowAssumption == Window \in Nat \ {0}

Times == 0 .. MaxTime
RequestStatuses == {"pending", "approved", "rejected", "completed", "expired"}

(* The records that one row id has stood for, in turn: SQLite gives the id *)
(* of a deleted last row to the next.                                      *)
Row == [owner : Operators, born : Times, void : BOOLEAN]
NoRow == [void |-> FALSE]

(* entry: (history) which of those records the request was made for. *)
Request == [status : RequestStatuses, by : Operators, since : Times, entry : 0 .. MaxEntries]
NoRequest == [status |-> "none"]

(* late: another request has committed since the read. *)
Work == [op : {"create", "approved", "rejected", "use", "expire"},
         q : RequestIds, by : Operators, late : BOOLEAN]
Idle == [op |-> "none"]

VARIABLES
    row,      \* the record under the row id
    entry,    \* how many records the id has stood for
    requests, \* the table correction_requests
    work,     \* what each worker has read and is about to write
    clock,
    approvals, uses  \* (history) how often a request was approved, used

vars == <<row, entry, requests, work, clock, approvals, uses>>

TypeOK ==
    /\ row \in Row \cup {NoRow}
    /\ entry \in 0 .. MaxEntries
    /\ requests \in [RequestIds -> Request \cup {NoRequest}]
    /\ work \in [Workers -> Work \cup {Idle}]
    /\ clock \in Times
    /\ approvals \in [RequestIds -> Nat] /\ uses \in [RequestIds -> Nat]

Init ==
    /\ row = NoRow
    /\ entry = 0
    /\ requests = [q \in RequestIds |-> NoRequest]
    /\ work = [w \in Workers |-> Idle]
    /\ clock = 0
    /\ approvals = [q \in RequestIds |-> 0]
    /\ uses = [q \in RequestIds |-> 0]

-----------------------------------------------------------------------------
(* The record. *)

Tick ==
    /\ clock < MaxTime
    /\ clock' = clock + 1
    /\ UNCHANGED <<row, entry, requests, work, approvals, uses>>

(* The end of the window kept for its start. *)
FaultyEnter(o) ==
    /\ row = NoRow /\ entry < MaxEntries
    /\ row' = [owner |-> o, born |-> clock + Window, void |-> FALSE]
    /\ entry' = entry + 1
    /\ UNCHANGED <<requests, work, clock, approvals, uses>>

(* A record entered, voided by its owner or a manager, deleted by a        *)
(* manager: deleting leaves its requests behind.                           *)
Enter(o) ==
    /\ row = NoRow /\ entry < MaxEntries
    /\ row' = [owner |-> o, born |-> clock, void |-> FALSE]
    /\ entry' = entry + 1
    /\ UNCHANGED <<requests, work, clock, approvals, uses>>
VoidRecord ==
    /\ row # NoRow /\ ~row.void
    /\ row' = [row EXCEPT !.void = TRUE]
    /\ UNCHANGED <<entry, requests, work, clock, approvals, uses>>
DeleteRecord ==
    /\ row # NoRow
    /\ row' = NoRow
    /\ UNCHANGED <<entry, requests, work, clock, approvals, uses>>

(* operator_can_directly_edit() *)
CanDirectlyEdit(o) == row.owner = o /\ ~row.void /\ clock < row.born + Window

-----------------------------------------------------------------------------
(* Requests and grants. *)

Mine(q, o) == requests[q] # NoRequest /\ requests[q].by = o

(* expire_if_needed(): approved, and its window over. *)
Lapsed(q) == requests[q].status = "approved" /\ clock >= requests[q].since + Window

Active(q, o) == Mine(q, o) /\ (requests[q].status = "pending"
                                \/ (requests[q].status = "approved" /\ ~Lapsed(q)))

Begin(w, op, q, o) ==
    /\ work[w] = Idle
    /\ work' = [work EXCEPT ![w] = [op |-> op, q |-> q, by |-> o, late |-> FALSE]]
    /\ UNCHANGED <<row, entry, requests, clock, approvals, uses>>

(* POST correction-requests: his own record, out of his own reach, and no  *)
(* request of his active for it.                                           *)
ReadCreate(w, q, o) ==
    /\ row # NoRow /\ row.owner = o /\ ~CanDirectlyEdit(o)
    /\ \A p \in RequestIds : ~Active(p, o)
    /\ requests[q] = NoRequest
    /\ Begin(w, "create", q, o)

(* approve_request(), reject_request() *)
ReadReview(w, decision, q) ==
    /\ requests[q].status = "pending"
    /\ Begin(w, decision, q, requests[q].by)

(* get_active_grant(), in a correct() handler. *)
ReadGrant(w, q, o) ==
    /\ row # NoRow /\ ~CanDirectlyEdit(o)
    /\ Mine(q, o) /\ requests[q].status = "approved" /\ ~Lapsed(q)
    /\ Begin(w, "use", q, o)

(* list_requests(), grant_status(): a sweep on the way. *)
ReadLapsed(w, q) ==
    /\ Lapsed(q)
    /\ Begin(w, "expire", q, requests[q].by)

(* The commit of w: every other request under way is late now. *)
Commit(w) ==
    /\ work' = [v \in Workers |->
                   IF v = w \/ work[v] = Idle THEN Idle ELSE [work[v] EXCEPT !.late = TRUE]]
    /\ UNCHANGED <<row, entry, clock>>

(* create_request(): lapsed grants of his are expired with it. *)
WriteCreate(w) ==
    /\ work[w].op = "create" /\ requests[work[w].q] = NoRequest
    /\ requests' = [q \in RequestIds |->
           IF q = work[w].q
           THEN [status |-> "pending", by |-> work[w].by, since |-> clock, entry |-> entry]
           ELSE IF Mine(q, work[w].by) /\ Lapsed(q) THEN [requests[q] EXCEPT !.status = "expired"]
           ELSE requests[q]]
    /\ Commit(w)
    /\ UNCHANGED <<approvals, uses>>

(* The decision is written whatever became of the request meanwhile. *)
WriteReview(w) ==
    /\ work[w].op \in {"approved", "rejected"}
    /\ requests' = [requests EXCEPT ![work[w].q].status = work[w].op, ![work[w].q].since = clock]
    /\ approvals' = [approvals EXCEPT ![work[w].q] = @ + (IF work[w].op = "approved" THEN 1 ELSE 0)]
    /\ Commit(w)
    /\ UNCHANGED uses

(* The grant consumed as it was read. *)
FaultyUseGrant(w) ==
    /\ work[w].op = "use"
    /\ requests' = [requests EXCEPT ![work[w].q].status = "completed"]
    /\ uses' = [uses EXCEPT ![work[w].q] = @ + 1]
    /\ Commit(w)
    /\ UNCHANGED approvals

(* consume_grant() and then the correction, in one transaction. *)
UseGrant(w) ==
    /\ work[w].op = "use" /\ requests[work[w].q].status = "approved"
    /\ requests' = [requests EXCEPT ![work[w].q].status = "completed"]
    /\ uses' = [uses EXCEPT ![work[w].q] = @ + 1]
    /\ Commit(w)
    /\ UNCHANGED approvals

(* The sweep writes over whatever it finds. *)
FaultyWriteExpired(w) ==
    /\ work[w].op = "expire"
    /\ requests' = [requests EXCEPT ![work[w].q].status = "expired"]
    /\ Commit(w)
    /\ UNCHANGED <<approvals, uses>>

WriteExpired(w) ==
    /\ work[w].op = "expire" /\ requests[work[w].q].status = "approved"
    /\ requests' = [requests EXCEPT ![work[w].q].status = "expired"]
    /\ Commit(w)
    /\ UNCHANGED <<approvals, uses>>

(* A refusal after the read: a short reason, a correction that does not    *)
(* hold, a grant gone.  The transaction is rolled back, the grant with it. *)
Refuse(w) ==
    /\ work[w] # Idle
    /\ work' = [work EXCEPT ![w] = Idle]
    /\ UNCHANGED <<row, entry, requests, clock, approvals, uses>>

Next ==
    \/ Tick \/ VoidRecord \/ DeleteRecord
    \/ \E o \in Operators : Enter(o)
    \/ \E w \in Workers :
          \/ \E q \in RequestIds :
                \/ \E o \in Operators : ReadCreate(w, q, o) \/ ReadGrant(w, q, o)
                \/ \E decision \in {"approved", "rejected"} : ReadReview(w, decision, q)
                \/ ReadLapsed(w, q)
          \/ WriteCreate(w) \/ WriteReview(w) \/ UseGrant(w) \/ WriteExpired(w) \/ Refuse(w)

Spec == Init /\ [][Next]_vars

-----------------------------------------------------------------------------
(* Properties. *)

(* A request opens its record for no more corrections than it was approved *)
(* times: of a double click, a retry and a concurrent submission only one  *)
(* gets through (consume_grant()).                                         *)
OneCorrectionPerApproval == \A q \in RequestIds : uses[q] <= approvals[q]

(* A request that is settled, used, lapsed or rejected, is opened again or *)
(* settled otherwise only by a reviewer who had read it while pending; the *)
(* sweep and a correction never undo each other (expire_if_needed(),       *)
(* consume_grant()).                                                       *)
SettledStaysSettled ==
    [][\A q \in RequestIds :
          /\ requests[q].status \in {"completed", "expired", "rejected"}
          /\ requests'[q] # requests[q]
          => \E w \in Workers : work[w].op \in {"approved", "rejected"} /\ work[w].q = q
                                /\ work[w].late /\ work'[w] = Idle]_vars

(* A grant is for the record it was asked for: whoever uses it corrects    *)
(* that record and no other ("a one-time, record-specific" grant "for this *)
(* exact record").                                                         *)
GrantIsForItsRecord ==
    [][\A q \in RequestIds : uses'[q] > uses[q] => requests[q].entry = entry]_vars
===============================================================================
