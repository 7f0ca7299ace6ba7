---------------------------- MODULE SourceRecords ----------------------------
(***************************************************************************)
(* The records of the three source books, Dispatch, Returns and Production *)
(* (services/dispatch_service.py, returns_service.py,                      *)
(* production_service.py, record_correction_service.py and their routes):  *)
(* draft, finalized, reopened, voided, corrected in place and deleted, and *)
(* the usage ranking kept beside them (product_usage_service.py).  Only a  *)
(* finalized record moves stock; StockLedger models that side.             *)
(*                                                                         *)
(* A handler loads its record and checks it outside a transaction; its     *)
(* first write takes the database's write lock, and it then writes only    *)
(* the columns it changed.  So each handler is two actions, a read and a   *)
(* write, and the write sees the row it had read.  A handler may also be   *)
(* refused after its read (a line that does not convert, a missing reason, *)
(* a record gone).                                                         *)
(*                                                                         *)
(* A definition named Faulty... stands in for the one below it when the    *)
(* properties are tested against a plausible mistake; nothing uses it.     *)
(***************************************************************************)
EXTENDS Naturals, FiniteSets

CONSTANTS
    Workers,    \* requests that may be served at once
    RecordIds,  \* row ids; SQLite hands the id of a deleted last row out again
    Kinds,      \* the books in use, of the three
    Operators,  \* users who may touch only what they entered
    Managers,   \* users who may touch anything
    Products,
    Keys,       \* dispatch numbers, or (recipient, date) of returns
    MaxWrites,  \* bound on the writes of a behaviour
    Nothing     \* no key: production, or a return without a recipient

ASSUME KindsAssumption == Kinds \subseteq {"dispatch", "returns", "production"}
ASSUME UsersAssumption == Operators \cap Managers = {}
ASSUME BoundAssumption == MaxWrites \in Nat
ASSUME NothingAssumption == Nothing \notin Keys

Users == Operators \cup Managers
Statuses == {"draft", "finalized", "void"}

(* stamps: which of finalized_by and voided_by are set; override: the      *)
(* number repeats another one by a super administrator's leave.            *)
Record == [kind : Kinds, status : Statuses, key : Keys \cup {Nothing},
           override : BOOLEAN, owner : Users,
           stamps : SUBSET {"finalized", "voided"}, lines : SUBSET Products]
NoRecord == [status |-> "none"]

Ops == {"create", "header", "lines", "addLine", "changeLine", "removeLine",
        "finalize", "reopen", "void", "delete", "correct"}

(* row: what was read, or what is to be inserted; late: another request    *)
(* has written since.                                                      *)
Work == [op : Ops, rec : RecordIds, row : Record, key : Keys \cup {Nothing},
         lines : SUBSET Products, late : BOOLEAN]
Idle == [op |-> "none"]

VARIABLES
    records,  \* the tables, by row id
    usage,    \* product_usage_events of a record: a set of products
    work,     \* what each worker has read and is about to write
    tangled,  \* (history) rows some late request has written
    writes    \* number of writes so far

vars == <<records, usage, work, tangled, writes>>

TypeOK ==
    /\ records \in [RecordIds -> Record \cup {NoRecord}]
    /\ usage \in [RecordIds -> SUBSET Products]
    /\ work \in [Workers -> Work \cup {Idle}]
    /\ tangled \subseteq RecordIds
    /\ writes \in Nat

Init ==
    /\ records = [r \in RecordIds |-> NoRecord]
    /\ usage = [r \in RecordIds |-> {}]
    /\ work = [w \in Workers |-> Idle]
    /\ tangled = {}
    /\ writes = 0

-----------------------------------------------------------------------------
(* Checks. *)

Exists(r) == records[r] # NoRecord
IsA(r, kind) == Exists(r) /\ records[r].kind = kind

(* The key check, of drafts alone. *)
FaultyTaken(kind, key, except) ==
    /\ key # Nothing
    /\ \E r \in RecordIds \ except :
          records[r].status = "draft" /\ records[r].kind = kind /\ records[r].key = key

(* find_duplicate_number(), _find_active_duplicate_return(). *)
Taken(kind, key, except) ==
    /\ key # Nothing
    /\ \E r \in RecordIds \ except :
          Exists(r) /\ records[r].status # "void" /\ records[r].kind = kind /\ records[r].key = key

(* can_edit() *)
CanEdit(user, row) == user \in Managers \/ (row.status = "draft" /\ row.owner = user)

Owns(user, row) == user \in Managers \/ row.owner = user

(* operator_can_directly_edit() within its 24 hours, or else a grant. *)
CanCorrect(user, row, granted) == user \in Managers \/ (row.owner = user /\ row.status # "void") \/ granted

-----------------------------------------------------------------------------
(* Reads. *)

Busy == {w \in Workers : work[w] # Idle}

(* No more requests are begun than the bound lets write. *)
Begin(w, op, r, row, key, lines) ==
    /\ work[w] = Idle
    /\ writes + Cardinality(Busy) < MaxWrites
    /\ work' = [work EXCEPT ![w] = [op |-> op, rec |-> r, row |-> row, key |-> key,
                                    lines |-> lines, late |-> FALSE]]
    /\ UNCHANGED <<records, usage, tangled, writes>>

(* A draft as create_dispatch(), duplicate_dispatch(), create_return() and *)
(* create_production() insert it.                                          *)
Draft(kind, key, override, owner, lines) ==
    [kind |-> kind, status |-> "draft", key |-> key, override |-> override,
     owner |-> owner, stamps |-> {}, lines |-> lines]
NewDispatch(key, override, owner, lines) == Draft("dispatch", key, override, owner, lines)
NewReturn(key, owner, lines) == Draft("returns", key, FALSE, owner, lines)
NewProduction(owner, lines) == Draft("production", Nothing, FALSE, owner, lines)

(* The id is the next free one, or that of a deleted last row. *)
ReadCreate(w, r, row) ==
    /\ ~Exists(r) /\ row.kind \in Kinds
    /\ Begin(w, "create", r, row, row.key, row.lines)

CreateDispatch(w, r, key, lines, user) ==
    /\ key # Nothing /\ lines # {}
    /\ Taken("dispatch", key, {}) => user \in Managers
    /\ ReadCreate(w, r, NewDispatch(key, Taken("dispatch", key, {}), user, lines))

(* The lines are copied under the write lock: whatever the source then     *)
(* has, and none if it has been deleted.                                   *)
DuplicateDispatch(w, r, key, lines, user) ==
    /\ \E source \in RecordIds : IsA(source, "dispatch")
    /\ key # Nothing /\ ~Taken("dispatch", key, {})
    /\ ReadCreate(w, r, NewDispatch(key, FALSE, user, lines))

CreateReturn(w, r, key, lines, user) ==
    /\ lines # {} /\ ~Taken("returns", key, {})
    /\ ReadCreate(w, r, NewReturn(key, user, lines))

CreateProduction(w, r, lines, user) ==
    /\ lines # {}
    /\ ReadCreate(w, r, NewProduction(user, lines))

(* PATCH of a draft's header. *)
ReadHeader(w, r, key, user) ==
    /\ records[r].status = "draft" /\ CanEdit(user, records[r])
    /\ Begin(w, "header", r, records[r], key, records[r].lines)

(* The recipient, the date and the notes; never the number. *)
UpdateDispatch(w, r, user) == IsA(r, "dispatch") /\ ReadHeader(w, r, records[r].key, user)
UpdateReturn(w, r, key, user) ==
    IsA(r, "returns") /\ ~Taken("returns", key, {r}) /\ ReadHeader(w, r, key, user)
UpdateProduction(w, r, user) == IsA(r, "production") /\ ReadHeader(w, r, Nothing, user)

ReadLines(w, op, r, lines, user) ==
    /\ records[r].status = "draft" /\ CanEdit(user, records[r])
    /\ Begin(w, op, r, records[r], records[r].key, lines)

(* PUT lines: all of them are replaced. *)
ReplaceDispatchLines(w, r, lines, user) ==
    IsA(r, "dispatch") /\ lines # {} /\ ReadLines(w, "lines", r, lines, user)

(* POST, PATCH and DELETE of one line.  PATCH may change its product; a    *)
(* record keeps at least one line.                                         *)
ReadAddLine(w, r, p, user) == ReadLines(w, "addLine", r, {p}, user)
ReadChangeLine(w, r, p, q, user) ==
    p \in records[r].lines /\ ReadLines(w, "changeLine", r, (records[r].lines \ {p}) \cup {q}, user)
ReadRemoveLine(w, r, p, user) ==
    /\ p \in records[r].lines /\ records[r].lines # {p}
    /\ ReadLines(w, "removeLine", r, {p}, user)

AddDispatchLine(w, r, p, user) == IsA(r, "dispatch") /\ ReadAddLine(w, r, p, user)
AddReturnLine(w, r, p, user) == IsA(r, "returns") /\ ReadAddLine(w, r, p, user)
AddProductionLine(w, r, p, user) == IsA(r, "production") /\ ReadAddLine(w, r, p, user)
UpdateDispatchLine(w, r, p, q, user) == IsA(r, "dispatch") /\ ReadChangeLine(w, r, p, q, user)
UpdateReturnLine(w, r, p, q, user) == IsA(r, "returns") /\ ReadChangeLine(w, r, p, q, user)
UpdateProductionLine(w, r, p, q, user) == IsA(r, "production") /\ ReadChangeLine(w, r, p, q, user)
RemoveDispatchLine(w, r, p, user) == IsA(r, "dispatch") /\ ReadRemoveLine(w, r, p, user)
RemoveReturnLine(w, r, p, user) == IsA(r, "returns") /\ ReadRemoveLine(w, r, p, user)
RemoveProductionLine(w, r, p, user) == IsA(r, "production") /\ ReadRemoveLine(w, r, p, user)

ReadFinalize(w, r, user) ==
    /\ CanEdit(user, records[r]) /\ records[r].status = "draft" /\ records[r].lines # {}
    /\ Begin(w, "finalize", r, records[r], records[r].key, records[r].lines)

FinalizeDispatch(w, r, user) == IsA(r, "dispatch") /\ ReadFinalize(w, r, user)
(* finalize_return(): only with a recipient. *)
FinalizeReturn(w, r, user) ==
    IsA(r, "returns") /\ records[r].key # Nothing /\ ReadFinalize(w, r, user)
FinalizeProduction(w, r, user) == IsA(r, "production") /\ ReadFinalize(w, r, user)

ReadReopen(w, r, user) ==
    /\ user \in Managers /\ records[r].status = "finalized"
    /\ Begin(w, "reopen", r, records[r], records[r].key, records[r].lines)

ReopenDispatch(w, r, user) == IsA(r, "dispatch") /\ ReadReopen(w, r, user)
ReopenReturn(w, r, user) == IsA(r, "returns") /\ ReadReopen(w, r, user)
ReopenProduction(w, r, user) == IsA(r, "production") /\ ReadReopen(w, r, user)

ReadVoid(w, r, user) ==
    /\ Owns(user, records[r]) /\ records[r].status # "void"
    /\ Begin(w, "void", r, records[r], records[r].key, records[r].lines)

VoidDispatch(w, r, user) == IsA(r, "dispatch") /\ ReadVoid(w, r, user)
VoidReturn(w, r, user) == IsA(r, "returns") /\ ReadVoid(w, r, user)
VoidProduction(w, r, user) == IsA(r, "production") /\ ReadVoid(w, r, user)

ReadDelete(w, r, user) ==
    /\ user \in Managers
    /\ Begin(w, "delete", r, records[r], records[r].key, records[r].lines)

DeleteDispatch(w, r, user) == IsA(r, "dispatch") /\ ReadDelete(w, r, user)
DeleteReturn(w, r, user) == IsA(r, "returns") /\ ReadDelete(w, r, user)
DeleteProduction(w, r, user) == IsA(r, "production") /\ ReadDelete(w, r, user)

(* POST correct; a voided record only on a grant.  The caller may say      *)
(* which version he reviewed, which only refuses more.                     *)
ReadCorrect(w, r, key, lines, user, granted) ==
    /\ lines # {} /\ CanCorrect(user, records[r], granted)
    /\ records[r].status = "void" => granted
    /\ Begin(w, "correct", r, records[r], key, lines)

CorrectDispatch(w, r, lines, user, granted) ==
    IsA(r, "dispatch") /\ ReadCorrect(w, r, records[r].key, lines, user, granted)
CorrectReturn(w, r, key, lines, user, granted) ==
    /\ IsA(r, "returns")
    /\ records[r].status = "finalized" => key # Nothing
    /\ records[r].status = "draft" => ~Taken("returns", key, {r})
    /\ ReadCorrect(w, r, key, lines, user, granted)
CorrectProduction(w, r, lines, user, granted) ==
    IsA(r, "production") /\ ReadCorrect(w, r, Nothing, lines, user, granted)

-----------------------------------------------------------------------------
(* Writes. *)

(* The row as the worker leaves it: the columns it changed, over whatever  *)
(* is stored by now.                                                       *)
Finalized(row) == [row EXCEPT !.status = "finalized", !.stamps = @ \cup {"finalized"}]
Reopened(row) == [row EXCEPT !.status = "draft", !.stamps = @ \ {"finalized"}]
Voided(row) == [row EXCEPT !.status = "void", !.stamps = @ \cup {"voided"}]
(* The lines read and not wanted are deleted, the new ones inserted. *)
WithLines(row, read, lines) == [row EXCEPT !.lines = (@ \ (read \ lines)) \cup (lines \ read)]
(* The key is assigned even when it is the one that was read. *)
WithKey(row, read, key) == IF key = read THEN row ELSE [row EXCEPT !.key = key]

(* A correction that leaves a voided record finalized. *)
FaultyCorrected(row, read, key, lines) ==
    LET amended == WithKey(WithLines(row, read.lines, lines), read.key, key)
    IN  IF read.status = "draft" THEN amended
        ELSE [amended EXCEPT !.status = "finalized", !.stamps = {"finalized"}]

(* correct_record(): reopened, amended and finalized again, or drafted,    *)
(* amended and voided again; either way the status is written.             *)
Corrected(row, read, key, lines) ==
    LET amended == WithKey(WithLines(row, read.lines, lines), read.key, key)
    IN  CASE read.status = "draft" -> amended
          [] read.status = "finalized" -> Finalized(amended)
          [] read.status = "void" -> [amended EXCEPT !.status = "void"]

Written(row, job) ==
    CASE job.op = "create" -> job.row
      [] job.op = "header" -> WithKey(row, job.row.key, job.key)
      [] job.op = "lines" -> [row EXCEPT !.lines = (@ \ job.row.lines) \cup job.lines]
      [] job.op = "addLine" -> [row EXCEPT !.lines = @ \cup job.lines]
      [] job.op = "changeLine" -> WithLines(row, job.row.lines, job.lines)
      [] job.op = "removeLine" -> [row EXCEPT !.lines = @ \ job.lines]
      [] job.op = "finalize" -> Finalized(row)
      [] job.op = "reopen" -> Reopened(row)
      [] job.op = "void" -> Voided(row)
      [] job.op = "delete" -> NoRecord
      [] job.op = "correct" -> Corrected(row, job.row, job.key, job.lines)

(* Only the products new to the record are ranked. *)
FaultyRanked(old, job) ==
    CASE job.op = "finalize" -> job.lines
      [] job.op = "correct" -> job.lines \ old
      [] job.op \in {"void", "delete"} -> {}
      [] OTHER -> old

(* record_usage(), remove_usage() *)
Ranked(old, job) ==
    CASE job.op \in {"finalize", "correct"} -> job.lines
      [] job.op \in {"void", "delete"} -> {}
      [] OTHER -> old

(* A return corrected from finalized or void has written its status before *)
(* its key is checked; that check comes under the write lock.              *)
LateKeyCheck(job) ==
    job.op = "correct" /\ job.row.kind = "returns" /\ job.row.status # "draft"
      => ~Taken("returns", job.key, {job.rec})

(* An UPDATE of a line that is gone fails. *)
LineStillThere(job) ==
    job.op = "changeLine" => job.row.lines \ job.lines \subseteq records[job.rec].lines

(* An insert is never late: it decides on keys alone, which late also      *)
(* covers.                                                                 *)
Write(w) ==
    LET job == work[w]
        r == job.rec
    IN  /\ job # Idle
        /\ IF job.op = "create" THEN ~Exists(r) ELSE Exists(r)
        /\ LateKeyCheck(job) /\ LineStillThere(job)
        /\ records' = [records EXCEPT ![r] = Written(@, job)]
        /\ usage' = [usage EXCEPT ![r] = Ranked(@, job)]
        /\ work' = [v \in Workers |->
                       IF v = w \/ work[v] = Idle THEN Idle
                       ELSE [work[v] EXCEPT !.late = TRUE]]
        /\ tangled' = IF job.op = "delete" THEN tangled \ {r}
                      ELSE IF job.late THEN tangled \cup {r} ELSE tangled
        /\ writes' = writes + 1

(* A refusal after the read: the transaction is rolled back. *)
Refuse(w) ==
    /\ work[w] # Idle
    /\ work' = [work EXCEPT ![w] = Idle]
    /\ UNCHANGED <<records, usage, tangled, writes>>

DispatchRequest(w, r, user) ==
    \/ \E key \in Keys, lines \in SUBSET Products : CreateDispatch(w, r, key, lines, user)
    \/ \E key \in Keys, lines \in SUBSET Products : DuplicateDispatch(w, r, key, lines, user)
    \/ UpdateDispatch(w, r, user)
    \/ \E lines \in SUBSET Products : ReplaceDispatchLines(w, r, lines, user)
    \/ \E p \in Products : AddDispatchLine(w, r, p, user) \/ RemoveDispatchLine(w, r, p, user)
    \/ \E p, q \in Products : UpdateDispatchLine(w, r, p, q, user)
    \/ FinalizeDispatch(w, r, user) \/ ReopenDispatch(w, r, user)
    \/ VoidDispatch(w, r, user) \/ DeleteDispatch(w, r, user)
    \/ \E lines \in SUBSET Products, granted \in BOOLEAN : CorrectDispatch(w, r, lines, user, granted)

ReturnRequest(w, r, user) ==
    \/ \E key \in Keys \cup {Nothing}, lines \in SUBSET Products : CreateReturn(w, r, key, lines, user)
    \/ \E key \in Keys \cup {Nothing} : UpdateReturn(w, r, key, user)
    \/ \E p \in Products : AddReturnLine(w, r, p, user) \/ RemoveReturnLine(w, r, p, user)
    \/ \E p, q \in Products : UpdateReturnLine(w, r, p, q, user)
    \/ FinalizeReturn(w, r, user) \/ ReopenReturn(w, r, user)
    \/ VoidReturn(w, r, user) \/ DeleteReturn(w, r, user)
    \/ \E key \in Keys \cup {Nothing}, lines \in SUBSET Products, granted \in BOOLEAN :
          CorrectReturn(w, r, key, lines, user, granted)

ProductionRequest(w, r, user) ==
    \/ \E lines \in SUBSET Products : CreateProduction(w, r, lines, user)
    \/ UpdateProduction(w, r, user)
    \/ \E p \in Products : AddProductionLine(w, r, p, user) \/ RemoveProductionLine(w, r, p, user)
    \/ \E p, q \in Products : UpdateProductionLine(w, r, p, q, user)
    \/ FinalizeProduction(w, r, user) \/ ReopenProduction(w, r, user)
    \/ VoidProduction(w, r, user) \/ DeleteProduction(w, r, user)
    \/ \E lines \in SUBSET Products, granted \in BOOLEAN : CorrectProduction(w, r, lines, user, granted)

Next ==
    \E w \in Workers :
        \/ \E r \in RecordIds, user \in Users :
              DispatchRequest(w, r, user) \/ ReturnRequest(w, r, user) \/ ProductionRequest(w, r, user)
        \/ Write(w) \/ Refuse(w)

Spec == Init /\ [][Next]_vars

-----------------------------------------------------------------------------
(* Properties. *)

(* As long as no request wrote a record late, whatever chain of finalize,  *)
(* reopen, edit, correct and void it went through, its stamps tell its     *)
(* status, and once finalized it has lines and ranks exactly the products  *)
(* on them: the parts of a record that separate calls maintain agree       *)
(* (finalize_*(), reopen_*(), correct_record(), record_usage()).           *)
UntangledRecordsAgree ==
    \A r \in RecordIds \ tangled :
        Exists(r) =>
            /\ records[r].status = "finalized" =>
                  /\ records[r].stamps = {"finalized"}
                  /\ records[r].lines # {} /\ usage[r] = records[r].lines
            /\ records[r].status = "void" <=> "voided" \in records[r].stamps
            /\ records[r].status = "draft" => records[r].stamps = {}

(* Two live records share a number, or a recipient and date, only by an    *)
(* override or because one of them was written by a request overtaken      *)
(* since its check (find_duplicate_number(),                               *)
(* _find_active_duplicate_return()).                                       *)
KeysClashOnlyByOvertaking ==
    \A r, s \in RecordIds :
        /\ r # s /\ Exists(r) /\ Exists(s)
        /\ records[r].kind = records[s].kind
        /\ records[r].key = records[s].key /\ records[r].key # Nothing
        /\ records[r].status # "void" /\ records[s].status # "void"
        => records[r].override \/ records[s].override \/ r \in tangled \/ s \in tangled

(* A voided record counts again only when a request that had read it       *)
(* before the void writes after it: no correction, granted or not, revives *)
(* it by itself (correct_record(), "must NEVER unvoid it").                *)
VoidIsFinal ==
    [][\A r \in RecordIds :
          records[r].status = "void" /\ records'[r].status \in {"draft", "finalized"}
          => \E w \in Workers : work[w] # Idle /\ work'[w] = Idle
                                /\ work[w].rec = r /\ work[w].row.status # "void"]_vars
=============================================================================
