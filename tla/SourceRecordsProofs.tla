-------------------------- MODULE SourceRecordsProofs --------------------------
(***************************************************************************)
(* Theorems about SourceRecords for any number of requests, records and    *)
(* keys and for lives of any length.                                       *)
(***************************************************************************)
EXTENDS SourceRecords, TLAPS

(* What the checks of a handler have seen to, by its operation. *)
Sane(op, row, lines) ==
    /\ op = "create" => row.status = "draft" /\ row.stamps = {}
    /\ op \in {"header", "lines", "addLine", "changeLine", "removeLine", "finalize"}
          => row.status = "draft"
    /\ op = "reopen" => row.status = "finalized"
    /\ op = "void" => row.status # "void"
    /\ op = "finalize" => lines # {} /\ lines = row.lines
    /\ op = "correct" => lines # {}

(* The key it will write is none, is the one already there, was free when  *)
(* it looked, or is checked again under the write lock.                    *)
KeyFree(op, r, row, key) ==
    /\ op = "create" => row.key = Nothing \/ row.override \/ ~Taken(row.kind, row.key, {})
    /\ op \in {"header", "correct"} =>
          \/ key \in {row.key, Nothing}
          \/ row.kind = "returns" /\ ~Taken("returns", key, {r})
          \/ row.kind = "returns" /\ op = "correct" /\ row.status # "draft"

(* A job that nothing has overtaken still sees the row it read. *)
Current(job) ==
    /\ job.op # "create" => records[job.rec] = job.row
    /\ KeyFree(job.op, job.rec, job.row, job.key)

WorkSane == \A w \in Workers : work[w] # Idle => Sane(work[w].op, work[w].row, work[w].lines)
WorkCurrent == \A w \in Workers : work[w] # Idle /\ ~work[w].late => Current(work[w])

-----------------------------------------------------------------------------
(* Every request that is accepted begins a job of the same shape. *)

Proper(w, op, r, row, key, lines) ==
    /\ Begin(w, op, r, row, key, lines)
    /\ op # "create" => row = records[r]
    /\ Sane(op, row, lines)
    /\ KeyFree(op, r, row, key)

Requested(w, r) ==
    \E op \in Ops, row \in Record, key \in Keys \cup {Nothing}, lines \in SUBSET Products :
        Proper(w, op, r, row, key, lines)

(* A row that is there is a record. *)
LEMMA StoredRow ==
  ASSUME TypeOK, NEW r \in RecordIds, Exists(r)
  PROVE  /\ records[r] \in Record
         /\ records[r].key \in Keys \cup {Nothing}
         /\ records[r].lines \in SUBSET Products
<1>1. records[r] \in Record  BY DEF TypeOK, Exists
<1> QED  BY <1>1 DEF Record

(* A draft that a handler makes up is a record. *)
LEMMA DraftRow ==
  ASSUME NEW kind \in Kinds, NEW key \in Keys \cup {Nothing}, NEW override \in BOOLEAN,
         NEW owner \in Users, NEW lines \in SUBSET Products
  PROVE  /\ Draft(kind, key, override, owner, lines) \in Record
         /\ Draft(kind, key, override, owner, lines).status = "draft"
         /\ Draft(kind, key, override, owner, lines).stamps = {}
         /\ Draft(kind, key, override, owner, lines).kind = kind
         /\ Draft(kind, key, override, owner, lines).key = key
         /\ Draft(kind, key, override, owner, lines).override = override
         /\ Draft(kind, key, override, owner, lines).lines = lines
BY DEF Draft, Record, Statuses

(* An insert whose key is free, or overridden, is a proper job. *)
LEMMA CreateRequested ==
  ASSUME NEW w \in Workers, NEW r \in RecordIds, NEW kind, NEW key \in Keys \cup {Nothing},
         NEW override \in BOOLEAN, NEW owner \in Users, NEW lines \in SUBSET Products,
         ReadCreate(w, r, Draft(kind, key, override, owner, lines)),
         key = Nothing \/ override \/ ~Taken(kind, key, {})
  PROVE  Requested(w, r)
<1> DEFINE row == Draft(kind, key, override, owner, lines)
<1>1. kind \in Kinds  BY DEF ReadCreate, Draft
<1>2. /\ row \in Record /\ row.status = "draft" /\ row.stamps = {}
      /\ row.kind = kind /\ row.key = key /\ row.override = override /\ row.lines = lines
  BY <1>1, DraftRow
<1>3. Begin(w, "create", r, row, key, lines)
  BY <1>2 DEF ReadCreate
<1> HIDE DEF row
<1>4. Sane("create", row, lines) /\ KeyFree("create", r, row, key)
  BY <1>2 DEF Sane, KeyFree
<1>5. Proper(w, "create", r, row, key, lines)
  BY <1>3, <1>4 DEF Proper
<1> QED  BY <1>2, <1>5 DEF Requested, Ops

(* A job about a row that is there, on what was read. *)
LEMMA StoredRequested ==
  ASSUME TypeOK, NEW w \in Workers, NEW r \in RecordIds, Exists(r),
         NEW op \in Ops \ {"create"}, NEW key \in Keys \cup {Nothing}, NEW lines \in SUBSET Products,
         Begin(w, op, r, records[r], key, lines),
         Sane(op, records[r], lines), KeyFree(op, r, records[r], key)
  PROVE  Requested(w, r)
<1>1. Proper(w, op, r, records[r], key, lines)  BY DEF Proper
<1> QED  BY <1>1, StoredRow DEF Requested

(* A change of the header. *)
LEMMA HeaderRequested ==
  ASSUME TypeOK, NEW w \in Workers, NEW r \in RecordIds, Exists(r), NEW user,
         NEW key \in Keys \cup {Nothing}, ReadHeader(w, r, key, user),
         key \in {records[r].key, Nothing} \/ (records[r].kind = "returns" /\ ~Taken("returns", key, {r}))
  PROVE  Requested(w, r)
<1>1. Begin(w, "header", r, records[r], key, records[r].lines)  BY DEF ReadHeader
<1>2. Sane("header", records[r], records[r].lines)  BY DEF ReadHeader, Sane
<1>3. KeyFree("header", r, records[r], key)  BY DEF KeyFree
<1> QED  BY <1>1, <1>2, <1>3, StoredRow, StoredRequested DEF Ops

(* A change of the lines of a draft. *)
LEMMA LinesRequested ==
  ASSUME TypeOK, NEW w \in Workers, NEW r \in RecordIds, Exists(r), NEW user,
         NEW op \in {"lines", "addLine", "changeLine", "removeLine"},
         NEW lines \in SUBSET Products, ReadLines(w, op, r, lines, user)
  PROVE  Requested(w, r)
<1>1. Begin(w, op, r, records[r], records[r].key, lines)  BY DEF ReadLines
<1>2. Sane(op, records[r], lines)  BY DEF ReadLines, Sane
<1>3. KeyFree(op, r, records[r], records[r].key)  BY DEF KeyFree
<1> QED  BY <1>1, <1>2, <1>3, StoredRow, StoredRequested DEF Ops

(* One line added, changed or taken away. *)
LEMMA OneLineRequested ==
  ASSUME TypeOK, NEW w \in Workers, NEW r \in RecordIds, Exists(r), NEW user,
         NEW p \in Products, NEW q \in Products,
         \/ ReadAddLine(w, r, p, user)
         \/ ReadChangeLine(w, r, p, q, user)
         \/ ReadRemoveLine(w, r, p, user)
  PROVE  Requested(w, r)
<1>1. records[r].lines \in SUBSET Products  BY StoredRow
<1>2. CASE ReadAddLine(w, r, p, user)
  BY <1>2, LinesRequested DEF ReadAddLine
<1>3. CASE ReadChangeLine(w, r, p, q, user)
  <2>1. (records[r].lines \ {p}) \cup {q} \in SUBSET Products  BY <1>1
  <2> QED  BY <1>3, <2>1, LinesRequested DEF ReadChangeLine
<1>4. CASE ReadRemoveLine(w, r, p, user)
  BY <1>4, LinesRequested DEF ReadRemoveLine
<1> QED  BY <1>2, <1>3, <1>4

(* A change of status. *)
LEMMA StatusRequested ==
  ASSUME TypeOK, NEW w \in Workers, NEW r \in RecordIds, Exists(r), NEW user,
         \/ ReadFinalize(w, r, user) \/ ReadReopen(w, r, user)
         \/ ReadVoid(w, r, user) \/ ReadDelete(w, r, user)
  PROVE  Requested(w, r)
<1>1. PICK op \in {"finalize", "reopen", "void", "delete"} :
         /\ Begin(w, op, r, records[r], records[r].key, records[r].lines)
         /\ op = "finalize" => records[r].status = "draft" /\ records[r].lines # {}
         /\ op = "reopen" => records[r].status = "finalized"
         /\ op = "void" => records[r].status # "void"
  BY DEF ReadFinalize, ReadReopen, ReadVoid, ReadDelete
<1>2. Sane(op, records[r], records[r].lines)  BY <1>1 DEF Sane
<1>3. KeyFree(op, r, records[r], records[r].key)  BY <1>1 DEF KeyFree
<1> QED  BY <1>1, <1>2, <1>3, StoredRow, StoredRequested DEF Ops

(* A correction. *)
LEMMA CorrectRequested ==
  ASSUME TypeOK, NEW w \in Workers, NEW r \in RecordIds, Exists(r), NEW user, NEW granted,
         NEW key \in Keys \cup {Nothing}, NEW lines \in SUBSET Products,
         ReadCorrect(w, r, key, lines, user, granted),
         \/ key \in {records[r].key, Nothing}
         \/ records[r].kind = "returns"
            /\ (records[r].status = "draft" => ~Taken("returns", key, {r}))
  PROVE  Requested(w, r)
<1>1. Begin(w, "correct", r, records[r], key, lines)  BY DEF ReadCorrect
<1>2. Sane("correct", records[r], lines)  BY DEF ReadCorrect, Sane
<1>3. KeyFree("correct", r, records[r], key)  BY DEF KeyFree
<1> QED  BY <1>1, <1>2, <1>3, StoredRequested DEF Ops

(* Whatever a user may ask of a dispatch is a proper job. *)
LEMMA DispatchRequested ==
  ASSUME TypeOK, NEW w \in Workers, NEW r \in RecordIds, NEW user \in Users,
         DispatchRequest(w, r, user)
  PROVE  Requested(w, r)
<1>1. ASSUME NEW key \in Keys, NEW lines \in SUBSET Products,
             CreateDispatch(w, r, key, lines, user) \/ DuplicateDispatch(w, r, key, lines, user)
      PROVE  Requested(w, r)
  <2>1. CASE CreateDispatch(w, r, key, lines, user)
    <3>1. Taken("dispatch", key, {}) \in BOOLEAN  BY DEF Taken
    <3> QED  BY <2>1, <3>1, CreateRequested DEF CreateDispatch, NewDispatch
  <2>2. CASE DuplicateDispatch(w, r, key, lines, user)
    BY <2>2, CreateRequested DEF DuplicateDispatch, NewDispatch
  <2> QED  BY <1>1, <2>1, <2>2
<1>2. CASE UpdateDispatch(w, r, user)
  BY <1>2, StoredRow, HeaderRequested DEF UpdateDispatch, IsA
<1>3. ASSUME NEW lines \in SUBSET Products, ReplaceDispatchLines(w, r, lines, user)
      PROVE  Requested(w, r)
  BY <1>3, LinesRequested DEF ReplaceDispatchLines, IsA
<1>4. ASSUME NEW p \in Products, NEW q \in Products,
             \/ AddDispatchLine(w, r, p, user) \/ RemoveDispatchLine(w, r, p, user)
             \/ UpdateDispatchLine(w, r, p, q, user)
      PROVE  Requested(w, r)
  BY <1>4, OneLineRequested DEF AddDispatchLine, RemoveDispatchLine, UpdateDispatchLine, IsA
<1>5. CASE \/ FinalizeDispatch(w, r, user) \/ ReopenDispatch(w, r, user)
           \/ VoidDispatch(w, r, user) \/ DeleteDispatch(w, r, user)
  BY <1>5, StatusRequested DEF FinalizeDispatch, ReopenDispatch, VoidDispatch, DeleteDispatch, IsA
<1>6. ASSUME NEW lines \in SUBSET Products, NEW granted \in BOOLEAN,
             CorrectDispatch(w, r, lines, user, granted)
      PROVE  Requested(w, r)
  BY <1>6, StoredRow, CorrectRequested DEF CorrectDispatch, IsA
<1> QED  BY <1>1, <1>2, <1>3, <1>4, <1>5, <1>6 DEF DispatchRequest

(* Whatever a user may ask of a return is a proper job. *)
LEMMA ReturnRequested ==
  ASSUME TypeOK, NEW w \in Workers, NEW r \in RecordIds, NEW user \in Users,
         ReturnRequest(w, r, user)
  PROVE  Requested(w, r)
<1>1. ASSUME NEW key \in Keys \cup {Nothing}, NEW lines \in SUBSET Products,
             CreateReturn(w, r, key, lines, user)
      PROVE  Requested(w, r)
  BY <1>1, CreateRequested DEF CreateReturn, NewReturn
<1>2. ASSUME NEW key \in Keys \cup {Nothing}, UpdateReturn(w, r, key, user)
      PROVE  Requested(w, r)
  BY <1>2, HeaderRequested DEF UpdateReturn, IsA
<1>3. ASSUME NEW p \in Products, NEW q \in Products,
             \/ AddReturnLine(w, r, p, user) \/ RemoveReturnLine(w, r, p, user)
             \/ UpdateReturnLine(w, r, p, q, user)
      PROVE  Requested(w, r)
  BY <1>3, OneLineRequested DEF AddReturnLine, RemoveReturnLine, UpdateReturnLine, IsA
<1>4. CASE \/ FinalizeReturn(w, r, user) \/ ReopenReturn(w, r, user)
           \/ VoidReturn(w, r, user) \/ DeleteReturn(w, r, user)
  BY <1>4, StatusRequested DEF FinalizeReturn, ReopenReturn, VoidReturn, DeleteReturn, IsA
<1>5. ASSUME NEW key \in Keys \cup {Nothing}, NEW lines \in SUBSET Products,
             NEW granted \in BOOLEAN, CorrectReturn(w, r, key, lines, user, granted)
      PROVE  Requested(w, r)
  BY <1>5, CorrectRequested DEF CorrectReturn, IsA
<1> QED  BY <1>1, <1>2, <1>3, <1>4, <1>5 DEF ReturnRequest

(* Whatever a user may ask of a production record is a proper job. *)
LEMMA ProductionRequested ==
  ASSUME TypeOK, NEW w \in Workers, NEW r \in RecordIds, NEW user \in Users,
         ProductionRequest(w, r, user)
  PROVE  Requested(w, r)
<1>1. ASSUME NEW lines \in SUBSET Products, CreateProduction(w, r, lines, user)
      PROVE  Requested(w, r)
  BY <1>1, CreateRequested DEF CreateProduction, NewProduction
<1>2. CASE UpdateProduction(w, r, user)
  BY <1>2, HeaderRequested DEF UpdateProduction, IsA
<1>3. ASSUME NEW p \in Products, NEW q \in Products,
             \/ AddProductionLine(w, r, p, user) \/ RemoveProductionLine(w, r, p, user)
             \/ UpdateProductionLine(w, r, p, q, user)
      PROVE  Requested(w, r)
  BY <1>3, OneLineRequested DEF AddProductionLine, RemoveProductionLine, UpdateProductionLine, IsA
<1>4. CASE \/ FinalizeProduction(w, r, user) \/ ReopenProduction(w, r, user)
           \/ VoidProduction(w, r, user) \/ DeleteProduction(w, r, user)
  BY <1>4, StatusRequested
     DEF FinalizeProduction, ReopenProduction, VoidProduction, DeleteProduction, IsA
<1>5. ASSUME NEW lines \in SUBSET Products, NEW granted \in BOOLEAN,
             CorrectProduction(w, r, lines, user, granted)
      PROVE  Requested(w, r)
  BY <1>5, CorrectRequested DEF CorrectProduction, IsA
<1> QED  BY <1>1, <1>2, <1>3, <1>4, <1>5 DEF ProductionRequest

(* Next, taken apart: a job is begun, or ends. *)
LEMMA NextSteps ==
  ASSUME TypeOK, Next
  PROVE  \E w \in Workers : (\E r \in RecordIds : Requested(w, r)) \/ Write(w) \/ Refuse(w)
BY DispatchRequested, ReturnRequested, ProductionRequested DEF Next

-----------------------------------------------------------------------------
(* What a write leaves of a row. *)

(* The parts of a record that UntangledRecordsAgree relates. *)
Agrees(row, used) ==
    /\ row.status = "finalized" =>
          row.stamps = {"finalized"} /\ row.lines # {} /\ used = row.lines
    /\ row.status = "void" <=> "voided" \in row.stamps
    /\ row.status = "draft" => row.stamps = {}

Replaced(old, read, lines) == (old \ (read \ lines)) \cup (lines \ read)

(* Amending lines and key leaves the rest of a row alone. *)
LEMMA AmendedRow ==
  ASSUME NEW row \in Record, NEW read \in Record,
         NEW key \in Keys \cup {Nothing}, NEW lines \in SUBSET Products,
         NEW amended, amended = WithKey(WithLines(row, read.lines, lines), read.key, key)
  PROVE  /\ amended \in Record
         /\ amended.kind = row.kind /\ amended.override = row.override
         /\ amended.status = row.status /\ amended.stamps = row.stamps
         /\ amended.lines = Replaced(row.lines, read.lines, lines)
         /\ amended.key = IF key = read.key THEN row.key ELSE key
<1> DEFINE lined == WithLines(row, read.lines, lines)
<1>1. /\ lined \in Record
      /\ lined.kind = row.kind /\ lined.override = row.override /\ lined.key = row.key
      /\ lined.status = row.status /\ lined.stamps = row.stamps
      /\ lined.lines = Replaced(row.lines, read.lines, lines)
  BY DEF WithLines, Record, Replaced
<1> HIDE DEF lined
<1>2. amended = WithKey(lined, read.key, key)  BY DEF lined
<1>3. CASE key = read.key  BY <1>1, <1>2, <1>3 DEF WithKey
<1>4. CASE key # read.key  BY <1>1, <1>2, <1>4 DEF WithKey, Record
<1> QED  BY <1>3, <1>4

(* The three ways a status is written. *)
LEMMA StatusRow ==
  ASSUME NEW row \in Record
  PROVE  /\ Finalized(row) \in Record /\ Reopened(row) \in Record /\ Voided(row) \in Record
         /\ Finalized(row).status = "finalized" /\ Finalized(row).stamps = row.stamps \cup {"finalized"}
         /\ Reopened(row).status = "draft" /\ Reopened(row).stamps = row.stamps \ {"finalized"}
         /\ Voided(row).status = "void" /\ Voided(row).stamps = row.stamps \cup {"voided"}
         /\ \A new \in {Finalized(row), Reopened(row), Voided(row)} :
               /\ new.kind = row.kind /\ new.override = row.override
               /\ new.key = row.key /\ new.lines = row.lines
BY DEF Finalized, Reopened, Voided, Record, Statuses

(* A correction keeps the status that was read. *)
LEMMA CorrectedRow ==
  ASSUME NEW row \in Record, NEW read \in Record,
         NEW key \in Keys \cup {Nothing}, NEW lines \in SUBSET Products,
         NEW new, new = Corrected(row, read, key, lines)
  PROVE  /\ new \in Record
         /\ new.kind = row.kind /\ new.override = row.override
         /\ new.key = IF key = read.key THEN row.key ELSE key
         /\ new.lines = Replaced(row.lines, read.lines, lines)
         /\ read.status = "draft" => new.status = row.status /\ new.stamps = row.stamps
         /\ read.status = "finalized" =>
               new.status = "finalized" /\ new.stamps = row.stamps \cup {"finalized"}
         /\ read.status = "void" => new.status = "void" /\ new.stamps = row.stamps
<1>0. PICK amended : amended = WithKey(WithLines(row, read.lines, lines), read.key, key)
  OBVIOUS
<1>1. /\ amended \in Record
      /\ amended.kind = row.kind /\ amended.override = row.override
      /\ amended.status = row.status /\ amended.stamps = row.stamps
      /\ amended.lines = Replaced(row.lines, read.lines, lines)
      /\ amended.key = IF key = read.key THEN row.key ELSE key
  BY <1>0, AmendedRow
<1>2. new = CASE read.status = "draft" -> amended
              [] read.status = "finalized" -> Finalized(amended)
              [] read.status = "void" -> [amended EXCEPT !.status = "void"]
  BY <1>0 DEF Corrected
<1>3. CASE read.status = "draft"  BY <1>1, <1>2, <1>3
<1>4. CASE read.status = "finalized"  BY <1>1, <1>2, <1>4, StatusRow
<1>5. CASE read.status = "void"  BY <1>1, <1>2, <1>5 DEF Record, Statuses
<1>6. read.status \in {"draft", "finalized", "void"}  BY DEF Record, Statuses
<1> QED  BY <1>3, <1>4, <1>5, <1>6

Stored == Ops \ {"create", "delete"}

(* What a job that keeps its record leaves of it: the book and the leave   *)
(* always, the key unless the job is about it.                             *)
LEMMA WrittenRow ==
  ASSUME NEW row \in Record, NEW job \in Work, job.op \in Stored,
         NEW new, new = Written(row, job)
  PROVE  /\ new \in Record
         /\ new.kind = row.kind /\ new.override = row.override
         /\ new.key = IF job.op \in {"header", "correct"} /\ job.key # job.row.key
                      THEN job.key ELSE row.key
<1> USE DEF Work
<1>1. /\ job.row \in Record /\ job.key \in Keys \cup {Nothing} /\ job.lines \in SUBSET Products
      /\ job.row.lines \in SUBSET Products
  BY DEF Record
<1>2. CASE job.op = "header"
  <2>1. new = WithKey(row, job.row.key, job.key)  BY <1>2 DEF Written
  <2> QED  BY <1>1, <1>2, <2>1 DEF WithKey, Record
<1>3. CASE job.op \in {"lines", "addLine", "removeLine"}
  <2>1. PICK lines \in SUBSET Products : new = [row EXCEPT !.lines = lines]
    BY <1>1, <1>3 DEF Written, Record
  <2> QED  BY <1>3, <2>1 DEF Record
<1>4. CASE job.op = "changeLine"
  BY <1>1, <1>4 DEF Written, WithLines, Record
<1>5. CASE job.op \in {"finalize", "reopen", "void"}
  BY <1>5, StatusRow DEF Written
<1>6. CASE job.op = "correct"
  <2>1. new = Corrected(row, job.row, job.key, job.lines)  BY <1>6 DEF Written
  <2> QED  BY <1>1, <1>6, <2>1, CorrectedRow
<1> QED  BY <1>2, <1>3, <1>4, <1>5, <1>6 DEF Stored, Ops

(* A job that sees the row it read leaves the parts of the record in       *)
(* agreement.                                                              *)
LEMMA WrittenAgrees ==
  ASSUME NEW job \in Work, job.op \in Stored, NEW used, Agrees(job.row, used),
         Sane(job.op, job.row, job.lines), NEW new, new = Written(job.row, job)
  PROVE  Agrees(new, Ranked(used, job))
<1> USE DEF Work
<1>1. /\ job.row \in Record /\ job.key \in Keys \cup {Nothing} /\ job.lines \in SUBSET Products
      /\ job.row.lines \in SUBSET Products
      /\ job.row.status \in {"draft", "finalized", "void"}
  BY DEF Record, Statuses
<1>2. CASE job.op \in {"header", "lines", "addLine", "changeLine", "removeLine"}
  <2>1. job.row.status = "draft"  BY <1>2 DEF Sane
  <2>2. new.status = job.row.status /\ new.stamps = job.row.stamps
    <3>1. CASE job.op = "header"  BY <1>1, <3>1 DEF Written, WithKey, Record
    <3>2. CASE job.op \in {"lines", "addLine", "removeLine"}
      <4>1. PICK lines : new = [job.row EXCEPT !.lines = lines]
        BY <1>1, <3>2 DEF Written, Record
      <4> QED  BY <1>1, <4>1 DEF Record
    <3>3. CASE job.op = "changeLine"  BY <1>1, <3>3 DEF Written, WithLines, Record
    <3> QED  BY <1>2, <3>1, <3>2, <3>3
  <2> QED  BY <2>1, <2>2 DEF Agrees
<1>3. CASE job.op = "finalize"
  <2>1. new = Finalized(job.row) /\ Ranked(used, job) = job.lines
    BY <1>3 DEF Written, Ranked
  <2> QED  BY <1>1, <1>3, <2>1, StatusRow DEF Sane, Agrees
<1>4. CASE job.op = "reopen"
  <2>1. new = Reopened(job.row)  BY <1>4 DEF Written
  <2> QED  BY <1>1, <1>4, <2>1, StatusRow DEF Sane, Agrees
<1>5. CASE job.op = "void"
  <2>1. new = Voided(job.row)  BY <1>5 DEF Written
  <2> QED  BY <1>1, <1>5, <2>1, StatusRow DEF Agrees
<1>6. CASE job.op = "correct"
  <2>1. new = Corrected(job.row, job.row, job.key, job.lines) /\ Ranked(used, job) = job.lines
    BY <1>6 DEF Written, Ranked
  <2>2. /\ new.lines = Replaced(job.row.lines, job.row.lines, job.lines)
        /\ job.row.status = "draft" => new.status = job.row.status /\ new.stamps = job.row.stamps
        /\ job.row.status = "finalized" =>
              new.status = "finalized" /\ new.stamps = job.row.stamps \cup {"finalized"}
        /\ job.row.status = "void" => new.status = "void" /\ new.stamps = job.row.stamps
    BY <1>1, <2>1, CorrectedRow
  <2>3. new.lines = job.lines  BY <2>2 DEF Replaced
  <2>4. job.lines # {}  BY <1>6 DEF Sane
  <2> QED  BY <1>1, <2>1, <2>2, <2>3, <2>4 DEF Agrees
<1> QED  BY <1>2, <1>3, <1>4, <1>5, <1>6 DEF Stored, Ops

-----------------------------------------------------------------------------
(* The steps. *)

(* A write, spelled out: its job, and the row it finds. *)
LEMMA WriteJob ==
  ASSUME TypeOK, NEW w \in Workers, Write(w), NEW job, job = work[w]
  PROVE  /\ job \in Work /\ job # Idle /\ job.rec \in RecordIds
         /\ job.op \in Ops /\ job.row \in Record /\ job.lines \in SUBSET Products
         /\ job.op = "create" => ~Exists(job.rec)
         /\ job.op # "create" => Exists(job.rec)
         /\ records' = [records EXCEPT ![job.rec] = Written(@, job)]
         /\ usage' = [usage EXCEPT ![job.rec] = Ranked(@, job)]
         /\ tangled' = IF job.op = "delete" THEN tangled \ {job.rec}
                       ELSE IF job.late THEN tangled \cup {job.rec} ELSE tangled
         /\ writes' = writes + 1
         /\ LateKeyCheck(job)
<1>1. job \in Work  BY DEF Write, TypeOK
<1>2. /\ job.rec \in RecordIds /\ job.op \in Ops /\ job.row \in Record
      /\ job.lines \in SUBSET Products
  BY <1>1 DEF Work
<1> QED  BY <1>1, <1>2 DEF Write

(* Whatever is written is a record, or none. *)
LEMMA WrittenStored ==
  ASSUME TypeOK, NEW w \in Workers, Write(w), NEW job, job = work[w]
  PROVE  /\ Written(records[job.rec], job) \in Record \cup {NoRecord}
         /\ job.op = "create" => Written(records[job.rec], job) = job.row
         /\ job.op = "delete" => Written(records[job.rec], job) = NoRecord
<1>1. /\ job \in Work /\ job.op \in Ops /\ job.row \in Record /\ job.rec \in RecordIds
      /\ job.op # "create" => Exists(job.rec)
  BY WriteJob
<1>2. CASE job.op = "create"  BY <1>1, <1>2 DEF Written
<1>3. CASE job.op = "delete"  BY <1>1, <1>3 DEF Written
<1>4. CASE job.op \in Stored
  <2>1. records[job.rec] \in Record  BY <1>1, <1>4, StoredRow DEF Stored
  <2>2. PICK new : new = Written(records[job.rec], job)  OBVIOUS
  <2>3. new \in Record  BY <1>1, <1>4, <2>1, <2>2, WrittenRow
  <2> QED  BY <1>4, <2>2, <2>3 DEF Stored
<1> QED  BY <1>1, <1>2, <1>3, <1>4 DEF Stored

(* What a write leaves of the other jobs: nothing, or late ones. *)
LEMMA WriteOvertakes ==
  ASSUME TypeOK, NEW w \in Workers, Write(w), NEW v \in Workers
  PROVE  \/ work'[v] = Idle
         \/ /\ v # w /\ work[v] # Idle /\ work'[v] \in Work /\ work'[v].late
            /\ work'[v].op = work[v].op /\ work'[v].row = work[v].row
            /\ work'[v].lines = work[v].lines
<1>1. work'[v] = IF v = w \/ work[v] = Idle THEN Idle ELSE [work[v] EXCEPT !.late = TRUE]
  BY DEF Write
<1>2. CASE v = w \/ work[v] = Idle  BY <1>1, <1>2
<1>3. CASE v # w /\ work[v] # Idle
  <2>1. work[v] \in Work  BY <1>3 DEF TypeOK
  <2> QED  BY <1>1, <1>3, <2>1 DEF Work
<1> QED  BY <1>2, <1>3

(* What the start of a request leaves of the jobs. *)
LEMMA RequestBegins ==
  ASSUME TypeOK, NEW w \in Workers, NEW r \in RecordIds,
         NEW op \in Ops, NEW row \in Record, NEW key \in Keys \cup {Nothing},
         NEW lines \in SUBSET Products, Begin(w, op, r, row, key, lines)
  PROVE  /\ work' \in [Workers -> Work \cup {Idle}]
         /\ work'[w].op = op /\ work'[w].rec = r /\ work'[w].row = row
         /\ work'[w].key = key /\ work'[w].lines = lines
         /\ \A v \in Workers \ {w} : work'[v] = work[v]
<1> DEFINE job == [op |-> op, rec |-> r, row |-> row, key |-> key, lines |-> lines, late |-> FALSE]
<1>1. /\ job \in Work
      /\ job.op = op /\ job.rec = r /\ job.row = row /\ job.key = key /\ job.lines = lines
  BY DEF Work
<1>2. work' = [work EXCEPT ![w] = job]  BY DEF Begin
<1> HIDE DEF job
<1> QED  BY <1>1, <1>2 DEF TypeOK

(* Every step keeps the types. *)
LEMMA TypeStep ==
  ASSUME TypeOK, [Next]_vars
  PROVE  TypeOK'
<1>1. ASSUME NEW w \in Workers, NEW r \in RecordIds, Requested(w, r) PROVE TypeOK'
  <2>1. PICK op \in Ops, row \in Record, key \in Keys \cup {Nothing}, lines \in SUBSET Products :
           Begin(w, op, r, row, key, lines)
    BY <1>1 DEF Requested, Proper
  <2>2. work' \in [Workers -> Work \cup {Idle}]  BY <2>1, RequestBegins
  <2> QED  BY <2>1, <2>2 DEF Begin, TypeOK
<1>2. ASSUME NEW w \in Workers, Write(w) PROVE TypeOK'
  <2>0. PICK job : job = work[w]  OBVIOUS
  <2>1. /\ job.rec \in RecordIds /\ job.op \in Ops /\ job.lines \in SUBSET Products
        /\ records' = [records EXCEPT ![job.rec] = Written(@, job)]
        /\ usage' = [usage EXCEPT ![job.rec] = Ranked(@, job)]
        /\ tangled' \subseteq tangled \cup {job.rec}
        /\ writes' = writes + 1
    BY <1>2, <2>0, WriteJob
  <2>2. records' \in [RecordIds -> Record \cup {NoRecord}]
    BY <1>2, <2>0, <2>1, WrittenStored DEF TypeOK
  <2>3. Ranked(usage[job.rec], job) \in SUBSET Products  BY <2>1 DEF Ranked, TypeOK
  <2>4. usage' \in [RecordIds -> SUBSET Products]  BY <2>1, <2>3 DEF TypeOK
  <2>5. \A v \in Workers : work'[v] \in Work \cup {Idle}  BY <1>2, WriteOvertakes
  <2>6. work' \in [Workers -> Work \cup {Idle}]  BY <1>2, <2>5 DEF Write
  <2> QED  BY <2>1, <2>2, <2>4, <2>6 DEF TypeOK
<1>3. ASSUME NEW w \in Workers, Refuse(w) PROVE TypeOK'
  BY <1>3 DEF Refuse, TypeOK
<1>4. CASE UNCHANGED vars  BY <1>4 DEF vars, TypeOK
<1> QED  BY <1>1, <1>2, <1>3, <1>4, NextSteps

(* What a check has seen to stays seen to. *)
LEMMA WorkSaneStep ==
  ASSUME TypeOK, WorkSane, [Next]_vars
  PROVE  WorkSane'
<1> SUFFICES ASSUME NEW v \in Workers, work'[v] # Idle
             PROVE  Sane(work'[v].op, work'[v].row, work'[v].lines)
  BY DEF WorkSane, Sane
<1>1. ASSUME NEW w \in Workers, NEW r \in RecordIds, Requested(w, r)
      PROVE  Sane(work'[v].op, work'[v].row, work'[v].lines)
  <2>1. PICK op \in Ops, row \in Record, key \in Keys \cup {Nothing}, lines \in SUBSET Products :
           Begin(w, op, r, row, key, lines) /\ Sane(op, row, lines)
    BY <1>1 DEF Requested, Proper
  <2> QED  BY <2>1, RequestBegins DEF WorkSane
<1>2. ASSUME NEW w \in Workers, Write(w)
      PROVE  Sane(work'[v].op, work'[v].row, work'[v].lines)
  BY <1>2, WriteOvertakes DEF WorkSane
<1>3. ASSUME NEW w \in Workers, Refuse(w)
      PROVE  Sane(work'[v].op, work'[v].row, work'[v].lines)
  BY <1>3 DEF Refuse, WorkSane, TypeOK
<1>4. CASE UNCHANGED vars  BY <1>4 DEF vars, WorkSane
<1> QED  BY <1>1, <1>2, <1>3, <1>4, NextSteps

(* A job that is not late sees the rows as it read them. *)
LEMMA WorkCurrentStep ==
  ASSUME TypeOK, WorkCurrent, [Next]_vars
  PROVE  WorkCurrent'
<1> SUFFICES ASSUME NEW v \in Workers, work'[v] # Idle, ~work'[v].late
             PROVE  Current(work[v])'
  BY DEF WorkCurrent, Current, KeyFree, Taken, Exists
<1>1. ASSUME records' = records, work'[v] = work[v]
      PROVE  Current(work[v])'
  BY <1>1 DEF WorkCurrent, Current, KeyFree, Taken, Exists
<1>2. ASSUME NEW w \in Workers, NEW r \in RecordIds, Requested(w, r)
      PROVE  Current(work[v])'
  <2>1. PICK op \in Ops, row \in Record, key \in Keys \cup {Nothing}, lines \in SUBSET Products :
           Proper(w, op, r, row, key, lines)
    BY <1>2 DEF Requested
  <2>2. Begin(w, op, r, row, key, lines)  BY <2>1 DEF Proper
  <2>3. records' = records  BY <2>2 DEF Begin
  <2>4. CASE v = w
    <3>1. /\ work'[v].op = op /\ work'[v].rec = r /\ work'[v].row = row /\ work'[v].key = key
      BY <2>2, <2>4, RequestBegins
    <3>2. op # "create" => records'[r] = row  BY <2>1, <2>3 DEF Proper
    <3>3. KeyFree(op, r, row, key)'  BY <2>1, <2>3 DEF Proper, KeyFree, Taken, Exists
    <3> QED  BY <3>1, <3>2, <3>3 DEF Current, KeyFree, Taken, Exists
  <2>5. CASE v # w
    <3>1. work'[v] = work[v]  BY <2>2, <2>5, RequestBegins
    <3> QED  BY <1>1, <2>3, <3>1
  <2> QED  BY <2>4, <2>5
<1>3. ASSUME NEW w \in Workers, Write(w) PROVE Current(work[v])'
  BY <1>3, WriteOvertakes
<1>4. ASSUME NEW w \in Workers, Refuse(w) PROVE Current(work[v])'
  BY <1>1, <1>4 DEF Refuse, TypeOK
<1>5. CASE UNCHANGED vars  BY <1>1, <1>5 DEF vars
<1> QED  BY <1>2, <1>3, <1>4, <1>5, NextSteps

(* A record that the step leaves alone is as it was. *)
LEMMA OtherRecords ==
  ASSUME TypeOK, NEW w \in Workers, Write(w), NEW r \in RecordIds, r # work[w].rec
  PROVE  records'[r] = records[r] /\ usage'[r] = usage[r] /\ (r \in tangled' <=> r \in tangled)
BY WriteJob DEF TypeOK

(* The record that is written, if it stays. *)
LEMMA WrittenRecord ==
  ASSUME TypeOK, NEW w \in Workers, Write(w), NEW job, job = work[w], Exists(job.rec)'
  PROVE  /\ job.op # "delete"
         /\ records'[job.rec] = Written(records[job.rec], job)
         /\ usage'[job.rec] = Ranked(usage[job.rec], job)
         /\ job.rec \notin tangled' => job.rec \notin tangled /\ ~job.late
<1>1. /\ job.rec \in RecordIds
      /\ records' = [records EXCEPT ![job.rec] = Written(@, job)]
      /\ usage' = [usage EXCEPT ![job.rec] = Ranked(@, job)]
      /\ tangled' = IF job.op = "delete" THEN tangled \ {job.rec}
                    ELSE IF job.late THEN tangled \cup {job.rec} ELSE tangled
      /\ job.op = "delete" => Written(records[job.rec], job) = NoRecord
  BY WriteJob, WrittenStored
<1>2. records'[job.rec] = Written(records[job.rec], job)  BY <1>1 DEF TypeOK
<1>3. usage'[job.rec] = Ranked(usage[job.rec], job)  BY <1>1 DEF TypeOK
<1>4. job.op # "delete"  BY <1>1, <1>2 DEF Exists
<1> QED  BY <1>1, <1>2, <1>3, <1>4

(* UntangledRecordsAgree, by record. *)
LEMMA AgreeByRecord ==
  UntangledRecordsAgree <=> \A r \in RecordIds \ tangled : Exists(r) => Agrees(records[r], usage[r])
BY DEF UntangledRecordsAgree, Agrees

(* Every step leaves the records that no late request wrote in agreement. *)
LEMMA AgreeStep ==
  ASSUME TypeOK, WorkSane, WorkCurrent, UntangledRecordsAgree, [Next]_vars
  PROVE  UntangledRecordsAgree'
<1> SUFFICES ASSUME NEW r \in RecordIds, r \notin tangled', Exists(r)'
             PROVE  Agrees(records'[r], usage'[r])
  BY DEF UntangledRecordsAgree, Agrees, Exists
<1>1. ASSUME r \notin tangled, records'[r] = records[r], usage'[r] = usage[r]
      PROVE  Agrees(records'[r], usage'[r])
  BY <1>1, AgreeByRecord DEF Exists
<1>2. ASSUME NEW w \in Workers, Write(w) PROVE Agrees(records'[r], usage'[r])
  <2>0. PICK job : job = work[w]  OBVIOUS
  <2>1. /\ job \in Work /\ job # Idle /\ job.op \in Ops /\ job.row \in Record
        /\ job.op # "create" => Exists(job.rec)
        /\ Sane(job.op, job.row, job.lines)
        /\ ~job.late => Current(job)
    BY <1>2, <2>0, WriteJob DEF WorkSane, WorkCurrent
  <2>2. CASE r # job.rec
    BY <1>1, <1>2, <2>0, <2>2, OtherRecords
  <2>3. CASE r = job.rec
    <3>1. /\ job.op # "delete"
          /\ records'[r] = Written(records[r], job) /\ usage'[r] = Ranked(usage[r], job)
          /\ r \notin tangled /\ ~job.late
      BY <1>2, <2>0, <2>3, WrittenRecord
    <3>2. CASE job.op = "create"
      <4>1. records'[r] = job.row  BY <1>2, <2>0, <2>3, <3>1, <3>2, WrittenStored
      <4> QED  BY <2>1, <3>2, <4>1 DEF Sane, Agrees
    <3>3. CASE job.op # "create"
      <4>1. job.op \in Stored  BY <2>1, <3>1, <3>3 DEF Stored
      <4>2. records[r] = job.row  BY <2>1, <2>3, <3>1, <3>3 DEF Current
      <4>3. Agrees(job.row, usage[r])  BY <2>1, <2>3, <3>1, <3>3, <4>2, AgreeByRecord
      <4> QED  BY <2>1, <3>1, <4>1, <4>2, <4>3, WrittenAgrees
    <3> QED  BY <3>2, <3>3
  <2> QED  BY <2>2, <2>3
<1>3. ASSUME NEW w \in Workers, NEW s \in RecordIds, Requested(w, s)
      PROVE  Agrees(records'[r], usage'[r])
  BY <1>1, <1>3 DEF Requested, Proper, Begin
<1>4. ASSUME NEW w \in Workers, Refuse(w) PROVE Agrees(records'[r], usage'[r])
  BY <1>1, <1>4 DEF Refuse
<1>5. CASE UNCHANGED vars  BY <1>1, <1>5 DEF vars
<1> QED  BY <1>2, <1>3, <1>4, <1>5, NextSteps

(* A job that read a voided record and keeps it leaves it void. *)
LEMMA WrittenVoid ==
  ASSUME NEW row \in Record, NEW job \in Work, job.op \in Stored,
         Sane(job.op, job.row, job.lines), job.row.status = "void"
  PROVE  Written(row, job).status = "void"
<1>1. job.op = "correct"  BY DEF Sane, Stored, Ops
<1>2. PICK new : new = Written(row, job)  OBVIOUS
<1>3. new = Corrected(row, job.row, job.key, job.lines)  BY <1>1, <1>2 DEF Written
<1>4. job.row \in Record /\ job.key \in Keys \cup {Nothing} /\ job.lines \in SUBSET Products
  BY DEF Work
<1>5. PICK read \in Record, key \in Keys \cup {Nothing}, lines \in SUBSET Products :
         read.status = "void" /\ new = Corrected(row, read, key, lines)
  BY <1>3, <1>4
<1>6. new.status = "void"  BY <1>5, CorrectedRow
<1> QED  BY <1>2, <1>6

(* A written record, unless it was written late, does not come to share    *)
(* its key with another one.                                               *)
LEMMA NoNewClash ==
  ASSUME TypeOK, WorkSane, WorkCurrent, KeysClashOnlyByOvertaking,
         NEW w \in Workers, Write(w), NEW job, job = work[w],
         NEW r \in RecordIds, r = job.rec, NEW s \in RecordIds, s # r,
         Exists(r)', Exists(s)',
         records'[r].kind = records'[s].kind,
         records'[r].key = records'[s].key, records'[r].key # Nothing,
         records'[r].status # "void", records'[s].status # "void"
  PROVE  records'[r].override \/ records'[s].override \/ r \in tangled' \/ s \in tangled'
<1> SUFFICES ASSUME ~records'[r].override, ~records'[s].override,
                    r \notin tangled', s \notin tangled'
             PROVE  FALSE
  OBVIOUS
<1>1. /\ job \in Work /\ job # Idle /\ job.op \in Ops /\ job.row \in Record
      /\ job.op # "create" => Exists(r)
      /\ Sane(job.op, job.row, job.lines) /\ LateKeyCheck(job)
  BY WriteJob DEF WorkSane
<1>2. /\ job.op # "delete" /\ records'[r] = Written(records[r], job)
      /\ r \notin tangled /\ ~job.late
  BY WrittenRecord
<1>3. Current(job)  BY <1>1, <1>2 DEF WorkCurrent
<1>4. records'[s] = records[s] /\ s \notin tangled /\ Exists(s)
  BY OtherRecords DEF Exists
<1>5. ASSUME NEW except, s \notin except PROVE Taken(records'[r].kind, records'[r].key, except)
  BY <1>4, <1>5 DEF Taken
<1>6. CASE job.op = "create"
  <2>1. records'[r] = job.row  BY <1>2, <1>6, WrittenStored
  <2>2. ~Taken(job.row.kind, job.row.key, {})  BY <1>3, <1>6, <2>1 DEF Current, KeyFree
  <2> QED  BY <1>5, <2>1, <2>2
<1>7. CASE job.op # "create"
  <2>1. job.op \in Stored /\ records[r] = job.row /\ Exists(r)
    BY <1>1, <1>2, <1>3, <1>7 DEF Stored, Current
  <2>2. /\ records'[r].kind = job.row.kind /\ records'[r].override = job.row.override
        /\ records'[r].key = IF job.op \in {"header", "correct"} /\ job.key # job.row.key
                             THEN job.key ELSE job.row.key
    BY <1>1, <1>2, <2>1, WrittenRow
  <2>3. CASE job.op \in {"header", "correct"} /\ job.key # job.row.key
    <3>1. job.row.kind = "returns" /\ ~Taken("returns", job.key, {r})
      BY <1>1, <1>3, <2>2, <2>3 DEF Current, KeyFree, LateKeyCheck
    <3> QED  BY <1>5, <2>2, <2>3, <3>1
  <2>4. CASE ~(job.op \in {"header", "correct"} /\ job.key # job.row.key)
    <3>1. records'[r].key = records[r].key /\ records'[r].kind = records[r].kind
          /\ records'[r].override = records[r].override
      BY <2>1, <2>2, <2>4
    <3>2. records[r].status # "void"
      BY <1>1, <1>2, <2>1, WrittenVoid
    <3> QED  BY <1>2, <1>4, <2>1, <3>1, <3>2 DEF KeysClashOnlyByOvertaking
  <2> QED  BY <2>3, <2>4
<1> QED  BY <1>6, <1>7

(* No step makes two live records share a key, but an overtaken one. *)
LEMMA KeysStep ==
  ASSUME TypeOK, WorkSane, WorkCurrent, KeysClashOnlyByOvertaking, [Next]_vars
  PROVE  KeysClashOnlyByOvertaking'
<1>1. ASSUME records' = records, tangled' = tangled PROVE KeysClashOnlyByOvertaking'
  BY <1>1 DEF KeysClashOnlyByOvertaking, Exists
<1>2. ASSUME NEW w \in Workers, Write(w) PROVE KeysClashOnlyByOvertaking'
  <2> SUFFICES ASSUME NEW r \in RecordIds, NEW s \in RecordIds, r # s,
                      Exists(r)', Exists(s)',
                      records'[r].kind = records'[s].kind,
                      records'[r].key = records'[s].key, records'[r].key # Nothing,
                      records'[r].status # "void", records'[s].status # "void"
               PROVE  records'[r].override \/ records'[s].override
                      \/ r \in tangled' \/ s \in tangled'
    BY DEF KeysClashOnlyByOvertaking, Exists
  <2>0. PICK job : job = work[w]  OBVIOUS
  <2>1. CASE r = job.rec  BY <1>2, <2>0, <2>1, NoNewClash
  <2>2. CASE s = job.rec  BY <1>2, <2>0, <2>2, NoNewClash
  <2>3. CASE r # job.rec /\ s # job.rec
    <3>1. /\ records'[r] = records[r] /\ (r \in tangled' <=> r \in tangled)
          /\ records'[s] = records[s] /\ (s \in tangled' <=> s \in tangled)
      BY <1>2, <2>0, <2>3, OtherRecords
    <3>2. Exists(r) /\ Exists(s)  BY <3>1 DEF Exists
    <3> QED  BY <3>1, <3>2 DEF KeysClashOnlyByOvertaking
  <2> QED  BY <2>1, <2>2, <2>3
<1>3. ASSUME NEW w \in Workers, NEW r \in RecordIds, Requested(w, r)
      PROVE  KeysClashOnlyByOvertaking'
  BY <1>1, <1>3 DEF Requested, Proper, Begin
<1>4. ASSUME NEW w \in Workers, Refuse(w) PROVE KeysClashOnlyByOvertaking'
  BY <1>1, <1>4 DEF Refuse
<1>5. CASE UNCHANGED vars  BY <1>1, <1>5 DEF vars
<1> QED  BY <1>2, <1>3, <1>4, <1>5, NextSteps

(* The record of a voided row revived: by a request that read it before.   *)
LEMMA RevivedByOvertaken ==
  ASSUME TypeOK, WorkSane, [Next]_vars, NEW r \in RecordIds,
         records[r].status = "void", records'[r].status \in {"draft", "finalized"}
  PROVE  \E w \in Workers : work[w] # Idle /\ work'[w] = Idle
                            /\ work[w].rec = r /\ work[w].row.status # "void"
<1>1. records' # records  OBVIOUS
<1>2. PICK w \in Workers : Write(w)
  BY <1>1, NextSteps DEF Requested, Proper, Begin, Refuse, vars
<1>3. PICK job : job = work[w]  OBVIOUS
<1>4. r = job.rec  BY <1>1, <1>2, <1>3, OtherRecords
<1>5. Exists(r) /\ Exists(r)'
  BY DEF Exists, NoRecord
<1>6. /\ job \in Work /\ job # Idle /\ job.op \in Stored
      /\ records'[r] = Written(records[r], job) /\ Sane(job.op, job.row, job.lines)
  BY <1>2, <1>3, <1>4, <1>5, WriteJob, WrittenRecord DEF Stored, WorkSane
<1>7. records[r] \in Record  BY <1>5, StoredRow
<1>8. job.row.status # "void"  BY <1>6, <1>7, WrittenVoid
<1>9. work'[w] = Idle  BY <1>2 DEF Write
<1> QED  BY <1>3, <1>4, <1>6, <1>8, <1>9

-----------------------------------------------------------------------------
(* The theorems. *)

RecordsInv ==
    TypeOK /\ WorkSane /\ WorkCurrent /\ UntangledRecordsAgree /\ KeysClashOnlyByOvertaking

(* The invariant: beside the two properties, what the jobs under way have  *)
(* checked and which of them still see what they read.                     *)
THEOREM RecordsKept == Spec => []RecordsInv
<1>1. ASSUME Init PROVE RecordsInv
  <2>1. \A r \in RecordIds : ~Exists(r)  BY <1>1 DEF Init, Exists
  <2>2. TypeOK  BY <1>1 DEF Init, TypeOK
  <2>3. WorkSane /\ WorkCurrent  BY <1>1 DEF Init, WorkSane, WorkCurrent
  <2> QED  BY <2>1, <2>2, <2>3 DEF RecordsInv, UntangledRecordsAgree, KeysClashOnlyByOvertaking
<1>2. RecordsInv /\ [Next]_vars => RecordsInv'
  BY TypeStep, WorkSaneStep, WorkCurrentStep, AgreeStep, KeysStep DEF RecordsInv
<1> QED  BY <1>1, <1>2, PTL DEF Spec

(* Through lives of any length, the stamps, lines and usage ranking of a   *)
(* record that no late request wrote agree with its status.                *)
THEOREM RecordsAlwaysAgree == Spec => []UntangledRecordsAgree
<1>1. RecordsInv => UntangledRecordsAgree  BY DEF RecordsInv
<1> QED  BY <1>1, RecordsKept, PTL

(* Two live records share a key only by an override or an overtaken check. *)
THEOREM KeysAlwaysApart == Spec => []KeysClashOnlyByOvertaking
<1>1. RecordsInv => KeysClashOnlyByOvertaking  BY DEF RecordsInv
<1> QED  BY <1>1, RecordsKept, PTL

(* Whatever is granted and corrected, only a request that had read a       *)
(* record before its void revives it.                                      *)
THEOREM VoidStaysFinal == Spec => VoidIsFinal
<1>1. RecordsInv /\ [Next]_vars =>
        [\A r \in RecordIds :
            records[r].status = "void" /\ records'[r].status \in {"draft", "finalized"}
            => \E w \in Workers : work[w] # Idle /\ work'[w] = Idle
                                  /\ work[w].rec = r /\ work[w].row.status # "void"]_vars
  BY RevivedByOvertaken DEF RecordsInv
<1> QED  BY <1>1, RecordsKept, PTL DEF Spec, VoidIsFinal
===============================================================================
