----------------------------- MODULE DailyReview -----------------------------
(***************************************************************************)
(* The review of one date and shift before it is submitted                 *)
(* (services/daily_review_service.py, routes/daily_review.py): a reviewer  *)
(* marks product after product as reviewed, edited or skipped, and submits *)
(* once nothing he marked has changed since.  Two comparisons find a       *)
(* change: the stamp of a source record with a line of the product against *)
(* the stamp of the mark, and the stamp of the product's DailyFigure row   *)
(* against the one the mark has kept.  Reset Daily Values takes marks back *)
(* and withdraws a submission.                                             *)
(*                                                                         *)
(* Rows are read outside a transaction and a stamp is taken when the       *)
(* statement is built, before it waits for the write lock: a handler is a  *)
(* read and a write, and carries its stamp from the first to the second.   *)
(* The clock counts commits.  Every product has a packaging rule and no    *)
(* other user's lock on it; either only refuses a submission.              *)
(*                                                                         *)
(* A definition named Faulty... stands in for the one below it when the    *)
(* properties are tested against a plausible mistake; nothing uses it.     *)
(***************************************************************************)
EXTENDS Naturals

CONSTANTS
    Workers,    \* requests that may be served at once
    Products,   \* the active products
    Records,    \* records of the source books
    MaxCommits  \* bound on the clock

ASSUME MaxCommitsAssumption == MaxCommits \in Nat
ASSUME RecordsAssumption == "figure" \notin Records

Times == 0 .. MaxCommits
Statuses == {"none", "in_progress", "submitted", "reopened"}
MarkStates == {"reviewed", "edited", "skipped"}

(* figure: DailyFigure.updated_at as the mark found it, 0 without a row. *)
Mark == [state : MarkStates, reason : BOOLEAN, at : Times, figure : Times]
NoMark == [state |-> "not_reviewed"]

(* The products a record has lines of, in this date and shift, whether it  *)
(* is a draft, which no figure counts, and its updated_at.                 *)
Record == [products : SUBSET Products, draft : BOOLEAN, at : Times]

(* late: another request has committed since the read. *)
MarkWork == [op : {"mark"}, p : Products, state : MarkStates, reason : BOOLEAN,
             session : BOOLEAN, was : Mark \cup {NoMark}, figure : Times,
             stamp : Times, late : BOOLEAN]
SourceWork == [op : {"source"}, r : Records, products : SUBSET Products, draft : BOOLEAN,
               moves : BOOLEAN, stamp : Times, late : BOOLEAN]
ResetWork == [op : {"reset"}, products : SUBSET Products, full : BOOLEAN,
              found : SUBSET Products, submitted : BOOLEAN,
              stamp : Times, late : BOOLEAN]
StatusWork == [op : {"submit", "reopen"}, late : BOOLEAN]
NoJob == [op |-> "none"]

VARIABLES
    status,   \* the daily_review_sessions row of the date and shift
    marks,    \* its daily_review_product_states
    figureAt, \* per product, DailyFigure.updated_at, 0 without a row
    records,
    work,     \* what each worker has read and is about to write
    clock,
    touched   \* (history) <<product, where>>: the figure, or a record that is
              \* or was no draft, has changed since the mark of the product,
              \* last by a request that no other overtook

reviewVars == <<status, marks, figureAt, records, work, clock, touched>>

ReviewTypeOK ==
    /\ status \in Statuses
    /\ marks \in [Products -> Mark \cup {NoMark}]
    /\ figureAt \in [Products -> Times]
    /\ records \in [Records -> Record]
    /\ work \in [Workers -> MarkWork \cup SourceWork \cup ResetWork \cup StatusWork \cup {NoJob}]
    /\ clock \in Times
    /\ touched \subseteq Products \X (Records \cup {"figure"})

ReviewInit ==
    /\ status = "none"
    /\ marks = [p \in Products |-> NoMark]
    /\ figureAt = [p \in Products |-> 0]
    /\ records = [r \in Records |-> [products |-> {}, draft |-> FALSE, at |-> 0]]
    /\ work = [w \in Workers |-> NoJob]
    /\ clock = 0
    /\ touched = {}

-----------------------------------------------------------------------------
(* What build_summary() says of a product. *)

Counted(p) == marks[p].state \in {"reviewed", "edited"}

SourceTouchedSince(p, since) ==
    \E r \in Records : p \in records[r].products /\ records[r].at > since

(* No snapshot, nothing to compare. *)
FaultyDailyFigureChangedSince(p, since) == since # 0 /\ figureAt[p] # since

(* Any difference, a row where there was none included. *)
DailyFigureChangedSince(p, since) == figureAt[p] # since

Stale(p) ==
    /\ Counted(p)
    /\ \/ SourceTouchedSince(p, marks[p].at)
       \/ DailyFigureChangedSince(p, marks[p].figure)

MissingReason(p) == marks[p].state = "edited" /\ ~marks[p].reason
Blocks(p) == Stale(p) \/ MissingReason(p)
Unreviewed(p) == ~Counted(p) /\ ~Blocks(p)

-----------------------------------------------------------------------------
(* Requests. *)

Begin(w, request) ==
    /\ work[w] = NoJob /\ clock < MaxCommits
    /\ work' = [work EXCEPT ![w] = request]
    /\ UNCHANGED <<status, marks, figureAt, records, clock, touched>>

(* Every other request under way is late now. *)
Committed(w) ==
    /\ clock < MaxCommits /\ clock' = clock + 1
    /\ work' = [v \in Workers |->
                   IF v = w \/ work[v] = NoJob THEN NoJob ELSE [work[v] EXCEPT !.late = TRUE]]

(* A refusal, or an IntegrityError or StaleDataError in the write. *)
Abandon(w) ==
    /\ work[w] # NoJob
    /\ work' = [work EXCEPT ![w] = NoJob]
    /\ UNCHANGED <<status, marks, figureAt, records, clock, touched>>

(* mark_product_state(): no session yet, or one that is not submitted. *)
ReadMark(w, p, state, reason) ==
    /\ status # "submitted"
    /\ reason => state = "edited"
    /\ Begin(w, [op |-> "mark", p |-> p, state |-> state, reason |-> reason,
                 session |-> status # "none", was |-> marks[p], figure |-> figureAt[p],
                 stamp |-> clock + 1, late |-> FALSE])

(* An UPDATE has the columns that differ from the row as it was read. *)
Column(was, new, now) == IF was = new THEN now ELSE new

(* A reason once given outlives an empty one. *)
Reason(m) == m.state = "edited" /\ (m.reason \/ (m.was # NoMark /\ m.was.reason))

SameAgain(m) == m.was # NoMark /\ m.was.state = m.state /\ m.was.reason = Reason(m)

Row(m, snapshot, at) ==
    IF m.was = NoMark
    THEN [state |-> m.state, reason |-> Reason(m), at |-> at, figure |-> snapshot]
    ELSE [state |-> Column(m.was.state, m.state, marks[m.p].state),
          reason |-> Column(m.was.reason, Reason(m), marks[m.p].reason),
          at |-> at,
          figure |-> Column(m.was.figure, snapshot, marks[m.p].figure)]

(* The stamp left to onupdate, which a row that says the same again does   *)
(* not reach.                                                              *)
FaultyMarked(m) ==
    IF SameAgain(m)
    THEN {Row(m, m.figure, IF m.was.figure = m.figure THEN m.was.at ELSE m.stamp)}
    ELSE {Row(m, figureAt[m.p], clock + 1)}

(* The query for the figure flushes the row first, and so waits for the    *)
(* lock, unless the row says the same again, by the same reviewer.         *)
Marked(m) ==
    {Row(m, figureAt[m.p], clock + 1)}
        \cup (IF SameAgain(m) THEN {Row(m, m.figure, m.stamp)} ELSE {})

(* The session and the row are inserted once; a row a reset has deleted    *)
(* meanwhile cannot be updated.                                            *)
WriteMark(w) ==
    LET m == work[w] IN
    /\ m.op = "mark"
    /\ (status # "none") = m.session
    /\ (marks[m.p] = NoMark) = (m.was = NoMark)
    /\ \E row \in Marked(m) : marks' = [marks EXCEPT ![m.p] = row]
    /\ status' = IF m.session THEN status ELSE "in_progress"
    /\ touched' = {t \in touched : t[1] # m.p}
    /\ Committed(w)
    /\ UNCHANGED <<figureAt, records>>

(* submit_review(): force only passes over what was not reviewed. *)
ReadSubmit(w, force) ==
    /\ status \in {"in_progress", "reopened"}
    /\ \A p \in Products : ~Blocks(p)
    /\ force \/ \A p \in Products : ~Unreviewed(p)
    /\ Begin(w, [op |-> "submit", late |-> FALSE])

WriteSubmit(w) ==
    /\ work[w].op = "submit"
    /\ status' = "submitted"
    /\ Committed(w)
    /\ UNCHANGED <<marks, figureAt, records, touched>>

ReadReopenReview(w) ==
    /\ status = "submitted"
    /\ Begin(w, [op |-> "reopen", late |-> FALSE])

WriteReopenReview(w) ==
    /\ work[w].op = "reopen"
    /\ status' = "reopened"
    /\ Committed(w)
    /\ UNCHANGED <<marks, figureAt, records, touched>>

-----------------------------------------------------------------------------
(* What else changes the day. *)

(* A record of a source book is entered, corrected, finalized, reopened,   *)
(* voided, moved to or from another day or deleted: its lines here are     *)
(* those of the products.  Its stamp moves where a column of its own row   *)
(* does; a change of a draft's lines sets only updated_by, and that moves  *)
(* nothing when the user is the one who is there.  A correction of a       *)
(* finalized or void record makes it a draft in between, and moves it.  A  *)
(* draft keeps a line; one of another day is here no draft.                *)
ReadSource(w, r, products, draft, moves) ==
    /\ draft => products # {}
    /\ moves \/ (records[r].draft /\ draft)
    /\ Begin(w, [op |-> "source", r |-> r, products |-> products, draft |-> draft,
                 moves |-> moves, stamp |-> clock + 1, late |-> FALSE])

(* The record as it will be; one that was overtaken writes its status only *)
(* where it has changed it.                                                *)
Sources(m) ==
    IF m.moves
    THEN {[products |-> m.products, draft |-> draft, at |-> m.stamp] :
             draft \in {m.draft} \cup (IF m.late THEN {records[m.r].draft} ELSE {})}
    ELSE {[records[m.r] EXCEPT !.products = m.products]}

WriteSource(w) ==
    LET m == work[w] IN
    /\ m.op = "source"
    /\ \E record \in Sources(m) :
          /\ records' = [records EXCEPT ![m.r] = record]
          /\ touched' = {t \in touched : t[2] = m.r => ~m.late /\ t[1] \in m.products}
                \cup (IF m.late \/ (records[m.r].draft /\ record.draft) THEN {}
                      ELSE m.products \X {m.r})
    /\ Committed(w)
    /\ UNCHANGED <<status, marks, figureAt>>

(* upsert_daily_figure(), where it changes the row.  No other save has its *)
(* stamp, whenever it was taken.                                           *)
SaveFigure(w, p) ==
    /\ work[w] = NoJob
    /\ figureAt' = [figureAt EXCEPT ![p] = clock + 1]
    /\ touched' = touched \cup {<<p, "figure">>}
    /\ Committed(w)
    /\ UNCHANGED <<status, marks, records>>

(* daily_reset_service.execute(): clear_product_states_for_reset() comes   *)
(* first, and reads the session and its rows.                              *)
ReadResetReview(w, products, full) ==
    Begin(w, [op |-> "reset", products |-> products, full |-> full,
              found |-> {p \in products : marks[p] # NoMark},
              submitted |-> status = "submitted", stamp |-> clock + 1, late |-> FALSE])

(* _remove_product_from_record(): reopened and finalized again without the *)
(* products, or voided with its last line.  A draft that keeps a line      *)
(* keeps its stamp.                                                        *)
Neutralized(r, products, at) ==
    LET left == records[r].products \ products
        drafted == records[r].draft /\ left # {}
    IN  [products |-> left, draft |-> drafted, at |-> IF drafted THEN records[r].at ELSE at]

(* A Full Reset also writes the figures, where that changes them, and      *)
(* takes the products out of the records that are not void.                *)
WriteResetReview(w) ==
    LET m == work[w] IN
    /\ m.op = "reset"
    /\ status' = IF m.submitted THEN "reopened" ELSE status
    /\ marks' = [p \in Products |-> IF p \in m.found THEN NoMark ELSE marks[p]]
    /\ \E written \in SUBSET {p \in m.products : m.full /\ figureAt[p] # 0} :
       \E books \in SUBSET {r \in Records : m.full /\ records[r].products \cap m.products # {}} :
       \E at \in {m.stamp, clock + 1} :
          /\ figureAt' = [p \in Products |-> IF p \in written THEN clock + 1 ELSE figureAt[p]]
          /\ records' = [r \in Records |-> IF r \in books THEN Neutralized(r, m.products, at)
                                           ELSE records[r]]
          /\ touched' =
                {t \in touched : t[2] \in books => records[t[2]].draft /\ t[1] \notin m.products}
                \cup (written \X {"figure"})
                \cup (IF m.late THEN {}
                      ELSE UNION {(records[r].products \ m.products) \X {r} :
                                     r \in {b \in books : ~records[b].draft}})
    /\ Committed(w)

ReviewNext ==
    \E w \in Workers :
       \/ \E p \in Products, state \in MarkStates, reason \in BOOLEAN :
             ReadMark(w, p, state, reason)
       \/ \E force \in BOOLEAN : ReadSubmit(w, force)
       \/ ReadReopenReview(w)
       \/ \E r \in Records, products \in SUBSET Products, draft \in BOOLEAN, moves \in BOOLEAN :
             ReadSource(w, r, products, draft, moves)
       \/ \E products \in (SUBSET Products) \ {{}}, full \in BOOLEAN :
             ReadResetReview(w, products, full)
       \/ \E p \in Products : SaveFigure(w, p)
       \/ WriteMark(w) \/ WriteSubmit(w) \/ WriteReopenReview(w) \/ WriteSource(w) \/ WriteResetReview(w)
       \/ Abandon(w)

ReviewSpec == ReviewInit /\ [][ReviewNext]_reviewVars

-----------------------------------------------------------------------------
(* Properties. *)

(* What a submission counts as reviewed is as the reviewer left it: since  *)
(* the mark no figure of the product was saved, and no record that has a   *)
(* line of it was finalized, or changed while it was no draft, the last    *)
(* time by a request that was not overtaken on its way                     *)
(* (_source_touched_since(), _daily_figure_changed_since(),                *)
(* submit_review()).  A submission that was overtaken itself promises      *)
(* nothing, and the lines of a draft change without its stamp (README,     *)
(* Known disagreements).                                                   *)
SubmittedAsReviewed ==
    [][status # "submitted" /\ status' = "submitted"
       => \/ \E w \in Workers : work[w].op = "submit" /\ work[w].late /\ work'[w] = NoJob
          \/ \A p \in Products : Counted(p) => \A t \in touched : t[1] # p]_reviewVars

(* A product found changed can be reviewed again: a mark that nothing      *)
(* overtook leaves it not stale, also where it repeats the mark before     *)
(* (mark_product_state()).                                                 *)
RemarkClearsStaleness ==
    [][\A w \in Workers, p \in Products :
          /\ work[w].op = "mark" /\ work[w].p = p /\ ~work[w].late
          /\ work'[w] = NoJob /\ clock' # clock
          => ~Stale(p)']_reviewVars
===============================================================================
