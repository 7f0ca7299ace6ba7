# Daily Figures: a TLA+ model of its state changes

Daily Figures is a Flask and SQLite application in which a food factory records, for every
date, shift and product, what was in stock, produced, returned and issued, together with
departments for sales and for spare parts, and a set of scripts that run it on a production
host. This directory holds TLA+ specifications of its state changes, TLC runs over small
instances and TLAPS proofs for instances of any size. Sources are named relative to
`src/webapp/` unless they start with another directory.

## The system

| Component | State it keeps | Operations | Talks to |
|---|---|---|---|
| Stock ledger: `services/stock_service.py`, `stock_ledger_service.py`, `models/daily_figure.py` | `DailyFigure` rows (opening stock and its provenance), `StockAdjustment` rows | save of a figure (first-ever, correction, routine), create/delete an adjustment; derived: trusted anchors, carry-forward, Opening, Closing, range report, diagnostic ledger | reads the source books; is written by reset, cutover and migration |
| Entry locks and completion: `services/daily_entry_status_service.py`, `routes/daily_figures.py` | one `DailyEntryStatus` row per date, shift and product: lock, completion | lock, release, take over, complete (save, no activity), reopen, clear | called by the save route before and after the ledger is written |
| Daily reset: `services/daily_reset_service.py` | none | figures-only and full reset of one or all products | ledger, entries, source books, review |
| Ledger cutover: `services/ledger_cutover_service.py` | `LedgerCutover`, its balances | draft, set balances, import, verify, cancel, preview, activate | writes anchor rows into the ledger |
| Legacy migration: `services/legacy_migration.py` | flags of undecodable values | migrate, audit, preview and apply a repair | reads `entries`, writes rows and adjustments |
| Source books: `services/{dispatch,production,returns}_service.py` | records and lines, draft / finalized / void; usage ranking | create, duplicate, edit, finalize, reopen, void, delete | read by the ledger and the review |
| Corrections: `services/{record_correction,correction_request}_service.py` | requests, timed one-time grants | request, approve, reject, consume, expire, correct a record | source books |
| Daily review: `services/daily_review_service.py` | one session per date and shift, one mark per product | mark, skip, submit, reopen | figures, source books, reset |
| Sales: `services/sales_service.py` (2253 lines), `routes/sales.py` | sales days, vehicle sheet, invoices, debts, payments, expenses, transfers, starting points | save, close and reopen a day, correct a reopened day, void, reset | reads finalized dispatches |
| Spare part stock: `services/spare_part_movement_service.py` | movement ledger, `current_stock_cache` | stock in, stock out, adjustment, opening balance, count, void | catalogue, planning |
| Scripts: `src/scripts/daily-figures`, `sqlite_backup.py`, `sqlite_migration_guard.py` | database file, backups, files put aside, update marker, lock | install, start, stop, back up, update, restore, move storage | the database file, the container |
| Spare part catalogue, import, planning, analytics, fabrication; users, flags, sections; customers; packaging | master data | administration, reports | all |

All components share one SQLite file. `docker-entrypoint.sh` starts gunicorn with two worker
processes, so two requests are really served at once. Three facts about the stack decide which
interleavings exist, and the models rest on them:

1. pysqlite opens a transaction at the first INSERT, UPDATE or DELETE. A handler's earlier SELECTs
   run outside one, so another request may commit between what a handler read and what it writes.
2. From its first write to its commit a handler holds SQLite's only write lock (others wait, 15 s at
   most, `__init__.py:36`). What follows the first write is therefore one atomic step, and after a
   failure everything since that write is rolled back.
3. SQLAlchemy writes only the columns whose value differs from the value it loaded, and does not
   reload a row it holds. A late write is a merge of the columns a handler changed with the row as
   other requests have left it.

A handler is accordingly a `Read...` action (what it decides on) and a `Write...` action (from its
first write to the commit); where nothing it decided on can change in between, it is one action.

### What is hard

The hazards are listed one by one, with source lines, in `PROJECT.json`. They fall into six groups:
chronology (every balance is derived from rows and movements entered out of order), the
provenance of an opening (seven sources, three of them unconditional, rewritten by six operations),
read-then-write races on single rows, caches and stamps kept beside the thing they describe, one-time
permissions with a deadline, and scripts that die between two steps.

### What makes each part correct

* Stock ledger: a period opens with the closing of the one before unless it is a trusted anchor; only
  an authorized correction, a first-ever save, a reset or a cutover moves an opening; history before
  an unconditional anchor does not reach past it; movements never act backwards; the second reading of
  the books that the diagnostic ledger makes agrees with the first.
* Entries: one user completes an entry, and the figure of a user who lost the race is not stored.
* Source books: status, stamps, lines and ranking agree; a number is used once; a void is final.
* Corrections: an approval is used once, in time; what is settled stays settled.
* Cutover: what is activated is what was verified and previewed, and governs exactly if it says so.
* Review: what is submitted as reviewed has not changed since.
* Sales: stock is conserved from day to day, a payment counts once, a closed day reconciles and stays.
* Spare parts: stock is the sum of the ledger, never negative; the cache equals it.
* Scripts: whatever step dies, no record is lost and no application runs on foreign tables.

## Modules

| Module | Models |
|---|---|
| `StockLedger` | one product's ledger, one action per committed request |
| `FigureSave` | one entry and its figure, requests overlapping |
| `SourceRecords` | the records of the three source books, requests overlapping |
| `CorrectionRequests` | the requests, grants and corrections of one record id, with a clock |
| `LedgerCutover` | cutovers from draft to activation, requests overlapping |
| `DailyReview` | the review of one date and shift |
| `SalesCalendar` | the dates and the status of the sales days, common to the next two |
| `SalesDay` | one salesperson's vehicle, one product, over several sales days |
| `SalesMoney` | the two money accounts of the same days |
| `SparePartStock` | one spare part, requests overlapping |
| `Deployment` | the production host and the commands that change it |
| `DataCustody` | what those commands promise about the data; `Deployment` implements it |
| `MC...` | the constants of the TLC runs |
| `SumLemmas` | facts about `SumFunctionOnSet` and intervals that the proofs need |
| `StockProofs` | theorems about `StockLedger` and `SparePartStock` |
| `DailyProofs` | theorems about `FigureSave` and `DailyReview` |
| `SalesProofs` | theorems about `SalesDay` and `SalesMoney` |
| `SourceRecordsProofs`, `CorrectionRequestsProofs`, `LedgerCutoverProofs`, `DeploymentProofs` | theorems about the module of that name; the last also what `DataCustody` implies |

A proof module that extends two components needs their names apart: `SparePartStock`, `DailyReview` and `SalesMoney` mark
the names every specification has (`PartsInit`, `ReviewNext`, `MoneySpec`), `SalesMoney` also its half of a request that
`SalesDay` models too (`CloseWorkingDayMoney`).

The modules divide a request's effects rather than a component's lines: one Full Reset is `FullReset` in
`StockLedger`, a clearing of the entry in `FigureSave` and `WriteResetReview` in `DailyReview`; a finalized record is a
`Finalized` row in `SourceRecords` and movements in `StockLedger`; an activated cutover is `WriteActivate` in
`LedgerCutover` and an anchor in `StockLedger`. Each module lets the steps of the others happen at any time
their own rules allow, which is more than the composition would.

Operators named `Faulty...` are deliberate mistakes. Each replaces the definition that follows it when a
property is tested for being able to fail; no specification uses them. The mutant list is in `PROJECT.json`.

### StockLedger

A period is a number: odd for a Day, even for the Night that follows it, which is the order `_sort_key()`
gives to dates and shifts. `rows` maps a period to its `DailyFigure` row (provenance, opening count, and
the Production and Returns columns, as one net number, that rows from before the source books carry),
`posted` is the set of finalized book lines and existing adjustments, `cutovers` the effective periods of
activated cutovers. Cartons, packs and pieces are one count in base units, as they are in every formula
of `stock_service.py`.

| Code | Model |
|---|---|
| `_is_trusted_anchor`, `_find_anchor_figure` | `TrustedAnchor`, `LastAnchorBefore` |
| `get_prior_closing_base_qty` (None / a number) | `FirstEver`, `PriorClosing` |
| `_any_finalized_activity_at_or_before` | `AnyActivityAtOrBefore` |
| `_movement_between_periods`, `_legacy_stored_movement_in_window` | `MovementBetween`, `LegacyStoredMovement` |
| `daily_figure_view`, `date_range_summary` | `Opening`, `Closing`, `RangeClosing` |
| the line queries and `_period_entry` of the diagnostic ledger | `ProductionLines` ... `ComponentClosing` |
| `first_negative_period`, `_carried_negative_info` | `NegativePeriods`, `CarriedNegative`, `ScanStart`, `ScanFails`, `Origin` |
| the four branches of `upsert_daily_figure` | `SaveFirstEver`, `CorrectOpening`, `PreserveAnchor`, `RefreshDerived` |
| finalize, and reopen / void / delete, of a line | `FinalizeLine`, `RemoveLine` |
| the adjustment routes | `CreateAdjustment`, `DeleteAdjustment` |
| `execute` in `MODE_FULL` | `FullReset` |
| the row `activate_cutover` writes | `ActivateCutover` |
| one entry of `run_legacy_migration` | `MigrateLegacyEntry` |

`MODE_FIGURES_ONLY` does not write the ledger and appears in `FigureSave` only. Who may correct an opening
restricts callers, not what can happen, so the ledger lets any period be corrected; roles are in
`FigureSave`. `LookbackDays` is how far the preview of a reset looks back (`_CARRIED_NEGATIVE_LOOKBACK_DAYS`, 60 in the
code; any number in the proofs, one in the run); `ScanFails` is its error branch. A
`Movements` set may hold dispatches of a Night: none can be created today, but `dispatch_service.py:142-144` leaves historical
ones where they are, finalized or not (`NightDispatches`). A Full Reset of a Night does not remove them.

### FigureSave

`entry` is the `DailyEntryStatus` row, `figure` the `DailyFigure` row, `carried` the balance the rest of
the ledger carries in (any, changing at any time, or none: a first-ever period). `request[u]` is what the
handler serving user `u` has read and decided; at most `MaxInFlight` handlers run. `Read...` actions take
the decision, `Write...` actions are everything from the first write to the commit, `Refuse` is a 409.
`Merge` is fact 3 above. `gives` tells a save that takes the submitted opening (a correction, or the first save of a
product) from a routine one. A cutover's activation and the review's write of the row are one step here. `claimants` is a history variable: users who got a success answer for a
completion since the entry was last opened.

### SourceRecords

`records` maps a row id to its row: book, status, key (the dispatch number, or recipient and date of a return),
the override flag, owner, which stamps are set, and its lines as a set of products. `usage` is the ranking of
`product_usage_service.py` for the record. `work[w]` is what a worker has read. Every route of the three books
is an action of its own name (`FinalizeReturn`, `UpdateDispatchLine`, ...) that states its guard and hands a
job to the one `Write`, where `Written` gives the row it leaves: the columns the job changed over whatever is
stored by then. `Corrected` is `correct_record()` with its reopening and finalizing again. `tangled`
(history) holds the records some late request has written. The lines a duplicate copies are arbitrary, because
they are read under the write lock, after the check.

### CorrectionRequests

One row id of one book and the records it has stood for in turn: `entry` counts them, since SQLite hands the id
of a deleted last row out again. `requests` is the table, `clock` the time, `Window` both the operator's own 24
hours and the grant's. Consuming and expiring a grant are the two statements in the code that name the
status they expect, and `UseGrant` and `WriteExpired` decide on the row as it is; the other writes decide on the
row they read. `approvals` and `uses` are history.

### LedgerCutover

`cutovers` are the two tables (status, period, balances, and a version for their `updated_at`), `anchors` the
openings in `daily_figures` that cutovers wrote, `tokens` the latest preview of each, `active` the products in use.
`Stage` stands for one balance or an imported file. `Fingerprint` is the token. `found` is what an activation reads of
its period before its first write; `activate_cutover()` flushes each product before it looks up the next, so only the first
row can have changed since, and of that one only the columns that differ from what was found are written
(`Merged`, fact 3). Other writers of these rows, a manual save and a reset, are in `FigureSave` and not here. `tangled` (history) holds
cutovers that a late request has written to.

### DailyReview

`status` is the session row, `marks` the product states, `figureAt` the stamp of each product's `DailyFigure` row,
`records` the source records of this date and shift: their products, whether the record is a draft, and its `updated_at`.
That stamp moves when a column of the record's own row changes. Changing the lines of a draft sets only `updated_by`
(`replace_lines()`, the line routes, `correct_record()` on a draft), which is no change when the user is there already: such a
request is one with `moves = FALSE` (fact 3). A correction of a finalized or void record reopens it in between and does move
it. A stamp is taken when the
statement is built, before it waits for the write lock, so it is carried in `work`. `touched` (history)
holds what has really changed since a product's mark, last by a request that no other overtook; of records only those that
are or were no draft, because a draft counts in no figure. Locks and
packaging rules only refuse a submission and are left out.

### SalesDay and SalesMoney

`SalesCalendar`: `status` of each date.

`SalesDay`: `line` the product's row on the day's sheet (each figure may be a correction
or follow the books), `recorded` the quantity that invoices price, `given` what dispatches and adjustments put on
the vehicle, `baseline` a declared starting stock. `Receive` is the check of the day's status, made
before the first write; the rest of a handler reads under the write lock and is one action. `WriteWorkingDay`
is what Save and Close share, with a sheet that may leave the product out; `CloseDay` is judged on the rows just written, as in
the code: `Counted` is never waived, a `Mismatch` is by an elevated user's reason, and where the total is not known there is
none to find. The refusal for cash not counted is a request that does not fit. The endpoints of single corrections
(`set_opening_return()`, `save_vehicle_stock()`, the product's sales, POST debts, POST payments of a debtor, PATCH of a day) check
what they read before they take the write lock; here check and write are one action, so what another request
changes between the two is left out.

`SalesMoney`: one total each for the sales cards, Mobile Money and debts of a day, one collection, expense,
transfer and adjustment, and invoices and payments by identity, because their dates differ. `tender_split()`'s parts are
`CashFromSales`, `MobileFromSales`, `NewDebt`; the range sums of `_range_tender()` are `RangeCash` and `RangeMobile`,
defined separately as in the code; `MoneyBalance` is the running balance from its starting point, `RangeMoney` what it adds
to it, `DayMoney` what a day shows. Save is split by the list it replaces. `Balances` are the two accounts that are carried from
day to day; the others a payment, an expense or a transfer can name (bank, company, other) are one, `"other"`.

### SparePartStock

`ledger` maps a movement id to its row, `cache` is `current_stock_cache`, `request[w]` what a worker has
read. Operations that decide on nothing they read are one action; a stock count and a void are two.
`surplus` is a history variable, the net effect of voids that reversed an already void movement. The part
is active throughout (an inactive part takes no movement) and quantities are whole numbers.

### Deployment and DataCustody

`database`, `backups`, `aside`, `staged`, `marker` and `job` are the files of the host; `container` and `image` what Docker
holds. A command is a program counter, one action per step that changes something, and `GiveUp` ends it at any
step: `fatal`, `set -e`, a kill, a power cut. A migration may stop anywhere between two releases and leave an
Alembic temporary table with or without rows. `saved` (history) holds every acknowledged record, `abandoned` that the
last command did not reach its end.

Three commands change more than one thing. `update` is guarded by its marker. `restore` stages its candidate before the operator
confirms and before it has the lock (`Stage`, `Unstage`, `BeginRestore`), and stops the container with `dc stop || true`
(`daily-figures:1108`): in `StopForJob` it may go on before an application that still runs, which then records, or makes an
empty file where the database was moved away (`Recreate`). `install` over an existing installation (`BeginInstall`) builds, stops,
backs up, migrates and starts, without looking at the marker. `Smoke` does not look at the schema: `set -e` is off
inside the condition that calls it (1070), so the exit code of the `(head)` check (617) is lost. What is not modelled of a
running application: a transaction that is open while the file is renamed. SQLite refuses a later write to a file that was moved.

`DataCustody` says it without commands: records are added while the application serves, and the database is replaced only by
data recorded before and after it was put aside whole. Tables change form, and the database is replaced, only while the
application does not serve or is `unstopped`, being worked behind by a restore that failed to stop it.
`Deployment` implements it under the mapping `Custody`. Its consequence `NothingIsLost` is a theorem.

## Runs

| Run | Bounds | What it shows |
|---|---|---|
| `stock_ledger` | 5 periods, a lookback of one date, 4 movements with a Night dispatch, one count, one old entry, 2 rows and 1 cutover at once | carry-forward and the effect of every operation on every balance; the diagnostic ledger short of Night dispatches only; where negative balances come from |
| `figure_save` | 2 operators, 1 elevated user, 2 workers | completion, authorship and figure under overlapping requests |
| `source_records` | 2 workers, 2 row ids, 2 users, 2 products, 1 key, 3 writes | parts of a record agree, keys clash and voids are undone only by overtaken requests |
| `correction_requests` | 2 workers, 2 operators, 2 requests, 2 records, time 0..3 | one correction per approval, settled stays settled |
| `grant_reuse` | the same | violation: a grant opens another record |
| `ledger_cutover` | 2 workers, 2 cutovers, 2 periods, 1 product, 4 changes of a cutover | token, status and order of cutovers |
| `daily_review` | 2 workers, 2 products, 1 record, 4 commits | submissions are as reviewed, a new mark clears what was stale |
| `sales_day` | 2 workers, 2 days, figures 0 and 1 | stock, closing and closed days |
| `sales_money` | 2 days, 1 invoice, 2 payments, 3 records at once | a day's balance is what it started with and what it shows; later dates change nothing |
| `sales_tender` | the same | violation: a day closes with more debt than sales |
| `spare_part_stock` | 2 workers, 3 movements, quantities 1 and 2 | cache, ledger and counts |
| `deployment` | 1 record, 2 releases, 1 backup kept, 1 restore with a database put aside | custody of the data, markers, backups |

Five periods are three dates: an anchor, periods after it and one in between, both kinds of step from one shift to the next,
and a last date whose lookback does not reach the first. `SmallLedger` bounds what the ledger holds at once: two rows, one
cutover, and four rows, movements and cutovers together. The movements were chosen for what the code distinguishes: a production and
a legacy Night dispatch that cancel out, an adjustment and a return that does not post. `InitialRows` also
starts from a database holding a `legacy_inferred` row, which only an old schema migration writes. Two operators and
an elevated user are the fewest with a lost completion, a late lock and a reopening between them. Two workers is what
the entrypoint starts. Three writes are a creation and two requests that overlap on the record or on its number;
longer lives of a record are covered by the proof. Four commits of a review are two marks, a change and a submission,
in any order. Time 0 to 3 with a window of 1 holds an approval, its end, and a second approval. In `sales_day` two
requests overlap only on the first day, while nothing is known of the second and no stock is declared
(`OverlapOnFirstDay`), stock is declared on one day at most (`DeclaredOnce`) and figures are corrected by hand on one day at most
(`CorrectedOnce`: a day learns of another's corrections only through the return counted there, which takes all its values
anyway); one request at a time explores what days carry to each other. In `sales_money` three records at once already hold an invoice paid on two dates;
`SmallBooks` keeps opening debts, expenses, transfers and adjustments to one at a time, and lets books of two have an opening debt, an
adjustment or money in another account. In `daily_review` no two products are marked as edited, or as skipped, and of the
requests under way at most one each changes the record, resets, marks as edited and marks as skipped (`OneOfAKind`); what is lost
are overlaps of two such requests of one kind, of which the later is overtaken and promises nothing.
With one backup kept, every second backup of an update or a restore drops the first; one record is enough to be lost, and the
proofs are about any number.

`CHECK_DEADLOCK FALSE` is set where a bound on writes, commits, movements or records ends every behaviour; the other
systems never stop.

### What the violations show

* `sales_tender`: Save may leave the debts of a day above its sales, and Close Day is to check it. A Close that sends the
  list already stored returns before the check: the run saves a debt on a day without sales and closes it. (Mobile Money above the
  sales is checked nowhere.)
* `grant_reuse`: deleting a record leaves its approved request; the next record gets its id, and the grant opens it.

### Exceptions in passing properties

They are statements about the code too. `RoutineSaveKeepsBalances` leaves out a routine save on an `initial_manual`
row that is still trusted but has an earlier anchor: such a save replaces the row by the derivation although nothing
disqualified it. `AnchorSealsHistory` leaves out live-revalidated rows after the anchor: these are demoted by activity
before the anchor too. `OrphanedLegacy` marks the one situation in which legacy columns are not carried.
`LedgerReconciles` allows a Night to differ by its own legacy dispatches. `NegativeIsTraced` leaves out a last anchor on a Night,
a lookback that starts in a negative balance (`CutOff`) and a scan that meets a Night dispatch (`ScanFails`).
`FoundAnchorIsKept` is about the anchor a routine save found; one that found none may write over one set in between.
`CloseReconciles` compares only what is known. `ExpectedMoneyAddsUp` leaves out days after a first day that is still a draft
(`AfterDraft`) and days with an invoice that the two sums treat differently (`Contested`). `OnlyThePreviewedIsWritten`
names a row written since the activation found it: its quantity may stay under the new cutover's name.
`SubmittedAsReviewed` does not see drafts. `DataIsInCustody` and `ForeignSchemaOnlyByHand` name a restore that has failed to
stop the application (`Unstopped`). `KeysClashOnlyByOvertaking`, `VoidIsFinal`, `StatusTellsWhatGoverns`,
`TakesOverUnlessOvertaken`, `SettledStaysSettled`, `SubmittedAsReviewed` and `ClosedDayMovesOnlyLate` each name the late request
that may break what they state; without one it holds.

### Fairness and liveness

`Deployment` alone assumes fairness. `WF_vars(Step \/ GiveUp)`: a script that runs goes on or dies; each step is a command
that returns, and the kernel frees the lock of a dead process (`acquire_lock()` uses `flock` on a descriptor).
`SF_vars(Backup)`: the systemd timer fires every day with `Persistent=true` and finds the lock free sometime, because
commands are started by hand and are short. Nothing else is fair: an operator need not restart anything, and an update
need not succeed. Under it `BackupsCatchUp` says that every acknowledged record reaches a second file.

In the application every step waits for a user's request; a holder may refresh a lock for ever; nothing in the code
retries or works through a queue on its own. No fairness is assumed there and no liveness is claimed.

## Proofs

TLAPS checks the theorems below, for every value of the constants that the `ASSUME`s of the modules admit; TLC evaluates the
same assumptions on every run. Proofs and runs use the same definitions: no configuration replaces one. Each invariant was
checked by TLC on the instance of its run before it was proved. `PROJECT.json` lists the theorems with the properties they state.

| Module | For any | Proved |
|---|---|---|
| `StockProofs`: `StockLedger` | number of periods, finite set of movements, counts, old entries, initial rows | types; carry-forward (`OpeningAlwaysContinues`), demotion by late history, the range report, agreement of the diagnostic ledger but for Night dispatches (`LedgerAlwaysReconciles`), nothing flows backward, Full Reset, routine saves keep every balance, anchors seal the history before them, negative balances are traced to the period that caused them |
| `DailyProofs`: `FigureSave` | users, requests in flight, counts | types; one claimant, no figure from a loser, authorship, anchors kept |
| `DailyProofs`: `DailyReview` | products, records, workers, stamps | types; submitted as reviewed, a new mark clears what was stale |
| `StockProofs`: `SparePartStock` | workers, movements, quantities | types; cache and ledger, no overdraft, exact counts |
| `SourceRecordsProofs` | workers, records, keys, products, length of life | agreement of a record's parts, unique numbers, final voids |
| `CorrectionRequestsProofs` | workers, operators, requests, records, window, time | types; one correction per approval, settled stays settled |
| `LedgerCutoverProofs` | workers, cutovers, periods, products, quantities | types; status tells what governs, only the previewed is written (or stays, where another wrote in between), an activation takes over from all before it |
| `SalesProofs`: `SalesDay` | workers, days, quantities | types; stock conserved from day to day, stable resaves, reconciled closings, closed days kept |
| `SalesProofs`: `SalesMoney` | days, amounts, finite sets of invoices and payments, any number of records | types; a day's balance is what it started with and what it shows, later dates change nothing |
| `DeploymentProofs` | records, releases, kept backups, restores | `DataCustody` loses nothing, its refinement, hence nothing is lost, no foreign tables unless by hand or behind a restore's failed stop, markers |

How they go:

* Sums. `SumFunctionOnSet` is a fold, defined by recursion over sets. `SumLemmas` proves from that definition, by minimal
  counterexamples (a least number, a minimal subset) where one would use induction, that a sum exists, is an integer, splits
  over disjoint sets, changes by one term when one element is added, and may be taken over the parts of a set first.
  `StockProofs` and `SalesProofs` rest on it.
* `StockLedger`. `TypeOK` is inductive, and the state properties follow from it: all balances are computed, so they can
  disagree only by arithmetic. A period and the one before it look back to the same anchor or differ by one step
  (case split on the latest anchor), and the movements of a window are those of its two halves.
  `LedgerReconciles` splits the posted movements by their book, the dispatches of a Night apart. The action properties add that a movement of
  period p is outside every window that ends before p: `BalancesReadAnchorsOnly` says that a balance depends on
  the rows only through the anchors and their openings, which is why a routine save, which keeps an anchor as it is and otherwise
  replaces a row that is no anchor by one that is none, moves no balance. `NegativeIsTraced` needs one more invariant, `AnchorsAreCounts`: an anchor-eligible row holds an opening >= 0. Every
  operation that makes one stores a validated count; that the initial rows do is `InitialAnchorsAssumption`, justified by
  the schema migration 06658bb730c0, which calls an old row `legacy_inferred` only if it was typed in. With it the scan
  starts at a balance that is not negative (at the anchor, or where `~CutOff` says so), the first negative period after it has movements of its own, and no anchor follows.
* `FigureSave`. What a late write leaves depends on what its request had read, so `FigureInv` says beside `OneClaimant` that
  what a request has read of an entry is consistent in itself and its figure row is still there (`RequestsSane`), and that
  a completed entry has a row (`EntrySane`). `MergedEntry` and
  `ClearedUpdates` state what a merge of columns leaves; of the answers, only those of completions touch the claimants.
  `FoundAnchorIsKept` needs `RequestsMade`: a routine save that found an unconditional anchor has decided on just that row, and the
  merge of a row with itself writes nothing.
* `SparePartStock`. `CacheInv`: cache = sum of the active movements + surplus, and cache >= 0. The conditional UPDATE keeps the second
  part; each movement changes the sum by its own effect.
* `SourceRecords`. `RecordsInv` adds to the two invariants what the job of a worker has checked (`WorkSane`: a job that finalizes holds
  a draft with lines) and that a job not marked late still sees the row as it is and its key free (`WorkCurrent`).
  Every request is shown once to begin such a job, then every kind of job to leave a proper row.
* `CorrectionRequests`. `OneCorrectionPerApproval` alone is not inductive: `GrantsCounted` adds that an approved request has had fewer
  uses than approvals, so that the one use that ends it cannot exceed them; `ReviewsSane` that a reviewer who was not
  overtaken still sees a pending request.
* `LedgerCutover`. `CutoverInv` says beside the two invariants what a request under way has checked (`RequestsSane`): its cutover
  exists, an activation's token shows the balances it has read, and a request not marked late still sees balances, status and,
  before an activation, readiness and the order of periods as they are. A commit marks late exactly the requests
  whose reading it spoils, so the others keep theirs; the three properties are then about the one write that
  touches the ledger. `CutoverMerged` says what that write leaves: an activation not overtaken still finds what it found, so
  all its quantities arrive.
* `DailyReview`. Only stamps are compared, so `ReviewInv` relates them to the clock of commits (`StampsPast`: none lies in the
  future; `RequestSane`: a request not overtaken holds the stamp of the next commit, what it has read is so, and a submission has
  found no stale mark, a change of lines alone has found a draft) and says that a change in `touched` shows in the comparison (`ChangesShow`). A submission that was not overtaken found
  nothing stale, so by `ChangesShow` nothing was touched.
* `SalesDay`. `TypeOK` and one more invariant: a request that is about to write a sheet or sales did not find its day closed
  (`FoundOpen`). `StockIsConserved` is shown by the earliest counted day that breaks it: the first day of the stretch starts
  with the declared stock, and any other with the return of the counted day before it, for which the sums agree; so one term joins
  each sum (`SumLemmas`), what the day was given and what it sold. `ResaveIsStable` is a case
  split on which figures of the stored line follow the books. Of all actions only `CloseWorkingDay` sets a day to closed.
* `SalesMoney`. `MoneyInv` adds to the types that every payment, stored or checked and about to be, is of an invoice that exists and
  is dated no later (`PaymentsSane`). `ExpectedMoneyAddsUp` then follows in any such state: the range from the starting point
  to a day is the range to the day before and that day, sum by sum (`RangeCashStep`, `RangeMobileStep`). The one step that
  is not a split of a sum is the unpaid part: the day subtracts from each invoice its payments so far, never below zero, the
  range subtracts all same-day payments from all invoices; `UnpaidIsInvoicedLessPaid` regroups the payments by invoice, which
  is where `PaymentsSane` and `~Contested` are used. A day whose starting point is itself, or whose books have not started, is a
  case of its own; `~AfterDraft` gives that the two starting points are one. `LaterDatesChangeNothing` shows set by set that what a day counts is dated by that day: a payment
  no later than it, of an invoice no later than that.
* `Deployment`. A command may die anywhere and another begin, so `DeploymentInv` says for every program counter what holds if it stops
  there: whatever may become the database holds acknowledged records only (`Acknowledged`), the application is
  down between the stop and the start of an update or an install, a restore being the exception (`DownBehindJob`), when the database may be missing or
  empty (`PresentForJob`), which releases agree
  (`ReleasesAgree`), and that the marker is there (`MarkedForJob`). With it every step of a script is one of the
  actions of `DataCustody` or changes nothing that it sees. `NoRecordIsLost` combines it with
  `CustodyLosesNothing`, which is about the steps of `DataCustody` alone, under the same mapping.

Only model-checked:
* `BackupsCatchUp`: liveness under fairness is beyond the prover.
* The violations: they are examples.

No module that a theorem is about uses a recursive operator.

## Not modelled

Listings, exports, dashboards and the reconciliation report only read. Push messages and audit rows have no
influence on later steps. Time-zone conversion, image processing and the browser client are outside;
the client's requests are the inputs the modelled handlers accept in any order. Binary rounding of
`Numeric` columns in SQLite is not covered. Planning and analytics of spare parts, packaging notation, customer merge and
usage-ranked lists are computations over tables, for which a reference definition would repeat their formulas. The
opening-stock repair is a one-off command. `migrate-storage`, `post-restore` and `repair-installation` move directories
between hosts. A transaction that is open while a restore renames the database. Roles, flags and sections decide who may call: a role is modelled where handlers differ by it.

## Known disagreements

What the code does and a comment, docstring or test of the repository says otherwise, met while modelling. Two are runs
(above): `sales_tender` and `grant_reuse`. For the others the passing properties state what does hold.

Stock ledger, reset and cutover:
* `daily_reset_service.py:534` protects a cutover's row by its current label; 522-523 says a Full Reset must never alter
  such a row. A correction relabels it, after which a Full Reset rewrites it.
* `stock_service.py:162-167` says legacy columns no longer vanish from later periods; after a Full Reset of a product's
  only migrated row they do (`OrphanedLegacy`).
* `stock_ledger_service.py:162` says that no Dispatch record can be dated at Night; `dispatch_service.py:142-144` leaves
  historical ones "untouched". `daily_figure_view()` counts a finalized one and `_dispatch_lines()` does not, so `_period_entry()`
  (285-291) raises `LedgerReconciliationError` for that Night and every range that contains it (`NightDispatched`, `ScanFails`).
* `daily_reset_service.py:217-226` says "name the exact period the negative first appeared in". The scan starts sixty days back at
  the earliest (237); where the balance was negative before, the first period scanned is the first negative one and is named,
  although it moved nothing. The answer prepared for that case (245-252) is not reached (`CutOff`).
* `stock_service.py:491-499` says Closing cannot drift between screens; `date_range_summary()` (1031) ignores anchors inside
  its range.
* `stock_service.py:743-749` calls an anchor immune to later routine saves; a save that read the row before a cutover was
  activated, or before a correction, writes its derivation over it (855).
* Two activations that overlap at one period: the second finds the row as it was and writes only the columns that differ, so the
  first one's quantity can stay under the second one's name (`ledger_cutover_service.py:446-467`). The same holds for a row that a
  manual save or a reset writes in between.
* `daily_entry_status_service.py:146-148` says `acquire_lock` raises when another holds the lock; of two that read a free
  entry the second takes the first one's lock.
* `spare_part_movement_service.py:6-9` says cache and ledger can always be proven equal; two voids of one movement both
  reverse it on the cache (263).
* The preview of a reset may name a period before a Night anchor as the origin of a negative balance
  (`daily_reset_service.py:236-242`), and names the first negative one even when the balance recovered in between.
  `_anchor_trust_reason()` (`stock_ledger_service.py:226-235`) calls cutover and migrated anchors not anchor-eligible.
* Two activations at once can take one period; a cancellation that crosses an activation leaves a cutover cancelled and
  governing; a balance set late changes what an activated cutover reports.
* The repair of migrated openings treats a row a reset created as repairable whatever it holds, also a genuine
  correction to 0 after the reset; its token does not cover movements.

Source books, corrections and review:
* `correct_record()` ranks the products of a draft or void record (377); `remove_usage()` (92-95) says those do not count.
* Two reviewers racing can approve a used grant again; a late finalize or correction can un-void a record; lines added
  while their record is deleted are orphans; a duplicate whose source is deleted meanwhile is an empty draft; changing a
  draft's recipient changes what past loads of a vehicle show.
* `daily_review_service.py:184-190` says that any change of a draft or finalized record must demote a product to needing review.
  A line of a draft changed by the user who is in `updated_by` already moves no stamp, so the mark of a product added to the draft
  stands (`moves = FALSE`); the check of `expected_updated_at` in
  `correct_record()` (about 250) misses it too, and such a change in flight can land on a record finalized meanwhile.
* A review does not notice: a deleted or re-dated record, a correction or a Full Reset that drops the product's line
  (`daily_review_service.py:183-192` says it would), a stock adjustment, or a correction whose stamp was taken before it
  waited for the lock. A submission racing a reset stays submitted.

Sales:
* `sales_service.py:851-853` says that an abandoned working day can never anchor the books, day being passed only while Close Day
  builds its row. `daily_summary()` (958) always passes it, so without declared starting money a closed day shows a balance that counts from an
  earlier draft, while the balance it starts with (`carried_money_balance()`, 906-914) leaves the draft out (`AfterDraft`).
* `sales_service.py:2207-2208` names "priced quantity against Sold Today" and "stock variance" as what Close Day requires. Where nothing is known
  of what the vehicle started with, the variance is None (452, 495) and `close_day()` (1845) finds no difference: the day
  closes with sales and without a reason (`Mismatch`).
* `save_vehicle_stock()` checks a blank figure against the stored correction but stores a blank, so a closing count on a
  reopened day can leave more returned than there was.
* A line removed by a Manager and saved again with the same figures stays removed (1452). A Save in flight while the day is
  closed still lands (2129-2136).
* `_range_tender()` and the sum of `tender_split()` differ when an invoice with same-day customer payments is void, an opening
  or overpaid (`Contested`). The comment on racing payments (1200-1202) does not hold: the check precedes the write.
* An unchanged list of debt payments skips the balance check. Mobile Money above the day's sales is checked nowhere.

Scripts:
* `docs/BACKUP-RESTORE.md:30-32` says that a restore stops writes and then takes its final snapshot; `daily-figures:1108` is
  `dc stop daily-figures || true`, and a restore that fails to stop the container replaces the database under it (`Unstopped`).
* `start` and `restart` ignore the update marker and the schema; `install` over an installation ignores the marker too; `restore` leaves an existing marker
  in place; the update's smoke test loses the exit code of its schema check; `post-restore` migrates without stopping; `migrate-storage` moves the database first.
  Retention can drop the snapshot the marker names. Between the two `mv` of a restore there is no `production.db`.

## Left for later

1. Compose the three effects of one reset, and a correction with its grant, in modules that INSTANCE the present ones.
2. An abstract `RunningBalance` implemented by `StockLedger`.
3. Spare part catalogue with inactive parts, fabrication, sessions and flags; `migrate-storage` and `post-restore`.
