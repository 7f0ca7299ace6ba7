---------------------------- MODULE DailyProofs ----------------------------
(***************************************************************************)
(* Theorems about one date and shift of the Daily Figures: the entries as  *)
(* overlapping requests lock, save and complete them (FigureSave), for any *)
(* users, any number of workers and any sets of counts and balances; and   *)
(* the review of them before they are submitted (DailyReview), for any     *)
(* workers, products, records and number of commits.                       *)
(***************************************************************************)
EXTENDS FigureSave, DailyReview, TLAPS

(* Merge of entries, column by column. *)
LEMMA MergeEntry ==
    ASSUME NEW seen \in Entry, NEW decided \in Entry, NEW stored \in Entry
    PROVE  Merge(seen, decided, stored) =
              [exists |-> IF decided.exists # seen.exists THEN decided.exists ELSE stored.exists,
               lock |-> IF decided.lock # seen.lock THEN decided.lock ELSE stored.lock,
               fresh |-> IF decided.fresh # seen.fresh THEN decided.fresh ELSE stored.fresh,
               completed |-> IF decided.completed # seen.completed THEN decided.completed ELSE stored.completed,
               by |-> IF decided.by # seen.by THEN decided.by ELSE stored.by]
<1>1. DOMAIN stored = {"exists", "lock", "fresh", "completed", "by"}
    BY DEF Entry
<1> QED
    BY <1>1 DEF Merge, Entry

(* A merged entry is an entry; a column the handler left as it found it    *)
(* keeps its stored value, a column it changed takes the handler's.        *)
LEMMA MergedEntry ==
    ASSUME NEW seen \in Entry, NEW decided \in Entry, NEW stored \in Entry
    PROVE  LET merged == Merge(seen, decided, stored)
           IN  /\ merged \in Entry
               /\ decided.completed = seen.completed => merged.completed = stored.completed
               /\ decided.completed # seen.completed => merged.completed = decided.completed
               /\ decided.by = seen.by => merged.by = stored.by
               /\ decided.by # seen.by => merged.by = decided.by
               /\ decided.exists = seen.exists => merged.exists = stored.exists
<1> DEFINE Pick(s, d, t) == IF d # s THEN d ELSE t
           merged == Merge(seen, decided, stored)
           exists == Pick(seen.exists, decided.exists, stored.exists)
           lock == Pick(seen.lock, decided.lock, stored.lock)
           fresh == Pick(seen.fresh, decided.fresh, stored.fresh)
           completed == Pick(seen.completed, decided.completed, stored.completed)
           by == Pick(seen.by, decided.by, stored.by)
<1>1. merged = [exists |-> exists, lock |-> lock, fresh |-> fresh,
                completed |-> completed, by |-> by]
    BY MergeEntry
<1>2. /\ exists \in {decided.exists, stored.exists}
      /\ lock \in {decided.lock, stored.lock}
      /\ fresh \in {decided.fresh, stored.fresh}
      /\ completed \in {decided.completed, stored.completed}
      /\ by \in {decided.by, stored.by}
    BY Zenon
<1>3. /\ decided.exists \in BOOLEAN /\ stored.exists \in BOOLEAN
      /\ decided.lock \in Users \cup {None} /\ stored.lock \in Users \cup {None}
      /\ decided.fresh \in BOOLEAN /\ stored.fresh \in BOOLEAN
      /\ decided.completed \in BOOLEAN /\ stored.completed \in BOOLEAN
      /\ decided.by \in Users \cup {None} /\ stored.by \in Users \cup {None}
    BY DEF Entry
<1>4. /\ exists \in BOOLEAN /\ lock \in Users \cup {None} /\ fresh \in BOOLEAN
      /\ completed \in BOOLEAN /\ by \in Users \cup {None}
    <2> HIDE DEF exists, lock, fresh, completed, by
    <2> QED
        BY <1>2, <1>3, Zenon
<1>5. merged \in Entry /\ merged.completed = completed /\ merged.by = by
      /\ merged.exists = exists
    <2> HIDE DEF merged, exists, lock, fresh, completed, by
    <2>1. merged \in Entry
        BY <1>1, <1>4 DEF Entry
    <2> QED
        BY <1>1, <2>1, Zenon
<1>6. /\ decided.completed = seen.completed => completed = stored.completed
      /\ decided.completed # seen.completed => completed = decided.completed
      /\ decided.by = seen.by => by = stored.by
      /\ decided.by # seen.by => by = decided.by
      /\ decided.exists = seen.exists => exists = stored.exists
    BY Zenon
<1> QED
    <2> HIDE DEF Pick, exists, completed, by
    <2> QED  BY <1>5, <1>6, Zenon

(* Merge of figures. *)
LEMMA MergeFigure ==
    ASSUME NEW seen \in Figure, NEW decided \in Figure, NEW stored \in Figure
    PROVE  Merge(seen, decided, stored) =
              [source |-> IF decided.source # seen.source THEN decided.source ELSE stored.source,
               opening |-> IF decided.opening # seen.opening THEN decided.opening ELSE stored.opening]
<1>1. DOMAIN stored = {"source", "opening"}
    BY DEF Figure
<1> QED
    BY <1>1 DEF Merge, Figure

(* Locking and unlocking touch neither completion nor authorship. *)
LEMMA LockUpdates ==
    ASSUME NEW u \in Users, NEW seen \in Entry, entry \in Entry
    PROVE  /\ Locked(u, seen) \in Entry
           /\ Locked(u, seen).completed = entry.completed
           /\ Locked(u, seen).by = entry.by
           /\ Locked(u, seen).exists = entry.exists
           /\ Unlocked(seen) \in Entry
           /\ Unlocked(seen).completed = entry.completed
           /\ Unlocked(seen).by = entry.by
           /\ Unlocked(seen).exists = entry.exists
<1> DEFINE locked == [seen EXCEPT !.lock = u]
           unlocked == [seen EXCEPT !.lock = None, !.fresh = FALSE]
<1>1. /\ locked \in Entry /\ locked.completed = seen.completed
      /\ locked.by = seen.by /\ locked.exists = seen.exists
    BY DEF Entry
<1>2. /\ unlocked \in Entry /\ unlocked.completed = seen.completed
      /\ unlocked.by = seen.by /\ unlocked.exists = seen.exists
    BY DEF Entry
<1>3. /\ Merge(seen, locked, entry) \in Entry
      /\ Merge(seen, locked, entry).completed = entry.completed
      /\ Merge(seen, locked, entry).by = entry.by
      /\ Merge(seen, locked, entry).exists = entry.exists
    <2> HIDE DEF locked
    <2>1. LET merged == Merge(seen, locked, entry)
          IN  /\ merged \in Entry
              /\ locked.completed = seen.completed => merged.completed = entry.completed
              /\ locked.by = seen.by => merged.by = entry.by
              /\ locked.exists = seen.exists => merged.exists = entry.exists
        BY <1>1, MergedEntry
    <2> QED  BY <1>1, <2>1, Zenon
<1>4. /\ Merge(seen, unlocked, entry) \in Entry
      /\ Merge(seen, unlocked, entry).completed = entry.completed
      /\ Merge(seen, unlocked, entry).by = entry.by
      /\ Merge(seen, unlocked, entry).exists = entry.exists
    <2> HIDE DEF unlocked
    <2>1. LET merged == Merge(seen, unlocked, entry)
          IN  /\ merged \in Entry
              /\ unlocked.completed = seen.completed => merged.completed = entry.completed
              /\ unlocked.by = seen.by => merged.by = entry.by
              /\ unlocked.exists = seen.exists => merged.exists = entry.exists
        BY <1>2, MergedEntry
    <2> QED  BY <1>2, <2>1, Zenon
<1>5. Locked(u, seen) = [Merge(seen, locked, entry) EXCEPT !.fresh = TRUE]
    BY DEF Locked
<1>6. Unlocked(seen) = Merge(seen, unlocked, entry)
    BY DEF Unlocked
<1> QED
    <2> HIDE DEF locked, unlocked
    <2> QED  BY <1>3, <1>4, <1>5, <1>6 DEF Entry

(* A row whose author is set exactly when it is completed is either opened *)
(* by clearing it or not touched in these two columns at all.              *)
LEMMA ClearedUpdates ==
    ASSUME NEW seen \in Entry, entry \in Entry,
           seen.completed <=> seen.by # None
    PROVE  /\ Cleared(seen) \in Entry
           /\ Cleared(seen).exists = entry.exists
           /\ \/ Cleared(seen).completed = FALSE /\ Cleared(seen).by = None
              \/ /\ Cleared(seen).completed = entry.completed
                 /\ Cleared(seen).by = entry.by
<1> DEFINE cleared == [seen EXCEPT !.lock = None, !.fresh = FALSE,
                                   !.completed = FALSE, !.by = None]
<1>1. /\ cleared \in Entry /\ cleared.completed = FALSE /\ cleared.by = None
      /\ cleared.exists = seen.exists
    BY DEF Entry
<1>2. Cleared(seen) = Merge(seen, cleared, entry)
    BY DEF Cleared
<1> HIDE DEF cleared
<1>3. LET merged == Merge(seen, cleared, entry)
      IN  /\ merged \in Entry
          /\ cleared.completed = seen.completed => merged.completed = entry.completed
          /\ cleared.completed # seen.completed => merged.completed = cleared.completed
          /\ cleared.by = seen.by => merged.by = entry.by
          /\ cleared.by # seen.by => merged.by = cleared.by
          /\ cleared.exists = seen.exists => merged.exists = entry.exists
    BY <1>1, MergedEntry
<1>4. CASE seen.completed
    <2>1. seen.completed = TRUE /\ seen.by # None
        BY <1>4 DEF Entry
    <2>2. cleared.completed # seen.completed /\ cleared.by # seen.by
        BY <1>1, <2>1
    <2> QED
        BY <1>1, <1>2, <1>3, <2>2, Zenon
<1>5. CASE ~seen.completed
    <2>1. seen.completed = FALSE /\ seen.by = None
        BY <1>5 DEF Entry
    <2>2. cleared.completed = seen.completed /\ cleared.by = seen.by
        BY <1>1, <2>1
    <2> QED
        BY <1>1, <1>2, <1>3, <2>2, Zenon
<1> QED
    BY <1>4, <1>5

(* What a save decides is a figure, or it is the anchor it found. *)
LEMMA DecisionTyped ==
    ASSUME TypeOK,
           NEW submitted \in Counts \cup {Nothing}, NEW isCorrection \in BOOLEAN,
           carried = Nothing => submitted # Nothing,
           isCorrection => submitted # Nothing
    PROVE  Decision(submitted, isCorrection) \in Figure
<1>1. CASE carried = Nothing
    <2>1. Decision(submitted, isCorrection) =
              [source |-> "initial_manual", opening |-> submitted]
        BY <1>1 DEF Decision
    <2> QED
        BY <1>1, <2>1 DEF Figure
<1>2. CASE carried # Nothing /\ isCorrection
    <2>1. Decision(submitted, isCorrection) =
              [source |-> "manual_correction", opening |-> submitted]
        BY <1>2 DEF Decision
    <2>2. submitted \in Counts
        BY <1>2
    <2> QED
        BY <2>1, <2>2 DEF Figure, Unconditional
<1>3. CASE carried # Nothing /\ ~isCorrection /\ figure.source \in Unconditional
    <2>1. Decision(submitted, isCorrection) = figure
        BY <1>3 DEF Decision
    <2>2. figure # NoFigure
        BY <1>3 DEF NoFigure, Unconditional
    <2> QED
        BY <2>1, <2>2 DEF TypeOK
<1>4. CASE carried # Nothing /\ ~isCorrection /\ figure.source \notin Unconditional
    <2>1. Decision(submitted, isCorrection) = [source |-> "derived", opening |-> carried]
        BY <1>4 DEF Decision
    <2> QED
        BY <1>4, <2>1 DEF TypeOK, Figure
<1> QED
    BY <1>1, <1>2, <1>3, <1>4

-----------------------------------------------------------------------------
(* The inductive invariant. *)

(* What a handler has read of an entry is consistent in itself, and the    *)
(* row a handler means to update has not disappeared.                      *)
RequestsSane ==
    \A u \in Users :
        /\ request[u].entry.completed <=> request[u].entry.by # None
        /\ request[u].op \in {"save", "review", "fullReset"} =>
              /\ request[u].decided \in Figure
              /\ request[u].figure # NoFigure => figure # NoFigure

(* A completed entry has a row. *)
EntrySane == entry.completed => entry.exists

FigureInv == TypeOK /\ OneClaimant /\ EntrySane /\ RequestsSane

(* An entry nobody has touched satisfies the invariant. *)
LEMMA InitInv == Init => FigureInv
<1> SUFFICES ASSUME Init PROVE FigureInv
    OBVIOUS
<1>1. NoEntry \in Entry /\ NoEntry.completed = FALSE /\ NoEntry.by = None
    BY DEF NoEntry, Entry
<1>2. Idle.op = "idle" /\ Idle.entry = NoEntry
    BY DEF Idle
<1>3. TypeOK
    BY <1>1 DEF Init, TypeOK
<1>4. OneClaimant
    BY <1>1 DEF Init, OneClaimant
<1>5. RequestsSane
    BY <1>1, <1>2 DEF Init, RequestsSane
<1>6. EntrySane
    BY <1>1 DEF Init, EntrySane
<1> QED
    BY <1>3, <1>4, <1>5, <1>6 DEF FigureInv

(* Reading keeps the invariant if what is kept of the reads is sane. *)
LEMMA ReceiveKeepsInv ==
    ASSUME FigureInv, NEW u \in Users, NEW op \in Ops,
           NEW seenEntry \in Entry, NEW seenFigure \in Figure \cup {NoFigure},
           NEW decided \in Figure \cup {NoFigure}, NEW gives \in BOOLEAN,
           seenEntry.completed <=> seenEntry.by # None,
           op \in {"save", "review", "fullReset"} =>
              decided \in Figure /\ (seenFigure # NoFigure => figure # NoFigure),
           Receive(u, op, seenEntry, seenFigure, decided, gives)
    PROVE  FigureInv'
<1> DEFINE r == [op |-> op, entry |-> seenEntry, figure |-> seenFigure, decided |-> decided,
                 gives |-> gives]
<1>1. r \in Request /\ r.op = op /\ r.entry = seenEntry /\ r.figure = seenFigure
      /\ r.decided = decided
    BY DEF Request
<1> HIDE DEF r
<1>2. request' = [request EXCEPT ![u] = r]
    BY DEF Receive, r
<1>3. UNCHANGED <<entry, figure, carried, claimants>>
    BY DEF Receive
<1>4. TypeOK'
    BY <1>1, <1>2, <1>3 DEF FigureInv, TypeOK
<1>5. OneClaimant'
    BY <1>3 DEF FigureInv, OneClaimant
<1>6. ASSUME NEW v \in Users
      PROVE  /\ request'[v].entry.completed <=> request'[v].entry.by # None
             /\ request'[v].op \in {"save", "review", "fullReset"} =>
                   /\ request'[v].decided \in Figure
                   /\ request'[v].figure # NoFigure => figure # NoFigure
    <2>1. request'[v] = IF v = u THEN r ELSE request[v]
        BY <1>2 DEF FigureInv, TypeOK
    <2>2. CASE v = u
        BY <1>1, <2>1, <2>2
    <2>3. CASE v # u
        BY <2>1, <2>3 DEF FigureInv, RequestsSane
    <2> QED
        BY <2>2, <2>3
<1>7. RequestsSane'
    BY <1>3, <1>6 DEF RequestsSane
<1>8. EntrySane'
    BY <1>3 DEF FigureInv, EntrySane
<1> QED
    BY <1>4, <1>5, <1>7, <1>8 DEF FigureInv

(* Writing and answering keeps it if the rows stay sane. *)
LEMMA AnswerKeepsInv ==
    ASSUME FigureInv, NEW u \in Users, Answer(u),
           entry' \in Entry, figure' \in Figure \cup {NoFigure},
           figure # NoFigure => figure' # NoFigure,
           carried' = carried, claimants' \subseteq Users, OneClaimant',
           EntrySane'
    PROVE  FigureInv'
<1>1. TypeOK'
    BY DEF FigureInv, TypeOK, Answer
<1>2. ASSUME NEW v \in Users
      PROVE  /\ request'[v].entry.completed <=> request'[v].entry.by # None
             /\ request'[v].op \in {"save", "review", "fullReset"} =>
                   /\ request'[v].decided \in Figure
                   /\ request'[v].figure # NoFigure => figure' # NoFigure
    <2>1. request'[v] = IF v = u THEN Idle ELSE request[v]
        BY DEF FigureInv, TypeOK, Answer
    <2>2. Idle.op = "idle" /\ Idle.entry.completed = FALSE /\ Idle.entry.by = None
        BY DEF Idle, NoEntry
    <2>3. CASE v = u
        BY <2>1, <2>2, <2>3
    <2>4. CASE v # u
        BY <2>1, <2>4 DEF FigureInv, RequestsSane
    <2> QED
        BY <2>3, <2>4
<1>3. RequestsSane'
    BY <1>2 DEF RequestsSane
<1> QED
    BY <1>1, <1>3 DEF FigureInv

(* The figure a save or a full reset leaves behind. *)
LEMMA StoredFigure ==
    ASSUME FigureInv, NEW u \in Users,
           request[u].op \in {"save", "review", "fullReset"},
           StoreFigure(u)
    PROVE  figure' \in Figure
<1>1. /\ request[u].decided \in Figure
      /\ request[u].figure \in Figure \cup {NoFigure}
      /\ request[u].figure # NoFigure => figure \in Figure
    <2>1. request[u] \in Request
        BY DEF FigureInv, TypeOK, Idle
    <2> QED
        BY <2>1 DEF FigureInv, TypeOK, RequestsSane, Request
<1>2. CASE request[u].figure = NoFigure
    BY <1>1, <1>2 DEF StoreFigure
<1>3. CASE request[u].figure # NoFigure
    <2> DEFINE seen == request[u].figure
               decided == request[u].decided
    <2>1. figure' = Merge(seen, decided, figure)
        BY <1>3 DEF StoreFigure
    <2>2. seen \in Figure /\ decided \in Figure /\ figure \in Figure
        BY <1>1, <1>3
    <2> HIDE DEF seen, decided
    <2>3. figure' =
              [source |-> IF decided.source # seen.source
                          THEN decided.source ELSE figure.source,
               opening |-> IF decided.opening # seen.opening
                           THEN decided.opening ELSE figure.opening]
        BY <2>1, <2>2, MergeFigure
    <2> QED
        BY <2>2, <2>3 DEF Figure
<1> QED
    BY <1>2, <1>3

(* A stored figure is told from no figure by its source. *)
LEMMA SomeFigure == \A f \in Figure : f # NoFigure
BY DEF Figure, NoFigure, Unconditional

(* A claim leaves its maker as the one claimant. *)
LEMMA ClaimKeepsOne ==
    ASSUME FigureInv, NEW u \in Users, Claim(u)
    PROVE  /\ entry' \in Entry /\ claimants' \subseteq Users
           /\ OneClaimant' /\ EntrySane'
<1>1. claimants = {} /\ claimants' = {u}
    BY DEF FigureInv, OneClaimant, Claim
<1>2. /\ entry' \in Entry /\ entry'.completed = TRUE /\ entry'.by = u
      /\ entry'.exists = TRUE
    BY DEF Claim, Entry
<1>3. u # None
    BY UsersAssumption
<1>4. OneClaimant'
    BY <1>1, <1>2, <1>3 DEF OneClaimant
<1>5. EntrySane'
    BY <1>2 DEF EntrySane
<1> QED
    BY <1>1, <1>2, <1>4, <1>5

(* An opening of the entry takes everybody's claim, or it takes none. *)
LEMMA ReopeningKeepsOne ==
    ASSUME FigureInv, NEW u \in Users, NEW seen \in Entry,
           seen.completed <=> seen.by # None,
           entry' = Cleared(seen), Reopened(u)
    PROVE  /\ entry' \in Entry /\ claimants' \subseteq Users
           /\ OneClaimant' /\ EntrySane'
<1>1. entry \in Entry /\ claimants \subseteq Users
    BY DEF FigureInv, TypeOK
<1>2. /\ entry' \in Entry /\ entry'.exists = entry.exists
      /\ \/ entry'.completed = FALSE /\ entry'.by = None
         \/ entry'.completed = entry.completed /\ entry'.by = entry.by
    BY <1>1, ClearedUpdates
<1>3. claimants' = IF entry'.completed THEN claimants ELSE {}
    BY DEF Reopened
<1>4. CASE entry'.completed = FALSE /\ entry'.by = None
    BY <1>1, <1>2, <1>3, <1>4 DEF OneClaimant, EntrySane
<1>5. CASE entry'.completed = entry.completed /\ entry'.by = entry.by
    BY <1>1, <1>2, <1>3, <1>5 DEF FigureInv, OneClaimant, EntrySane
<1> QED
    BY <1>1, <1>2, <1>3, <1>4, <1>5

(* Rows written by a request are the rows it had read. *)
LEMMA ReadEntry ==
    ASSUME FigureInv, NEW u \in Users
    PROVE  /\ request[u].entry \in Entry
           /\ request[u].entry.completed <=> request[u].entry.by # None
<1>1. request[u] \in Request \cup {Idle}
    BY DEF FigureInv, TypeOK
<1>2. NoEntry \in Entry
    BY DEF NoEntry, Entry
<1> QED
    BY <1>1, <1>2 DEF FigureInv, RequestsSane, Request, Idle

(* Steps outside any request. *)
LEMMA QuietKeepsInv ==
    ASSUME FigureInv, request' = request,
           entry' \in Entry, figure' \in Figure \cup {NoFigure},
           figure # NoFigure => figure' # NoFigure,
           carried' \in Carried \cup {Nothing}, claimants' = claimants,
           entry'.completed = entry.completed, entry'.by = entry.by,
           entry.exists => entry'.exists
    PROVE  FigureInv'
<1>1. TypeOK'
    BY DEF FigureInv, TypeOK
<1>2. OneClaimant'
    BY DEF FigureInv, OneClaimant
<1>3. RequestsSane'
    BY DEF FigureInv, RequestsSane
<1>4. EntrySane'
    BY DEF FigureInv, EntrySane
<1> QED
    BY <1>1, <1>2, <1>3, <1>4 DEF FigureInv

-----------------------------------------------------------------------------
(* One lemma for each group of actions. *)

(* Locks, releases and takeovers move no completion. *)
LEMMA LocksKeepInv ==
    ASSUME FigureInv, NEW u \in Users,
           \/ CreateLocked(u) \/ ReadLock(u) \/ WriteLock(u)
           \/ ReadRelease(u) \/ WriteRelease(u)
           \/ CreateTakenOver(u) \/ ReadTakeover(u) \/ WriteTakeover(u)
    PROVE  FigureInv'
<1>1. /\ entry \in Entry /\ figure \in Figure \cup {NoFigure}
      /\ carried \in Carried \cup {Nothing} /\ claimants \subseteq Users
      /\ entry.completed <=> entry.by # None
      /\ entry.completed => entry.exists
    BY DEF FigureInv, TypeOK, OneClaimant, EntrySane
<1>2. ASSUME NEW op \in {"lock", "release", "takeover"}, ReceiveForEntry(u, op)
      PROVE  FigureInv'
    <2>1. Receive(u, op, entry, NoFigure, NoFigure, FALSE)
        BY <1>2 DEF ReceiveForEntry
    <2> QED
        BY <1>1, <2>1, ReceiveKeepsInv DEF Ops
<1>3. ASSUME NEW written \in Entry, entry' = written,
             written.completed = entry.completed, written.by = entry.by,
             written.exists = entry.exists,
             Answer(u), UNCHANGED <<figure, carried, claimants>>
      PROVE  FigureInv'
    <2>1. OneClaimant'
        BY <1>3 DEF FigureInv, OneClaimant
    <2>2. EntrySane'
        BY <1>3 DEF FigureInv, EntrySane
    <2> QED
        BY <1>1, <1>3, <2>1, <2>2, AnswerKeepsInv
<1>4. CASE CreateLocked(u) \/ CreateTakenOver(u)
    <2>1. /\ entry' \in Entry /\ entry'.completed = FALSE /\ entry'.by = None
          /\ UNCHANGED <<figure, carried, request, claimants>>
        BY <1>4 DEF CreateLocked, CreateTakenOver, NoEntry, Entry
    <2>2. ~entry.exists
        BY <1>4 DEF CreateLocked, CreateTakenOver
    <2>3. entry.completed = FALSE /\ entry.by = None
        BY <1>1, <2>2 DEF Entry
    <2> QED
        BY <1>1, <2>1, <2>2, <2>3, QuietKeepsInv
<1>5. CASE ReadLock(u)
    BY <1>2, <1>5 DEF ReadLock
<1>6. CASE WriteLock(u)
    BY <1>1, <1>3, <1>6, ReadEntry, LockUpdates DEF WriteLock
<1>7. CASE ReadRelease(u)
    BY <1>2, <1>7 DEF ReadRelease
<1>8. CASE WriteRelease(u)
    BY <1>1, <1>3, <1>8, ReadEntry, LockUpdates DEF WriteRelease
<1>9. CASE ReadTakeover(u)
    BY <1>2, <1>9 DEF ReadTakeover
<1>10. CASE WriteTakeover(u)
    BY <1>1, <1>3, <1>10, ReadEntry, LockUpdates DEF WriteTakeover
<1> QED
    BY <1>4, <1>5, <1>6, <1>7, <1>8, <1>9, <1>10

(* Requests that read the figure, and those that read the entry to open it. *)
LEMMA ReadsKeepInv ==
    ASSUME FigureInv, NEW u \in Users,
           \/ ReadNoActivity(u) \/ ReadReopen(u) \/ ReadReset(u) \/ ReadFullReset(u)
           \/ \E submitted \in Counts \cup {Nothing}, explicit \in BOOLEAN,
                 permitted \in BOOLEAN, op \in {"save", "review"} :
                 ReadSave(u, submitted, explicit, permitted, op)
    PROVE  FigureInv'
<1>1. /\ entry \in Entry /\ figure \in Figure \cup {NoFigure}
      /\ carried \in Carried \cup {Nothing}
      /\ entry.completed <=> entry.by # None
    BY DEF FigureInv, TypeOK, OneClaimant
<1>2. NoEntry \in Entry /\ (NoEntry.completed <=> NoEntry.by # None)
    BY DEF NoEntry, Entry
<1>3. CASE ReadNoActivity(u)
    BY <1>2, <1>3, ReceiveKeepsInv DEF ReadNoActivity, Ops
<1>4. CASE ReadReopen(u)
    BY <1>1, <1>4, ReceiveKeepsInv DEF ReadReopen, ReceiveForEntry, Ops
<1>5. CASE ReadReset(u)
    BY <1>1, <1>5, ReceiveKeepsInv DEF ReadReset, ReceiveForEntry, Ops
<1>6. CASE ReadFullReset(u)
    <2> DEFINE reset == [source |-> "reset_created",
                         opening |-> IF carried = Nothing THEN 0 ELSE carried]
    <2>1. reset \in Figure
        BY <1>1 DEF Figure
    <2>2. Receive(u, "fullReset", NoEntry, figure, reset, FALSE)
        BY <1>6 DEF ReadFullReset, ReceiveForFigure
    <2> HIDE DEF reset
    <2> QED
        BY <1>1, <1>2, <2>1, <2>2, ReceiveKeepsInv DEF Ops
<1>7. ASSUME NEW submitted \in Counts \cup {Nothing}, NEW explicit \in BOOLEAN,
             NEW permitted \in BOOLEAN, NEW op \in {"save", "review"},
             ReadSave(u, submitted, explicit, permitted, op)
      PROVE  FigureInv'
    <2> DEFINE correction ==
            explicit /\ submitted # Nothing /\ (u \in Elevated \/ permitted)
               decided == Decision(submitted, correction)
    <2>1. /\ carried = Nothing => submitted # Nothing
          /\ Receive(u, op, NoEntry, figure, decided, correction \/ carried = Nothing)
        BY <1>7 DEF ReadSave, ReceiveForFigure
    <2>2. correction \in BOOLEAN /\ (correction => submitted # Nothing)
        OBVIOUS
    <2>3. decided \in Figure
        <3> HIDE DEF correction
        <3> QED  BY <2>1, <2>2, DecisionTyped DEF FigureInv
    <2> DEFINE gives == correction \/ carried = Nothing
    <2>4. gives \in BOOLEAN
        OBVIOUS
    <2>5. Receive(u, op, NoEntry, figure, decided, gives)
        BY <2>1
    <2> HIDE DEF decided, gives
    <2> QED
        BY <1>1, <1>2, <2>3, <2>4, <2>5, ReceiveKeepsInv DEF Ops
<1> QED
    BY <1>3, <1>4, <1>5, <1>6, <1>7

(* Completions, saves, and their refusals. *)
LEMMA CompletionsKeepInv ==
    ASSUME FigureInv, NEW u \in Users,
           \/ WriteNoActivity(u) \/ WriteOperatorSave(u)
           \/ WriteElevatedSave(u) \/ Refuse(u)
    PROVE  FigureInv'
<1>1. /\ entry \in Entry /\ figure \in Figure \cup {NoFigure}
      /\ claimants \subseteq Users
    BY DEF FigureInv, TypeOK
<1>2. UNCHANGED <<entry, claimants>> => OneClaimant' /\ EntrySane'
    BY DEF FigureInv, OneClaimant, EntrySane
<1>3. CASE WriteNoActivity(u)
    <2>1. Claim(u) /\ Answer(u) /\ UNCHANGED <<figure, carried>>
        BY <1>3 DEF WriteNoActivity
    <2> QED
        BY <1>1, <2>1, ClaimKeepsOne, AnswerKeepsInv
<1>4. CASE WriteOperatorSave(u)
    <2>1. StoreFigure(u) /\ Claim(u) /\ Answer(u) /\ UNCHANGED carried
        BY <1>4 DEF WriteOperatorSave
    <2>2. figure' \in Figure
        BY <1>4, <2>1, StoredFigure DEF WriteOperatorSave
    <2> QED
        BY <2>1, <2>2, SomeFigure, ClaimKeepsOne, AnswerKeepsInv
<1>5. CASE WriteElevatedSave(u)
    <2>1. StoreFigure(u) /\ Answer(u) /\ UNCHANGED carried
        BY <1>5 DEF WriteElevatedSave
    <2>2. figure' \in Figure
        BY <1>5, <2>1, StoredFigure DEF WriteElevatedSave
    <2>3. UNCHANGED <<entry, claimants>> \/ Claim(u)
        BY <1>5 DEF WriteElevatedSave
    <2>4. /\ entry' \in Entry /\ claimants' \subseteq Users
          /\ OneClaimant' /\ EntrySane'
        BY <1>1, <1>2, <2>3, ClaimKeepsOne
    <2> QED
        BY <2>1, <2>2, <2>4, SomeFigure, AnswerKeepsInv
<1>6. CASE Refuse(u)
    <2>1. Answer(u) /\ UNCHANGED <<entry, figure, carried, claimants>>
        BY <1>6 DEF Refuse
    <2> QED
        BY <1>1, <1>2, <2>1, AnswerKeepsInv
<1> QED
    BY <1>3, <1>4, <1>5, <1>6

(* Reopenings and the two kinds of reset. *)
LEMMA ReopeningsKeepInv ==
    ASSUME FigureInv, NEW u \in Users,
           WriteReopen(u) \/ WriteReset(u) \/ WriteFullReset(u)
    PROVE  FigureInv'
<1>1. /\ entry \in Entry /\ figure \in Figure \cup {NoFigure}
      /\ entry.completed <=> entry.by # None
    BY DEF FigureInv, TypeOK, OneClaimant
<1>2. CASE WriteReopen(u) \/ WriteReset(u)
    <2>1. /\ entry' = Cleared(request[u].entry)
          /\ Reopened(u) /\ UNCHANGED figure
        BY <1>2 DEF WriteReopen, WriteReset
    <2>2. /\ entry' \in Entry /\ claimants' \subseteq Users
          /\ OneClaimant' /\ EntrySane'
        BY <2>1, ReadEntry, ReopeningKeepsOne
    <2> QED
        BY <1>1, <2>1, <2>2, AnswerKeepsInv DEF Reopened
<1>3. CASE WriteFullReset(u)
    <2>1. StoreFigure(u) /\ entry' = Cleared(entry) /\ Reopened(u)
        BY <1>3 DEF WriteFullReset
    <2>2. figure' \in Figure
        BY <1>3, <2>1, StoredFigure DEF WriteFullReset
    <2>3. /\ entry' \in Entry /\ claimants' \subseteq Users
          /\ OneClaimant' /\ EntrySane'
        BY <1>1, <2>1, ReopeningKeepsOne
    <2> QED
        BY <2>1, <2>2, <2>3, SomeFigure, AnswerKeepsInv DEF Reopened
<1> QED
    BY <1>2, <1>3

(* A lock growing stale, a cutover, a change of the books. *)
LEMMA SurroundingsKeepInv ==
    ASSUME FigureInv,
           \/ LockExpires
           \/ \E count \in Counts : ActivateCutover(count)
           \/ \E balance \in Carried \cup {Nothing} : BooksChange(balance)
    PROVE  FigureInv'
<1>1. /\ entry \in Entry /\ figure \in Figure \cup {NoFigure}
      /\ carried \in Carried \cup {Nothing}
    BY DEF FigureInv, TypeOK
<1>2. CASE LockExpires
    <2>1. /\ entry' \in Entry /\ entry'.completed = entry.completed
          /\ entry'.by = entry.by /\ entry'.exists = entry.exists
          /\ UNCHANGED <<figure, carried, request, claimants>>
        BY <1>1, <1>2 DEF LockExpires, Entry
    <2> QED
        BY <1>1, <2>1, QuietKeepsInv
<1>3. ASSUME NEW count \in Counts, ActivateCutover(count)
      PROVE  FigureInv'
    <2>1. figure' \in Figure /\ UNCHANGED <<entry, carried, request, claimants>>
        BY <1>3 DEF ActivateCutover, Figure, Unconditional
    <2> QED
        BY <1>1, <2>1, SomeFigure, QuietKeepsInv
<1>4. ASSUME NEW balance \in Carried \cup {Nothing}, BooksChange(balance)
      PROVE  FigureInv'
    BY <1>1, <1>4, QuietKeepsInv DEF BooksChange
<1> QED
    BY <1>2, <1>3, <1>4

(* Every step keeps the invariant. *)
LEMMA NextKeepsInv == FigureInv /\ [Next]_vars => FigureInv'
<1> SUFFICES ASSUME FigureInv, [Next]_vars PROVE FigureInv'
    OBVIOUS
<1>1. CASE Next
    BY <1>1, LocksKeepInv, ReadsKeepInv, CompletionsKeepInv, ReopeningsKeepInv,
       SurroundingsKeepInv DEF Next
<1>2. CASE UNCHANGED vars
    BY <1>2 DEF vars, FigureInv, TypeOK, OneClaimant, EntrySane, RequestsSane
<1> QED
    BY <1>1, <1>2

(* The invariant holds of every reachable state. *)
LEMMA FigureInvAlways == Spec => []FigureInv
BY InitInv, NextKeepsInv, PTL DEF Spec

-----------------------------------------------------------------------------
(* Who ends a request. *)

(* A request ends only in the step that answers it. *)
LEMMA AnswersEnd ==
    ASSUME FigureInv, NEW u \in Users, NEW w \in Users, NEW ops,
           "idle" \notin ops, Ends(u, ops), Answer(w)
    PROVE  u = w
<1> SUFFICES ASSUME u # w PROVE FALSE
    OBVIOUS
<1>1. request'[u] = request[u]
    BY DEF FigureInv, TypeOK, Answer
<1> QED
    BY <1>1 DEF Ends, Idle

(* Reading ends no request. *)
LEMMA ReadsEndNothing ==
    ASSUME FigureInv, NEW u \in Users, NEW w \in Users, NEW ops,
           "idle" \notin ops, NEW op \in Ops,
           NEW seenEntry, NEW seenFigure, NEW decided, NEW gives,
           Receive(w, op, seenEntry, seenFigure, decided, gives)
    PROVE  ~Ends(u, ops)
<1>1. "idle" # op
    BY DEF Ops
<1>2. request'[u] # Idle \/ request'[u] = request[u]
    BY <1>1 DEF FigureInv, TypeOK, Receive, Idle
<1> QED
    BY <1>2 DEF Ends, Idle

(* The handlers' last steps, by the user they answer. *)
Answering(u) ==
    \/ WriteLock(u) \/ WriteRelease(u) \/ WriteTakeover(u)
    \/ WriteNoActivity(u) \/ WriteOperatorSave(u) \/ WriteElevatedSave(u) \/ Refuse(u)
    \/ WriteReopen(u) \/ WriteReset(u) \/ WriteFullReset(u)

(* The handlers' first steps. *)
Reading(u) ==
    \/ ReadLock(u) \/ ReadRelease(u) \/ ReadTakeover(u) \/ ReadNoActivity(u)
    \/ ReadReopen(u) \/ ReadReset(u) \/ ReadFullReset(u)
    \/ \E submitted \in Counts \cup {Nothing}, explicit \in BOOLEAN,
          permitted \in BOOLEAN, op \in {"save", "review"} :
          ReadSave(u, submitted, explicit, permitted, op)

(* Steps that are no part of a request in two transactions. *)
Alone ==
    \/ \E u \in Users : CreateLocked(u) \/ CreateTakenOver(u)
    \/ LockExpires
    \/ \E count \in Counts : ActivateCutover(count)
    \/ \E balance \in Carried \cup {Nothing} : BooksChange(balance)

(* Every step is of one of the three kinds. *)
LEMMA ThreeKinds == Next => Alone \/ \E u \in Users : Reading(u) \/ Answering(u)
BY Zenon DEF Next, Alone, Reading, Answering

(* An answering step answers its user. *)
LEMMA AnsweringAnswers == ASSUME NEW u \in Users, Answering(u) PROVE Answer(u)
BY DEF Answering, WriteLock, WriteRelease, WriteTakeover, WriteNoActivity,
       WriteOperatorSave, WriteElevatedSave, Refuse, WriteReopen, WriteReset,
       WriteFullReset, Reopened

(* A reading step is a Receive. *)
LEMMA ReadingReceives ==
    ASSUME NEW u \in Users, Reading(u)
    PROVE  \E op \in Ops : \E seenEntry, seenFigure, decided, gives :
               Receive(u, op, seenEntry, seenFigure, decided, gives)
<1>1. /\ ReadLock(u) => Receive(u, "lock", entry, NoFigure, NoFigure, FALSE)
      /\ ReadRelease(u) => Receive(u, "release", entry, NoFigure, NoFigure, FALSE)
      /\ ReadTakeover(u) => Receive(u, "takeover", entry, NoFigure, NoFigure, FALSE)
      /\ ReadNoActivity(u) => Receive(u, "noActivity", NoEntry, NoFigure, NoFigure, FALSE)
      /\ ReadReopen(u) => Receive(u, "reopen", entry, NoFigure, NoFigure, FALSE)
      /\ ReadReset(u) => Receive(u, "reset", entry, NoFigure, NoFigure, FALSE)
    BY DEF ReadLock, ReadRelease, ReadTakeover, ReadNoActivity, ReadReopen, ReadReset,
           ReceiveForEntry
<1>2. ReadFullReset(u) =>
          Receive(u, "fullReset", NoEntry, figure,
                  [source |-> "reset_created",
                   opening |-> IF carried = Nothing THEN 0 ELSE carried],
                  FALSE)
    BY DEF ReadFullReset, ReceiveForFigure
<1>3. ASSUME NEW submitted, NEW explicit, NEW permitted, NEW op,
             ReadSave(u, submitted, explicit, permitted, op)
      PROVE  \E decided, gives : Receive(u, op, NoEntry, figure, decided, gives)
    BY <1>3 DEF ReadSave, ReceiveForFigure
<1>4. {"lock", "release", "takeover", "noActivity", "reopen", "reset", "fullReset",
       "save", "review"} = Ops
    BY DEF Ops
<1> QED
    BY <1>1, <1>2, <1>3, <1>4, Zenon DEF Reading

(* Only the user's own answering step ends his request. *)
LEMMA OnlyAnswersEnd ==
    ASSUME FigureInv, Next, NEW u \in Users, NEW ops, "idle" \notin ops, Ends(u, ops)
    PROVE  Answering(u)
<1>1. CASE Alone
    <2>1. UNCHANGED request
        BY <1>1 DEF Alone, CreateLocked, CreateTakenOver, LockExpires,
                    ActivateCutover, BooksChange
    <2> QED
        BY <2>1 DEF Ends, Idle
<1>2. ASSUME NEW w \in Users, Reading(w) PROVE FALSE
    BY <1>2, ReadingReceives, ReadsEndNothing
<1>3. ASSUME NEW w \in Users, Answering(w) PROVE Answering(u)
    <2>1. u = w
        BY <1>3, AnsweringAnswers, AnswersEnd
    <2> QED
        BY <1>3, <2>1
<1> QED
    BY <1>1, <1>2, <1>3, ThreeKinds

-----------------------------------------------------------------------------
(* What a request has decided. *)

(* Those who open the entry are elevated, and a routine save that found an *)
(* unconditional anchor has decided to leave it as it is.                  *)
RequestMade(u) ==
    /\ request[u].op \in {"reopen", "reset", "fullReset"} => u \in Elevated
    /\ request[u].op \in Saves =>
          \/ request[u].gives
          \/ request[u].figure.source \notin Unconditional
          \/ request[u].decided = request[u].figure

RequestsMade == \A u \in Users : RequestMade(u)

(* What a reading step has decided. *)
LEMMA ReadingMakes ==
    ASSUME FigureInv, NEW u \in Users, Reading(u)
    PROVE  RequestMade(u)'
<1>1. ASSUME NEW op, NEW seenEntry, NEW seenFigure, NEW decided, NEW gives,
             Receive(u, op, seenEntry, seenFigure, decided, gives)
      PROVE  /\ request'[u].op = op /\ request'[u].figure = seenFigure
             /\ request'[u].decided = decided /\ request'[u].gives = gives
    BY <1>1 DEF FigureInv, TypeOK, Receive
<1>2. CASE ReadLock(u) \/ ReadRelease(u) \/ ReadTakeover(u) \/ ReadNoActivity(u)
    <2>1. request'[u].op \in {"lock", "release", "takeover", "noActivity"}
        BY <1>1, <1>2 DEF ReadLock, ReadRelease, ReadTakeover, ReadNoActivity,
                          ReceiveForEntry
    <2> QED
        BY <2>1 DEF RequestMade, Saves
<1>3. CASE ReadReopen(u) \/ ReadReset(u) \/ ReadFullReset(u)
    <2>1. request'[u].op \in {"reopen", "reset", "fullReset"} /\ u \in Elevated
        BY <1>1, <1>3 DEF ReadReopen, ReadReset, ReadFullReset, ReceiveForEntry,
                          ReceiveForFigure
    <2> QED
        BY <2>1 DEF RequestMade, Saves
<1>4. ASSUME NEW submitted \in Counts \cup {Nothing}, NEW explicit \in BOOLEAN,
             NEW permitted \in BOOLEAN, NEW op \in {"save", "review"},
             ReadSave(u, submitted, explicit, permitted, op)
      PROVE  RequestMade(u)'
    <2> DEFINE correction ==
            explicit /\ submitted # Nothing /\ (u \in Elevated \/ permitted)
               decided == Decision(submitted, correction)
               gives == correction \/ carried = Nothing
    <2>1. Receive(u, op, NoEntry, figure, decided, gives)
        BY <1>4 DEF ReadSave, ReceiveForFigure
    <2>2. \/ gives
          \/ figure.source \notin Unconditional
          \/ decided = figure
        <3> HIDE DEF correction
        <3>1. CASE carried = Nothing
            BY <3>1 DEF Decision
        <3>2. CASE carried # Nothing /\ correction
            BY <3>2 DEF Decision
        <3>3. CASE carried # Nothing /\ ~correction /\ figure.source \in Unconditional
            BY <3>3 DEF Decision
        <3> QED
            BY <3>1, <3>2, <3>3
    <2> HIDE DEF decided, gives
    <2>3. /\ request'[u].op = op /\ request'[u].figure = figure
          /\ request'[u].decided = decided /\ request'[u].gives = gives
        BY <1>1, <2>1
    <2> QED
        BY <2>2, <2>3 DEF RequestMade
<1> QED
    BY <1>2, <1>3, <1>4 DEF Reading

(* Other steps decide nothing, and a reading step decides for its user. *)
LEMMA NextKeepsMade ==
    FigureInv /\ RequestsMade /\ [Next]_vars => RequestsMade'
<1> SUFFICES ASSUME FigureInv, RequestsMade, [Next]_vars, NEW v \in Users
             PROVE  RequestMade(v)'
    BY DEF RequestsMade
<1>1. RequestMade(v)
    BY DEF RequestsMade
<1>2. request'[v] = request[v] => RequestMade(v)'
    BY <1>1 DEF RequestMade
<1>3. CASE Alone \/ UNCHANGED vars
    BY <1>2, <1>3 DEF Alone, CreateLocked, CreateTakenOver, LockExpires,
                      ActivateCutover, BooksChange, vars
<1>4. ASSUME NEW u \in Users, Reading(u) PROVE RequestMade(v)'
    <2>1. CASE u = v
        BY <1>4, <2>1, ReadingMakes
    <2>2. CASE u # v
        BY <1>2, <1>4, <2>2, ReadingReceives DEF FigureInv, TypeOK, Receive
    <2> QED
        BY <2>1, <2>2
<1>5. ASSUME NEW u \in Users, Answering(u) PROVE RequestMade(v)'
    <2>1. request'[v] = Idle \/ request'[v] = request[v]
        BY <1>5, AnsweringAnswers DEF FigureInv, TypeOK, Answer
    <2> QED
        BY <1>2, <2>1 DEF RequestMade, Idle, Saves
<1> QED
    BY <1>3, <1>4, <1>5, ThreeKinds

(* Every reachable request has been decided so. *)
LEMMA RequestsMadeAlways == Spec => []RequestsMade
<1>1. Init => RequestsMade
    BY DEF Init, RequestsMade, RequestMade, Idle, Saves
<1> QED
    BY <1>1, FigureInvAlways, NextKeepsMade, PTL DEF Spec

-----------------------------------------------------------------------------
(* Theorems. *)

(* Handlers that mix their columns with what was committed since they read *)
(* still leave rows of the tables' types.                                  *)
THEOREM FigureTypeCorrect == Spec => []TypeOK
<1>1. FigureInv => TypeOK
    BY DEF FigureInv
<1> QED
    BY <1>1, FigureInvAlways, PTL

(* At any number of users and workers the completion of an entry has one   *)
(* author, and nobody else has been told that he completed it.             *)
THEOREM AlwaysOneClaimant == Spec => []OneClaimant
<1>1. FigureInv => OneClaimant
    BY DEF FigureInv
<1> QED
    BY <1>1, FigureInvAlways, PTL

(* The loser of a race to complete an entry leaves no figure behind: an    *)
(* operator's save writes with its completion or not at all.               *)
THEOREM OperatorsAlwaysComplete == Spec => OperatorWritesOnlyWhatHeCompletes
<1> DEFINE Completes ==
        \A u \in Operators :
            Ends(u, {"save"}) /\ figure' # figure
                => claimants = {} /\ entry'.completed /\ entry'.by = u
<1>1. FigureInv /\ [Next]_vars => [Completes]_vars
    <2> SUFFICES ASSUME FigureInv, Next, NEW u \in Operators,
                        Ends(u, {"save"}), figure' # figure
                 PROVE  claimants = {} /\ entry'.completed /\ entry'.by = u
        OBVIOUS
    <2>1. u \in Users /\ u \notin Elevated
        BY UsersAssumption DEF Users
    <2>2. Answering(u) /\ request[u].op = "save"
        BY <2>1, OnlyAnswersEnd DEF Ends
    <2>3. WriteOperatorSave(u) \/ Refuse(u)
        BY <2>1, <2>2 DEF Answering, WriteLock, WriteRelease, WriteTakeover,
           WriteNoActivity, WriteElevatedSave, WriteReopen, WriteReset, WriteFullReset
    <2>4. Claim(u)
        BY <2>3 DEF WriteOperatorSave, Refuse
    <2> QED
        BY <2>4 DEF Claim, FigureInv, TypeOK, Entry, OneClaimant
<1> QED
    BY <1>1, FigureInvAlways, PTL DEF Spec, OperatorWritesOnlyWhatHeCompletes

(* Once completed under a name, an entry keeps it through every late lock, *)
(* release, takeover and correction, until an elevated user opens it.      *)
THEOREM CompletionAlwaysKeepsItsAuthor == Spec => CompletionKeepsItsAuthor
<1> DEFINE Opens(u) == Ends(u, {"reopen", "reset", "fullReset"})
           Kept == entry'.completed /\ entry'.by = entry.by
           Opened == ~entry'.completed /\ \E u \in Elevated : Opens(u)
           Keeps == entry.completed => Kept \/ Opened
<1>1. FigureInv /\ RequestsMade /\ [Next]_vars => [Keeps]_vars
    <2> SUFFICES ASSUME FigureInv, RequestsMade, Next, entry.completed
                 PROVE  Kept \/ Opened
        OBVIOUS
    <2>1. entry \in Entry /\ entry.exists
        BY DEF FigureInv, TypeOK, EntrySane
    <2>2. CASE Alone
        <3>1. LockExpires \/ UNCHANGED entry
            BY <2>1, <2>2 DEF Alone, CreateLocked, CreateTakenOver, ActivateCutover,
                              BooksChange
        <3> QED
            BY <2>1, <3>1 DEF LockExpires, Entry
    <2>3. ASSUME NEW w \in Users, Reading(w) PROVE Kept
        BY <2>3, ReadingReceives DEF Receive
    <2>4. ASSUME NEW w \in Users,
                 \/ WriteLock(w) \/ WriteRelease(w) \/ WriteTakeover(w)
                 \/ WriteNoActivity(w) \/ WriteOperatorSave(w)
                 \/ WriteElevatedSave(w) \/ Refuse(w)
          PROVE  Kept
        <3>1. \/ entry' = Locked(w, request[w].entry)
              \/ entry' = Unlocked(request[w].entry)
              \/ UNCHANGED entry
            BY <2>4 DEF WriteLock, WriteRelease, WriteTakeover, WriteNoActivity,
                        WriteOperatorSave, WriteElevatedSave, Refuse, Claim
        <3> DEFINE seen == request[w].entry
        <3>2. seen \in Entry
            BY <2>4, ReadEntry
        <3> HIDE DEF seen
        <3>3. /\ Locked(w, seen).completed = entry.completed
              /\ Locked(w, seen).by = entry.by
              /\ Unlocked(seen).completed = entry.completed
              /\ Unlocked(seen).by = entry.by
            BY <2>1, <3>2, LockUpdates
        <3>4. entry' = Locked(w, seen) \/ entry' = Unlocked(seen) \/ entry' = entry
            BY <3>1 DEF seen
        <3>5. entry'.completed = entry.completed /\ entry'.by = entry.by
            BY <3>3, <3>4, Zenon
        <3> QED
            BY <3>5
    <2>5. ASSUME NEW w \in Users, WriteReopen(w) \/ WriteReset(w) \/ WriteFullReset(w)
          PROVE  Kept \/ Opened
        <3>1. PICK seen \in Entry :
                  entry' = Cleared(seen) /\ (seen.completed <=> seen.by # None)
            BY <2>1, <2>5, ReadEntry DEF WriteReopen, WriteReset, WriteFullReset,
                                         FigureInv, OneClaimant
        <3>2. Kept \/ ~entry'.completed
            BY <2>1, <3>1, ClearedUpdates
        <3>3. request[w].op \in {"reopen", "reset", "fullReset"} /\ Answer(w)
            BY <2>5 DEF WriteReopen, WriteReset, WriteFullReset, Reopened
        <3>4. w \in Elevated /\ Opens(w)
            BY <3>3 DEF RequestsMade, RequestMade, Ends, Answer, FigureInv, TypeOK
        <3> QED
            BY <3>2, <3>4
    <2> QED
        BY <2>2, <2>3, <2>4, <2>5, ThreeKinds DEF Answering
<1> QED
    BY <1>1, FigureInvAlways, RequestsMadeAlways, PTL DEF Spec, CompletionKeepsItsAuthor

(* A routine save that found an unconditional anchor writes no opening,    *)
(* whatever replaced that anchor in the meantime.                          *)
THEOREM FoundAnchorIsAlwaysKept == Spec => FoundAnchorIsKept
<1> DEFINE Keeps ==
        \A u \in Users :
            /\ Ends(u, Saves) /\ ~request[u].gives
            /\ request[u].figure.source \in Unconditional
            => figure' = figure
<1>1. FigureInv /\ RequestsMade /\ [Next]_vars => [Keeps]_vars
    <2> SUFFICES ASSUME FigureInv, RequestsMade, Next, NEW u \in Users,
                        Ends(u, Saves), ~request[u].gives,
                        request[u].figure.source \in Unconditional
                 PROVE  figure' = figure
        OBVIOUS
    <2>1. Answering(u) /\ request[u].op \in {"save", "review"}
        BY OnlyAnswersEnd DEF Ends, Saves
    <2>2. StoreFigure(u) \/ UNCHANGED figure
        BY <2>1 DEF Answering, WriteLock, WriteRelease, WriteTakeover, WriteNoActivity,
           WriteOperatorSave, WriteElevatedSave, Refuse, WriteReopen, WriteReset,
           WriteFullReset
    <2>3. CASE StoreFigure(u)
        <3> DEFINE seen == request[u].figure
        <3>1. request[u].decided = seen
            BY <2>1 DEF RequestsMade, RequestMade, Saves
        <3>2. seen # NoFigure
            BY DEF NoFigure, Unconditional
        <3>3. figure' = Merge(seen, seen, figure)
            BY <2>3, <3>1, <3>2 DEF StoreFigure
        <3>4. seen \in Figure /\ figure \in Figure
            <4>1. request[u] \in Request
                BY <2>1 DEF FigureInv, TypeOK, Idle
            <4> QED
                BY <2>1, <3>2, <4>1 DEF FigureInv, TypeOK, RequestsSane, Request
        <3> HIDE DEF seen
        <3>5. figure' = [source |-> figure.source, opening |-> figure.opening]
            BY <3>3, <3>4, MergeFigure
        <3> QED
            BY <3>4, <3>5 DEF Figure
    <2> QED
        BY <2>2, <2>3
<1> QED
    BY <1>1, FigureInvAlways, RequestsMadeAlways, PTL DEF Spec, FoundAnchorIsKept

-----------------------------------------------------------------------------
(* The review of a date and shift (DailyReview). *)

(* Nothing carries a stamp of the future. *)
StampsPast ==
    /\ \A p \in Products :
          /\ figureAt[p] <= clock
          /\ marks[p] # NoMark => marks[p].at <= clock /\ marks[p].figure <= clock
    /\ \A r \in Records : records[r].at <= clock

(* A request takes its stamp from the next commit, and what it has read    *)
(* and the stamp are so until another request commits: for a mark the mark *)
(* before it and the figure, for a submission that no mark is stale, for a *)
(* change of lines alone that the record is a draft.                       *)
Stamped == {"mark", "source", "reset"}
RequestSane(w) ==
    /\ work[w].op \in Stamped => work[w].stamp <= clock + 1
    /\ work[w].op = "mark" => work[w].figure <= clock
    /\ work[w] # NoJob /\ ~work[w].late =>
          /\ work[w].op \in Stamped => work[w].stamp = clock + 1
          /\ work[w].op = "mark" => /\ work[w].was = marks[work[w].p]
                                    /\ work[w].figure = figureAt[work[w].p]
          /\ work[w].op = "submit" => \A p \in Products : ~Stale(p)
          /\ work[w].op = "source" /\ ~work[w].moves => records[work[w].r].draft

(* What the comparisons see of a change. *)
Shows(p, where) ==
    IF where = "figure" THEN DailyFigureChangedSince(p, marks[p].figure)
    ELSE p \in records[where].products /\ records[where].at > marks[p].at

(* No change since a mark is hidden from the comparisons. *)
ChangesShow ==
    \A p \in Products : \A where \in Records \cup {"figure"} :
        <<p, where>> \in touched /\ Counted(p) => Shows(p, where)

ReviewInv == ReviewTypeOK /\ StampsPast /\ ChangesShow /\ \A w \in Workers : RequestSane(w)

-----------------------------------------------------------------------------
Requests == MarkWork \cup SourceWork \cup ResetWork \cup StatusWork

(* A request under way is of the kind its op says. *)
LEMMA ReviewJob ==
  ASSUME ReviewTypeOK, NEW w \in Workers
  PROVE  /\ work[w] = NoJob \/ work[w] \in Requests
         /\ work[w].op = "none" <=> work[w] = NoJob
         /\ work[w].op = "mark" => work[w] \in MarkWork
         /\ work[w].op = "source" => work[w] \in SourceWork
         /\ work[w].op = "reset" => work[w] \in ResetWork
<1>1. work[w] \in Requests \cup {NoJob}  BY DEF ReviewTypeOK, Requests
<1> QED  BY <1>1 DEF Requests, MarkWork, SourceWork, ResetWork, StatusWork, NoJob

(* A mark is there unless it is not reviewed. *)
LEMMA MarkThere ==
  ASSUME ReviewTypeOK, NEW p \in Products
  PROVE  /\ marks[p] # NoMark => marks[p] \in Mark
         /\ Counted(p) => marks[p] # NoMark
BY DEF ReviewTypeOK, Counted, NoMark

(* A commit leaves every other request late. *)
LEMMA ReviewCommitted ==
  ASSUME ReviewTypeOK, NEW w \in Workers, Committed(w)
  PROVE  /\ work' \in [Workers -> Requests \cup {NoJob}]
         /\ work'[w] = NoJob
         /\ clock' = clock + 1 /\ clock' \in Times /\ clock \in Nat
         /\ \A v \in Workers : work'[v] # NoJob =>
               /\ v # w /\ work'[v].late
               /\ work'[v].op = work[v].op
               /\ work[v].op \in Stamped => work'[v].stamp = work[v].stamp
               /\ work[v].op = "mark" => work'[v].figure = work[v].figure
<1>1. clock' = clock + 1 /\ clock' \in Times /\ clock \in Nat
  BY MaxCommitsAssumption DEF Committed, ReviewTypeOK, Times
<1>2. SUFFICES ASSUME NEW v \in Workers
               PROVE  /\ work'[v] \in Requests \cup {NoJob}
                      /\ v = w => work'[v] = NoJob
                      /\ work'[v] # NoJob =>
                           /\ v # w /\ work'[v].late
                           /\ work'[v].op = work[v].op
                           /\ work[v].op \in Stamped => work'[v].stamp = work[v].stamp
                           /\ work[v].op = "mark" => work'[v].figure = work[v].figure
  BY <1>1 DEF Committed
<1>3. work'[v] = IF v = w \/ work[v] = NoJob THEN NoJob ELSE [work[v] EXCEPT !.late = TRUE]
  BY DEF Committed
<1>4. CASE v = w \/ work[v] = NoJob  BY <1>3, <1>4
<1>5. CASE ~(v = w \/ work[v] = NoJob)
  <2>1. work'[v] = [work[v] EXCEPT !.late = TRUE]  BY <1>3, <1>5
  <2>2. work[v] \in Requests  BY <1>5, ReviewJob
  <2>3. CASE work[v] \in MarkWork
    BY <1>5, <2>1, <2>3 DEF MarkWork, Requests, Stamped
  <2>4. CASE work[v] \in SourceWork
    BY <1>5, <2>1, <2>4 DEF SourceWork, Requests, Stamped
  <2>5. CASE work[v] \in ResetWork
    BY <1>5, <2>1, <2>5 DEF ResetWork, Requests, Stamped
  <2>6. CASE work[v] \in StatusWork
    BY <1>5, <2>1, <2>6 DEF StatusWork, Requests, Stamped
  <2> QED  BY <2>2, <2>3, <2>4, <2>5, <2>6 DEF Requests
<1> QED  BY <1>4, <1>5

(* So nothing more is asked of the others than before. *)
LEMMA CommitKeepsRequests ==
  ASSUME ReviewTypeOK, \A v \in Workers : RequestSane(v), NEW w \in Workers, Committed(w)
  PROVE  \A v \in Workers : RequestSane(v)'
<1> SUFFICES ASSUME NEW v \in Workers  PROVE RequestSane(v)'  OBVIOUS
<1>1. clock' = clock + 1 /\ clock \in Nat  BY ReviewCommitted
<1>2. CASE work'[v] = NoJob  BY <1>2 DEF RequestSane, NoJob, Stamped
<1>3. CASE work'[v] # NoJob
  <2>1. /\ work'[v].late
        /\ work'[v].op = work[v].op
        /\ work[v].op \in Stamped => work'[v].stamp = work[v].stamp
        /\ work[v].op = "mark" => work'[v].figure = work[v].figure
    BY <1>3, ReviewCommitted
  <2>2. ASSUME work[v].op \in Stamped  PROVE work'[v].stamp <= clock' + 1
    <3>1. work[v].stamp \in Nat  BY <2>2, ReviewJob DEF Stamped, MarkWork, SourceWork, ResetWork, Times
    <3> QED  BY <1>1, <2>1, <2>2, <3>1 DEF RequestSane
  <2>3. ASSUME work[v].op = "mark"  PROVE work'[v].figure <= clock'
    <3>1. work[v].figure \in Nat  BY <2>3, ReviewJob DEF MarkWork, Times
    <3> QED  BY <1>1, <2>1, <2>3, <3>1 DEF RequestSane
  <2> QED  BY <2>1, <2>2, <2>3 DEF RequestSane
<1> QED  BY <1>2, <1>3

-----------------------------------------------------------------------------
(* Steps that commit nothing: a request begins or is given up.             *)
Standing == UNCHANGED <<status, marks, figureAt, records, clock, touched>>

LEMMA StandingKeeps ==
  ASSUME ReviewTypeOK, StampsPast, ChangesShow, Standing,
         work' \in [Workers -> Requests \cup {NoJob}]
  PROVE  ReviewTypeOK' /\ StampsPast' /\ ChangesShow'
<1>1. ReviewTypeOK'  BY DEF ReviewTypeOK, Standing, Requests
<1>2. StampsPast'  BY DEF StampsPast, Standing
<1>3. ChangesShow'
  BY DEF ChangesShow, Standing, Counted, Shows, DailyFigureChangedSince
<1> QED  BY <1>1, <1>2, <1>3

LEMMA RequestStands ==
  ASSUME NEW w \in Workers, RequestSane(w), Standing, work'[w] = work[w]
  PROVE  RequestSane(w)'
BY DEF RequestSane, Standing, Stale, Counted, SourceTouchedSince, DailyFigureChangedSince

(* A request that has read what it should is asked no more. *)
LEMMA ReviewBegun ==
  ASSUME ReviewInv, NEW w \in Workers, NEW job \in Requests, Begin(w, job),
         job.op \in Stamped => job.stamp = clock + 1,
         job.op = "mark" => /\ job.was = marks[job.p]
                                /\ job.figure = figureAt[job.p]
                                /\ job.p \in Products,
         job.op = "submit" => \A p \in Products : ~Stale(p),
         job.op = "source" /\ ~job.moves => records[job.r].draft
  PROVE  ReviewInv'
<1> USE DEF ReviewInv
<1>1. Standing /\ work' = [work EXCEPT ![w] = job]  BY DEF Begin, Standing
<1>2. work' \in [Workers -> Requests \cup {NoJob}] /\ work'[w] = job
      /\ \A v \in Workers \ {w} : work'[v] = work[v]
  BY <1>1 DEF ReviewTypeOK, Requests
<1>3. clock \in Nat /\ clock + 1 <= clock + 1
  BY MaxCommitsAssumption DEF ReviewTypeOK, Times
<1>4. job.op = "mark" => job.figure <= clock  BY DEF StampsPast
<1>5. job.op = "submit" => \A p \in Products : ~Stale(p)'
  BY <1>1 DEF Standing, Stale, Counted, SourceTouchedSince, DailyFigureChangedSince
<1>6. RequestSane(w)'  BY <1>1, <1>2, <1>3, <1>4, <1>5 DEF RequestSane, Standing
<1>7. \A v \in Workers : RequestSane(v)'  BY <1>1, <1>2, <1>6, RequestStands
<1> QED  BY <1>1, <1>2, <1>7, StandingKeeps

LEMMA ReviewGivenUp ==
  ASSUME ReviewInv, (\E w \in Workers : Abandon(w)) \/ UNCHANGED reviewVars
  PROVE  ReviewInv'
<1> USE DEF ReviewInv
<1>1. CASE UNCHANGED reviewVars
  <2>1. Standing /\ work' = work  BY <1>1 DEF reviewVars, Standing
  <2>2. work' \in [Workers -> Requests \cup {NoJob}]  BY <2>1 DEF ReviewTypeOK, Requests
  <2> QED  BY <2>1, <2>2, StandingKeeps, RequestStands
<1>2. ASSUME NEW w \in Workers, Abandon(w)  PROVE ReviewInv'
  <2>1. Standing /\ work' = [work EXCEPT ![w] = NoJob]  BY <1>2 DEF Abandon, Standing
  <2>2. work' \in [Workers -> Requests \cup {NoJob}] /\ work'[w] = NoJob
        /\ \A v \in Workers \ {w} : work'[v] = work[v]
    BY <2>1 DEF ReviewTypeOK, Requests
  <2>3. RequestSane(w)'  BY <2>2 DEF RequestSane, NoJob, Stamped
  <2> QED  BY <2>1, <2>2, <2>3, StandingKeeps, RequestStands
<1> QED  BY <1>1, <1>2

(* The five reads. *)
LEMMA ReviewReads ==
  ASSUME ReviewInv, NEW w \in Workers,
         \/ \E p \in Products, state \in MarkStates, reason \in BOOLEAN :
               ReadMark(w, p, state, reason)
         \/ \E force \in BOOLEAN : ReadSubmit(w, force)
         \/ ReadReopenReview(w)
         \/ \E r \in Records, products \in SUBSET Products, draft \in BOOLEAN, moves \in BOOLEAN :
               ReadSource(w, r, products, draft, moves)
         \/ \E products \in (SUBSET Products) \ {{}}, full \in BOOLEAN :
               ReadResetReview(w, products, full)
  PROVE  ReviewInv' /\ Standing
<1> USE DEF ReviewInv
<1>1. Standing
  BY DEF ReadMark, ReadSubmit, ReadReopenReview, ReadSource, ReadResetReview, Begin, Standing
<1>2. clock < MaxCommits => clock + 1 \in Times
  BY MaxCommitsAssumption DEF ReviewTypeOK, Times
<1>3. ASSUME NEW p \in Products, NEW state \in MarkStates, NEW reason \in BOOLEAN,
             ReadMark(w, p, state, reason)
      PROVE  ReviewInv'
  <2> DEFINE job == [op |-> "mark", p |-> p, state |-> state, reason |-> reason,
                     session |-> status # "none", was |-> marks[p], figure |-> figureAt[p],
                     stamp |-> clock + 1, late |-> FALSE]
  <2>1. Begin(w, job)  BY <1>3 DEF ReadMark
  <2>2. clock + 1 \in Times  BY <1>2, <2>1 DEF Begin
  <2>3. marks[p] \in Mark \cup {NoMark} /\ figureAt[p] \in Times  BY DEF ReviewTypeOK
  <2>4. job \in MarkWork  BY <2>2, <2>3 DEF MarkWork
  <2>5. job.op = "mark" /\ job.stamp = clock + 1 /\ job.was = marks[job.p]
        /\ job.figure = figureAt[job.p] /\ job.p \in Products
    OBVIOUS
  <2> HIDE DEF job
  <2>6. job \in Requests  BY <2>4 DEF Requests
  <2> QED  BY <2>1, <2>5, <2>6, ReviewBegun
<1>4. ASSUME NEW force \in BOOLEAN, ReadSubmit(w, force)  PROVE ReviewInv'
  <2> DEFINE job == [op |-> "submit", late |-> FALSE]
  <2>1. Begin(w, job) /\ \A p \in Products : ~Stale(p)
    BY <1>4 DEF ReadSubmit, Blocks
  <2>2. job \in Requests /\ job.op = "submit"  BY DEF Requests, StatusWork
  <2>3. job.op \notin Stamped /\ job.op # "mark"  BY DEF Stamped
  <2> HIDE DEF job
  <2> QED  BY <2>1, <2>2, <2>3, ReviewBegun
<1>5. ASSUME ReadReopenReview(w)  PROVE ReviewInv'
  <2> DEFINE job == [op |-> "reopen", late |-> FALSE]
  <2>1. Begin(w, job)  BY <1>5 DEF ReadReopenReview
  <2>2. job \in Requests /\ job.op = "reopen"  BY DEF Requests, StatusWork
  <2>3. job.op \notin Stamped /\ job.op # "mark" /\ job.op # "submit"  BY DEF Stamped
  <2> HIDE DEF job
  <2> QED  BY <2>1, <2>2, <2>3, ReviewBegun
<1>6. ASSUME NEW r \in Records, NEW products \in SUBSET Products, NEW draft \in BOOLEAN,
             NEW moves \in BOOLEAN, ReadSource(w, r, products, draft, moves)
      PROVE  ReviewInv'
  <2> DEFINE job == [op |-> "source", r |-> r, products |-> products, draft |-> draft,
                     moves |-> moves, stamp |-> clock + 1, late |-> FALSE]
  <2>1. Begin(w, job)  BY <1>6 DEF ReadSource
  <2>2. clock + 1 \in Times  BY <1>2, <2>1 DEF Begin
  <2>3. job \in Requests /\ job.op = "source" /\ job.stamp = clock + 1
    BY <2>2 DEF Requests, SourceWork
  <2>4. job.op = "source" /\ ~job.moves => records[job.r].draft  BY <1>6 DEF ReadSource
  <2> HIDE DEF job
  <2> QED  BY <2>1, <2>3, <2>4, ReviewBegun
<1>7. ASSUME NEW products \in SUBSET Products, NEW full \in BOOLEAN,
             ReadResetReview(w, products, full)
      PROVE  ReviewInv'
  <2> DEFINE job == [op |-> "reset", products |-> products, full |-> full,
                     found |-> {p \in products : marks[p] # NoMark},
                     submitted |-> status = "submitted", stamp |-> clock + 1, late |-> FALSE]
  <2>1. Begin(w, job)  BY <1>7 DEF ReadResetReview
  <2>2. clock + 1 \in Times  BY <1>2, <2>1 DEF Begin
  <2>3. {p \in products : marks[p] # NoMark} \in SUBSET Products
        /\ (status = "submitted") \in BOOLEAN
    OBVIOUS
  <2>4. job \in ResetWork  BY <2>2, <2>3 DEF ResetWork
  <2>5. job.op = "reset" /\ job.stamp = clock + 1  OBVIOUS
  <2> HIDE DEF job
  <2>6. job \in Requests  BY <2>4 DEF Requests
  <2> QED  BY <2>1, <2>5, <2>6, ReviewBegun
<1> QED  BY <1>1, <1>3, <1>4, <1>5, <1>6, <1>7

-----------------------------------------------------------------------------
(* The commits. *)

(* The row a mark leaves: stamped by its commit and with the figure as it  *)
(* is, unless it was overtaken.                                            *)
LEMMA MarkRow ==
  ASSUME ReviewInv, NEW w \in Workers, WriteMark(w)
  PROVE  \E p \in Products, row \in Mark :
            /\ p = work[w].p
            /\ marks' = [marks EXCEPT ![p] = row]
            /\ row.at <= clock + 1 /\ row.figure <= clock + 1
            /\ ~work[w].late => row.at = clock + 1 /\ row.figure = figureAt[p]
<1> USE DEF ReviewInv
<1>1. PICK m : m = work[w]  OBVIOUS
<1>2. m \in MarkWork /\ m.op = "mark"  BY <1>1, ReviewJob DEF WriteMark
<1>3. m.p \in Products /\ m.was \in Mark \cup {NoMark} /\ m.figure \in Times /\ m.stamp \in Times
      /\ m.state \in MarkStates /\ m.reason \in BOOLEAN
  BY <1>2 DEF MarkWork
<1>4. PICK p \in Products : p = m.p  BY <1>3
<1>5. clock \in Nat /\ clock + 1 \in Times /\ Times \subseteq Nat
  BY MaxCommitsAssumption DEF WriteMark, Committed, ReviewTypeOK, Times
<1>6. (marks[p] = NoMark) = (m.was = NoMark)  BY <1>1, <1>4 DEF WriteMark
<1>7. marks[p] \in Mark \/ marks[p] = NoMark  BY DEF ReviewTypeOK
<1>8. /\ m.figure <= clock /\ m.stamp <= clock + 1
      /\ ~work[w].late => m.was = marks[p] /\ m.figure = figureAt[p] /\ m.stamp = clock + 1
  BY <1>1, <1>2, <1>4, ReviewJob DEF RequestSane, Stamped
<1>9. figureAt[p] \in Times /\ figureAt[p] <= clock  BY DEF ReviewTypeOK, StampsPast
<1>10. marks[p] # NoMark => marks[p].figure \in Times /\ marks[p].figure <= clock
  BY <1>7 DEF StampsPast, Mark
<1>11. Reason(m) \in BOOLEAN
  <2>1. m.was # NoMark => m.was.reason \in BOOLEAN  BY <1>3 DEF Mark
  <2> QED  BY <1>3, <2>1 DEF Reason
<1>12. ASSUME NEW snapshot \in Times, NEW at \in Times, snapshot <= clock, at <= clock + 1,
              ~work[w].late => snapshot = figureAt[p] /\ at = clock + 1
       PROVE  /\ Row(m, snapshot, at) \in Mark
              /\ Row(m, snapshot, at).at <= clock + 1 /\ Row(m, snapshot, at).figure <= clock + 1
              /\ ~work[w].late => /\ Row(m, snapshot, at).at = clock + 1
                                  /\ Row(m, snapshot, at).figure = figureAt[p]
  <2>1. snapshot <= clock + 1  BY <1>5, <1>12
  <2>2. CASE m.was = NoMark
    <3>1. Row(m, snapshot, at)
             = [state |-> m.state, reason |-> Reason(m), at |-> at, figure |-> snapshot]
      BY <2>2 DEF Row
    <3> QED  BY <1>3, <1>11, <1>12, <2>1, <3>1 DEF Mark
  <2>3. CASE m.was # NoMark
    <3>1. marks[p] \in Mark  BY <1>6, <1>7, <2>3
    <3>2. PICK state : state = Column(m.was.state, m.state, marks[p].state)  OBVIOUS
    <3>3. PICK reason : reason = Column(m.was.reason, Reason(m), marks[p].reason)  OBVIOUS
    <3>4. PICK fig : fig = Column(m.was.figure, snapshot, marks[p].figure)  OBVIOUS
    <3>5. state \in MarkStates  BY <1>3, <3>1, <3>2 DEF Column, Mark
    <3>6. reason \in BOOLEAN  BY <1>11, <3>1, <3>3 DEF Column, Mark
    <3>7. fig \in Times /\ fig <= clock  BY <1>6, <1>10, <1>12, <2>3, <3>4 DEF Column
    <3>8. ~work[w].late => fig = figureAt[p]
      BY <1>8, <1>12, <3>4 DEF Column
    <3>9. Row(m, snapshot, at) = [state |-> state, reason |-> reason, at |-> at, figure |-> fig]
      BY <1>4, <2>3, <3>2, <3>3, <3>4 DEF Row
    <3>10. fig <= clock + 1  BY <1>5, <3>7
    <3> QED  BY <1>12, <3>5, <3>6, <3>7, <3>8, <3>9, <3>10 DEF Mark
  <2> QED  BY <2>2, <2>3
<1>13. PICK row \in Marked(m) : marks' = [marks EXCEPT ![p] = row]
  BY <1>1, <1>4 DEF WriteMark
<1>14. row = Row(m, figureAt[p], clock + 1) \/ row = Row(m, m.figure, m.stamp)
  BY <1>4, <1>13 DEF Marked
<1>15. clock + 1 <= clock + 1  BY <1>5
<1>16. /\ row \in Mark /\ row.at <= clock + 1 /\ row.figure <= clock + 1
       /\ ~work[w].late => row.at = clock + 1 /\ row.figure = figureAt[p]
  <2>1. CASE row = Row(m, figureAt[p], clock + 1)
    BY <1>5, <1>9, <1>12, <1>15, <2>1
  <2>2. CASE row = Row(m, m.figure, m.stamp)
    BY <1>3, <1>8, <1>12, <2>2
  <2> QED  BY <1>14, <2>1, <2>2
<1> QED  BY <1>1, <1>4, <1>13, <1>16

(* What is left to show of a commit: that the tables stay well formed and  *)
(* no change since a mark is hidden.                                       *)
LEMMA ReviewCommitKeeps ==
  ASSUME ReviewInv, NEW w \in Workers, Committed(w),
         status' \in Statuses,
         marks' \in [Products -> Mark \cup {NoMark}],
         figureAt' \in [Products -> Times],
         records' \in [Records -> Record],
         touched' \subseteq Products \X (Records \cup {"figure"}),
         \A p \in Products :
            /\ figureAt'[p] <= clock + 1
            /\ marks'[p] # NoMark => marks'[p].at <= clock + 1 /\ marks'[p].figure <= clock + 1,
         \A r \in Records : records'[r].at <= clock + 1,
         ChangesShow'
  PROVE  ReviewInv'
<1> USE DEF ReviewInv
<1>1. clock' = clock + 1 /\ clock' \in Times
      /\ work' \in [Workers -> Requests \cup {NoJob}]
  BY ReviewCommitted
<1>2. ReviewTypeOK'  BY <1>1 DEF ReviewTypeOK, Requests
<1>3. StampsPast'  BY <1>1 DEF StampsPast
<1>4. \A v \in Workers : RequestSane(v)'  BY CommitKeepsRequests
<1> QED  BY <1>2, <1>3, <1>4

(* The stamps as they are, seen from the next commit. *)
LEMMA StampsBefore ==
  ASSUME ReviewInv, NEW w \in Workers, Committed(w)
  PROVE  /\ clock \in Nat /\ clock + 1 \in Times /\ clock < clock + 1 /\ clock + 1 <= clock + 1
         /\ \A p \in Products :
               /\ figureAt[p] \in Nat /\ figureAt[p] <= clock + 1
               /\ marks[p] # NoMark =>
                     /\ marks[p].at \in Nat /\ marks[p].at < clock + 1
                     /\ marks[p].figure \in Nat /\ marks[p].figure < clock + 1
         /\ \A r \in Records : records[r].at \in Nat /\ records[r].at < clock + 1
<1> USE DEF ReviewInv
<1>1. clock \in Nat /\ clock + 1 \in Times  BY ReviewCommitted
<1>2. Times \subseteq Nat  BY MaxCommitsAssumption DEF Times
<1>3. ASSUME NEW p \in Products
      PROVE  /\ figureAt[p] \in Nat /\ figureAt[p] <= clock + 1
             /\ marks[p] # NoMark =>
                     /\ marks[p].at \in Nat /\ marks[p].at < clock + 1
                     /\ marks[p].figure \in Nat /\ marks[p].figure < clock + 1
  <2>1. figureAt[p] \in Nat /\ figureAt[p] <= clock  BY <1>2 DEF ReviewTypeOK, StampsPast
  <2>2. marks[p] # NoMark => /\ marks[p].at \in Nat /\ marks[p].at <= clock
                             /\ marks[p].figure \in Nat /\ marks[p].figure <= clock
    BY <1>2, MarkThere DEF StampsPast, Mark
  <2> QED  BY <1>1, <2>1, <2>2
<1>4. ASSUME NEW r \in Records  PROVE records[r].at \in Nat /\ records[r].at < clock + 1
  <2>1. records[r].at \in Nat /\ records[r].at <= clock
    BY <1>2 DEF ReviewTypeOK, StampsPast, Record
  <2> QED  BY <1>1, <2>1
<1> QED  BY <1>1, <1>3, <1>4

(* A change as it is seen before and after a step that leaves it alone.    *)
LEMMA StillShows ==
  ASSUME NEW p \in Products, NEW where \in Records \cup {"figure"}, Shows(p, where),
         marks'[p] = marks[p], figureAt'[p] = figureAt[p],
         where # "figure" => records'[where] = records[where]
  PROVE  Shows(p, where)'
BY DEF Shows, DailyFigureChangedSince

(* WriteMark: the changes of its product are settled. *)
LEMMA MarkKeeps ==
  ASSUME ReviewInv, NEW w \in Workers, WriteMark(w)
  PROVE  ReviewInv'
<1> USE DEF ReviewInv
<1>1. Committed(w) /\ figureAt' = figureAt /\ records' = records  BY DEF WriteMark
<1>2. PICK p \in Products, row \in Mark :
         /\ p = work[w].p
         /\ marks' = [marks EXCEPT ![p] = row]
         /\ row.at <= clock + 1 /\ row.figure <= clock + 1
  BY MarkRow
<1>3. touched' = {t \in touched : t[1] # p}  BY <1>2 DEF WriteMark
<1>4. marks' \in [Products -> Mark \cup {NoMark}] /\ marks'[p] = row
      /\ \A q \in Products \ {p} : marks'[q] = marks[q]
  BY <1>2 DEF ReviewTypeOK
<1>5. status' \in Statuses  BY DEF WriteMark, ReviewTypeOK, Statuses
<1>6. ChangesShow'
  <2> SUFFICES ASSUME NEW q \in Products, NEW where \in Records \cup {"figure"},
                      <<q, where>> \in touched', Counted(q)'
               PROVE  Shows(q, where)'
    BY DEF ChangesShow
  <2>1. <<q, where>> \in touched /\ q # p  BY <1>3
  <2>2. marks'[q] = marks[q]  BY <1>4, <2>1
  <2>3. Counted(q)  BY <2>2 DEF Counted
  <2>4. Shows(q, where)  BY <2>1, <2>3 DEF ChangesShow
  <2> QED  BY <1>1, <2>2, <2>4, StillShows
<1>7. touched' \subseteq Products \X (Records \cup {"figure"})  BY <1>3 DEF ReviewTypeOK
<1>8. \A q \in Products :
            /\ figureAt'[q] <= clock + 1
            /\ marks'[q] # NoMark => marks'[q].at <= clock + 1 /\ marks'[q].figure <= clock + 1
  <2>1. ASSUME NEW q \in Products
        PROVE  /\ figureAt'[q] <= clock + 1
               /\ marks'[q] # NoMark => marks'[q].at <= clock + 1 /\ marks'[q].figure <= clock + 1
    <3>1. figureAt'[q] <= clock + 1  BY <1>1, StampsBefore
    <3>2. CASE q = p  BY <1>2, <1>4, <3>1, <3>2
    <3>3. CASE q # p  BY <1>1, <1>4, <3>1, <3>3, StampsBefore
    <3> QED  BY <3>2, <3>3
  <2> QED  BY <2>1
<1>9. \A r \in Records : records'[r].at <= clock + 1  BY <1>1, StampsBefore
<1>10. figureAt' \in [Products -> Times] /\ records' \in [Records -> Record]  BY <1>1 DEF ReviewTypeOK
<1> QED  BY <1>1, <1>4, <1>5, <1>6, <1>7, <1>8, <1>9, <1>10, ReviewCommitKeeps

(* WriteSubmit, WriteReopenReview: only the status. *)
LEMMA StatusKeeps ==
  ASSUME ReviewInv, NEW w \in Workers, WriteSubmit(w) \/ WriteReopenReview(w)
  PROVE  ReviewInv'
<1> USE DEF ReviewInv
<1>1. Committed(w) /\ UNCHANGED <<marks, figureAt, records, touched>>
  BY DEF WriteSubmit, WriteReopenReview
<1>2. status' \in Statuses  BY DEF WriteSubmit, WriteReopenReview, Statuses
<1>3. ChangesShow'
  BY <1>1 DEF ChangesShow, Counted, Shows, DailyFigureChangedSince
<1>4. \A p \in Products :
            /\ figureAt'[p] <= clock + 1
            /\ marks'[p] # NoMark => marks'[p].at <= clock + 1 /\ marks'[p].figure <= clock + 1
  BY <1>1, StampsBefore
<1>5. \A r \in Records : records'[r].at <= clock + 1  BY <1>1, StampsBefore
<1>6. /\ marks' \in [Products -> Mark \cup {NoMark}]
      /\ figureAt' \in [Products -> Times] /\ records' \in [Records -> Record]
      /\ touched' \subseteq Products \X (Records \cup {"figure"})
  BY <1>1 DEF ReviewTypeOK
<1> QED  BY <1>1, <1>2, <1>3, <1>4, <1>5, <1>6, ReviewCommitKeeps

(* WriteSource: a record that is or was no draft is stamped later than any *)
(* mark, unless the request was overtaken.                                 *)
LEMMA SourceKeeps ==
  ASSUME ReviewInv, NEW w \in Workers, WriteSource(w)
  PROVE  ReviewInv'
<1> USE DEF ReviewInv
<1>1. PICK m : m = work[w]  OBVIOUS
<1>2. m \in SourceWork /\ m.op = "source"  BY <1>1, ReviewJob DEF WriteSource
<1>3. /\ m.r \in Records /\ m.products \in SUBSET Products /\ m.stamp \in Times
      /\ m.draft \in BOOLEAN /\ m.moves \in BOOLEAN /\ m.late \in BOOLEAN
  BY <1>2 DEF SourceWork
<1>4. /\ Committed(w) /\ status' = status /\ marks' = marks /\ figureAt' = figureAt
  BY <1>1 DEF WriteSource
<1>5. /\ m.stamp <= clock + 1
      /\ ~m.late => m.stamp = clock + 1
  BY <1>1, <1>2, ReviewJob DEF RequestSane, Stamped
<1>6. PICK r \in Records : r = m.r  BY <1>3
<1>14. PICK record \in Sources(m) :
         /\ records' = [records EXCEPT ![r] = record]
         /\ touched' = {t \in touched : t[2] = r => ~m.late /\ t[1] \in m.products}
               \cup (IF m.late \/ (records[r].draft /\ record.draft) THEN {}
                     ELSE m.products \X {r})
  BY <1>1, <1>6 DEF WriteSource
<1>15. /\ records[r] \in Record /\ records[r].at <= clock + 1  BY <1>4, StampsBefore DEF ReviewTypeOK
<1>16. /\ record \in Record /\ record.products = m.products
       /\ m.moves => record.at = m.stamp
       /\ ~m.moves => record.at = records[r].at /\ record.draft = records[r].draft
  <2>1. CASE m.moves
    <3>1. PICK draft \in {m.draft} \cup (IF m.late THEN {records[r].draft} ELSE {}) :
             record = [products |-> m.products, draft |-> draft, at |-> m.stamp]
      BY <1>6, <1>14, <2>1 DEF Sources
    <3>2. draft \in BOOLEAN  BY <1>3, <1>15, <3>1 DEF Record
    <3> QED  BY <1>3, <2>1, <3>1, <3>2 DEF Record
  <2>2. CASE ~m.moves
    <3>1. record = [records[r] EXCEPT !.products = m.products]
      BY <1>6, <1>14, <2>2 DEF Sources
    <3> QED  BY <1>3, <1>15, <2>2, <3>1 DEF Record
  <2> QED  BY <2>1, <2>2
<1>17. ~m.late /\ ~m.moves => records[r].draft
  BY <1>1, <1>2, <1>6, ReviewJob DEF RequestSane
<1>7. /\ records' \in [Records -> Record] /\ records'[r] = record
      /\ \A b \in Records \ {r} : records'[b] = records[b]
  BY <1>14, <1>16 DEF ReviewTypeOK
<1>8. ChangesShow'
  <2> SUFFICES ASSUME NEW p \in Products, NEW where \in Records \cup {"figure"},
                      <<p, where>> \in touched', Counted(p)'
               PROVE  Shows(p, where)'
    BY DEF ChangesShow
  <2>1. Counted(p) /\ marks'[p] = marks[p] /\ figureAt'[p] = figureAt[p]
    BY <1>4 DEF Counted
  <2>2. CASE <<p, where>> \in touched /\ where # r
    <3>1. Shows(p, where)  BY <2>1, <2>2 DEF ChangesShow
    <3>2. where # "figure" => records'[where] = records[where]  BY <1>7, <2>2
    <3> QED  BY <2>1, <3>1, <3>2, StillShows
  <2>3. CASE ~m.late /\ where = r /\ p \in m.products
    <3>1. p \in records'[r].products /\ records'[r].at = record.at  BY <1>7, <1>16, <2>3
    <3>2. marks[p] # NoMark  BY <2>1, MarkThere
    <3>3. marks[p].at \in Nat /\ marks[p].at < clock + 1 /\ clock + 1 \in Nat
      BY <1>4, <3>2, StampsBefore
    <3>4. where # "figure"  BY <2>3, RecordsAssumption
    <3>5. CASE m.moves
      <4>1. records'[where].at = clock + 1  BY <1>5, <1>16, <2>3, <3>1, <3>5
      <4>2. records'[where].at > marks'[p].at  BY <2>1, <3>3, <4>1
      <4> QED  BY <2>3, <3>1, <3>4, <4>2 DEF Shows
    <3>6. CASE ~m.moves
      <4>1. records[r].draft /\ record.draft  BY <1>16, <1>17, <2>3, <3>6
      <4>2. <<p, r>> \in touched  BY <1>14, <2>3, <4>1
      <4>3. records[r].at > marks[p].at  BY <2>1, <2>3, <3>4, <4>2 DEF ChangesShow, Shows
      <4>4. records'[where].at > marks'[p].at  BY <1>16, <2>1, <2>3, <3>1, <3>6, <4>3
      <4> QED  BY <2>3, <3>1, <3>4, <4>4 DEF Shows
    <3> QED  BY <3>5, <3>6
  <2>4. (<<p, where>> \in touched /\ where # r) \/ (~m.late /\ where = r /\ p \in m.products)
    BY <1>14
  <2> QED  BY <2>2, <2>3, <2>4
<1>9. touched' \subseteq Products \X (Records \cup {"figure"})
  BY <1>3, <1>6, <1>14 DEF ReviewTypeOK
<1>10. \A p \in Products :
            /\ figureAt'[p] <= clock + 1
            /\ marks'[p] # NoMark => marks'[p].at <= clock + 1 /\ marks'[p].figure <= clock + 1
  BY <1>4, StampsBefore
<1>11. \A b \in Records : records'[b].at <= clock + 1
  <2>1. \A b \in Records : records[b].at <= clock + 1  BY <1>4, StampsBefore
  <2>2. record.at <= clock + 1  BY <1>3, <1>5, <1>15, <1>16
  <2> QED  BY <1>7, <2>1, <2>2
<1>12. /\ status' \in Statuses /\ marks' \in [Products -> Mark \cup {NoMark}]
       /\ figureAt' \in [Products -> Times]
  BY <1>4 DEF ReviewTypeOK
<1> QED  BY <1>4, <1>7, <1>8, <1>9, <1>10, <1>11, <1>12, ReviewCommitKeeps

(* SaveFigure: no mark has kept the stamp of a save to come. *)
LEMMA SaveKeeps ==
  ASSUME ReviewInv, NEW w \in Workers, NEW p \in Products, SaveFigure(w, p)
  PROVE  ReviewInv'
<1> USE DEF ReviewInv
<1>1. /\ Committed(w) /\ status' = status /\ marks' = marks /\ records' = records
      /\ figureAt' = [figureAt EXCEPT ![p] = clock + 1]
      /\ touched' = touched \cup {<<p, "figure">>}
  BY DEF SaveFigure
<1>2. clock + 1 \in Times /\ clock + 1 \in Nat  BY <1>1, StampsBefore
<1>3. figureAt' \in [Products -> Times] /\ figureAt'[p] = clock + 1
      /\ \A q \in Products \ {p} : figureAt'[q] = figureAt[q]
  BY <1>1, <1>2 DEF ReviewTypeOK
<1>4. ChangesShow'
  <2> SUFFICES ASSUME NEW q \in Products, NEW where \in Records \cup {"figure"},
                      <<q, where>> \in touched', Counted(q)'
               PROVE  Shows(q, where)'
    BY DEF ChangesShow
  <2>1. Counted(q) /\ marks'[q] = marks[q]  BY <1>1 DEF Counted
  <2>2. CASE q = p /\ where = "figure"
    <3>1. marks[p].figure \in Nat /\ marks[p].figure < clock + 1
      BY <1>1, <2>1, <2>2, MarkThere, StampsBefore
    <3>2. figureAt'[p] # marks'[p].figure  BY <1>2, <1>3, <2>1, <2>2, <3>1
    <3> QED  BY <2>2, <3>2 DEF Shows, DailyFigureChangedSince
  <2>3. CASE ~(q = p /\ where = "figure")
    <3>1. Shows(q, where)  BY <1>1, <2>1, <2>3 DEF ChangesShow
    <3>2. CASE where = "figure"
      <4>1. figureAt'[q] = figureAt[q]  BY <1>3, <2>3, <3>2
      <4> QED  BY <1>1, <2>1, <3>1, <4>1, StillShows
    <3>3. CASE where # "figure"  BY <1>1, <2>1, <3>1, <3>3 DEF Shows
    <3> QED  BY <3>2, <3>3
  <2> QED  BY <2>2, <2>3
<1>5. touched' \subseteq Products \X (Records \cup {"figure"})  BY <1>1 DEF ReviewTypeOK
<1>6. \A q \in Products :
            /\ figureAt'[q] <= clock + 1
            /\ marks'[q] # NoMark => marks'[q].at <= clock + 1 /\ marks'[q].figure <= clock + 1
  <2>1. \A q \in Products : figureAt'[q] = figureAt[q] \/ figureAt'[q] = clock + 1  BY <1>3
  <2> QED  BY <1>1, <2>1, StampsBefore
<1>7. \A r \in Records : records'[r].at <= clock + 1  BY <1>1, StampsBefore
<1>8. /\ status' \in Statuses /\ marks' \in [Products -> Mark \cup {NoMark}]
      /\ records' \in [Records -> Record]
  BY <1>1 DEF ReviewTypeOK
<1> QED  BY <1>1, <1>3, <1>4, <1>5, <1>6, <1>7, <1>8, ReviewCommitKeeps

(* WriteResetReview: what it takes out of a record that is no draft, or    *)
(* zeroes, is stamped by its commit; a mark it takes back compares nothing. *)
LEMMA ResetKeeps ==
  ASSUME ReviewInv, NEW w \in Workers, WriteResetReview(w)
  PROVE  ReviewInv'
<1> USE DEF ReviewInv
<1> DEFINE m == work[w]
<1>2. m \in ResetWork /\ m.op = "reset"  BY ReviewJob DEF WriteResetReview
<1>3. m.stamp \in Times /\ m.products \in SUBSET Products  BY <1>2 DEF ResetWork
<1>4. PICK written \in SUBSET Products, books \in SUBSET Records, at \in {m.stamp, clock + 1} :
          /\ figureAt' = [p \in Products |-> IF p \in written THEN clock + 1 ELSE figureAt[p]]
          /\ records' = [r \in Records |-> IF r \in books THEN Neutralized(r, m.products, at)
                                           ELSE records[r]]
          /\ touched' =
                {t \in touched : t[2] \in books => records[t[2]].draft /\ t[1] \notin m.products}
                \cup (written \X {"figure"})
                \cup (IF m.late THEN {}
                      ELSE UNION {(records[r].products \ m.products) \X {r} :
                                     r \in {b \in books : ~records[b].draft}})
  <2>1. PICK written \in SUBSET {p \in m.products : m.full /\ figureAt[p] # 0},
             books \in SUBSET {r \in Records : m.full /\ records[r].products \cap m.products # {}},
             at \in {m.stamp, clock + 1} :
          /\ figureAt' = [p \in Products |-> IF p \in written THEN clock + 1 ELSE figureAt[p]]
          /\ records' = [r \in Records |-> IF r \in books THEN Neutralized(r, m.products, at)
                                           ELSE records[r]]
          /\ touched' =
                {t \in touched : t[2] \in books => records[t[2]].draft /\ t[1] \notin m.products}
                \cup (written \X {"figure"})
                \cup (IF m.late THEN {}
                      ELSE UNION {(records[r].products \ m.products) \X {r} :
                                     r \in {b \in books : ~records[b].draft}})
    BY DEF WriteResetReview
  <2>2. written \in SUBSET Products /\ books \in SUBSET Records  BY <1>3
  <2> QED  BY <2>1, <2>2
<1>5. /\ Committed(w)
      /\ status' = IF m.submitted THEN "reopened" ELSE status
      /\ marks' = [p \in Products |-> IF p \in m.found THEN NoMark ELSE marks[p]]
  BY DEF WriteResetReview
<1>6. /\ m.stamp <= clock + 1
      /\ ~m.late => m.stamp = clock + 1
  BY <1>2, ReviewJob DEF RequestSane, Stamped
<1> HIDE DEF m
<1>7. clock + 1 \in Times /\ clock + 1 \in Nat /\ clock + 1 <= clock + 1  BY <1>5, StampsBefore
<1>8. at \in Times /\ at <= clock + 1  BY <1>3, <1>4, <1>6, <1>7
<1>9. ASSUME NEW r \in Records
      PROVE  /\ records'[r] \in Record /\ records'[r].at <= clock + 1
             /\ r \in books => /\ records'[r].products = records[r].products \ m.products
                               /\ ~records[r].draft => records'[r].at = at
                               /\ records[r].draft /\ records[r].products \ m.products # {}
                                     => records'[r].at = records[r].at
             /\ r \notin books => records'[r] = records[r]
  <2>1. records[r] \in Record /\ records[r].at <= clock + 1  BY <1>5, StampsBefore DEF ReviewTypeOK
  <2>2. CASE r \in books
    <3>1. PICK left \in SUBSET Products : left = records[r].products \ m.products
      BY <2>1 DEF Record
    <3>2. PICK drafted \in BOOLEAN : drafted = (records[r].draft /\ left # {})  OBVIOUS
    <3>3. PICK stamp \in Times : stamp = IF drafted THEN records[r].at ELSE at
      BY <1>8, <2>1 DEF Record
    <3>4. records'[r] = [products |-> left, draft |-> drafted, at |-> stamp]
      BY <1>4, <2>2, <3>1, <3>2, <3>3 DEF Neutralized
    <3>5. records'[r] \in Record  BY <3>4 DEF Record
    <3>6. stamp <= clock + 1  BY <1>8, <2>1, <3>3
    <3>7. records'[r].products = left /\ records'[r].at = stamp  BY <3>4
    <3>8. ~records[r].draft => stamp = at  BY <3>2, <3>3
    <3>9. records[r].draft /\ left # {} => stamp = records[r].at  BY <3>2, <3>3
    <3> QED  BY <2>2, <3>1, <3>5, <3>6, <3>7, <3>8, <3>9
  <2>3. CASE r \notin books  BY <1>4, <2>1, <2>3
  <2> QED  BY <2>2, <2>3
<1>10. records' \in [Records -> Record]  BY <1>4, <1>9
<1>11. ASSUME NEW p \in Products
       PROVE  /\ p \in written => figureAt'[p] = clock + 1
              /\ p \notin written => figureAt'[p] = figureAt[p]
              /\ marks'[p] = NoMark \/ marks'[p] = marks[p]
  BY <1>4, <1>5
<1>12. figureAt' \in [Products -> Times]  BY <1>4, <1>7 DEF ReviewTypeOK
<1>13. marks' \in [Products -> Mark \cup {NoMark}]  BY <1>5 DEF ReviewTypeOK
<1>14. status' \in Statuses  BY <1>5 DEF ReviewTypeOK, Statuses
<1>15. ChangesShow'
  <2> SUFFICES ASSUME NEW p \in Products, NEW where \in Records \cup {"figure"},
                      <<p, where>> \in touched', Counted(p)'
               PROVE  Shows(p, where)'
    BY DEF ChangesShow
  <2>1. marks'[p] = marks[p]  BY <1>11 DEF Counted, NoMark
  <2>2. Counted(p) /\ marks[p] # NoMark  BY <2>1, MarkThere DEF Counted
  <2>3. /\ marks[p].at \in Nat /\ marks[p].at < clock + 1
        /\ marks[p].figure \in Nat /\ marks[p].figure < clock + 1
    BY <1>5, <2>2, StampsBefore
  <2>4. \/ <<p, where>> \in touched /\ where \notin books
        \/ /\ <<p, where>> \in touched /\ where \in books
           /\ records[where].draft /\ p \notin m.products
        \/ p \in written /\ where = "figure"
        \/ /\ ~m.late /\ where \in books /\ ~records[where].draft
           /\ p \in records[where].products \ m.products
    BY <1>4
  <2>5. CASE where = "figure" /\ p \in written
    <3>1. figureAt'[p] # marks'[p].figure  BY <1>7, <1>11, <2>1, <2>3, <2>5
    <3> QED  BY <2>5, <3>1 DEF Shows, DailyFigureChangedSince
  <2>6. CASE where = "figure" /\ p \notin written
    <3>1. <<p, where>> \in touched  BY <2>4, <2>6, RecordsAssumption
    <3>2. Shows(p, where)  BY <2>2, <3>1 DEF ChangesShow
    <3> QED  BY <1>11, <2>1, <2>6, <3>2, StillShows
  <2>7. CASE where # "figure" /\ where \in books
    <3>1. CASE ~m.late /\ ~records[where].draft /\ p \in records[where].products \ m.products
      <4>1. at = clock + 1  BY <1>4, <1>6, <3>1
      <4>2. records'[where].at = clock + 1 /\ p \in records'[where].products
        BY <1>9, <2>7, <3>1, <4>1
      <4>3. records'[where].at > marks'[p].at  BY <1>7, <2>1, <2>3, <4>2
      <4> QED  BY <2>7, <4>2, <4>3 DEF Shows
    <3>2. CASE <<p, where>> \in touched /\ records[where].draft /\ p \notin m.products
      <4>1. p \in records[where].products /\ records[where].at > marks[p].at
        BY <2>2, <2>7, <3>2 DEF ChangesShow, Shows
      <4>2. records'[where].at = records[where].at /\ p \in records'[where].products
        BY <1>9, <2>7, <3>2, <4>1
      <4>3. records'[where].at > marks'[p].at  BY <2>1, <4>1, <4>2
      <4> QED  BY <2>7, <4>2, <4>3 DEF Shows
    <3> QED  BY <2>4, <2>7, <3>1, <3>2
  <2>8. CASE where # "figure" /\ where \notin books
    <3>1. <<p, where>> \in touched  BY <2>4, <2>8
    <3>2. Shows(p, where)  BY <2>2, <3>1 DEF ChangesShow
    <3>3. records'[where] = records[where]  BY <1>9, <2>8
    <3> QED  BY <2>1, <2>8, <3>2, <3>3 DEF Shows
  <2> QED  BY <2>5, <2>6, <2>7, <2>8
<1>16. touched' \subseteq Products \X (Records \cup {"figure"})
  <2>1. touched \subseteq Products \X (Records \cup {"figure"})  BY DEF ReviewTypeOK
  <2>2. \A r \in books : records[r].products \subseteq Products  BY <1>4 DEF ReviewTypeOK, Record
  <2>3. UNION {(records[r].products \ m.products) \X {r} :
                  r \in {b \in books : ~records[b].draft}}
           \subseteq Products \X (Records \cup {"figure"})
    BY <1>4, <2>2
  <2>4. written \X {"figure"} \subseteq Products \X (Records \cup {"figure"})  BY <1>4
  <2> QED  BY <1>4, <2>1, <2>3, <2>4
<1>17. \A p \in Products :
            /\ figureAt'[p] <= clock + 1
            /\ marks'[p] # NoMark => marks'[p].at <= clock + 1 /\ marks'[p].figure <= clock + 1
  <2>1. ASSUME NEW p \in Products
        PROVE  /\ figureAt'[p] <= clock + 1
               /\ marks'[p] # NoMark => marks'[p].at <= clock + 1 /\ marks'[p].figure <= clock + 1
    <3>1. figureAt'[p] = clock + 1 \/ figureAt'[p] = figureAt[p]  BY <1>11
    <3> QED  BY <1>5, <1>7, <1>11, <3>1, StampsBefore
  <2> QED  BY <2>1
<1> QED  BY <1>5, <1>9, <1>10, <1>12, <1>13, <1>14, <1>15, <1>16, <1>17, ReviewCommitKeeps

-----------------------------------------------------------------------------
(* The strengthened invariant holds at first and is kept by every step.    *)
LEMMA ReviewInitInv == ReviewInit => ReviewInv
<1> SUFFICES ASSUME ReviewInit PROVE ReviewInv  OBVIOUS
<1>1. 0 \in Times /\ clock = 0 /\ 0 <= 0  BY MaxCommitsAssumption DEF ReviewInit, Times
<1>2. \A r \in Records : /\ records[r] = [products |-> {}, draft |-> FALSE, at |-> 0]
                          /\ records[r].at = 0
  BY DEF ReviewInit
<1>3. records \in [Records -> Record]  BY <1>1 DEF ReviewInit, Record
<1>4. \A p \in Products : figureAt[p] = 0 /\ marks[p] = NoMark  BY DEF ReviewInit
<1>5. ReviewTypeOK  BY <1>1, <1>3 DEF ReviewInit, ReviewTypeOK, Statuses
<1>6. StampsPast  BY <1>1, <1>2, <1>4 DEF StampsPast
<1>7. ChangesShow  BY DEF ReviewInit, ChangesShow
<1>8. \A w \in Workers : RequestSane(w)  BY DEF ReviewInit, RequestSane, Stamped, NoJob
<1> QED  BY <1>5, <1>6, <1>7, <1>8 DEF ReviewInv

(* Every step that is not one of the commits leaves the clock alone. *)
LEMMA ReviewSteps ==
  ASSUME ReviewInv, [ReviewNext]_reviewVars
  PROVE  /\ ReviewInv'
         /\ \/ Standing
            \/ \E w \in Workers :
                  \/ \E p \in Products : SaveFigure(w, p)
                  \/ WriteMark(w) \/ WriteSubmit(w) \/ WriteReopenReview(w)
                  \/ WriteSource(w) \/ WriteResetReview(w)
<1>1. CASE UNCHANGED reviewVars
  BY <1>1, ReviewGivenUp DEF reviewVars, Standing
<1>2. ASSUME NEW w \in Workers, Abandon(w)  PROVE ReviewInv' /\ Standing
  BY <1>2, ReviewGivenUp DEF Abandon, Standing
<1>3. ASSUME NEW w \in Workers,
             \/ \E p \in Products, state \in MarkStates, reason \in BOOLEAN :
                   ReadMark(w, p, state, reason)
             \/ \E force \in BOOLEAN : ReadSubmit(w, force)
             \/ ReadReopenReview(w)
             \/ \E r \in Records, products \in SUBSET Products, draft \in BOOLEAN, moves \in BOOLEAN :
                   ReadSource(w, r, products, draft, moves)
             \/ \E products \in (SUBSET Products) \ {{}}, full \in BOOLEAN :
                   ReadResetReview(w, products, full)
      PROVE  ReviewInv' /\ Standing
  BY <1>3, ReviewReads
<1>4. ASSUME NEW w \in Workers,
             \/ \E p \in Products : SaveFigure(w, p)
             \/ WriteMark(w) \/ WriteSubmit(w) \/ WriteReopenReview(w)
             \/ WriteSource(w) \/ WriteResetReview(w)
      PROVE  ReviewInv'
  BY <1>4, SaveKeeps, MarkKeeps, StatusKeeps, SourceKeeps, ResetKeeps
<1>5. CASE ReviewNext
  <2>1. PICK w \in Workers :
          \/ Abandon(w)
          \/ \/ \E p \in Products, state \in MarkStates, reason \in BOOLEAN :
                   ReadMark(w, p, state, reason)
             \/ \E force \in BOOLEAN : ReadSubmit(w, force)
             \/ ReadReopenReview(w)
             \/ \E r \in Records, products \in SUBSET Products, draft \in BOOLEAN, moves \in BOOLEAN :
                   ReadSource(w, r, products, draft, moves)
             \/ \E products \in (SUBSET Products) \ {{}}, full \in BOOLEAN :
                   ReadResetReview(w, products, full)
          \/ \/ \E p \in Products : SaveFigure(w, p)
             \/ WriteMark(w) \/ WriteSubmit(w) \/ WriteReopenReview(w)
             \/ WriteSource(w) \/ WriteResetReview(w)
    BY <1>5 DEF ReviewNext
  <2> QED  BY <1>2, <1>3, <1>4, <2>1
<1> QED  BY <1>1, <1>5

(* A submission that nothing overtook found no mark stale, and a change    *)
(* since a mark would have shown.                                          *)
LEMMA SubmitStep ==
  ASSUME ReviewInv, [ReviewNext]_reviewVars, status # "submitted", status' = "submitted"
  PROVE  \/ \E w \in Workers : work[w].op = "submit" /\ work[w].late /\ work'[w] = NoJob
         \/ \A p \in Products : Counted(p) => \A t \in touched : t[1] # p
<1> USE DEF ReviewInv
<1>1. PICK w \in Workers : WriteSubmit(w)
  BY ReviewSteps DEF Standing, SaveFigure, WriteMark, WriteReopenReview, WriteSource, WriteResetReview
<1>2. work[w].op = "submit" /\ Committed(w)  BY <1>1 DEF WriteSubmit
<1>3. work'[w] = NoJob /\ work[w] # NoJob  BY <1>2, ReviewCommitted, ReviewJob
<1>4. CASE work[w].late  BY <1>2, <1>3, <1>4
<1>5. CASE ~work[w].late
  <2> SUFFICES ASSUME NEW p \in Products, Counted(p), NEW t \in touched, t[1] = p
               PROVE  FALSE
    OBVIOUS
  <2>1. ~Stale(p)  BY <1>2, <1>3, <1>5 DEF RequestSane
  <2>2. PICK where \in Records \cup {"figure"} : <<p, where>> \in touched
    <3>1. t \in Products \X (Records \cup {"figure"})  BY DEF ReviewTypeOK
    <3>2. PICK q \in Products, where \in Records \cup {"figure"} : t = <<q, where>>  BY <3>1
    <3> QED  BY <3>2
  <2>3. Shows(p, where)  BY <2>2 DEF ChangesShow
  <2>4. Stale(p)  BY <2>3 DEF Shows, Stale, SourceTouchedSince
  <2> QED  BY <2>1, <2>4
<1> QED  BY <1>4, <1>5

(* A mark that nothing overtook is stamped by its commit, later than every *)
(* record, and keeps the figure as it is.                                  *)
LEMMA RemarkStep ==
  ASSUME ReviewInv, [ReviewNext]_reviewVars, NEW w \in Workers, NEW p \in Products,
         work[w].op = "mark", work[w].p = p, ~work[w].late, work'[w] = NoJob, clock' # clock
  PROVE  ~Stale(p)'
<1> USE DEF ReviewInv
<1>1. work[w] # NoJob  BY ReviewJob
<1>2. PICK v \in Workers :
         \/ \E q \in Products : SaveFigure(v, q)
         \/ WriteMark(v) \/ WriteSubmit(v) \/ WriteReopenReview(v)
         \/ WriteSource(v) \/ WriteResetReview(v)
  BY ReviewSteps DEF Standing
<1>3. Committed(v)
  BY <1>2 DEF SaveFigure, WriteMark, WriteSubmit, WriteReopenReview, WriteSource, WriteResetReview
<1>4. v = w
  <2> SUFFICES ASSUME v # w  PROVE FALSE  OBVIOUS
  <2>1. work'[w] = [work[w] EXCEPT !.late = TRUE]  BY <1>1, <1>3 DEF Committed
  <2>2. work[w] \in MarkWork  BY ReviewJob
  <2>3. work'[w].op = "mark"  BY <2>1, <2>2 DEF MarkWork
  <2> QED  BY <2>3 DEF NoJob
<1>5. WriteMark(w)
  BY <1>1, <1>2, <1>4 DEF SaveFigure, WriteSubmit, WriteReopenReview, WriteSource, WriteResetReview
<1>6. PICK row \in Mark :
         /\ marks' = [marks EXCEPT ![p] = row]
         /\ row.at = clock + 1 /\ row.figure = figureAt[p]
  BY <1>5, MarkRow
<1>7. marks'[p] = row /\ figureAt' = figureAt /\ records' = records
  BY <1>5, <1>6 DEF WriteMark, ReviewTypeOK
<1>8. ~DailyFigureChangedSince(p, row.figure)'  BY <1>6, <1>7 DEF DailyFigureChangedSince
<1>9. ASSUME NEW r \in Records  PROVE ~(records'[r].at > marks'[p].at)
  <2>1. clock \in Nat /\ records[r].at \in Nat /\ records[r].at < clock + 1
    BY <1>3, StampsBefore
  <2> QED  BY <1>6, <1>7, <2>1
<1> QED  BY <1>6, <1>7, <1>9 DEF Stale, SourceTouchedSince, DailyFigureChangedSince

-----------------------------------------------------------------------------
(* The theorems. *)

(* The marks, records and requests stay well formed, stamps included. *)
THEOREM ReviewTypes == ReviewSpec => []ReviewTypeOK
<1>1. ReviewInv /\ [ReviewNext]_reviewVars => ReviewInv'  BY ReviewSteps
<1>2. ReviewInv => ReviewTypeOK  BY DEF ReviewInv
<1> QED  BY <1>1, <1>2, ReviewInitInv, PTL DEF ReviewSpec

(* The comparisons hide no change that counts: a figure saved after a      *)
(* mark, and a record finalized after it, or changed while it was no       *)
(* draft, by a request that was not overtaken, makes the mark stale.       *)
THEOREM ReviewShowsChanges == ReviewSpec => []ChangesShow
<1>1. ReviewInv /\ [ReviewNext]_reviewVars => ReviewInv'  BY ReviewSteps
<1>2. ReviewInv => ChangesShow  BY DEF ReviewInv
<1> QED  BY <1>1, <1>2, ReviewInitInv, PTL DEF ReviewSpec

(* What a submission counts as reviewed is as the reviewer left it. *)
THEOREM ReviewSubmitsAsReviewed == ReviewSpec => SubmittedAsReviewed
<1>1. ReviewInv /\ [ReviewNext]_reviewVars => ReviewInv'  BY ReviewSteps
<1>2. ReviewInv /\ [ReviewNext]_reviewVars
        => [status # "submitted" /\ status' = "submitted"
            => \/ \E w \in Workers : work[w].op = "submit" /\ work[w].late /\ work'[w] = NoJob
               \/ \A p \in Products : Counted(p) => \A t \in touched : t[1] # p]_reviewVars
  BY SubmitStep
<1> QED  BY <1>1, <1>2, ReviewInitInv, PTL DEF ReviewSpec, SubmittedAsReviewed

(* A mark that nothing overtook leaves its product not stale. *)
THEOREM ReviewRemarkClears == ReviewSpec => RemarkClearsStaleness
<1>1. ReviewInv /\ [ReviewNext]_reviewVars => ReviewInv'  BY ReviewSteps
<1>2. ReviewInv /\ [ReviewNext]_reviewVars
        => [\A w \in Workers, p \in Products :
              /\ work[w].op = "mark" /\ work[w].p = p /\ ~work[w].late
              /\ work'[w] = NoJob /\ clock' # clock
              => ~Stale(p)']_reviewVars
  BY RemarkStep
<1> QED  BY <1>1, <1>2, ReviewInitInv, PTL DEF ReviewSpec, RemarkClearsStaleness

=============================================================================
