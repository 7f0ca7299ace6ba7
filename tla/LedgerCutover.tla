---------------------------- MODULE LedgerCutover ----------------------------
(***************************************************************************)
(* A new starting point for the stock ledger                               *)
(* (services/ledger_cutover_service.py, routes/ledger_cutover.py,          *)
(* models/ledger_cutover.py): a draft collects the counted balance of      *)
(* every active product, is verified, previewed and activated; only the    *)
(* activation writes anchors into the daily figures.  StockLedger models   *)
(* what an anchor then does to the balances carried.                       *)
(*                                                                         *)
(* A handler decides on rows it read before its first write, and writes    *)
(* in one transaction, so it is a read and a write here.                   *)
(*                                                                         *)
(* A definition named Faulty... stands in for the one below it when the    *)
(* properties are tested against a plausible mistake; nothing uses it.     *)
(***************************************************************************)
EXTENDS Naturals, FiniteSets

CONSTANTS
    Workers,    \* requests that may be served at once
    CutoverIds,
    Products,
    Quantities, \* balances that are counted
    Periods,    \* effective dates and shifts, in order
    MaxVersion  \* bound on the changes of one cutover, those under way included

ASSUME NumbersAssumption == /\ Quantities \subseteq Nat /\ Periods \subseteq Nat
                            /\ MaxVersion \in Nat

Statuses == {"draft", "verified", "activated", "cancelled"}
None == [none |-> TRUE]
Balance == [qty : Quantities] \cup {None}

(* version: updated_at of the cutover and its balances, new with a change. *)
Cutover == [status : Statuses, period : Periods, balances : [Products -> Balance],
            version : Nat]
NoCutover == [status |-> "none"]

(* What a preview hands out, by the page or by flask preview-ledger-cutover. *)
Token == [status : {"verified"}, balances : [Products -> Balance], version : Nat]
NoToken == [status |-> "none"]

(* qty and by: opening_base_qty and cutover_id.                            *)
Anchor == [qty : Quantities, by : CutoverIds] \cup {None}

(* rows: what is to be staged; token: what the request hands in; seen: the *)
(* balances it read; found: the openings an activation found at its        *)
(* period; late: the cutover has changed since, or what its check of the   *)
(* products and the other cutovers relied on.                              *)
Work == [op : {"stage", "verify", "cancel", "activate"}, c : CutoverIds,
         rows : [Products -> Balance], token : Token \cup {NoToken},
         seen : [Products -> Balance], found : [Products -> Anchor], late : BOOLEAN]
Idle == [op |-> "none"]

VARIABLES
    active,   \* the products in use
    cutovers, \* the tables ledger_cutovers and ledger_cutover_balances
    anchors,  \* the openings that cutovers wrote into daily_figures
    tokens,   \* the token of each cutover's latest preview
    work,     \* what each worker has read and is about to write
    tangled   \* (history) cutovers a late request has written to

vars == <<active, cutovers, anchors, tokens, work, tangled>>

TypeOK ==
    /\ active \subseteq Products
    /\ cutovers \in [CutoverIds -> Cutover \cup {NoCutover}]
    /\ anchors \in [Periods -> [Products -> Anchor]]
    /\ tokens \in [CutoverIds -> Token \cup {NoToken}]
    /\ work \in [Workers -> Work \cup {Idle}]
    /\ tangled \subseteq CutoverIds

Blank == [p \in Products |-> None]

Init ==
    /\ active \in SUBSET Products
    /\ cutovers = [c \in CutoverIds |-> NoCutover]
    /\ anchors = [d \in Periods |-> Blank]
    /\ tokens = [c \in CutoverIds |-> NoToken]
    /\ work = [w \in Workers |-> Idle]
    /\ tangled = {}

-----------------------------------------------------------------------------
(* The checks, on the rows as they are. *)

(* cutover_status_report(): ready. *)
Ready(c) == \A p \in active : cutovers[c].balances[p] # None

(* The token leaves the balances out. *)
FaultyFingerprint(c) == [status |-> cutovers[c].status, balances |-> Blank, version |-> 0]

(* _fingerprint() *)
Fingerprint(c) == [status |-> cutovers[c].status, balances |-> cutovers[c].balances,
                   version |-> cutovers[c].version]

InForce(c) == cutovers[c].status = "activated"

(* The effective period is strictly after every activated cutover's. *)
TakesOver(c) ==
    \A d \in CutoverIds : InForce(d) => cutovers[d].period < cutovers[c].period

-----------------------------------------------------------------------------
(* Reads: a handler up to its first write. *)

Begin(w, op, c, rows, token) ==
    /\ work[w] = Idle
    /\ Cardinality({v \in Workers : work[v] # Idle /\ work[v].c = c})
          < MaxVersion - cutovers[c].version
    /\ work' = [work EXCEPT ![w] = [op |-> op, c |-> c, rows |-> rows, token |-> token,
                                    seen |-> cutovers[c].balances,
                                    found |-> IF op = "activate"
                                              THEN anchors[cutovers[c].period] ELSE Blank,
                                    late |-> FALSE]]
    /\ UNCHANGED <<active, cutovers, anchors, tokens, tangled>>

(* set_balance(), and import_cutover_csv() with its valid rows. *)
ReadStage(w, c, rows) ==
    /\ cutovers[c].status = "draft"
    /\ Begin(w, "stage", c, rows, NoToken)

ReadVerify(w, c) ==
    /\ cutovers[c].status = "draft" /\ Ready(c)
    /\ Begin(w, "verify", c, Blank, NoToken)

(* Any cutover but a cancelled one. *)
FaultyReadCancel(w, c) ==
    /\ cutovers[c].status \in {"draft", "verified", "activated"}
    /\ Begin(w, "cancel", c, Blank, NoToken)

ReadCancel(w, c) ==
    /\ cutovers[c].status \in {"draft", "verified"}
    /\ Begin(w, "cancel", c, Blank, NoToken)

(* A preview, and a token, for a draft. *)
FaultyPreview(c) ==
    /\ cutovers[c].status \in {"draft", "verified"}
    /\ tokens' = [tokens EXCEPT ![c] = Fingerprint(c)]
    /\ UNCHANGED <<active, cutovers, anchors, work, tangled>>

(* preview_activation(): it writes nothing. *)
Preview(c) ==
    /\ cutovers[c].status = "verified"
    /\ tokens' = [tokens EXCEPT ![c] = Fingerprint(c)]
    /\ UNCHANGED <<active, cutovers, anchors, work, tangled>>

(* The verification is taken for the check of completeness. *)
FaultyReadActivate(w, c) ==
    /\ cutovers[c].status = "verified"
    /\ tokens[c] = Fingerprint(c)
    /\ TakesOver(c)
    /\ Begin(w, "activate", c, Blank, tokens[c])

ReadActivate(w, c) ==
    /\ cutovers[c].status = "verified"
    /\ tokens[c] = Fingerprint(c)
    /\ Ready(c) /\ TakesOver(c)
    /\ Begin(w, "activate", c, Blank, tokens[c])

-----------------------------------------------------------------------------
(* Writes: from the first flush to the commit. *)

Changed(c, status, balances) ==
    [cutovers EXCEPT ![c].status = status, ![c].balances = balances, ![c].version = @ + 1]

(* The commit of w makes late the requests of its cutover and, after an    *)
(* activation, the other activations; itself late, it tangles its cutover, *)
(* as an activation also every other one of its period.                    *)
Commit(w) ==
    LET mine == work[w].c IN
    /\ work' = [v \in Workers |->
          IF v = w \/ work[v] = Idle THEN Idle
          ELSE IF work[v].c = mine \/ (work[v].op = "activate" /\ work[w].op = "activate")
          THEN [work[v] EXCEPT !.late = TRUE] ELSE work[v]]
    /\ tangled' = tangled \cup
          {c \in CutoverIds :
              work[w].late /\ (c = mine \/ (/\ work[w].op = "activate" /\ cutovers[c] # NoCutover
                                            /\ cutovers[c].period = cutovers[mine].period))}
    /\ UNCHANGED active

(* create_draft() *)
NewDraft(d) == [status |-> "draft", period |-> d, balances |-> Blank, version |-> 0]

CreateDraft(c, d) ==
    /\ cutovers[c] = NoCutover
    /\ cutovers' = [cutovers EXCEPT ![c] = NewDraft(d)]
    /\ UNCHANGED <<active, anchors, tokens, work, tangled>>

(* A balance row is inserted once: the request that meant to and finds it  *)
(* there fails (uq_ledger_cutover_balance_product).                        *)
WriteStage(w) ==
    /\ work[w].op = "stage"
    /\ \A p \in Products : work[w].rows[p] # None /\ work[w].seen[p] = None
                           => cutovers[work[w].c].balances[p] = None
    /\ cutovers' = Changed(work[w].c, cutovers[work[w].c].status,
          [p \in Products |-> IF work[w].rows[p] # None THEN work[w].rows[p]
                              ELSE cutovers[work[w].c].balances[p]])
    /\ Commit(w)
    /\ UNCHANGED <<anchors, tokens>>

WriteVerify(w) ==
    /\ work[w].op = "verify"
    /\ cutovers' = Changed(work[w].c, "verified", cutovers[work[w].c].balances)
    /\ Commit(w)
    /\ UNCHANGED <<anchors, tokens>>

WriteCancel(w) ==
    /\ work[w].op = "cancel"
    /\ cutovers' = Changed(work[w].c, "cancelled", cutovers[work[w].c].balances)
    /\ Commit(w)
    /\ UNCHANGED <<anchors, tokens>>

(* What an activation puts on the row of a product. *)
Mine(w, p) == [qty |-> work[w].seen[p].qty, by |-> work[w].c]

(* A row found before the first flush: only the columns that differ from   *)
(* what was found are written.  A row that no cutover had written may hold *)
(* any quantity, the balance's own too.                                    *)
Merged(found, now, mine) ==
    CASE now \in {None, found} -> {mine}
      [] found = None /\ now # None -> {mine, [mine EXCEPT !.qty = now.qty]}
      [] OTHER -> {[qty |-> IF mine.qty = found.qty THEN now.qty ELSE mine.qty,
                    by |-> IF mine.by = found.by THEN now.by ELSE mine.by]}

(* activate_cutover(): an anchor for every balance it has read, and the    *)
(* status, whatever the cutover's row has become.  Each product's row is   *)
(* flushed before the next is looked up, so only the first can have        *)
(* changed since it was found.                                             *)
WriteActivate(w) ==
    /\ work[w].op = "activate"
    /\ LET d == cutovers[work[w].c].period
           counted == {p \in Products : work[w].seen[p] # None} IN
       \/ counted = {} /\ anchors' = anchors
       \/ \E first \in counted :
          \E merged \in Merged(work[w].found[first], anchors[d][first], Mine(w, first)) :
             anchors' = [anchors EXCEPT ![d] =
                [p \in Products |-> IF p \notin counted THEN anchors[d][p]
                                    ELSE IF p = first THEN merged ELSE Mine(w, p)]]
    /\ cutovers' = Changed(work[w].c, "activated", cutovers[work[w].c].balances)
    /\ Commit(w)
    /\ UNCHANGED tokens

(* A refusal after the read: a quantity that does not fit the packaging, a *)
(* reason or confirmation missing, an insert that fails.                   *)
Refuse(w) ==
    /\ work[w] # Idle
    /\ work' = [work EXCEPT ![w] = Idle]
    /\ UNCHANGED <<active, cutovers, anchors, tokens, tangled>>

(* A product is added, deactivated or taken up again (Admin > Products).   *)
SwitchProduct(p) ==
    /\ active' = (active \ {p}) \cup ({p} \ active)
    /\ work' = [w \in Workers |->
          IF work[w] = Idle THEN Idle
          ELSE IF work[w].op = "activate" THEN [work[w] EXCEPT !.late = TRUE] ELSE work[w]]
    /\ UNCHANGED <<cutovers, anchors, tokens, tangled>>

Staged == [Products -> Balance] \ {Blank}

Next ==
    \/ \E p \in Products : SwitchProduct(p)
    \/ \E c \in CutoverIds : Preview(c) \/ \E d \in Periods : CreateDraft(c, d)
    \/ \E w \in Workers :
          \/ \E c \in CutoverIds :
                \/ \E rows \in Staged : ReadStage(w, c, rows)
                \/ ReadVerify(w, c) \/ ReadCancel(w, c) \/ ReadActivate(w, c)
          \/ WriteStage(w) \/ WriteVerify(w) \/ WriteCancel(w) \/ WriteActivate(w) \/ Refuse(w)

Spec == Init /\ [][Next]_vars

-----------------------------------------------------------------------------
(* Properties. *)

BalanceOf(c, p) ==
    IF cutovers[c].balances[p] = None THEN None
    ELSE [qty |-> cutovers[c].balances[p].qty, by |-> c]

(* Activated means in force: unless a request wrote to it late, a cutover  *)
(* has its balances in the ledger, all of them and at its own period only, *)
(* exactly when its status says so; in particular a cancelled one never    *)
(* governs and a draft is inert (activate_cutover(), cancel_cutover()).    *)
StatusTellsWhatGoverns ==
    \A c \in CutoverIds \ tangled :
        \A d \in Periods : \A p \in Products :
            IF InForce(c) /\ cutovers[c].period = d /\ cutovers[c].balances[p] # None
            THEN anchors[d][p] = BalanceOf(c, p)
            ELSE anchors[d][p] # None => anchors[d][p].by # c

(* However requests overlap, an anchor is written only by an activation,   *)
(* and with the quantity that the preview behind its token had shown; if   *)
(* another activation has written the row since it was found, the quantity *)
(* there may stay under the new cutover's name, and nothing else           *)
(* (_fingerprint(), activate_cutover()).                                   *)
OnlyThePreviewedIsWritten ==
    [][\A d \in Periods : \A p \in Products : anchors'[d][p] # anchors[d][p] =>
          \E w \in Workers :
              /\ work[w].op = "activate" /\ work'[w] = Idle
              /\ work[w].token.balances[p] # None
              /\ \/ anchors'[d][p].qty = work[w].token.balances[p].qty
                 \/ /\ anchors[d][p] \notin {None, work[w].found[p]}
                    /\ anchors'[d][p].qty = anchors[d][p].qty]_vars

(* A cutover that comes into force takes over from all before it: unless   *)
(* the activation was overtaken, its period is later than those of all in  *)
(* force, and no active product is left on its old balance                 *)
(* (activate_cutover()).                                                   *)
TakesOverUnlessOvertaken ==
    [][\A c \in CutoverIds : ~InForce(c) /\ InForce(c)' =>
          \/ \E w \in Workers : work[w].op = "activate" /\ work[w].c = c
                                /\ work[w].late /\ work'[w] = Idle
          \/ /\ \A d \in CutoverIds : InForce(d) => cutovers[d].period < cutovers[c].period
             /\ \A p \in active : LET found == anchors'[cutovers[c].period][p]
                                  IN  found # None /\ found.by = c]_vars
===============================================================================
