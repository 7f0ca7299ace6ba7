------------------------ MODULE LedgerCutoverProofs ------------------------
(***************************************************************************)
(* Theorems about LedgerCutover for any number of cutovers, products and   *)
(* workers, any quantities and any periods.                                *)
(***************************************************************************)
EXTENDS LedgerCutover, TLAPS

(* The statuses in which a request of each kind is let through.            *)
ReadIn(op) == CASE op = "stage" -> {"draft"}
                [] op = "verify" -> {"draft"}
                [] op = "cancel" -> {"draft", "verified"}
                [] OTHER -> {"verified"}

(* Until another request overtakes it, what a request has read is so:      *)
(* the balances and the status of its cutover, and for an activation also  *)
(* that no balance is missing, that its period is the latest, and what it  *)
(* found there.                                                            *)
Fresh(w) ==
    LET c == work[w].c IN
    /\ work[w].seen = cutovers[c].balances
    /\ cutovers[c].status \in ReadIn(work[w].op)
    /\ work[w].op = "activate" =>
          Ready(c) /\ TakesOver(c) /\ work[w].found = anchors[cutovers[c].period]

(* A request is about a cutover that is there; an activation has read the  *)
(* balances that its token was made of.                                    *)
Sane(w) ==
    work[w] # Idle =>
        /\ cutovers[work[w].c] # NoCutover
        /\ work[w].op = "activate" => work[w].token.balances = work[w].seen
        /\ ~work[w].late => Fresh(w)
RequestsSane == \A w \in Workers : Sane(w)

CutoverInv == TypeOK /\ RequestsSane /\ StatusTellsWhatGoverns

-----------------------------------------------------------------------------
(* A request under way. *)
LEMMA CutoverJob ==
  ASSUME TypeOK, NEW w \in Workers, work[w].op # "none" \/ work[w] # Idle
  PROVE  /\ work[w] \in Work /\ work[w] # Idle /\ work[w].c \in CutoverIds
         /\ work[w].op \in {"stage", "verify", "cancel", "activate"}
         /\ work[w].seen \in [Products -> Balance]
         /\ work[w].rows \in [Products -> Balance]
         /\ work[w].found \in [Products -> Anchor]
<1>1. work[w] \in Work  BY DEF TypeOK, Idle
<1> QED  BY <1>1 DEF Work, Idle

(* A cutover that is there. *)
LEMMA CutoverThere ==
  ASSUME TypeOK, NEW c \in CutoverIds, cutovers[c] # NoCutover \/ cutovers[c].status # "none"
  PROVE  /\ cutovers[c] \in Cutover /\ cutovers[c] # NoCutover
         /\ cutovers[c].status \in Statuses /\ cutovers[c].period \in Periods
         /\ cutovers[c].balances \in [Products -> Balance] /\ cutovers[c].version \in Nat
<1>1. cutovers[c] \in Cutover  BY DEF TypeOK, NoCutover
<1> QED  BY <1>1 DEF Cutover, Statuses, NoCutover

(* What is left of the requests under way when one of them commits.        *)
LEMMA CutoverCommitted ==
  ASSUME TypeOK, NEW w \in Workers, Commit(w)
  PROVE  /\ work' \in [Workers -> Work \cup {Idle}]
         /\ work'[w] = Idle
         /\ \A v \in Workers : work'[v] # Idle =>
               /\ work[v] # Idle
               /\ work'[v].op = work[v].op /\ work'[v].c = work[v].c
               /\ work'[v].token = work[v].token /\ work'[v].seen = work[v].seen
               /\ work'[v].found = work[v].found
               /\ ~work'[v].late => /\ ~work[v].late /\ work[v].c # work[w].c
                                    /\ ~(work[v].op = "activate" /\ work[w].op = "activate")
<1>1. SUFFICES ASSUME NEW v \in Workers
               PROVE  /\ work'[v] \in Work \cup {Idle}
                      /\ work'[v] # Idle =>
                           /\ work[v] # Idle
                           /\ work'[v].op = work[v].op /\ work'[v].c = work[v].c
                           /\ work'[v].token = work[v].token /\ work'[v].seen = work[v].seen
                           /\ work'[v].found = work[v].found
                           /\ ~work'[v].late =>
                                /\ ~work[v].late /\ work[v].c # work[w].c
                                /\ ~(work[v].op = "activate" /\ work[w].op = "activate")
  BY DEF Commit
<1> DEFINE hit == work[v].c = work[w].c
                    \/ (work[v].op = "activate" /\ work[w].op = "activate")
<1>2. work'[v] = IF v = w \/ work[v] = Idle THEN Idle
                 ELSE IF hit THEN [work[v] EXCEPT !.late = TRUE] ELSE work[v]
  BY DEF Commit
<1>3. CASE v = w \/ work[v] = Idle  BY <1>2, <1>3
<1>4. CASE ~(v = w \/ work[v] = Idle)
  <2>1. work[v] \in Work  BY <1>4, CutoverJob
  <2>2. CASE hit
    <3>1. work'[v] = [work[v] EXCEPT !.late = TRUE]  BY <1>2, <1>4, <2>2
    <3>2. work'[v] \in Work /\ work'[v].late
          /\ work'[v].op = work[v].op /\ work'[v].c = work[v].c
          /\ work'[v].token = work[v].token /\ work'[v].seen = work[v].seen
          /\ work'[v].found = work[v].found
      BY <2>1, <3>1 DEF Work
    <3> QED  BY <1>4, <3>2
  <2>3. CASE ~hit  BY <1>2, <1>4, <2>1, <2>3
  <2> QED  BY <2>2, <2>3
<1> QED  BY <1>3, <1>4

(* The row of a cutover as a request leaves it. *)
LEMMA CutoverChanged ==
  ASSUME TypeOK, NEW c \in CutoverIds, cutovers[c] # NoCutover,
         NEW status \in Statuses, NEW balances \in [Products -> Balance],
         cutovers' = Changed(c, status, balances)
  PROVE  /\ cutovers' \in [CutoverIds -> Cutover \cup {NoCutover}]
         /\ cutovers'[c] # NoCutover /\ cutovers'[c].status = status
         /\ cutovers'[c].balances = balances /\ cutovers'[c].period = cutovers[c].period
         /\ \A d \in CutoverIds \ {c} : cutovers'[d] = cutovers[d]
<1>1. cutovers[c] \in Cutover  BY CutoverThere
<1> DEFINE row == [cutovers[c] EXCEPT !.status = status, !.balances = balances, !.version = @ + 1]
<1>2. cutovers' = [cutovers EXCEPT ![c] = row]  BY DEF Changed, TypeOK
<1>3. row.status = status /\ row.balances = balances /\ row.period = cutovers[c].period
  BY <1>1 DEF Cutover
<1>4. row \in Cutover
  <2> DEFINE Rows == [Products -> Balance]
  <2>1. cutovers[c] \in [status : Statuses, period : Periods, balances : Rows, version : Nat]
    BY <1>1 DEF Cutover
  <2>2. balances \in Rows  OBVIOUS
  <2> HIDE DEF Rows
  <2>3. cutovers[c].version + 1 \in Nat  BY <2>1
  <2>4. PICK next \in Nat : next = cutovers[c].version + 1  BY <2>3
  <2>5. [cutovers[c] EXCEPT !.status = status, !.balances = balances, !.version = next]
           \in [status : Statuses, period : Periods, balances : Rows, version : Nat]
    BY <2>1, <2>2
  <2> QED  BY <2>4, <2>5 DEF Cutover, Rows
<1>5. row # NoCutover  BY <1>3 DEF NoCutover, Statuses
<1> HIDE DEF row
<1> QED  BY <1>2, <1>3, <1>4, <1>5 DEF TypeOK

(* The four writes, each as a change of one cutover: who gets into force,  *)
(* and what it was before unless the request was overtaken.                *)
Writes(w, c, status, balances) ==
    /\ c = work[w].c /\ work[w] # Idle
    /\ cutovers[c] # NoCutover
    /\ cutovers' = Changed(c, status, balances)
    /\ Commit(w) /\ tokens' = tokens
    /\ status = "activated" => work[w].op = "activate" \/ InForce(c)
    /\ ~work[w].late => ~InForce(c)
    /\ work[w].op = "activate" =>
          status = "activated" /\ balances = cutovers[c].balances
    /\ work[w].op # "activate" => anchors' = anchors

LEMMA CutoverWrites ==
  ASSUME TypeOK, RequestsSane, NEW w \in Workers,
         WriteStage(w) \/ WriteVerify(w) \/ WriteCancel(w) \/ WriteActivate(w)
  PROVE  \E c \in CutoverIds, status \in Statuses, balances \in [Products -> Balance] :
            Writes(w, c, status, balances)
<1>1. work[w].op # "none"  BY DEF WriteStage, WriteVerify, WriteCancel, WriteActivate
<1>2. PICK c \in CutoverIds : c = work[w].c  BY <1>1, CutoverJob
<1>3. work[w] # Idle  BY <1>1 DEF Idle
<1>4. cutovers[c] # NoCutover  BY <1>2, <1>3 DEF RequestsSane, Sane
<1>5. cutovers[c].balances \in [Products -> Balance] /\ cutovers[c].status \in Statuses
  BY <1>4, CutoverThere
<1>6. ~work[w].late => ~InForce(c)
  BY <1>2, <1>3, CutoverJob DEF RequestsSane, Sane, Fresh, ReadIn, InForce
<1>7. CASE WriteStage(w)
  <2> DEFINE balances == [p \in Products |-> IF work[w].rows[p] # None THEN work[w].rows[p]
                                             ELSE cutovers[c].balances[p]]
  <2>1. balances \in [Products -> Balance]  BY <1>1, <1>5, CutoverJob
  <2>2. cutovers' = Changed(c, cutovers[c].status, balances)  BY <1>2, <1>7 DEF WriteStage
  <2> HIDE DEF balances
  <2>3. Writes(w, c, cutovers[c].status, balances)
    BY <1>2, <1>3, <1>4, <1>6, <1>7, <2>2 DEF WriteStage, Writes, InForce
  <2> QED  BY <1>5, <2>1, <2>3
<1>8. CASE WriteVerify(w)
  <2>1. Writes(w, c, "verified", cutovers[c].balances)
    BY <1>2, <1>3, <1>4, <1>6, <1>8 DEF WriteVerify, Writes
  <2> QED  BY <1>5, <2>1 DEF Statuses
<1>9. CASE WriteCancel(w)
  <2>1. Writes(w, c, "cancelled", cutovers[c].balances)
    BY <1>2, <1>3, <1>4, <1>6, <1>9 DEF WriteCancel, Writes
  <2> QED  BY <1>5, <2>1 DEF Statuses
<1>10. CASE WriteActivate(w)
  <2>1. Writes(w, c, "activated", cutovers[c].balances)
    BY <1>2, <1>3, <1>4, <1>6, <1>10 DEF WriteActivate, Writes
  <2> QED  BY <1>5, <2>1 DEF Statuses
<1> QED  BY <1>7, <1>8, <1>9, <1>10

(* A row is written as it should be if it is as it was found; if it is     *)
(* not, its quantity and its cutover may each stay.                        *)
LEMMA CutoverMerged ==
  ASSUME NEW found \in Anchor, NEW now \in Anchor, NEW qty \in Quantities,
         NEW c \in CutoverIds, NEW row \in Merged(found, now, [qty |-> qty, by |-> c])
  PROVE  /\ row \in Anchor /\ row # None
         /\ row.by = c \/ (now # None /\ row.by = now.by)
         /\ row.qty = qty \/ (now \notin {None, found} /\ row.qty = now.qty)
         /\ found = now => row = [qty |-> qty, by |-> c]
<1> DEFINE mine == [qty |-> qty, by |-> c]
<1>1. mine \in Anchor /\ mine # None /\ mine.qty = qty /\ mine.by = c
  BY DEF Anchor, None
<1>2. CASE now \in {None, found}
  <2>1. row = mine  BY <1>2 DEF Merged
  <2> QED  BY <1>1, <2>1
<1>3. CASE now \notin {None, found}
  <2>1. now \in [qty : Quantities, by : CutoverIds]  BY <1>3 DEF Anchor
  <2>2. \/ row = mine
        \/ row = [mine EXCEPT !.qty = now.qty]
        \/ row = [qty |-> IF mine.qty = found.qty THEN now.qty ELSE mine.qty,
                  by |-> IF mine.by = found.by THEN now.by ELSE mine.by]
    BY <1>3 DEF Merged
  <2>3. /\ row \in [qty : Quantities, by : CutoverIds]
        /\ row.qty \in {qty, now.qty} /\ row.by \in {c, now.by}
    BY <2>1, <2>2
  <2>4. row # None  BY <2>3 DEF None
  <2> QED  BY <1>3, <2>3, <2>4 DEF Anchor
<1> QED  BY <1>2, <1>3

(* What an activation writes. *)
LEMMA CutoverActivated ==
  ASSUME TypeOK, RequestsSane, NEW w \in Workers, WriteActivate(w),
         NEW c \in CutoverIds, c = work[w].c
  PROVE  /\ anchors' \in [Periods -> [Products -> Anchor]]
         /\ cutovers[c].period \in Periods
         /\ \A d \in Periods, p \in Products :
               IF d = cutovers[c].period /\ work[w].seen[p] # None
               THEN LET now == anchors[d][p]  mine == work[w].seen[p].qty IN
                    /\ mine \in Quantities /\ anchors'[d][p] # None
                    /\ anchors'[d][p].by = c \/ (now # None /\ anchors'[d][p].by = now.by)
                    /\ \/ anchors'[d][p].qty = mine
                       \/ now \notin {None, work[w].found[p]} /\ anchors'[d][p].qty = now.qty
                    /\ ~work[w].late => anchors'[d][p] = [qty |-> mine, by |-> c]
               ELSE anchors'[d][p] = anchors[d][p]
<1>1. work[w].op = "activate"  BY DEF WriteActivate
<1>2. work[w] # Idle /\ work[w].seen \in [Products -> Balance]
      /\ work[w].found \in [Products -> Anchor]
  BY <1>1, CutoverJob
<1> DEFINE e == cutovers[work[w].c].period
<1>3. e \in Periods /\ e = cutovers[c].period
  BY <1>2, CutoverThere DEF RequestsSane, Sane
<1> DEFINE counted == {p \in Products : work[w].seen[p] # None}
           Row(first, merged) ==
              [p \in Products |-> IF p \notin counted THEN anchors[e][p]
                                  ELSE IF p = first THEN merged ELSE Mine(w, p)]
           Fine(p, row) ==
              LET now == anchors[e][p]  mine == work[w].seen[p].qty IN
              /\ mine \in Quantities /\ row \in Anchor /\ row # None
              /\ row.by = c \/ (now # None /\ row.by = now.by)
              /\ row.qty = mine \/ (now \notin {None, work[w].found[p]} /\ row.qty = now.qty)
              /\ ~work[w].late => row = [qty |-> mine, by |-> c]
<1>4. \/ counted = {} /\ anchors' = anchors
      \/ \E first \in counted :
           \E merged \in Merged(work[w].found[first], anchors[e][first], Mine(w, first)) :
              anchors' = [anchors EXCEPT ![e] = Row(first, merged)]
  BY Zenon DEF WriteActivate
<1> HIDE DEF e
<1>5. ~work[w].late => work[w].found = anchors[e]
  BY <1>1, <1>2, <1>3 DEF RequestsSane, Sane, Fresh
<1>6. ASSUME NEW p \in counted
      PROVE  /\ Mine(w, p) = [qty |-> work[w].seen[p].qty, by |-> c]
             /\ work[w].seen[p].qty \in Quantities /\ Fine(p, Mine(w, p))
  <2>1. work[w].seen[p] \in [qty : Quantities]  BY <1>2 DEF Balance
  <2> QED  BY <2>1 DEF Mine, Anchor, None
<1>7. ASSUME NEW first \in counted,
             NEW merged \in Merged(work[w].found[first], anchors[e][first], Mine(w, first))
      PROVE  Fine(first, merged)
  <2>1. work[w].found[first] \in Anchor /\ anchors[e][first] \in Anchor
    BY <1>2, <1>3 DEF TypeOK
  <2>2. PICK qty \in Quantities : qty = work[w].seen[first].qty  BY <1>6
  <2>3. Mine(w, first) = [qty |-> qty, by |-> c]  BY <1>6, <2>2
  <2>4. PICK now \in Anchor, found \in Anchor :
           now = anchors[e][first] /\ found = work[w].found[first]
    BY <2>1
  <2>5. merged \in Merged(found, now, [qty |-> qty, by |-> c])  BY <2>3, <2>4
  <2>6. ~work[w].late => found = now  BY <1>5, <2>4
  <2>7. /\ merged \in Anchor /\ merged # None
        /\ merged.by = c \/ (now # None /\ merged.by = now.by)
        /\ merged.qty = qty \/ (now \notin {None, found} /\ merged.qty = now.qty)
        /\ found = now => merged = [qty |-> qty, by |-> c]
    BY <2>5, CutoverMerged
  <2> QED  BY <2>2, <2>4, <2>6, <2>7
<1> HIDE DEF Fine
<1>8. CASE counted = {} /\ anchors' = anchors  BY <1>3, <1>8 DEF TypeOK
<1>9. ASSUME NEW first \in counted,
             NEW merged \in Merged(work[w].found[first], anchors[e][first], Mine(w, first)),
             anchors' = [anchors EXCEPT ![e] = Row(first, merged)]
      PROVE  /\ anchors' \in [Periods -> [Products -> Anchor]]
             /\ \A d \in Periods, p \in Products :
                   IF d = e /\ p \in counted THEN Fine(p, anchors'[d][p])
                   ELSE anchors'[d][p] = anchors[d][p]
  <2>1. ASSUME NEW p \in Products
        PROVE  IF p \in counted THEN Fine(p, Row(first, merged)[p])
               ELSE Row(first, merged)[p] = anchors[e][p]
    BY <1>6, <1>7
  <2>2. \A p \in counted : Row(first, merged)[p] \in Anchor  BY <2>1 DEF Fine
  <2>3. Row(first, merged) \in [Products -> Anchor]  BY <1>3, <2>1, <2>2 DEF TypeOK
  <2> HIDE DEF Row, counted
  <2>4. anchors' \in [Periods -> [Products -> Anchor]]  BY <1>9, <2>3 DEF TypeOK
  <2>5. \A d \in Periods : anchors'[d] = IF d = e THEN Row(first, merged) ELSE anchors[d]
    BY <1>9 DEF TypeOK
  <2> QED  BY <2>1, <2>4, <2>5
<1>10. /\ anchors' \in [Periods -> [Products -> Anchor]]
       /\ \A d \in Periods, p \in Products :
             IF d = e /\ p \in counted THEN Fine(p, anchors'[d][p])
             ELSE anchors'[d][p] = anchors[d][p]
  BY <1>4, <1>8, <1>9
<1> QED  BY <1>3, <1>10 DEF Fine

-----------------------------------------------------------------------------
(* What is asked of a request under way stays so: it may be forgotten by   *)
(* its worker or overtaken, but until then neither its cutover changes     *)
(* nor, for an activation, the products in use, and no other cutover comes *)
(* into force.                                                             *)
LEMMA RequestStaysSane ==
  ASSUME TypeOK, NEW w \in Workers, Sane(w),
         work'[w] # Idle => work[w] # Idle,
         work'[w] # Idle =>
            /\ work'[w].op = work[w].op /\ work'[w].c = work[w].c
            /\ work'[w].token = work[w].token /\ work'[w].seen = work[w].seen
            /\ work'[w].found = work[w].found
            /\ cutovers'[work[w].c] # NoCutover
            /\ ~work'[w].late =>
                 /\ ~work[w].late /\ cutovers'[work[w].c] = cutovers[work[w].c]
                 /\ work[w].op = "activate" =>
                      /\ active' = active /\ anchors' = anchors
                      /\ \A d \in CutoverIds : InForce(d)' =>
                            InForce(d) /\ cutovers'[d].period = cutovers[d].period
  PROVE  Sane(w)'
<1>1. SUFFICES ASSUME work'[w] # Idle  PROVE Sane(w)'
  BY DEF Sane, Idle
<1>2. PICK c \in CutoverIds : c = work[w].c  BY <1>1, CutoverJob
<1>3. PICK op \in {"stage", "verify", "cancel", "activate"} : op = work[w].op
  BY <1>1, CutoverJob
<1>4. cutovers'[work'[w].c] # NoCutover  BY <1>1
<1>5. work'[w].op = "activate" => work'[w].token.balances = work'[w].seen
  BY <1>1 DEF Sane
<1>6. ASSUME ~work'[w].late  PROVE Fresh(w)'
  <2>1. Fresh(w)  BY <1>1, <1>6 DEF Sane
  <2>2. cutovers'[c] = cutovers[c] /\ work'[w].c = c /\ work'[w].op = op
    BY <1>1, <1>2, <1>3, <1>6
  <2>3. work'[w].seen = cutovers'[c].balances
    BY <1>1, <1>2, <2>1, <2>2 DEF Fresh
  <2>4. cutovers'[c].status \in ReadIn(op)
    BY <1>2, <1>3, <2>1, <2>2 DEF Fresh
  <2>5. ASSUME op = "activate"
        PROVE  /\ \A p \in active' : cutovers'[c].balances[p] # None
               /\ \A d \in CutoverIds : cutovers'[d].status = "activated" =>
                                         cutovers'[d].period < cutovers'[c].period
               /\ work'[w].found = anchors'[cutovers'[c].period]
    <3>1. Ready(c) /\ TakesOver(c) /\ work[w].found = anchors[cutovers[c].period]
      BY <1>2, <1>3, <2>1, <2>5 DEF Fresh
    <3>2. active' = active /\ anchors' = anchors /\ work'[w].found = work[w].found
          /\ \A d \in CutoverIds : InForce(d)' =>
                InForce(d) /\ cutovers'[d].period = cutovers[d].period
      BY <1>1, <1>3, <1>6, <2>5
    <3> QED  BY <2>2, <3>1, <3>2 DEF Ready, TakesOver, InForce
  <2> QED  BY <2>2, <2>3, <2>4, <2>5 DEF Fresh, Ready, TakesOver, InForce
<1> QED  BY <1>4, <1>5, <1>6 DEF Sane, Idle

(* A read that lets a request through. *)
LEMMA CutoverRead ==
  ASSUME TypeOK, \A w \in Workers : Sane(w), NEW w \in Workers, NEW c \in CutoverIds,
         NEW op \in {"stage", "verify", "cancel", "activate"},
         NEW rows \in [Products -> Balance], NEW token \in Token \cup {NoToken},
         Begin(w, op, c, rows, token),
         cutovers[c].status \in ReadIn(op), cutovers[c].status # "none",
         op = "activate" => /\ Ready(c) /\ TakesOver(c)
                            /\ token.balances = cutovers[c].balances
  PROVE  /\ work' \in [Workers -> Work \cup {Idle}]
         /\ \A v \in Workers : Sane(v)'
<1>1. cutovers[c] # NoCutover /\ cutovers[c].balances \in [Products -> Balance]
  BY CutoverThere
<1> DEFINE job == [op |-> op, c |-> c, rows |-> rows, token |-> token,
                   seen |-> cutovers[c].balances,
                   found |-> IF op = "activate" THEN anchors[cutovers[c].period] ELSE Blank,
                   late |-> FALSE]
<1>2. job \in Work
  <2>1. cutovers[c].period \in Periods  BY CutoverThere
  <2>2. anchors[cutovers[c].period] \in [Products -> Anchor]  BY <2>1 DEF TypeOK
  <2>3. Blank \in [Products -> Anchor]  BY DEF Blank, Anchor
  <2> QED  BY <1>1, <2>2, <2>3 DEF Work
<1>3. work' = [work EXCEPT ![w] = job]  BY DEF Begin
<1>4. /\ job # Idle /\ job.op = op /\ job.c = c /\ job.token = token
      /\ job.seen = cutovers[c].balances /\ job.late = FALSE
      /\ op = "activate" => job.found = anchors[cutovers[c].period]
  BY DEF Idle
<1> HIDE DEF job
<1>5. work' \in [Workers -> Work \cup {Idle}]  BY <1>2, <1>3 DEF TypeOK
<1>6. cutovers' = cutovers /\ active' = active /\ anchors' = anchors  BY DEF Begin
<1>7. work'[w] = job  BY <1>3 DEF TypeOK
<1>8. Sane(w)'
  <2>1. op = "activate" =>
          /\ \A p \in active' : cutovers'[c].balances[p] # None
          /\ \A d \in CutoverIds : cutovers'[d].status = "activated" =>
                                    cutovers'[d].period < cutovers'[c].period
          /\ work'[w].found = anchors'[cutovers'[c].period]
    BY <1>4, <1>6, <1>7 DEF Ready, TakesOver, InForce
  <2>2. work'[w].seen = cutovers'[c].balances /\ work'[w].c = c /\ work'[w].op = op
        /\ cutovers'[c].status \in ReadIn(op)
    BY <1>4, <1>6, <1>7
  <2>4. Fresh(w)'  BY <2>1, <2>2 DEF Fresh, Ready, TakesOver, InForce
  <2> QED  BY <1>1, <1>4, <1>6, <1>7, <2>4 DEF Sane
<1>9. ASSUME NEW v \in Workers \ {w}  PROVE Sane(v)'
  <2>1. work'[v] = work[v]  BY <1>3 DEF TypeOK
  <2> QED  BY <1>6, <2>1, RequestStaysSane DEF Sane, InForce
<1> QED  BY <1>5, <1>8, <1>9

-----------------------------------------------------------------------------
(* The strengthened invariant holds at first and is kept by every step.    *)
LEMMA CutoverInitInv == Init => CutoverInv
<1> SUFFICES ASSUME Init PROVE CutoverInv  OBVIOUS
<1>1. \A c \in CutoverIds : cutovers[c] = NoCutover /\ ~InForce(c)
  BY DEF Init, InForce, NoCutover
<1>2. \A d \in Periods, p \in Products : anchors[d][p] = None  BY DEF Init, Blank
<1>3. anchors \in [Periods -> [Products -> Anchor]]  BY DEF Init, Blank, Anchor
<1>4. active \subseteq Products  BY DEF Init
<1>5. TypeOK  BY <1>3, <1>4 DEF Init, TypeOK
<1>6. RequestsSane  BY DEF Init, RequestsSane, Sane
<1>7. StatusTellsWhatGoverns  BY <1>1, <1>2 DEF StatusTellsWhatGoverns
<1> QED  BY <1>5, <1>6, <1>7 DEF CutoverInv

(* The steps that write no cutover but a new one. *)
LEMMA CutoverReadsKeep ==
  ASSUME TypeOK, RequestsSane, NEW w \in Workers, NEW c \in CutoverIds,
         (\E rows \in Staged : ReadStage(w, c, rows))
            \/ ReadVerify(w, c) \/ ReadCancel(w, c) \/ ReadActivate(w, c)
  PROVE  TypeOK' /\ RequestsSane'
         /\ cutovers' = cutovers /\ anchors' = anchors /\ tangled' = tangled
<1>1. UNCHANGED <<active, cutovers, anchors, tokens, tangled>>
  BY DEF ReadStage, ReadVerify, ReadCancel, ReadActivate, Begin
<1>2. Blank \in [Products -> Balance]  BY DEF Blank, Balance
<1>3. work' \in [Workers -> Work \cup {Idle}] /\ \A v \in Workers : Sane(v)'
  <2> USE DEF RequestsSane
  <2>1. ASSUME NEW rows \in Staged, ReadStage(w, c, rows)
        PROVE  work' \in [Workers -> Work \cup {Idle}] /\ \A v \in Workers : Sane(v)'
    BY <2>1, CutoverRead DEF ReadStage, ReadIn, Staged
  <2>2. CASE ReadVerify(w, c)  BY <1>2, <2>2, CutoverRead DEF ReadVerify, ReadIn
  <2>3. CASE ReadCancel(w, c)  BY <1>2, <2>3, CutoverRead DEF ReadCancel, ReadIn
  <2>4. CASE ReadActivate(w, c)
    <3>1. tokens[c].balances = cutovers[c].balances  BY <2>4 DEF ReadActivate, Fingerprint
    <3>2. tokens[c] \in Token \cup {NoToken}  BY DEF TypeOK
    <3>3. cutovers[c].status = "verified" /\ Ready(c) /\ TakesOver(c)
          /\ Begin(w, "activate", c, Blank, tokens[c])
      BY <2>4 DEF ReadActivate
    <3>4. cutovers[c].status \in ReadIn("activate")  BY <3>3 DEF ReadIn
    <3> QED  BY <1>2, <3>1, <3>2, <3>3, <3>4, CutoverRead
  <2> QED  BY <2>1, <2>2, <2>3, <2>4
<1> QED  BY <1>1, <1>3 DEF TypeOK, RequestsSane

LEMMA CutoverQuietSteps ==
  ASSUME TypeOK, RequestsSane,
         (\E p \in Products : SwitchProduct(p)) \/ (\E c \in CutoverIds : Preview(c))
            \/ (\E w \in Workers : Refuse(w)) \/ UNCHANGED vars
  PROVE  TypeOK' /\ RequestsSane'
         /\ cutovers' = cutovers /\ anchors' = anchors /\ tangled' = tangled
<1>1. cutovers' = cutovers /\ anchors' = anchors /\ tangled' = tangled
  BY DEF SwitchProduct, Preview, Refuse, vars
<1>2. ASSUME NEW p \in Products, SwitchProduct(p)  PROVE TypeOK' /\ RequestsSane'
  <2>1. active' \subseteq Products /\ tokens' = tokens
    BY <1>2 DEF SwitchProduct, TypeOK
  <2>2. ASSUME NEW v \in Workers
        PROVE  /\ work'[v] \in Work \cup {Idle}
               /\ work'[v] # Idle =>
                    /\ work[v] # Idle
                    /\ work'[v].op = work[v].op /\ work'[v].c = work[v].c
                    /\ work'[v].token = work[v].token /\ work'[v].seen = work[v].seen
                    /\ work'[v].found = work[v].found
                    /\ ~work'[v].late => ~work[v].late /\ work[v].op # "activate"
    <3>1. work'[v] = IF work[v] = Idle THEN Idle
                     ELSE IF work[v].op = "activate" THEN [work[v] EXCEPT !.late = TRUE] ELSE work[v]
      BY <1>2 DEF SwitchProduct
    <3>2. CASE work[v] = Idle  BY <3>1, <3>2
    <3>3. CASE work[v] # Idle
      <4>1. work[v] \in Work  BY <3>3, CutoverJob
      <4>2. CASE work[v].op = "activate"
        <5>1. work'[v] = [work[v] EXCEPT !.late = TRUE]  BY <3>1, <3>3, <4>2
        <5> QED  BY <3>3, <4>1, <5>1 DEF Work
      <4>3. CASE work[v].op # "activate"  BY <3>1, <3>3, <4>1, <4>3
      <4> QED  BY <4>2, <4>3
    <3> QED  BY <3>2, <3>3
  <2>3. work' \in [Workers -> Work \cup {Idle}]  BY <1>2, <2>2 DEF SwitchProduct
  <2>4. ASSUME NEW v \in Workers  PROVE Sane(v)'
    BY <1>1, <2>2, RequestStaysSane DEF RequestsSane, Sane
  <2> QED  BY <1>1, <2>1, <2>3, <2>4 DEF TypeOK, RequestsSane
<1>3. ASSUME NEW c \in CutoverIds, Preview(c)  PROVE TypeOK' /\ RequestsSane'
  <2>1. cutovers[c] \in Cutover /\ cutovers[c].status = "verified"
    BY <1>3, CutoverThere DEF Preview
  <2>2. Fingerprint(c) \in Token  BY <2>1 DEF Fingerprint, Token, Cutover
  <2>3. tokens' \in [CutoverIds -> Token \cup {NoToken}]
    BY <1>3, <2>2 DEF Preview, TypeOK
  <2>4. work' = work /\ active' = active  BY <1>3 DEF Preview
  <2>5. ASSUME NEW v \in Workers  PROVE Sane(v)'
    BY <1>1, <2>4, RequestStaysSane DEF RequestsSane, Sane, InForce
  <2> QED  BY <1>1, <2>3, <2>4, <2>5 DEF TypeOK, RequestsSane
<1>4. ASSUME NEW w \in Workers, Refuse(w)  PROVE TypeOK' /\ RequestsSane'
  <2>1. active' = active /\ tokens' = tokens /\ work' = [work EXCEPT ![w] = Idle]
    BY <1>4 DEF Refuse
  <2>2. work' \in [Workers -> Work \cup {Idle}]  BY <2>1 DEF TypeOK
  <2>3. ASSUME NEW v \in Workers  PROVE Sane(v)'
    <3>1. work'[v] = Idle \/ work'[v] = work[v]  BY <2>1 DEF TypeOK
    <3> QED  BY <1>1, <2>1, <3>1, RequestStaysSane DEF RequestsSane, Sane, InForce
  <2> QED  BY <1>1, <2>1, <2>2, <2>3 DEF TypeOK, RequestsSane
<1>5. CASE UNCHANGED vars
  <2>1. active' = active /\ tokens' = tokens /\ work' = work  BY <1>5 DEF vars
  <2>2. ASSUME NEW v \in Workers  PROVE Sane(v)'
    BY <1>1, <2>1, RequestStaysSane DEF RequestsSane, Sane, InForce
  <2> QED  BY <1>1, <2>1, <2>2 DEF TypeOK, RequestsSane
<1> QED  BY <1>1, <1>2, <1>3, <1>4, <1>5

(* A new draft is nobody's business yet. *)
LEMMA CutoverDraftKeeps ==
  ASSUME TypeOK, RequestsSane, NEW c \in CutoverIds, NEW d \in Periods, CreateDraft(c, d)
  PROVE  /\ TypeOK' /\ RequestsSane'
         /\ anchors' = anchors /\ tangled' = tangled
         /\ \A e \in CutoverIds \ {c} : cutovers'[e] = cutovers[e]
         /\ ~InForce(c) /\ ~InForce(c)'
<1>1. NewDraft(d) \in Cutover /\ NewDraft(d) # NoCutover /\ NewDraft(d).status = "draft"
  BY DEF NewDraft, Cutover, NoCutover, Statuses, Blank, Balance
<1>2. cutovers' = [cutovers EXCEPT ![c] = NewDraft(d)] /\ cutovers[c] = NoCutover
      /\ UNCHANGED <<active, anchors, tokens, work, tangled>>
  BY DEF CreateDraft
<1>3. cutovers' \in [CutoverIds -> Cutover \cup {NoCutover}] /\ cutovers'[c] = NewDraft(d)
      /\ \A e \in CutoverIds \ {c} : cutovers'[e] = cutovers[e]
  BY <1>1, <1>2 DEF TypeOK
<1>4. ~InForce(c) /\ ~InForce(c)'  BY <1>1, <1>2, <1>3 DEF InForce, NoCutover
<1>5. ASSUME NEW v \in Workers  PROVE Sane(v)'
  <2>1. work'[v] # Idle => work[v].c \in CutoverIds \ {c}
    BY <1>2, CutoverJob DEF RequestsSane, Sane
  <2>2. \A e \in CutoverIds : InForce(e)' => InForce(e) /\ cutovers'[e].period = cutovers[e].period
    BY <1>3, <1>4 DEF InForce
  <2>3. Sane(v)  BY DEF RequestsSane
  <2>4. work'[v] # Idle => cutovers[work[v].c] # NoCutover /\ cutovers'[work[v].c] = cutovers[work[v].c]
    BY <1>2, <1>3, <2>1, <2>3 DEF Sane
  <2> QED  BY <1>2, <2>2, <2>3, <2>4, RequestStaysSane
<1> QED  BY <1>2, <1>3, <1>4, <1>5 DEF TypeOK, RequestsSane

(* The four writes. *)
LEMMA CutoverWritesKeep ==
  ASSUME TypeOK, RequestsSane, NEW w \in Workers, NEW c \in CutoverIds,
         NEW status \in Statuses, NEW balances \in [Products -> Balance],
         Writes(w, c, status, balances), anchors' \in [Periods -> [Products -> Anchor]]
  PROVE  TypeOK' /\ RequestsSane'
<1>1. /\ cutovers' \in [CutoverIds -> Cutover \cup {NoCutover}]
      /\ cutovers'[c] # NoCutover /\ cutovers'[c].status = status
      /\ cutovers'[c].period = cutovers[c].period
      /\ \A d \in CutoverIds \ {c} : cutovers'[d] = cutovers[d]
  BY CutoverChanged DEF Writes
<1>2. Commit(w) /\ c = work[w].c  BY DEF Writes
<1>3. active' = active /\ tokens' = tokens /\ tangled' \subseteq CutoverIds
  BY DEF Writes, Commit, TypeOK
<1>4. work' \in [Workers -> Work \cup {Idle}]  BY <1>2, CutoverCommitted
<1>5. ASSUME NEW v \in Workers  PROVE Sane(v)'
  <2>1. Sane(v)  BY DEF RequestsSane
  <2>2. work'[v] # Idle =>
               /\ work[v] # Idle
               /\ work'[v].op = work[v].op /\ work'[v].c = work[v].c
               /\ work'[v].token = work[v].token /\ work'[v].seen = work[v].seen
               /\ work'[v].found = work[v].found
               /\ ~work'[v].late => /\ ~work[v].late /\ work[v].c # c
                                    /\ ~(work[v].op = "activate" /\ work[w].op = "activate")
    BY <1>2, CutoverCommitted
  <2>3. work'[v] # Idle => work[v].c \in CutoverIds /\ cutovers'[work[v].c] # NoCutover
    BY <1>1, <2>1, <2>2, CutoverJob DEF Sane
  <2>4. work[w].op # "activate" =>
           anchors' = anchors /\
           \A d \in CutoverIds : InForce(d)' => InForce(d) /\ cutovers'[d].period = cutovers[d].period
    BY <1>1 DEF Writes, InForce
  <2>5. work'[v] # Idle /\ ~work'[v].late =>
           /\ cutovers'[work[v].c] = cutovers[work[v].c]
           /\ work[v].op = "activate" =>
                 anchors' = anchors /\
                 \A d \in CutoverIds : InForce(d)' => InForce(d) /\ cutovers'[d].period = cutovers[d].period
    BY <1>1, <2>2, <2>3, <2>4
  <2> QED  BY <1>3, <2>1, <2>2, <2>3, <2>5, RequestStaysSane
<1> QED  BY <1>1, <1>3, <1>4, <1>5 DEF TypeOK, RequestsSane

-----------------------------------------------------------------------------
(* What an anchor says of a cutover. *)
GovernsAt(c, d, p) ==
    IF InForce(c) /\ cutovers[c].period = d /\ cutovers[c].balances[p] # None
    THEN anchors[d][p] = BalanceOf(c, p)
    ELSE anchors[d][p] # None => anchors[d][p].by # c

(* A cutover that stays as it is, where the anchor does too. *)
LEMMA GovernsStill ==
  ASSUME NEW c \in CutoverIds, NEW d \in Periods, NEW p \in Products, GovernsAt(c, d, p),
         cutovers'[c] = cutovers[c], anchors'[d][p] = anchors[d][p]
  PROVE  GovernsAt(c, d, p)'
BY DEF GovernsAt, InForce, BalanceOf

(* Who is not in force before or after a step. *)
LEMMA InertStill ==
  ASSUME NEW c \in CutoverIds, NEW d \in Periods, NEW p \in Products, GovernsAt(c, d, p),
         ~InForce(c), ~InForce(c)', anchors'[d][p] = anchors[d][p]
  PROVE  GovernsAt(c, d, p)'
BY DEF GovernsAt

(* A write leaves the ledger as the statuses say: what an overtaken one    *)
(* may spoil is tangled from then on.                                      *)
LEMMA GovernsAfterWrite ==
  ASSUME CutoverInv, NEW w \in Workers, NEW c \in CutoverIds,
         NEW status \in Statuses, NEW balances \in [Products -> Balance],
         Writes(w, c, status, balances),
         work[w].op = "activate" => WriteActivate(w)
  PROVE  StatusTellsWhatGoverns'
<1> USE DEF CutoverInv
<1>1. /\ cutovers'[c].status = status /\ cutovers'[c].balances = balances
      /\ cutovers'[c].period = cutovers[c].period
      /\ \A e \in CutoverIds \ {c} : cutovers'[e] = cutovers[e]
  BY CutoverChanged DEF Writes
<1>2. /\ tangled \subseteq tangled'
      /\ work[w].late => c \in tangled'
      /\ work[w].late /\ work[w].op = "activate" =>
            \A e \in CutoverIds : cutovers[e] # NoCutover /\ cutovers[e].period = cutovers[c].period
                                  => e \in tangled'
  BY DEF Writes, Commit
<1>3. ~work[w].late => Fresh(w) /\ ~InForce(c)  BY DEF Writes, RequestsSane, Sane
<1>4. c = work[w].c  BY DEF Writes
<1>5. SUFFICES ASSUME NEW e \in CutoverIds \ tangled', NEW d \in Periods, NEW p \in Products
               PROVE  GovernsAt(e, d, p)'
  BY DEF StatusTellsWhatGoverns, GovernsAt, InForce, BalanceOf
<1>6. GovernsAt(e, d, p)
  <2>1. e \in CutoverIds \ tangled  BY <1>2
  <2> QED  BY <2>1 DEF StatusTellsWhatGoverns, GovernsAt
<1>7. CASE work[w].op # "activate"
  <2>1. anchors' = anchors  BY <1>7 DEF Writes
  <2>2. CASE e # c  BY <1>1, <1>6, <2>1, <2>2, GovernsStill
  <2>3. CASE e = c
    <3>1. ~InForce(c)  BY <1>2, <1>3, <2>3
    <3>2. ~InForce(c)'  BY <1>1, <1>7, <3>1 DEF Writes, InForce
    <3> QED  BY <1>6, <2>1, <2>3, <3>1, <3>2, InertStill
  <2> QED  BY <2>2, <2>3
<1>8. CASE work[w].op = "activate"
  <2> DEFINE hit == d = cutovers[c].period /\ work[w].seen[p] # None
  <2>1. IF hit THEN /\ \/ anchors'[d][p].by = c
                       \/ anchors[d][p] # None /\ anchors'[d][p].by = anchors[d][p].by
                    /\ ~work[w].late => anchors'[d][p] = [qty |-> work[w].seen[p].qty, by |-> c]
               ELSE anchors'[d][p] = anchors[d][p]
    BY <1>4, <1>8, CutoverActivated
  <2>2. CASE e # c /\ ~hit  BY <1>1, <1>6, <2>1, <2>2, GovernsStill
  <2>3. CASE e # c /\ hit
    <3>1. ~(InForce(e) /\ cutovers[e].period = d)
      <4> SUFFICES ASSUME InForce(e), cutovers[e].period = d  PROVE FALSE  OBVIOUS
      <4>1. cutovers[e] # NoCutover  BY DEF InForce, NoCutover
      <4>2. ~work[w].late  BY <1>2, <1>8, <2>3, <4>1
      <4>3. TakesOver(c)  BY <1>3, <1>4, <1>8, <4>2 DEF Fresh
      <4>4. cutovers[e].period < cutovers[c].period  BY <4>3 DEF TakesOver
      <4>5. d \in Nat  BY NumbersAssumption
      <4> QED  BY <2>3, <4>4, <4>5
    <3>2. anchors[d][p] # None => anchors[d][p].by # e  BY <1>6, <3>1 DEF GovernsAt
    <3>3. anchors'[d][p].by # e  BY <2>1, <2>3, <3>2
    <3>4. cutovers'[e] = cutovers[e]  BY <1>1, <2>3
    <3> QED  BY <3>1, <3>3, <3>4 DEF GovernsAt, InForce
  <2>4. CASE e = c
    <3>1. ~work[w].late  BY <1>2, <2>4
    <3>2. ~InForce(c) /\ work[w].seen = cutovers[c].balances  BY <1>3, <1>4, <3>1 DEF Fresh
    <3>3. status = "activated" /\ balances = cutovers[c].balances  BY <1>8 DEF Writes
    <3>4. InForce(c)' /\ cutovers'[c].balances = work[w].seen  BY <1>1, <3>2, <3>3 DEF InForce
    <3>5. CASE hit
      <4>1. anchors'[d][p] = BalanceOf(c, p)'
        BY <2>1, <3>1, <3>4, <3>5 DEF BalanceOf
      <4> QED  BY <1>1, <2>4, <3>4, <3>5, <4>1 DEF GovernsAt
    <3>6. CASE ~hit
      <4>1. anchors'[d][p] # None => anchors'[d][p].by # c
        BY <1>6, <2>1, <2>4, <3>2, <3>6 DEF GovernsAt
      <4>2. ~(cutovers'[c].period = d /\ cutovers'[c].balances[p] # None)
        BY <1>1, <3>4, <3>6
      <4> QED  BY <2>4, <4>1, <4>2 DEF GovernsAt
    <3> QED  BY <3>5, <3>6
  <2> QED  BY <2>2, <2>3, <2>4
<1> QED  BY <1>7, <1>8

(* Where no cutover changes, what governs does not either. *)
LEMMA GovernsKept ==
  ASSUME StatusTellsWhatGoverns, cutovers' = cutovers, anchors' = anchors, tangled' = tangled
  PROVE  StatusTellsWhatGoverns'
BY DEF StatusTellsWhatGoverns, InForce, BalanceOf

(* A write is one of the four, and its anchors are well formed. *)
LEMMA CutoverWrite ==
  ASSUME CutoverInv, NEW w \in Workers,
         WriteStage(w) \/ WriteVerify(w) \/ WriteCancel(w) \/ WriteActivate(w)
  PROVE  CutoverInv' /\ \E c \in CutoverIds, status \in Statuses, balances \in [Products -> Balance] :
            Writes(w, c, status, balances) /\ (work[w].op = "activate" => WriteActivate(w))
<1> USE DEF CutoverInv
<1>1. PICK c \in CutoverIds, status \in Statuses, balances \in [Products -> Balance] :
         Writes(w, c, status, balances)
  BY CutoverWrites
<1>2. work[w].op = "activate" => WriteActivate(w)
  BY DEF WriteStage, WriteVerify, WriteCancel, WriteActivate
<1>3. anchors' \in [Periods -> [Products -> Anchor]]
  <2>1. CASE work[w].op = "activate"  BY <1>1, <1>2, <2>1, CutoverActivated DEF Writes
  <2>2. CASE work[w].op # "activate"  BY <1>1, <2>2 DEF Writes, TypeOK
  <2> QED  BY <2>1, <2>2
<1>4. TypeOK' /\ RequestsSane'  BY <1>1, <1>3, CutoverWritesKeep
<1>5. StatusTellsWhatGoverns'  BY <1>1, <1>2, GovernsAfterWrite
<1> QED  BY <1>1, <1>2, <1>4, <1>5

(* The steps, by what they can do to a cutover in force and the anchors. *)
Quiet ==
    cutovers' = cutovers /\ anchors' = anchors /\ tangled' = tangled

LEMMA CutoverSteps ==
  ASSUME CutoverInv, [Next]_vars
  PROVE  CutoverInv' /\
         \/ Quiet
         \/ \E c \in CutoverIds, d \in Periods : CreateDraft(c, d)
         \/ \E w \in Workers :
               WriteStage(w) \/ WriteVerify(w) \/ WriteCancel(w) \/ WriteActivate(w)
<1> USE DEF CutoverInv
<1>1. ASSUME TypeOK' /\ RequestsSane', Quiet  PROVE CutoverInv'
  BY <1>1, GovernsKept DEF Quiet
<1>2. ASSUME NEW w \in Workers, NEW c \in CutoverIds,
             (\E rows \in Staged : ReadStage(w, c, rows))
                \/ ReadVerify(w, c) \/ ReadCancel(w, c) \/ ReadActivate(w, c)
      PROVE  CutoverInv' /\ Quiet
  BY <1>1, <1>2, CutoverReadsKeep DEF Quiet
<1>3. ASSUME (\E p \in Products : SwitchProduct(p)) \/ (\E c \in CutoverIds : Preview(c))
                \/ (\E w \in Workers : Refuse(w)) \/ UNCHANGED vars
      PROVE  CutoverInv' /\ Quiet
  BY <1>1, <1>3, CutoverQuietSteps DEF Quiet
<1>4. ASSUME NEW c \in CutoverIds, NEW d \in Periods, CreateDraft(c, d)  PROVE CutoverInv'
  <2>1. /\ TypeOK' /\ RequestsSane'
        /\ anchors' = anchors /\ tangled' = tangled
        /\ \A e \in CutoverIds \ {c} : cutovers'[e] = cutovers[e]
        /\ ~InForce(c) /\ ~InForce(c)'
    BY <1>4, CutoverDraftKeeps
  <2>2. ASSUME NEW e \in CutoverIds \ tangled', NEW a \in Periods, NEW p \in Products
        PROVE  GovernsAt(e, a, p)'
    <3>1. GovernsAt(e, a, p)  BY <2>1 DEF StatusTellsWhatGoverns, GovernsAt
    <3> QED  BY <2>1, <3>1, GovernsStill, InertStill
  <2>3. StatusTellsWhatGoverns'  BY <2>2 DEF StatusTellsWhatGoverns, GovernsAt, InForce, BalanceOf
  <2> QED  BY <2>1, <2>3
<1>5. ASSUME NEW w \in Workers,
             WriteStage(w) \/ WriteVerify(w) \/ WriteCancel(w) \/ WriteActivate(w)
      PROVE  CutoverInv'
  BY <1>5, CutoverWrite
<1> HIDE DEF CutoverInv
<1>6. CASE Next  BY <1>2, <1>3, <1>4, <1>5, <1>6 DEF Next
<1> QED  BY <1>3, <1>6

(* An anchor changes in an activation, to a balance its token had shown or *)
(* keeping a quantity written since it was found.                          *)
LEMMA PreviewedStep ==
  ASSUME CutoverInv, [Next]_vars, NEW d \in Periods, NEW p \in Products,
         anchors'[d][p] # anchors[d][p]
  PROVE  \E w \in Workers :
            /\ work[w].op = "activate" /\ work'[w] = Idle
            /\ work[w].token.balances[p] # None
            /\ \/ anchors'[d][p].qty = work[w].token.balances[p].qty
               \/ /\ anchors[d][p] \notin {None, work[w].found[p]}
                  /\ anchors'[d][p].qty = anchors[d][p].qty
<1> USE DEF CutoverInv
<1>1. PICK w \in Workers : WriteActivate(w)
  BY CutoverSteps DEF Quiet, CreateDraft, WriteStage, WriteVerify, WriteCancel
<1>2. work[w].op = "activate" /\ Commit(w)  BY <1>1 DEF WriteActivate
<1>3. work[w].token.balances = work[w].seen /\ work[w].c \in CutoverIds
  BY <1>2, CutoverJob DEF RequestsSane, Sane
<1>4. /\ work[w].seen[p] # None
      /\ \/ anchors'[d][p].qty = work[w].seen[p].qty
         \/ /\ anchors[d][p] \notin {None, work[w].found[p]}
            /\ anchors'[d][p].qty = anchors[d][p].qty
  BY <1>1, <1>3, CutoverActivated
<1>5. work'[w] = Idle  BY <1>2, CutoverCommitted
<1> QED  BY <1>2, <1>3, <1>4, <1>5

(* Who comes into force has been activated, and then takes over.           *)
LEMMA TakesOverStep ==
  ASSUME CutoverInv, [Next]_vars, NEW c \in CutoverIds, ~InForce(c), InForce(c)'
  PROVE  \/ \E w \in Workers : work[w].op = "activate" /\ work[w].c = c
                               /\ work[w].late /\ work'[w] = Idle
         \/ /\ \A d \in CutoverIds : InForce(d) => cutovers[d].period < cutovers[c].period
            /\ \A p \in active : LET found == anchors'[cutovers[c].period][p]
                                 IN  found # None /\ found.by = c
<1> USE DEF CutoverInv
<1>1. ~Quiet  BY DEF Quiet, InForce
<1>2. ~\E e \in CutoverIds, d \in Periods : CreateDraft(e, d)
  BY CutoverDraftKeeps DEF InForce
<1>3. PICK w \in Workers :
         WriteStage(w) \/ WriteVerify(w) \/ WriteCancel(w) \/ WriteActivate(w)
  BY <1>1, <1>2, CutoverSteps
<1>4. PICK e \in CutoverIds, status \in Statuses, balances \in [Products -> Balance] :
         Writes(w, e, status, balances) /\ (work[w].op = "activate" => WriteActivate(w))
  BY <1>3, CutoverWrite
<1>5. cutovers'[e].status = status /\ \A d \in CutoverIds \ {e} : cutovers'[d] = cutovers[d]
  BY <1>4, CutoverChanged DEF Writes
<1>6. e = c /\ status = "activated"  BY <1>5 DEF InForce
<1>7. work[w].op = "activate" /\ WriteActivate(w) /\ work[w].c = c /\ work[w] # Idle
      /\ work'[w] = Idle
  BY <1>4, <1>6, CutoverCommitted DEF Writes
<1>8. CASE work[w].late  BY <1>7, <1>8
<1>9. CASE ~work[w].late
  <2>1. Ready(c) /\ TakesOver(c) /\ work[w].seen = cutovers[c].balances
    BY <1>7, <1>9 DEF RequestsSane, Sane, Fresh
  <2>2. ASSUME NEW p \in active
        PROVE  /\ anchors'[cutovers[c].period][p] # None
               /\ anchors'[cutovers[c].period][p].by = c
    <3>1. work[w].seen[p] # None /\ p \in Products  BY <2>1 DEF Ready, TypeOK
    <3>2. cutovers[c].period \in Periods
          /\ anchors'[cutovers[c].period][p] = [qty |-> work[w].seen[p].qty, by |-> c]
      BY <1>7, <1>9, <3>1, CutoverActivated
    <3>3. [qty |-> work[w].seen[p].qty, by |-> c] # None  BY DEF None
    <3> QED  BY <3>2, <3>3
  <2> QED  BY <2>1, <2>2 DEF TakesOver
<1> QED  BY <1>8, <1>9

-----------------------------------------------------------------------------
(* The theorems. *)

(* The tables stay well formed, and a request under way is about a cutover *)
(* that is there.                                                          *)
THEOREM CutoverTypes == Spec => []TypeOK
<1>1. CutoverInv /\ [Next]_vars => CutoverInv'  BY CutoverSteps
<1>2. CutoverInv => TypeOK  BY DEF CutoverInv
<1> QED  BY <1>1, <1>2, CutoverInitInv, PTL DEF Spec

(* The status of a cutover that no late request has written to says        *)
(* whether its balances, all of them and nothing else, are in the ledger.  *)
THEOREM CutoverGoverns == Spec => []StatusTellsWhatGoverns
<1>1. CutoverInv /\ [Next]_vars => CutoverInv'  BY CutoverSteps
<1>2. CutoverInv => StatusTellsWhatGoverns  BY DEF CutoverInv
<1> QED  BY <1>1, <1>2, CutoverInitInv, PTL DEF Spec

(* Nothing gets into the ledger that the preview had not shown, except     *)
(* that an overlapping activation's quantity may stay.                     *)
THEOREM CutoverWritesPreview == Spec => OnlyThePreviewedIsWritten
<1>1. CutoverInv /\ [Next]_vars => CutoverInv'  BY CutoverSteps
<1>2. CutoverInv /\ [Next]_vars
        => [\A d \in Periods : \A p \in Products : anchors'[d][p] # anchors[d][p] =>
              \E w \in Workers :
                 /\ work[w].op = "activate" /\ work'[w] = Idle
                 /\ work[w].token.balances[p] # None
                 /\ \/ anchors'[d][p].qty = work[w].token.balances[p].qty
                    \/ /\ anchors[d][p] \notin {None, work[w].found[p]}
                       /\ anchors'[d][p].qty = anchors[d][p].qty]_vars
  BY PreviewedStep
<1> QED  BY <1>1, <1>2, CutoverInitInv, PTL DEF Spec, OnlyThePreviewedIsWritten

(* An activation that nothing overtook takes over from every cutover in    *)
(* force and leaves no active product on its old balance.                  *)
THEOREM CutoverTakesOver == Spec => TakesOverUnlessOvertaken
<1>1. CutoverInv /\ [Next]_vars => CutoverInv'  BY CutoverSteps
<1>2. CutoverInv /\ [Next]_vars
        => [\A c \in CutoverIds : ~InForce(c) /\ InForce(c)' =>
              \/ \E w \in Workers : work[w].op = "activate" /\ work[w].c = c
                                    /\ work[w].late /\ work'[w] = Idle
              \/ /\ \A d \in CutoverIds : InForce(d) => cutovers[d].period < cutovers[c].period
                 /\ \A p \in active : LET found == anchors'[cutovers[c].period][p]
                                      IN  found # None /\ found.by = c]_vars
  BY TakesOverStep
<1> QED  BY <1>1, <1>2, CutoverInitInv, PTL DEF Spec, TakesOverUnlessOvertaken

=============================================================================
