----------------------- MODULE CorrectionRequestsProofs -----------------------
(***************************************************************************)
(* Theorems about CorrectionRequests for any number of requests, workers,  *)
(* records and operators, any window and any length of time.               *)
(***************************************************************************)
EXTENDS CorrectionRequests, TLAPS

Review == {"approved", "rejected"}

(* An approval is either still open or has been taken back, so that one    *)
(* correction more is possible only while a request is approved.           *)
GrantsCounted ==
    \A q \in RequestIds :
        IF requests[q].status = "approved" THEN uses[q] < approvals[q] ELSE uses[q] <= approvals[q]

(* A reviewer holds a request that is there, and pending unless he has     *)
(* been overtaken.                                                         *)
ReviewsSane ==
    \A w \in Workers :
        work[w].op \in Review =>
            /\ requests[work[w].q] # NoRequest
            /\ ~work[w].late => requests[work[w].q].status = "pending"

GrantsInv == TypeOK /\ GrantsCounted /\ ReviewsSane

-----------------------------------------------------------------------------
(* A worker with something to do. *)
LEMMA Job ==
  ASSUME TypeOK, NEW w \in Workers, work[w].op # "none"
  PROVE  work[w] \in Work /\ work[w].q \in RequestIds /\ work[w].by \in Operators
<1>1. work[w] \in Work  BY DEF TypeOK, Idle
<1> QED  BY <1>1 DEF Work

(* A read that begins a job. *)
LEMMA BeginJob ==
  ASSUME TypeOK, NEW w \in Workers, NEW q \in RequestIds, NEW o \in Operators,
         NEW op \in {"create", "approved", "rejected", "use", "expire"}, Begin(w, op, q, o)
  PROVE  /\ work' \in [Workers -> Work \cup {Idle}]
         /\ work'[w].op = op /\ work'[w].q = q
         /\ \A v \in Workers \ {w} : work'[v] = work[v]
<1> DEFINE job == [op |-> op, q |-> q, by |-> o, late |-> FALSE]
<1>1. job \in Work /\ job.op = op /\ job.q = q  BY DEF Work
<1>2. work' = [work EXCEPT ![w] = job]  BY DEF Begin
<1> HIDE DEF job
<1> QED  BY <1>1, <1>2 DEF TypeOK

(* A commit leaves every other job late. *)
LEMMA CommitOvertakes ==
  ASSUME TypeOK, NEW w \in Workers, Commit(w)
  PROVE  /\ work' \in [Workers -> Work \cup {Idle}]
         /\ \A v \in Workers :
               work'[v].op # "none" =>
                   /\ work[v].op = work'[v].op /\ work[v].q = work'[v].q
                   /\ work'[v].late
<1>1. SUFFICES ASSUME NEW v \in Workers
               PROVE  /\ work'[v] \in Work \cup {Idle}
                      /\ work'[v].op # "none" =>
                             /\ work[v].op = work'[v].op /\ work[v].q = work'[v].q
                             /\ work'[v].late
  BY DEF Commit
<1>2. work'[v] = IF v = w \/ work[v] = Idle THEN Idle ELSE [work[v] EXCEPT !.late = TRUE]
  BY DEF Commit
<1>3. CASE v = w \/ work[v] = Idle  BY <1>2, <1>3 DEF Idle
<1>4. CASE v # w /\ work[v] # Idle
  <2>1. work[v] \in Work  BY <1>4 DEF TypeOK
  <2> QED  BY <1>2, <1>4, <2>1 DEF Work
<1> QED  BY <1>3, <1>4

(* A status other than none is that of a request. *)
LEMMA RequestThere ==
  ASSUME TypeOK, NEW q \in RequestIds, requests[q] # NoRequest \/ requests[q].status # "none"
  PROVE  requests[q] \in Request /\ requests[q].status \in RequestStatuses
<1>1. requests[q] \in Request  BY DEF TypeOK, NoRequest
<1> QED  BY <1>1 DEF Request

-----------------------------------------------------------------------------
(* The five writes, each: what it does to the requests. *)

Settles(w, q, status) ==
    /\ requests'[q] \in Request /\ requests'[q].status = status
    /\ \A p \in RequestIds \ {q} : requests'[p] = requests[p]
    /\ Commit(w)

(* consume_grant() and the sweep settle an approved request. *)
LEMMA GrantSettled ==
  ASSUME TypeOK, NEW w \in Workers, UseGrant(w) \/ WriteExpired(w)
  PROVE  /\ work[w].q \in RequestIds /\ requests[work[w].q].status = "approved"
         /\ UseGrant(w) => Settles(w, work[w].q, "completed")
         /\ WriteExpired(w) => Settles(w, work[w].q, "expired")
         /\ requests' \in [RequestIds -> Request \cup {NoRequest}]
<1>1. PICK q : q = work[w].q  OBVIOUS
<1>2. q \in RequestIds /\ requests[q].status = "approved" /\ Commit(w)
  BY <1>1, Job DEF UseGrant, WriteExpired
<1>3. requests[q] \in Request  BY <1>2, RequestThere
<1>4. PICK status \in {"completed", "expired"} :
         /\ requests' = [requests EXCEPT ![q].status = status]
         /\ UseGrant(w) => status = "completed"
         /\ WriteExpired(w) => status = "expired"
  BY <1>1 DEF UseGrant, WriteExpired
<1>5. requests'[q] = [requests[q] EXCEPT !.status = status]
      /\ \A p \in RequestIds \ {q} : requests'[p] = requests[p]
  BY <1>2, <1>4 DEF TypeOK
<1>6. requests'[q] \in Request /\ requests'[q].status = status
  BY <1>3, <1>5 DEF Request, RequestStatuses
<1>7. requests' \in [RequestIds -> Request \cup {NoRequest}]
  BY <1>4, <1>5, <1>6 DEF TypeOK
<1> QED  BY <1>1, <1>2, <1>4, <1>5, <1>6, <1>7 DEF Settles

(* A review settles a request too, whatever has become of it. *)
LEMMA ReviewSettled ==
  ASSUME TypeOK, ReviewsSane, NEW w \in Workers, WriteReview(w)
  PROVE  /\ work[w].q \in RequestIds /\ work[w].op \in Review
         /\ Settles(w, work[w].q, work[w].op)
         /\ requests' \in [RequestIds -> Request \cup {NoRequest}]
<1>1. PICK q : q = work[w].q  OBVIOUS
<1>2. PICK op \in Review : op = work[w].op  BY DEF WriteReview, Review
<1>3. q \in RequestIds /\ Commit(w)
  BY <1>1, <1>2, Job DEF WriteReview, Review
<1>4. requests[q] \in Request  BY <1>1, <1>2, <1>3, RequestThere DEF ReviewsSane
<1>5. requests' = [requests EXCEPT ![q].status = op, ![q].since = clock]
  BY <1>1, <1>2 DEF WriteReview
<1>6. requests'[q] = [requests[q] EXCEPT !.status = op, !.since = clock]
      /\ \A p \in RequestIds \ {q} : requests'[p] = requests[p]
  BY <1>3, <1>5 DEF TypeOK
<1>7. requests'[q] \in Request /\ requests'[q].status = op
  BY <1>4, <1>6 DEF Request, RequestStatuses, Review, TypeOK
<1>8. requests' \in [RequestIds -> Request \cup {NoRequest}]
  BY <1>5, <1>6, <1>7 DEF TypeOK
<1> QED  BY <1>1, <1>2, <1>3, <1>6, <1>7, <1>8 DEF Settles

(* A new request is pending; of the others only lapsed grants change.      *)
LEMMA RequestCreated ==
  ASSUME TypeOK, NEW w \in Workers, WriteCreate(w), NEW q \in RequestIds
  PROVE  \/ q = work[w].q /\ requests[q] = NoRequest
            /\ requests'[q] \in Request /\ requests'[q].status = "pending"
         \/ q # work[w].q /\ requests[q].status = "approved"
            /\ requests'[q] \in Request /\ requests'[q].status = "expired"
         \/ q # work[w].q /\ requests'[q] = requests[q]
<1>1. work[w].by \in Operators /\ requests[work[w].q] = NoRequest
  BY Job DEF WriteCreate
<1>2. requests'[q] =
        IF q = work[w].q
        THEN [status |-> "pending", by |-> work[w].by, since |-> clock, entry |-> entry]
        ELSE IF Mine(q, work[w].by) /\ Lapsed(q) THEN [requests[q] EXCEPT !.status = "expired"]
        ELSE requests[q]
  BY DEF WriteCreate
<1>3. CASE q = work[w].q
  BY <1>1, <1>2, <1>3 DEF Request, RequestStatuses, TypeOK
<1>4. CASE q # work[w].q /\ Mine(q, work[w].by) /\ Lapsed(q)
  <2>1. requests[q] \in Request /\ requests[q].status = "approved"
    BY <1>4, RequestThere DEF Lapsed
  <2>2. requests'[q] = [requests[q] EXCEPT !.status = "expired"]  BY <1>2, <1>4
  <2> QED  BY <1>4, <2>1, <2>2 DEF Request, RequestStatuses
<1>5. CASE q # work[w].q /\ ~(Mine(q, work[w].by) /\ Lapsed(q))
  BY <1>2, <1>5
<1> QED  BY <1>3, <1>4, <1>5

-----------------------------------------------------------------------------
(* Next, taken apart: the requests are left alone, or one worker writes.   *)

Write(w) == WriteCreate(w) \/ WriteReview(w) \/ UseGrant(w) \/ WriteExpired(w)
Read(w) ==
    \E q \in RequestIds, o \in Operators, op \in {"create", "approved", "rejected", "use", "expire"} :
        /\ Begin(w, op, q, o)
        /\ op \in Review => requests[q].status = "pending"
Record == Tick \/ VoidRecord \/ DeleteRecord \/ \E o \in Operators : Enter(o)

LEMMA NextSteps ==
  ASSUME TypeOK, Next
  PROVE  Record \/ \E w \in Workers : Read(w) \/ Write(w) \/ Refuse(w)
<1>1. ASSUME NEW w \in Workers, NEW q \in RequestIds, NEW o \in Operators,
             ReadCreate(w, q, o) \/ ReadGrant(w, q, o)
      PROVE  Read(w)
  BY <1>1 DEF ReadCreate, ReadGrant, Read, Review
<1>2. ASSUME NEW w \in Workers, NEW q \in RequestIds, NEW decision \in Review,
             ReadReview(w, decision, q)
      PROVE  Read(w)
  <2>1. requests[q] \in Request  BY <1>2, RequestThere DEF ReadReview
  <2>2. requests[q].by \in Operators  BY <2>1 DEF Request
  <2> QED  BY <1>2, <2>2 DEF ReadReview, Read, Review
<1>3. ASSUME NEW w \in Workers, NEW q \in RequestIds, ReadLapsed(w, q)
      PROVE  Read(w)
  <2>1. requests[q] \in Request  BY <1>3, RequestThere DEF ReadLapsed, Lapsed
  <2>2. requests[q].by \in Operators  BY <2>1 DEF Request
  <2> QED  BY <1>3, <2>2 DEF ReadLapsed, Read, Review
<1> QED  BY <1>1, <1>2, <1>3 DEF Next, Write, Record, Review

(* What a write may do to a request. *)
LEMMA WriteEffect ==
  ASSUME TypeOK, ReviewsSane, NEW w \in Workers, Write(w)
  PROVE  /\ Commit(w)
         /\ requests' \in [RequestIds -> Request \cup {NoRequest}]
         /\ \A q \in RequestIds : requests[q] # NoRequest => requests'[q] # NoRequest
<1>0. NoRequest \notin Request  BY DEF Request, NoRequest, RequestStatuses
<1>1. CASE WriteCreate(w)
  <2>1. \A q \in RequestIds :
           /\ requests'[q] \in Request \cup {NoRequest}
           /\ requests[q] # NoRequest => requests'[q] # NoRequest
    BY <1>0, <1>1, RequestCreated DEF TypeOK
  <2> QED  BY <1>1, <2>1 DEF WriteCreate
<1>2. CASE WriteReview(w)
  BY <1>0, <1>2, ReviewSettled DEF Settles
<1>3. CASE UseGrant(w) \/ WriteExpired(w)
  BY <1>0, <1>3, GrantSettled DEF Settles
<1> QED  BY <1>1, <1>2, <1>3 DEF Write

(* Every step keeps the types. *)
LEMMA TypeStep ==
  ASSUME TypeOK, ReviewsSane, [Next]_vars
  PROVE  TypeOK'
<1>1. CASE Record
  <2>1. clock' \in Times /\ clock \in Times
    BY <1>1, BoundsAssumption
       DEF Record, Tick, VoidRecord, DeleteRecord, Enter, TypeOK, Times
  <2>2. entry' \in 0 .. MaxEntries
    BY <1>1, BoundsAssumption
       DEF Record, Tick, VoidRecord, DeleteRecord, Enter, TypeOK
  <2>3. row' \in Row \cup {NoRow}
    <3>1. CASE VoidRecord
      <4>1. row \in Row  BY <3>1 DEF VoidRecord, TypeOK
      <4>2. row' = [row EXCEPT !.void = TRUE]  BY <3>1 DEF VoidRecord
      <4>3. row' \in Row  BY <4>1, <4>2 DEF Row
      <4> QED  BY <4>3
    <3>2. ASSUME NEW o \in Operators, Enter(o) PROVE row' \in Row \cup {NoRow}
      BY <2>1, <3>2 DEF Enter, Row
    <3>3. CASE Tick \/ DeleteRecord  BY <3>3 DEF Tick, DeleteRecord, TypeOK
    <3> QED  BY <1>1, <3>1, <3>2, <3>3 DEF Record
  <2>4. UNCHANGED <<requests, work, approvals, uses>>
    BY <1>1 DEF Record, Tick, VoidRecord, DeleteRecord, Enter
  <2> QED  BY <2>1, <2>2, <2>3, <2>4 DEF TypeOK
<1>2. ASSUME NEW w \in Workers, Read(w) PROVE TypeOK'
  <2>1. PICK q \in RequestIds, o \in Operators,
             op \in {"create", "approved", "rejected", "use", "expire"} : Begin(w, op, q, o)
    BY <1>2 DEF Read
  <2> QED  BY <2>1, BeginJob DEF Begin, TypeOK
<1>3. ASSUME NEW w \in Workers, Write(w) PROVE TypeOK'
  <2>1. /\ work' \in [Workers -> Work \cup {Idle}]
        /\ requests' \in [RequestIds -> Request \cup {NoRequest}]
    BY <1>3, WriteEffect, CommitOvertakes
  <2>2. approvals' \in [RequestIds -> Nat] /\ uses' \in [RequestIds -> Nat]
    BY <1>3 DEF Write, WriteCreate, WriteReview, UseGrant, WriteExpired, TypeOK
  <2>3. UNCHANGED <<row, entry, clock>>  BY <1>3, WriteEffect DEF Commit
  <2> QED  BY <2>1, <2>2, <2>3 DEF TypeOK
<1>4. ASSUME NEW w \in Workers, Refuse(w) PROVE TypeOK'
  BY <1>4 DEF Refuse, TypeOK
<1>5. CASE UNCHANGED vars  BY <1>5 DEF vars, TypeOK
<1> QED  BY <1>1, <1>2, <1>3, <1>4, <1>5, NextSteps

(* Every step leaves as many corrections as are approved. *)
LEMMA CountStep ==
  ASSUME GrantsInv, [Next]_vars
  PROVE  GrantsCounted'
<1> USE DEF GrantsInv
<1>1. ASSUME UNCHANGED <<requests, approvals, uses>> PROVE GrantsCounted'
  BY <1>1 DEF GrantsCounted
<1>2. ASSUME NEW w \in Workers, WriteCreate(w) PROVE GrantsCounted'
  <2>1. UNCHANGED <<approvals, uses>>  BY <1>2 DEF WriteCreate
  <2> SUFFICES ASSUME NEW q \in RequestIds
               PROVE  IF requests'[q].status = "approved" THEN uses[q] < approvals[q]
                      ELSE uses[q] <= approvals[q]
    BY <2>1 DEF GrantsCounted
  <2>2. uses[q] \in Nat /\ approvals[q] \in Nat  BY DEF TypeOK
  <2>3. requests'[q].status # "approved" \/ requests'[q] = requests[q]
    BY <1>2, RequestCreated
  <2> QED  BY <2>2, <2>3 DEF GrantsCounted
<1>3. ASSUME NEW w \in Workers, WriteReview(w) PROVE GrantsCounted'
  <2>1. PICK q \in RequestIds, op \in Review :
           /\ q = work[w].q /\ op = work[w].op
           /\ requests'[q].status = op
           /\ \A p \in RequestIds \ {q} : requests'[p] = requests[p]
    BY <1>3, ReviewSettled DEF Settles
  <2>2. /\ approvals' = [approvals EXCEPT ![q] = @ + (IF op = "approved" THEN 1 ELSE 0)]
        /\ uses' = uses
    BY <1>3, <2>1 DEF WriteReview
  <2> QED  BY <2>1, <2>2 DEF GrantsCounted, Review, TypeOK
<1>4. ASSUME NEW w \in Workers, UseGrant(w) PROVE GrantsCounted'
  <2>1. PICK q \in RequestIds :
           /\ q = work[w].q
           /\ requests[q].status = "approved" /\ requests'[q].status = "completed"
           /\ \A p \in RequestIds \ {q} : requests'[p] = requests[p]
    BY <1>4, GrantSettled DEF Settles
  <2>2. uses' = [uses EXCEPT ![q] = @ + 1] /\ approvals' = approvals
    BY <1>4, <2>1 DEF UseGrant
  <2> QED  BY <2>1, <2>2 DEF GrantsCounted, TypeOK
<1>5. ASSUME NEW w \in Workers, WriteExpired(w) PROVE GrantsCounted'
  <2>1. PICK q \in RequestIds :
           /\ requests[q].status = "approved" /\ requests'[q].status = "expired"
           /\ \A p \in RequestIds \ {q} : requests'[p] = requests[p]
    BY <1>5, GrantSettled DEF Settles
  <2>2. uses' = uses /\ approvals' = approvals  BY <1>5 DEF WriteExpired
  <2> QED  BY <2>1, <2>2 DEF GrantsCounted, TypeOK
<1>6. CASE Record
  BY <1>1, <1>6 DEF Record, Tick, VoidRecord, DeleteRecord, Enter
<1>7. ASSUME NEW w \in Workers, Read(w) \/ Refuse(w) PROVE GrantsCounted'
  BY <1>1, <1>7 DEF Read, Begin, Refuse
<1>8. CASE UNCHANGED vars  BY <1>1, <1>8 DEF vars
<1> QED  BY <1>2, <1>3, <1>4, <1>5, <1>6, <1>7, <1>8, NextSteps DEF Write

(* Every step leaves the reviewers with requests that are pending, or late. *)
LEMMA ReviewStep ==
  ASSUME TypeOK, ReviewsSane, [Next]_vars
  PROVE  ReviewsSane'
<1> SUFFICES ASSUME NEW v \in Workers, work'[v].op \in Review
             PROVE  /\ requests'[work'[v].q] # NoRequest
                    /\ ~work'[v].late => requests'[work'[v].q].status = "pending"
  BY DEF ReviewsSane
<1>1. ASSUME requests' = requests, work'[v] = work[v]
      PROVE  /\ requests'[work'[v].q] # NoRequest
             /\ ~work'[v].late => requests'[work'[v].q].status = "pending"
  BY <1>1 DEF ReviewsSane
<1>2. ASSUME NEW w \in Workers, Read(w)
      PROVE  /\ requests'[work'[v].q] # NoRequest
             /\ ~work'[v].late => requests'[work'[v].q].status = "pending"
  <2>1. PICK q \in RequestIds, o \in Operators,
             op \in {"create", "approved", "rejected", "use", "expire"} :
           Begin(w, op, q, o) /\ (op \in Review => requests[q].status = "pending")
    BY <1>2 DEF Read
  <2>2. requests' = requests  BY <2>1 DEF Begin
  <2>3. CASE v = w
    <3>1. requests[q].status = "pending" /\ work'[v].q = q  BY <2>1, <2>3, BeginJob
    <3> QED  BY <2>2, <3>1 DEF NoRequest
  <2>4. CASE v # w  BY <1>1, <2>1, <2>2, <2>4, BeginJob
  <2> QED  BY <2>3, <2>4
<1>3. ASSUME NEW w \in Workers, Write(w)
      PROVE  /\ requests'[work'[v].q] # NoRequest
             /\ ~work'[v].late => requests'[work'[v].q].status = "pending"
  <2>1. work[v].op = work'[v].op /\ work[v].q = work'[v].q /\ work'[v].late
    BY <1>3, WriteEffect, CommitOvertakes DEF Review
  <2>2. requests[work[v].q] # NoRequest /\ work[v].q \in RequestIds
    BY <2>1, Job DEF ReviewsSane, Review
  <2> QED  BY <1>3, <2>1, <2>2, WriteEffect
<1>4. ASSUME NEW w \in Workers, Refuse(w)
      PROVE  /\ requests'[work'[v].q] # NoRequest
             /\ ~work'[v].late => requests'[work'[v].q].status = "pending"
  <2>1. v # w  BY <1>4 DEF Refuse, Idle, Review, TypeOK
  <2> QED  BY <1>1, <1>4, <2>1 DEF Refuse, TypeOK
<1>5. CASE Record
  BY <1>1, <1>5 DEF Record, Tick, VoidRecord, DeleteRecord, Enter
<1>6. CASE UNCHANGED vars  BY <1>1, <1>6 DEF vars
<1> QED  BY <1>2, <1>3, <1>4, <1>5, <1>6, NextSteps

(* A settled request changes in the hands of a late reviewer alone. *)
LEMMA SettledByLateReview ==
  ASSUME TypeOK, ReviewsSane, [Next]_vars, NEW q \in RequestIds,
         requests[q].status \in {"completed", "expired", "rejected"}, requests'[q] # requests[q]
  PROVE  \E w \in Workers : work[w].op \in {"approved", "rejected"} /\ work[w].q = q
                            /\ work[w].late /\ work'[w] = Idle
<1>1. PICK w \in Workers : Write(w)
  BY NextSteps DEF Record, Tick, VoidRecord, DeleteRecord, Enter, Read, Begin, Refuse, vars
<1>2. ~WriteCreate(w)
  <2>1. requests[q] # NoRequest  BY DEF NoRequest
  <2> QED  BY <2>1, RequestCreated
<1>3. ~UseGrant(w) /\ ~WriteExpired(w)
  BY GrantSettled DEF Settles
<1>4. WriteReview(w)  BY <1>1, <1>2, <1>3 DEF Write
<1>5. work[w].q = q /\ work[w].op \in Review /\ Commit(w)
  BY <1>4, ReviewSettled DEF Settles
<1>6. work[w].late  BY <1>5, Job DEF ReviewsSane, Work, Review
<1>7. work'[w] = Idle  BY <1>5 DEF Commit
<1> QED  BY <1>5, <1>6, <1>7 DEF Review

-----------------------------------------------------------------------------
(* The theorems. *)

(* The invariant: types, the count of approvals against uses, and what the *)
(* reviewers hold.                                                         *)
THEOREM GrantsKept == Spec => []GrantsInv
<1>1. ASSUME Init PROVE GrantsInv
  <2>1. TypeOK  BY <1>1, BoundsAssumption DEF Init, TypeOK, Times
  <2>2. GrantsCounted  BY <1>1 DEF Init, GrantsCounted, NoRequest
  <2>3. ReviewsSane  BY <1>1 DEF Init, ReviewsSane, Idle, Review
  <2> QED  BY <2>1, <2>2, <2>3 DEF GrantsInv
<1>2. GrantsInv /\ [Next]_vars => GrantsInv'
  BY TypeStep, CountStep, ReviewStep DEF GrantsInv
<1> QED  BY <1>1, <1>2, PTL DEF Spec

(* The types. *)
THEOREM TypeCorrect == Spec => []TypeOK
<1>1. GrantsInv => TypeOK  BY DEF GrantsInv
<1> QED  BY <1>1, GrantsKept, PTL

(* However many requests race for it, an approval opens its record once.   *)
THEOREM OneUseEach == Spec => []OneCorrectionPerApproval
<1>1. GrantsInv => OneCorrectionPerApproval
  BY DEF GrantsInv, GrantsCounted, OneCorrectionPerApproval, TypeOK
<1> QED  BY <1>1, GrantsKept, PTL

(* A request once settled changes only in the hands of an overtaken        *)
(* reviewer.                                                               *)
THEOREM SettledForGood == Spec => SettledStaysSettled
<1>1. GrantsInv /\ [Next]_vars =>
        [\A q \in RequestIds :
            /\ requests[q].status \in {"completed", "expired", "rejected"}
            /\ requests'[q] # requests[q]
            => \E w \in Workers : work[w].op \in {"approved", "rejected"} /\ work[w].q = q
                                  /\ work[w].late /\ work'[w] = Idle]_vars
  BY SettledByLateReview DEF GrantsInv
<1> QED  BY <1>1, GrantsKept, PTL DEF Spec, SettledStaysSettled
===============================================================================
