----------------------------- MODULE DataCustody -----------------------------
(***************************************************************************)
(* What the production scripts promise about the business data, whatever   *)
(* they are doing when they die: data is recorded only while the           *)
(* application serves, and the database is replaced only by data recorded  *)
(* before and only after it was put aside whole.  Its tables change form,  *)
(* and it is replaced, only while the application does not serve, or when  *)
(* a replacement goes on before one that it has failed to stop; that one   *)
(* may make an empty database where none is.  Deployment is shown to       *)
(* implement this.                                                         *)
(***************************************************************************)
CONSTANTS Records, Schemas

VARIABLES
    serving,   \* the application answers requests
    unstopped, \* and is being worked behind nevertheless
    database,  \* the records and the form of the production database
    aside,     \* the data put aside for good
    saved      \* every record ever acknowledged

vars == <<serving, unstopped, database, aside, saved>>

Missing == [missing |-> TRUE]

Init ==
    /\ serving \in BOOLEAN
    /\ unstopped = FALSE
    /\ \E s \in Schemas : database = [data |-> {}, schema |-> s]
    /\ aside = {}
    /\ saved = {}

Switch ==
    /\ ~unstopped
    /\ serving' = ~serving
    /\ UNCHANGED <<unstopped, database, aside, saved>>

(* A replacement goes on although its stop has failed, or is over. *)
Override ==
    /\ serving
    /\ unstopped' = ~unstopped
    /\ UNCHANGED <<serving, database, aside, saved>>

Record(n) ==
    /\ serving /\ database # Missing
    /\ database' = [database EXCEPT !.data = @ \cup {n}]
    /\ saved' = saved \cup {n}
    /\ UNCHANGED <<serving, unstopped, aside>>

Recreate ==
    /\ serving /\ database = Missing
    /\ \E s \in Schemas : database' = [data |-> {}, schema |-> s]
    /\ UNCHANGED <<serving, unstopped, aside, saved>>

Convert ==
    /\ ~serving \/ unstopped
    /\ database # Missing
    /\ \E s \in Schemas : database' = [database EXCEPT !.schema = s]
    /\ unstopped' \in {unstopped, FALSE}
    /\ UNCHANGED <<serving, aside, saved>>

PutAside ==
    /\ ~serving \/ unstopped
    /\ database # Missing
    /\ aside' = aside \cup {database.data}
    /\ database' = Missing
    /\ UNCHANGED <<serving, unstopped, saved>>

Install ==
    /\ ~serving \/ unstopped
    /\ database = Missing \/ database.data = {}
    /\ \E data \in SUBSET saved, s \in Schemas : database' = [data |-> data, schema |-> s]
    /\ UNCHANGED <<serving, unstopped, aside, saved>>

Next ==
    \/ Switch \/ Override \/ Recreate \/ Convert \/ PutAside \/ Install
    \/ \E n \in Records : Record(n)

Spec == Init /\ [][Next]_vars

-----------------------------------------------------------------------------

(* No record is ever lost: it is in the database or in one put aside. *)
NothingIsLost ==
    \A n \in saved : (database # Missing /\ n \in database.data) \/ \E data \in aside : n \in data
===============================================================================
