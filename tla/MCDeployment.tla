------------------------------ MODULE MCDeployment ------------------------------
(* Instances of Deployment for TLC. *)
EXTENDS Deployment

CONSTANTS n1

MCRecords == {n1}
================================================================================
