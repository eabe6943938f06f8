---------------------------- MODULE MCDeployment ----------------------------
EXTENDS Deployment

(* Once the last run has begun, the properties are only about a process    *)
(* that runs alone: without one nothing is left to check.                  *)
LastRunAlone == runs = MaxRuns => \E p \in Process : quiet[p]
=============================================================================
