------------------------ MODULE MCGovernanceReaders ------------------------
(* A loader beside a pipeline and a deployer.                              *)
EXTENDS GovernanceReaders
=============================================================================
