-------------------------- MODULE MCComplianceLog --------------------------
(* The processes that append are interchangeable.                          *)
EXTENDS ComplianceLog, TLC

Writers == Permutations(Writer)
=============================================================================
