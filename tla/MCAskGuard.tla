----------------------------- MODULE MCAskGuard -----------------------------
(* An ask beside a client of the handshake.                                *)
EXTENDS AskGuard

CONSTANTS a1, a2, m1

MCMandatesIn == [a \in Artifact |-> IF a = a2 THEN {m1} ELSE {}]
=============================================================================
