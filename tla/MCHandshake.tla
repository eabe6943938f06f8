---------------------------- MODULE MCHandshake ----------------------------
EXTENDS Handshake, TLC

CONSTANTS a1, a2, m1

(* No artifact, or one with a mandate.                                     *)
MCMandatesIn == [a \in Artifact |-> IF a = a2 THEN {m1} ELSE {}]

Clients == Permutations(Client)
=============================================================================
