-------------------------- MODULE MCTelemetrySink --------------------------
(* Two processes on one file; they are interchangeable.                    *)
EXTENDS TelemetrySink, TLC

Symmetry == Permutations(Proc)
=============================================================================
