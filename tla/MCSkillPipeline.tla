--------------------------- MODULE MCSkillPipeline ---------------------------
(***************************************************************************)
(* A small instance of SkillPipeline: one pattern, an agent that runs the  *)
(* correction by itself, the default pipeline, a dry run with its stages   *)
(* out of order, one in strict mode and one with a stage that is no skill. *)
(***************************************************************************)
EXTENDS SkillPipeline

CONSTANTS p, t

(* Enough for the pipeline (70), and for a contract with the defaults (80) *)
(* when the pattern has been seen before.                                  *)
MCReports == {[pattern |-> p, conf |-> 75, evidence |-> TRUE]}

(* A contract with the defaults, and one that has an expiry and asks less. *)
MCWritten == {[task |-> t, exp |-> 0, scope |-> "within", min |-> 80],
              [task |-> t, exp |-> 1, scope |-> "within", min |-> 40]}

(* An attestation written by hand, without an expiry.                      *)
MCVouched == {[task |-> t, exp |-> 0,
               of |-> [pattern |-> p, conf |-> 90, evidence |-> TRUE]]}

Single(skill) == [skill |-> skill, stages |-> << >>, execute |-> TRUE, strict |-> FALSE,
                  gate |-> 70]
Piped(stages, execute, strict) ==
    [skill |-> "pipeline", stages |-> stages, execute |-> execute, strict |-> strict,
     gate |-> 70]

MCRequests ==
    {Single("correct"),
     Piped(<<"ask", "diagnose", "correct", "converge">>, TRUE, FALSE),
     Piped(<<"converge", "correct", "diagnose">>, FALSE, FALSE),
     Piped(<<"other">>, FALSE, FALSE),
     Piped(<<"converge">>, TRUE, TRUE)}

MCAgreements == {Skills, Skills \ {"correct"}}
==============================================================================
