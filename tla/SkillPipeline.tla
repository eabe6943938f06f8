--------------------------- MODULE SkillPipeline ---------------------------
(***************************************************************************)
(* SkillExecutor (sdd_runtime): an agent runs a skill, or sdd-pipeline,    *)
(* which runs ask, diagnose, correct and converge one after the other over *)
(* a context that each stage extends, and passes what a run returned on to *)
(* the next one.  A stage is authorised by the handshake, prepared by its  *)
(* handler, executed as commands with retries, recorded by its handler;    *)
(* gates then decide whether the pipeline goes on.  The correction gate    *)
(* decides from the context, the clock and the active rules alone, which   *)
(* all change while runs go on.  What it reads on the way (the handshake   *)
(* response, the files of rules and candidates, which other processes      *)
(* rewrite) is whatever the file holds at that moment, or does not parse.  *)
(***************************************************************************)
EXTENDS Naturals, Sequences, FiniteSets

CONSTANTS Pattern,      \* hypothesis and root cause of a diagnosis
          Task,         \* ids that agents give their tasks
          Reports,      \* diagnosis reports an agent may write
          Written,      \* contracts it may write
          Vouched,      \* attestations it may write itself
          Requests,     \* what it may ask for
          Agreements,   \* skills a handshake may declare
          TTL,          \* of contracts and attestations
          MaxTime,      \* bound: the clock
          MaxRuns,      \* bound: runs
          None          \* a part of the context that is missing

VARIABLES context,      \* what the agent passes to its next run
          carrier,      \* the snapshot the running stage was given
          made,         \* carrier with the artifacts of that stage
          run,          \* where the executor is
          result,       \* of the run that has just returned
          ledger,       \* rows of each pattern, as far as they count
          active,       \* patterns with an active rule
          clock, runs,
          diagnosed,    \* ghost: the diagnoses made so far
          vouched,      \* ghost: the attestation of this context is the agent's own
          frozen,       \* ghost: the last converge that returned asked for a freeze
          finished,     \* ghost: stages of this run that went through
          attempts      \* ghost: executions of the current command

world  == <<active, clock>>
ghosts == <<diagnosed, vouched, frozen, finished, attempts>>
vars   == <<context, carrier, made, run, result, ledger, runs, world, ghosts>>

Stages == {"ask", "diagnose", "correct", "converge"}
Skills == Stages \cup {"pipeline"}

(* Percent; of a contract that names no other.                             *)
min_diagnosis_confidence == 80
cli_fallback == 2       \* commands of a skill
max_retries == 1
similar_limit == 5

(* A contract names its task, its expiry, its scope and the confidence it  *)
(* asks of a diagnosis; 0 stands for a task or an expiry it does not name, *)
(* which whoever completes it with the defaults makes up.  An attestation  *)
(* of an agent may lack its expiry (0) too.  Numbers are the ids that ask  *)
(* made up, 0 the one that nobody makes up again.                          *)
Tasks        == Task \cup 0 .. MaxRuns
Instants     == 0 .. MaxTime + TTL
Contracts    == [task : Tasks, exp : Instants, scope : {"none", "within", "beyond"},
                 min : 0 .. 100]
Diagnoses    == [pattern : Pattern \cup {None}, conf : 0 .. 100, evidence : BOOLEAN]
Attestations == [task : Tasks, exp : Instants, of : Diagnoses]
Contexts     == [contract : Contracts \cup {None}, report : Diagnoses \cup {None},
                 attestation : Attestations \cup {None}, freeze : BOOLEAN,
                 aligned : BOOLEAN]

ASSUME PipelineAssumption ==
    /\ TTL \in Nat \ {0} /\ {MaxTime, MaxRuns} \subseteq Nat
    /\ None \notin Pattern /\ Task \cap 0 .. MaxRuns = {}
    /\ Reports \subseteq Diagnoses
    /\ Written \subseteq Contracts /\ Vouched \subseteq Attestations
    /\ \A r \in Requests :
           /\ r.skill \in Skills /\ {r.execute, r.strict} \subseteq BOOLEAN
           /\ r.gate \in 0 .. 100
           /\ r.stages \in Seq(Stages \cup {"other"})
           /\ r.skill = "pipeline" => r.stages # << >>
    /\ Agreements \subseteq SUBSET Skills

Phases   == {"idle", "compose", "authorise", "pre_run", "command", "post_run", "gates"}
Policies == {"executed", "planned", "timeout", "escalated", "denied", "blocked",
             "invalid_pipeline", "raised"}
Codes    == {0, 1, 2, 124}

(* The types of the state, and where in a run each part of it is in use.   *)
TypeOK ==
    /\ {context, carrier, made} \subseteq Contexts
    /\ run.phase \in Phases
    /\ run.phase # "idle" =>
           /\ run.request \in Requests /\ run.policy \in Policies /\ run.code \in Codes
           /\ run.next \in 1 .. Len(run.request.stages) + 1
           /\ run.command \in 1 .. cli_fallback /\ run.attempt \in 0 .. max_retries
    /\ result.policy \in Policies \cup {"none"} /\ result.code \in Codes
    /\ ledger \in [Pattern -> 0 .. similar_limit]
    /\ active \subseteq Pattern
    /\ clock \in 0 .. MaxTime /\ runs \in 0 .. MaxRuns
    /\ diagnosed \subseteq [task : Tasks, at : 0 .. MaxTime, of : Diagnoses]
    /\ {vouched, frozen} \subseteq BOOLEAN /\ finished \in Nat /\ attempts \in 0 .. max_retries + 1

Empty == [contract |-> None, report |-> None, attestation |-> None,
          freeze |-> FALSE, aligned |-> FALSE]
Rest  == [phase |-> "idle"]
Unknown == [policy |-> "none", code |-> 0]

Init ==
    /\ context = Empty /\ carrier = Empty /\ made = Empty
    /\ run = Rest /\ result = Unknown
    /\ ledger = [pattern \in Pattern |-> 0]
    /\ active = {} /\ clock = 0 /\ runs = 0
    /\ diagnosed = {} /\ vouched = FALSE /\ frozen = FALSE
    /\ finished = 0 /\ attempts = 0

-----------------------------------------------------------------------------
(* The agent may run a skill on any context.  Each part of it is missing,  *)
(* what the last run returned, or written by the agent, who knows the ids  *)
(* made up so far.                                                         *)
Given ==
    \E contract \in Written \cup {context.contract, None},
       report \in Reports \cup {context.report, None},
       attestation \in Vouched \cup {context.attestation, None},
       freeze, aligned \in BOOLEAN :
        /\ contract # None => contract.task \in Task \cup 0 .. runs
        /\ attestation # None => attestation.task \in Task \cup 0 .. runs
        /\ context' = [contract |-> contract, report |-> report,
                       attestation |-> attestation, freeze |-> freeze,
                       aligned |-> aligned]

run_skill(request) ==
    /\ run = Rest /\ runs < MaxRuns
    /\ Given
    /\ carrier' = context' /\ made' = context'
    /\ run' = [phase |-> IF request.skill = "pipeline" THEN "compose" ELSE "authorise",
               request |-> request, next |-> 1, command |-> 1, attempt |-> 0,
               policy |-> "planned", code |-> 0]
    /\ result' = Unknown /\ runs' = runs + 1
    /\ vouched' = /\ context'.attestation # None
                  /\ context'.attestation = context.attestation => vouched
    /\ frozen' = (frozen /\ context'.freeze = context.freeze)
    /\ finished' = 0 /\ attempts' = 0
    /\ UNCHANGED <<ledger, world, diagnosed>>

InPipeline == run.request.skill = "pipeline"
stage == IF InPipeline THEN run.request.stages[run.next] ELSE run.request.skill

Stay == UNCHANGED <<context, carrier, made, result>>
Goto(phase) == run' = [run EXCEPT !.phase = phase]

(* A run returns, and its artifacts join what the agent has.               *)
Return(policy, code, artifacts) ==
    /\ run' = Rest /\ result' = [policy |-> policy, code |-> code]
    /\ context' = artifacts /\ carrier' = Empty /\ made' = Empty

(* A stage returns: to the agent, or to the gates of the pipeline.         *)
StageReturn(policy, code, artifacts) ==
    IF InPipeline
    THEN /\ run' = [run EXCEPT !.phase = "gates", !.policy = policy, !.code = code]
         /\ made' = artifacts
         /\ UNCHANGED <<context, carrier, result>>
    ELSE Return(policy, code, artifacts)

(* An exception of a handler goes through run_skill to the agent.          *)
Raise == Return("raised", 1, context)

(* evaluate_skill_policy reads the handshake response for every skill and  *)
(* stage anew; of the stages, only converge is a high risk.                *)
Authorised(skill, declared) ==
    skill \in declared /\ ~(run.request.strict /\ skill = "converge")

(* The pipeline is a skill too; its handler checks the names of the stages *)
(* and nothing about their order.                                          *)
Compose(declared) ==
    /\ run.phase = "compose"
    /\ IF ~Authorised("pipeline", declared) THEN Return("blocked", 1, context)
       ELSE IF "other" \in {run.request.stages[i] : i \in DOMAIN run.request.stages}
       THEN Return("invalid_pipeline", 1, context)
       ELSE Goto("authorise") /\ Stay
    /\ UNCHANGED <<ledger, runs, world, ghosts>>

Authorise(declared) ==
    /\ run.phase = "authorise"
    /\ IF Authorised(stage, declared) THEN Goto("pre_run") /\ Stay
       ELSE StageReturn("blocked", 1, carrier)
    /\ UNCHANGED <<ledger, runs, world, ghosts>>

-----------------------------------------------------------------------------
(* pre_run of each stage's handler, and what it adds to the context.       *)
Prepared(artifacts) ==
    /\ Goto(IF run.request.execute THEN "command" ELSE "post_run")
    /\ made' = artifacts
    /\ UNCHANGED <<context, carrier, result>>

_build_execution_contract(id) ==
    LET given == IF carrier.contract # None THEN carrier.contract
                 ELSE [task |-> 0, exp |-> 0, scope |-> "none",
                       min |-> min_diagnosis_confidence]
    IN [given EXCEPT !.task = IF @ = 0 THEN id ELSE @,
                     !.exp = IF @ = 0 THEN clock + TTL ELSE @]

AskPreRun(torn) ==
    /\ run.phase = "pre_run" /\ stage = "ask"
    /\ IF torn \cap {"ledger", "registry"} # {} THEN Raise
       ELSE Prepared([carrier EXCEPT !.contract = _build_execution_contract(runs)])
    /\ UNCHANGED <<ledger, runs, world, ghosts>>

(* Mutant: confidence without its ceiling. *)
CalibratedUncapped ==
    IF carrier.report = None THEN [pattern |-> None, conf |-> 0, evidence |-> FALSE]
    ELSE [carrier.report EXCEPT
             !.conf = IF carrier.report.pattern = None THEN @
                      ELSE @ + (@ * ledger[carrier.report.pattern]) \div 5]

(* The report of the agent, its confidence raised by a fifth for every row *)
(* of the same pattern.                                                    *)
Calibrated ==
    IF carrier.report = None THEN [pattern |-> None, conf |-> 0, evidence |-> FALSE]
    ELSE [carrier.report EXCEPT
             !.conf = IF carrier.report.pattern = None THEN @
                      ELSE LET raised == @ + (@ * ledger[carrier.report.pattern]) \div 5
                           IN IF raised > 100 THEN 100 ELSE raised]

(* An attestation the context holds stands, whoever wrote it; only the     *)
(* expiry it lacks is filled in.                                           *)
_build_diagnosis_attestation ==
    LET given == IF carrier.attestation # None THEN carrier.attestation
                 ELSE [task |-> _build_execution_contract(0).task, exp |-> 0,
                       of |-> Calibrated]
    IN [given EXCEPT !.exp = IF @ = 0 THEN clock + TTL ELSE @]

DiagnosePreRun(torn) ==
    /\ run.phase = "pre_run" /\ stage = "diagnose"
    /\ IF "ledger" \in torn /\ Calibrated.pattern # None
       THEN Raise /\ UNCHANGED diagnosed
       ELSE /\ Prepared([carrier EXCEPT !.report = Calibrated,
                                        !.attestation = _build_diagnosis_attestation])
            /\ diagnosed' = diagnosed \cup
                   {[task |-> _build_execution_contract(0).task, at |-> clock,
                     of |-> Calibrated]}
    /\ UNCHANGED <<ledger, runs, world, vouched, frozen, finished, attempts>>

Sound(diagnosis, contract) == diagnosis.evidence /\ diagnosis.conf >= contract.min

(* Mutant: an attestation still counts at the instant it expires. *)
GateOffByOne ==
    LET contract == _build_execution_contract(0)
        attested == carrier.attestation
    IN  IF carrier.freeze THEN "deny"
        ELSE IF attested = None THEN "escalate"
        ELSE IF contract.task = 0 \/ attested.task # contract.task THEN "deny"
        ELSE IF contract.exp <= clock \/ (attested.exp # 0 /\ attested.exp < clock) THEN "deny"
        ELSE IF ~Sound(attested.of, contract) THEN "escalate"
        ELSE IF contract.scope # "within" \/ attested.of.pattern \in active THEN "deny"
        ELSE "allow"

(* _evaluate_correction_gate: the first of the default rules that fires.   *)
(* An attestation without an expiry does not expire here.                  *)
Gate ==
    LET contract == _build_execution_contract(0)
        attested == carrier.attestation
    IN  IF carrier.freeze THEN "deny"
        ELSE IF attested = None THEN "escalate"
        ELSE IF contract.task = 0 \/ attested.task # contract.task THEN "deny"
        ELSE IF contract.exp <= clock \/ attested.exp \in 1 .. clock THEN "deny"
        ELSE IF ~Sound(attested.of, contract) THEN "escalate"
        ELSE IF contract.scope # "within" \/ attested.of.pattern \in active THEN "deny"
        ELSE "allow"

CorrectPreRun(torn) ==
    /\ run.phase = "pre_run" /\ stage = "correct"
    /\ IF "gate-rules" \in torn THEN StageReturn("denied", 1, carrier)
       ELSE IF "registry" \in torn THEN Raise
       ELSE IF Gate = "allow" THEN Prepared(carrier)
       ELSE StageReturn(IF Gate = "deny" THEN "denied" ELSE "escalated", 1, carrier)
    /\ UNCHANGED <<ledger, runs, world, ghosts>>

ConvergePreRun ==
    /\ run.phase = "pre_run" /\ stage = "converge"
    /\ Prepared(carrier)
    /\ UNCHANGED <<ledger, runs, world, ghosts>>

-----------------------------------------------------------------------------
(* Mutant: every skill retries what looks transient. *)
retry_any(outcome) == outcome \in {"transient", "timeout"}

(* One attempt at one command: it succeeds, fails, fails with a message    *)
(* that looks transient, or runs into its timeout.                         *)
can_retry(outcome) == stage = "diagnose" /\ outcome \in {"transient", "timeout"}

Retried(outcome) == run.attempt < max_retries /\ can_retry(outcome)

(* Mutant: a retry starts over with the first command and a fresh count. *)
CommandRestarts(outcome) ==
    /\ run.phase = "command"
    /\ run' = IF outcome = "ok" /\ run.command < cli_fallback
              THEN [run EXCEPT !.command = @ + 1, !.attempt = 0]
              ELSE IF outcome # "ok" /\ Retried(outcome)
              THEN [run EXCEPT !.command = 1, !.attempt = IF run.command = 1 THEN 1 ELSE 0]
              ELSE [run EXCEPT !.phase = "post_run",
                               !.code = CASE outcome = "ok" -> 0
                                          [] outcome = "timeout" -> 124
                                          [] OTHER -> 1]
    /\ attempts' = IF run.attempt = 0 THEN 1 ELSE 2
    /\ Stay /\ UNCHANGED <<ledger, runs, world, diagnosed, vouched, frozen,
                         finished>>

Command(outcome) ==
    /\ run.phase = "command"
    /\ run' = IF outcome = "ok" /\ run.command < cli_fallback
              THEN [run EXCEPT !.command = @ + 1, !.attempt = 0]
              ELSE IF outcome # "ok" /\ Retried(outcome)
              THEN [run EXCEPT !.attempt = @ + 1]
              ELSE [run EXCEPT !.phase = "post_run",
                               !.code = CASE outcome = "ok" -> 0
                                          [] outcome = "timeout" -> 124
                                          [] OTHER -> 1]
    /\ attempts' = IF run.attempt = 0 THEN 1 ELSE attempts + 1
    /\ Stay /\ UNCHANGED <<ledger, runs, world, diagnosed, vouched, frozen,
                         finished>>

-----------------------------------------------------------------------------
(* post_run, in a dry run too: a row of the ledger, the rule candidates of *)
(* a correction, the freeze of a convergence.                              *)
append_failure(report) ==
    IF report = None \/ report.pattern = None THEN ledger
    ELSE [ledger EXCEPT ![report.pattern] = IF @ < similar_limit THEN @ + 1 ELSE @]

_classify_execution_outcome ==
    IF ~run.request.execute THEN "planned"
    ELSE IF run.code = 124 THEN "timeout" ELSE "executed"

(* decision_gates: 0.70 unless the context of the pipeline says otherwise. *)
diagnose_to_correct_min_confidence == run.request.gate

Confidence(artifacts) == IF artifacts.report = None THEN 0 ELSE artifacts.report.conf

GoesThrough(artifacts) ==
    /\ run.code = 0
    /\ InPipeline =>
           /\ stage = "converge" => ~artifacts.freeze
           /\ stage = "diagnose" => Confidence(artifacts) >= diagnose_to_correct_min_confidence

PostRun(artifacts) ==
    /\ StageReturn(_classify_execution_outcome, run.code, artifacts)
    /\ finished' = IF GoesThrough(artifacts) THEN finished + 1 ELSE finished
    /\ attempts' = 0
    /\ UNCHANGED <<runs, clock, diagnosed, vouched>>

AskPostRun ==
    /\ run.phase = "post_run" /\ stage = "ask"
    /\ PostRun(made) /\ UNCHANGED <<ledger, active, frozen>>

DiagnosePostRun ==
    /\ run.phase = "post_run" /\ stage = "diagnose"
    /\ PostRun(made) /\ ledger' = append_failure(made.report)
    /\ UNCHANGED <<active, frozen>>

(* A post_run that raises: its run has not finished anything.              *)
PostRunRaises ==
    Raise /\ attempts' = 0 /\ UNCHANGED <<runs, clock, diagnosed, vouched, frozen, finished>>

CorrectPostRun(torn) ==
    /\ run.phase = "post_run" /\ stage = "correct"
    /\ ledger' = append_failure(carrier.report)
    /\ IF torn \cap {"ledger", "candidates"} # {} THEN PostRunRaises
       ELSE PostRun(made) /\ UNCHANGED frozen
    /\ UNCHANGED active

(* Mutant: a convergence whose commands failed reports no freeze. *)
ConvergePostRunIfOk(raises, decided, retired) ==
    /\ run.phase = "post_run" /\ stage = "converge"
    /\ active' = (active \cup decided) \ retired
    /\ IF raises THEN retired = {} /\ PostRunRaises
       ELSE /\ PostRun(IF run.code = 0 THEN [made EXCEPT !.freeze = ~carrier.aligned]
                       ELSE made)
            /\ frozen' = ~carrier.aligned
    /\ UNCHANGED ledger

(* The freeze is decided first.  A rule_decision of the context may then   *)
(* approve a candidate, and a rule_impact roll a rule back.  Either raises *)
(* when the candidates or the registry do not parse, or when one of its    *)
(* values is no number: the freeze, decided already, is then lost, though  *)
(* a rule approved before stays.                                           *)
ConvergePostRun(raises, decided, retired) ==
    /\ run.phase = "post_run" /\ stage = "converge"
    /\ active' = (active \cup decided) \ retired
    /\ IF raises THEN retired = {} /\ PostRunRaises
       ELSE /\ PostRun([made EXCEPT !.freeze = ~carrier.aligned])
            /\ frozen' = ~carrier.aligned
    /\ UNCHANGED ledger

-----------------------------------------------------------------------------
(* The gates after a stage of the pipeline, in the order they are asked:   *)
(* the confidence of a diagnosis, the freeze of a convergence, a timeout,  *)
(* any other failure.                                                      *)
LowConfidence ==
    /\ stage = "diagnose"
    /\ Confidence(made) < diagnose_to_correct_min_confidence

(* Mutant: the pipeline goes on after a stage that failed. *)
VerdictWithoutFailure ==
    IF LowConfidence THEN <<"escalated", 1>>
    ELSE IF stage = "converge" /\ made.freeze THEN <<"escalated", 2>>
    ELSE IF run.code = 124 THEN <<"escalated", 124>>
    ELSE << >>

Verdict ==
    IF LowConfidence THEN <<"escalated", 1>>
    ELSE IF stage = "converge" /\ made.freeze THEN <<"escalated", 2>>
    ELSE IF run.code = 124 THEN <<"escalated", 124>>
    ELSE IF run.code # 0 THEN <<run.policy, run.code>>
    ELSE << >>

(* The pipeline stops, ends, or gives its next stage a snapshot of what    *)
(* the stages so far have made.                                            *)
Gates ==
    /\ run.phase = "gates"
    /\ \/ /\ Verdict # << >>
          /\ Return(Verdict[1], Verdict[2], made)
       \/ /\ Verdict = << >> /\ run.next = Len(run.request.stages)
          /\ Return(IF run.request.execute THEN "executed" ELSE "planned", 0, made)
       \/ /\ Verdict = << >> /\ run.next < Len(run.request.stages)
          /\ run' = [run EXCEPT !.phase = "authorise", !.next = @ + 1, !.command = 1,
                                !.attempt = 0, !.policy = "planned", !.code = 0]
          /\ carrier' = made
          /\ UNCHANGED <<context, made, result>>
    /\ UNCHANGED <<ledger, runs, world, ghosts>>

-----------------------------------------------------------------------------
(* Meanwhile: time, and humans who approve and retire rules.               *)
agent == <<context, carrier, made, run, result, ledger, runs, ghosts>>

Tick == clock < MaxTime /\ clock' = clock + 1 /\ UNCHANGED <<agent, active>>

DecideRule(pattern) ==
    /\ active' = IF pattern \in active THEN active \ {pattern} ELSE active \cup {pattern}
    /\ UNCHANGED <<agent, clock>>

Torn == {{}} \cup {{file} : file \in {"gate-rules", "ledger", "registry", "candidates"}}
Some == {{}} \cup {{pattern} : pattern \in Pattern}

Execute ==
    \/ \E declared \in Agreements : Compose(declared) \/ Authorise(declared)
    \/ \E torn \in Torn : \/ AskPreRun(torn) \/ DiagnosePreRun(torn)
                     \/ CorrectPreRun(torn) \/ CorrectPostRun(torn)
    \/ ConvergePreRun
    \/ \E outcome \in {"ok", "failed", "transient", "timeout"} : Command(outcome)
    \/ AskPostRun \/ DiagnosePostRun
    \/ \E raises \in BOOLEAN, decided, retired \in Some :
           ConvergePostRun(raises, decided, retired)
    \/ Gates

Next ==
    \/ \E request \in Requests : run_skill(request)
    \/ Execute
    \/ Tick
    \/ \E pattern \in Pattern : DecideRule(pattern)

(* A command ends, by itself or at its timeout, and the executor goes on.  *)
Spec == Init /\ [][Next]_vars /\ WF_vars(Execute)

-----------------------------------------------------------------------------
(* The gate lets a correction through: to its commands, or in a dry run to *)
(* its report.                                                             *)
LetThrough ==
    run.phase = "pre_run" /\ stage = "correct" /\ run'.phase \in {"command", "post_run"}

(* The task is that of the contract, the contract's own confidence is      *)
(* reached, and no active rule blocks the pattern.                         *)
Warrants(task, diagnosis) ==
    /\ task = carrier.contract.task
    /\ Sound(diagnosis, carrier.contract) /\ diagnosis.pattern \notin active

(* The contract has not run out, and unless the agent wrote its            *)
(* attestation itself, a diagnosis that warrants the correction was made   *)
(* for this task, not longer ago than an attestation lasts.                *)
Covering ==
    /\ carrier.contract # None
    /\ carrier.contract.exp = 0 \/ clock < carrier.contract.exp
    /\ IF vouched
       THEN /\ Warrants(carrier.attestation.task, carrier.attestation.of)
            /\ carrier.attestation.exp = 0 \/ clock < carrier.attestation.exp
       ELSE \E d \in diagnosed : Warrants(d.task, d.of) /\ clock < d.at + TTL

(* A correction is let through only under a contract that has not run out, *)
(* on a diagnosis with evidence and the confidence this contract asks for, *)
(* of a pattern that no active rule blocks.  Where an agent attests its    *)
(* own diagnosis, the attestation must say all that and not have expired;  *)
(* in every other case the executor has made such a diagnosis within the   *)
(* life of an attestation.  That holds whatever the agent carried over,    *)
(* left out or wrote between its runs, in any order of the stages, and     *)
(* however rules and clock moved meanwhile.                                *)
CorrectionIsCovered == [][LetThrough => Covering]_vars

(* After a converge that returned with a freeze, no correction starts on   *)
(* that context until another one that returned lifts it, or the agent     *)
(* leaves it out.  A converge that raises loses the freeze it decided on,  *)
(* and does not lift the one there was.                                    *)
FreezeHolds == [][LetThrough => ~frozen]_vars

(* A run that returns 0 went through every stage it was asked for: none    *)
(* was refused, failed, timed out, stayed below the confidence the         *)
(* pipeline asks for, or froze.                                            *)
OkMeansEveryStage ==
    [][run # Rest /\ run' = Rest /\ result'.code = 0 =>
           finished' = IF InPipeline THEN Len(run.request.stages) ELSE 1]_vars

(* Only the commands of diagnose are ever executed again: those of the     *)
(* others change the project, and a second execution would change it twice.*)
OnlyDiagnoseRepeats == run # Rest /\ attempts > 1 => stage = "diagnose"

(* Every run returns, through any number of refusals, retries and raised   *)
(* exceptions.                                                             *)
RunEnds == run # Rest ~> run = Rest
=============================================================================
