------------------------- MODULE SkillPipelineProofs -------------------------
(***************************************************************************)
(* Proofs about SkillPipeline, for any patterns, reports, requests and     *)
(* bounds: its types, that only diagnose repeats a command, that every     *)
(* correction is covered by a diagnosis, that a freeze holds, and that a   *)
(* run that returns 0 went through every stage.                            *)
(***************************************************************************)
EXTENDS SkillPipeline, SequenceTheorems, TLAPS

Running == [phase : Phases \ {"idle"}, request : Requests, next : Nat \ {0},
            command : 1 .. cli_fallback, attempt : 0 .. max_retries,
            policy : Policies, code : Codes]

Others ==
    /\ ledger \in [Pattern -> 0 .. similar_limit]
    /\ active \subseteq Pattern
    /\ clock \in 0 .. MaxTime /\ runs \in 0 .. MaxRuns
    /\ diagnosed \subseteq [task : Tasks, at : 0 .. MaxTime, of : Diagnoses]
    /\ vouched \in BOOLEAN /\ frozen \in BOOLEAN /\ finished \in Nat /\ attempts \in 0 .. max_retries + 1

(* TypeOK, with run as the record it is while something runs.              *)
Shape ==
    /\ context \in Contexts /\ carrier \in Contexts /\ made \in Contexts
    /\ run = Rest \/ run \in Running
    /\ result.policy \in Policies \cup {"none"} /\ result.code \in Codes
    /\ Others

(* The pipeline stays within the stages it was asked for; a run of one     *)
(* skill has one stage.                                                    *)
Within ==
    run # Rest =>
        /\ runs >= 1
        /\ InPipeline => run.next <= Len(run.request.stages)
        /\ ~InPipeline => run.next = 1 /\ run.phase \notin {"compose", "gates"}

(* Only diagnose counts attempts, and only between pre_run and post_run.   *)
Tries ==
    run # Rest =>
        /\ run.attempt > 0 \/ attempts > 1 => stage = "diagnose"
        /\ run.phase \in {"compose", "authorise", "pre_run"} => run.attempt = 0
        /\ run.phase \notin {"command", "post_run"} => attempts = 0
        /\ run.phase = "command" /\ run.attempt > 0 => attempts = run.attempt

(* An attestation goes back to one of the diagnoses, made for its task and *)
(* not longer ago than its expiry says.                                    *)
Covered(attested, diagnoses) ==
    /\ attested.exp # 0
    /\ \E d \in diagnoses : /\ d.task = attested.task /\ d.of = attested.of
                            /\ attested.exp <= d.at + TTL

(* What a context says is true: unless the agent wrote it, its attestation *)
(* is covered.                                                             *)
Honest(c, diagnoses, own) ==
    own \/ c.attestation = None \/ Covered(c.attestation, diagnoses)

(* Where the freeze is while it lasts: in every snapshot, except that the  *)
(* converge that asked for it has just made it and hands it to its gates.  *)
FreezeKept ==
    frozen =>
        /\ run = Rest => context.freeze
        /\ run # Rest =>
               /\ made.freeze
               /\ \/ context.freeze /\ carrier.freeze
                  \/ InPipeline /\ run.phase = "gates" /\ stage = "converge"

(* The gates find nothing to stop the pipeline for.                        *)
Passing ==
    /\ run.code = 0
    /\ ~LowConfidence
    /\ ~(stage = "converge" /\ made.freeze)

(* The stages that went through so far, the current one included once it   *)
(* is at its gates and they will let it pass.                              *)
Counted ==
    run # Rest =>
        /\ run.phase = "gates" /\ Passing => finished = run.next
        /\ run.phase # "gates" => finished = run.next - 1

AllHonest == /\ Honest(context, diagnosed, vouched)
             /\ Honest(carrier, diagnosed, vouched)
             /\ Honest(made, diagnosed, vouched)

SInv == Shape /\ Within /\ Tries /\ AllHonest /\ FreezeKept /\ Counted

LEMMA SInvType == SInv => TypeOK
  <1> SUFFICES ASSUME SInv PROVE TypeOK
    OBVIOUS
  <1>1. run.phase \in Phases
    BY DEF SInv, Shape, Running, Rest, Phases
  <1>2. ASSUME run.phase # "idle"
        PROVE  /\ run.request \in Requests /\ run.policy \in Policies /\ run.code \in Codes
               /\ run.next \in 1 .. Len(run.request.stages) + 1
               /\ run.command \in 1 .. cli_fallback /\ run.attempt \in 0 .. max_retries
    <2>1. run \in Running /\ run # Rest
      BY <1>2 DEF SInv, Shape, Rest, Running
    <2>2. run.request.stages \in Seq(Stages \cup {"other"}) /\ run.next \in Nat \ {0}
      BY <2>1, PipelineAssumption DEF Running
    <2>3. run.next <= Len(run.request.stages) + 1 /\ Len(run.request.stages) \in Nat
      BY <2>1, <2>2, LenProperties DEF SInv, Within
    <2> QED BY <2>1, <2>2, <2>3 DEF Running
  <1> QED BY <1>1, <1>2 DEF SInv, Shape, Others, TypeOK

LEMMA Numbers ==
  /\ TTL \in Nat /\ TTL >= 1 /\ MaxTime \in Nat /\ MaxRuns \in Nat
  /\ cli_fallback = 2 /\ max_retries = 1 /\ similar_limit = 5
  BY PipelineAssumption DEF cli_fallback, max_retries, similar_limit

(* The executor at work on a stage.                                        *)
LEMMA AtWork ==
  ASSUME SInv, run.phase # "idle"
  PROVE  /\ run \in Running /\ run # Rest
         /\ run.phase \in Phases \ {"idle"} /\ run.request \in Requests
         /\ run.next \in Nat \ {0} /\ run.command \in 1 .. 2 /\ run.attempt \in 0 .. 1
         /\ run.policy \in Policies /\ run.code \in Codes
         /\ runs \in 1 .. MaxRuns
         /\ Len(run.request.stages) \in Nat
  <1>1. run \in Running /\ run # Rest
    BY DEF SInv, Shape, Rest, Running
  <1>2. run.request.stages \in Seq(Stages \cup {"other"})
    BY <1>1, PipelineAssumption DEF Running
  <1> QED
    BY <1>1, <1>2, LenProperties, Numbers DEF Running, SInv, Within, Shape, Others

LEMMA ContextFields ==
  ASSUME NEW c \in Contexts
  PROVE  /\ c.contract \in Contracts \cup {None} /\ c.report \in Diagnoses \cup {None}
         /\ c.attestation \in Attestations \cup {None}
         /\ c.freeze \in BOOLEAN /\ c.aligned \in BOOLEAN
  BY DEF Contexts

LEMMA EmptyContext == Empty \in Contexts /\ \A ds, own : Honest(Empty, ds, own)
  BY DEF Empty, Contexts, Honest

(* A context stays honest as diagnoses are added.                          *)
LEMMA HonestStays ==
  ASSUME NEW c, NEW ds, NEW es, NEW own, ds \subseteq es, Honest(c, ds, own)
  PROVE  Honest(c, es, own)
  BY DEF Honest, Covered

LEMMA Fifth ==
  \A c \in 0 .. 100, n \in 0 .. 5 : c + (c * n) \div 5 \in Nat
  <1> SUFFICES ASSUME NEW c \in 0 .. 100, NEW n \in 0 .. 5
               PROVE  c + (c * n) \div 5 \in Nat
    OBVIOUS
  <1>1. n = 0 \/ n = 1 \/ n = 2 \/ n = 3 \/ n = 4 \/ n = 5
    OBVIOUS
  <1> QED BY <1>1

(* Calibration makes a diagnosis of what the agent reported.               *)
LEMMA CalibratedOK ==
  ASSUME SInv
  PROVE  Calibrated \in Diagnoses
  <1>1. CASE carrier.report = None
    BY <1>1 DEF Calibrated, Diagnoses
  <1>2. CASE carrier.report # None
    <2>1. carrier.report \in Diagnoses
      BY <1>2, ContextFields DEF SInv, Shape
    <2> DEFINE r == carrier.report
               raised == r.conf + (r.conf * ledger[r.pattern]) \div 5
               value == IF r.pattern = None THEN r.conf
                        ELSE IF raised > 100 THEN 100 ELSE raised
    <2>2. Calibrated = [r EXCEPT !.conf = value]
      BY <1>2 DEF Calibrated
    <2>3. r.conf \in 0 .. 100 /\ r.pattern \in Pattern \cup {None}
      BY <2>1 DEF Diagnoses
    <2>4. r.pattern # None => raised \in Nat
      <3>1. r.pattern # None => ledger[r.pattern] \in 0 .. 5
        BY <2>3 DEF SInv, Shape, Others, similar_limit
      <3> QED BY <2>3, <3>1, Fifth
    <2>5. value \in 0 .. 100
      BY <2>3, <2>4
    <2> HIDE DEF value
    <2> QED BY <2>1, <2>2, <2>5 DEF Diagnoses
  <1> QED BY <1>1, <1>2

(* The contract that stands, or the one made up under id.                  *)
LEMMA ContractOK ==
  ASSUME SInv, NEW id \in 0 .. MaxRuns
  PROVE  /\ _build_execution_contract(id) \in Contracts
         /\ carrier.contract = None => _build_execution_contract(id).task = id
         /\ carrier.contract # None =>
                /\ _build_execution_contract(id).task =
                       IF carrier.contract.task = 0 THEN id ELSE carrier.contract.task
                /\ _build_execution_contract(id).min = carrier.contract.min
                /\ carrier.contract.exp # 0 =>
                       _build_execution_contract(id).exp = carrier.contract.exp
  <1>1. clock + TTL \in Instants /\ 0 \in Instants
    BY Numbers DEF SInv, Shape, Others, Instants
  <1>2. carrier.contract \in Contracts \cup {None}
    BY ContextFields DEF SInv, Shape
  <1> DEFINE given == IF carrier.contract # None THEN carrier.contract
                      ELSE [task |-> 0, exp |-> 0, scope |-> "none",
                            min |-> min_diagnosis_confidence]
  <1>3. given \in Contracts
    <2>1. 0 \in Tasks /\ id \in Tasks
      BY Numbers DEF Tasks
    <2> QED BY <1>1, <1>2, <2>1 DEF Contracts, min_diagnosis_confidence
  <1>4. PICK g \in Contracts : g = given
    BY <1>3
  <1>5. PICK task \in Tasks, exp \in Instants :
            /\ task = IF g.task = 0 THEN id ELSE g.task
            /\ exp = IF g.exp = 0 THEN clock + TTL ELSE g.exp
    BY <1>1 DEF Contracts, Tasks
  <1>6. _build_execution_contract(id) = [g EXCEPT !.task = task, !.exp = exp]
    BY <1>4, <1>5 DEF _build_execution_contract
  <1>7. /\ _build_execution_contract(id) \in Contracts
        /\ _build_execution_contract(id).task = task
        /\ _build_execution_contract(id).exp = exp
        /\ _build_execution_contract(id).min = g.min
    BY <1>6 DEF Contracts
  <1>8. CASE carrier.contract = None
    <2>1. g.task = 0
      BY <1>4, <1>8
    <2> QED BY <1>5, <1>7, <1>8, <2>1
  <1>9. CASE carrier.contract # None
    <2>1. g = carrier.contract
      BY <1>4, <1>9
    <2> QED BY <1>5, <1>7, <1>9, <2>1
  <1> QED BY <1>8, <1>9, <1>7

-----------------------------------------------------------------------------
LEMMA InitSafe == Init => SInv
  <1> SUFFICES ASSUME Init PROVE SInv
    OBVIOUS
  <1>1. Shape
    <2>1. Others
      <3>1. frozen \in BOOLEAN /\ vouched \in BOOLEAN
        BY DEF Init
      <3>4. ledger \in [Pattern -> 0 .. similar_limit]
        BY Numbers DEF Init
      <3>2. /\ clock \in 0 .. MaxTime /\ runs \in 0 .. MaxRuns
            /\ finished \in Nat /\ attempts \in 0 .. max_retries + 1
        BY Numbers DEF Init
      <3>3. /\ active \subseteq Pattern
            /\ diagnosed \subseteq [task : Tasks, at : 0 .. MaxTime, of : Diagnoses]
        BY DEF Init
      <3> QED BY <3>1, <3>2, <3>3, <3>4 DEF Others
    <2>2. result.policy = "none" /\ result.code = 0
      BY DEF Init, Unknown
    <2> QED BY <2>1, <2>2, EmptyContext DEF Init, Shape, Codes
  <1>2. AllHonest
    BY EmptyContext DEF Init, AllHonest
  <1> QED BY <1>1, <1>2 DEF Init, SInv, Within, Tries, FreezeKept, Counted

-----------------------------------------------------------------------------
(* A run that returns leaves an honest context that has the freeze.        *)
LEMMA ReturnKeeps ==
  ASSUME SInv, NEW policy \in Policies, NEW code \in Codes, NEW artifacts \in Contexts,
         Return(policy, code, artifacts),
         Honest(artifacts, diagnosed', vouched'), frozen' => artifacts.freeze, Others'
  PROVE  SInv'
  <1>1. /\ run' = Rest /\ context' = artifacts /\ carrier' = Empty /\ made' = Empty
        /\ result' = [policy |-> policy, code |-> code]
    BY DEF Return
  <1>2. Shape'
    BY <1>1, EmptyContext DEF Shape
  <1>3. AllHonest'
    BY <1>1, EmptyContext DEF AllHonest
  <1>4. (run # Rest)' <=> FALSE
    BY <1>1 DEF Rest
  <1>5. FreezeKept'
    BY <1>1, <1>4 DEF FreezeKept
  <1> QED BY <1>2, <1>3, <1>4, <1>5 DEF SInv, Within, Tries, Counted

(* A run that goes on: what is left to show of it.                         *)
LEMMA RunKeeps ==
  ASSUME SInv, UNCHANGED <<context, result>>, run' \in Running,
         carrier' \in Contexts, made' \in Contexts, Others',
         diagnosed \subseteq diagnosed', vouched' = vouched,
         Honest(carrier', diagnosed', vouched'), Honest(made', diagnosed', vouched'),
         Within', Tries', FreezeKept', Counted'
  PROVE  SInv'
  <1>1. Shape'
    BY DEF SInv, Shape
  <1>2. AllHonest'
    BY HonestStays DEF SInv, AllHonest
  <1> QED BY <1>1, <1>2 DEF SInv

(* The parts of run that one phase hands to the next.                      *)
LEMMA PhaseMoves ==
  ASSUME run \in Running, NEW phase \in Phases \ {"idle"}, Goto(phase)
  PROVE  /\ run' \in Running /\ run' # Rest /\ run'.phase = phase
         /\ run'.request = run.request /\ run'.next = run.next
         /\ run'.attempt = run.attempt /\ run'.command = run.command
         /\ run'.code = run.code
         /\ stage' = stage /\ (InPipeline' <=> InPipeline)
  <1>1. /\ run' \in Running /\ run'.phase = phase
        /\ run'.request = run.request /\ run'.next = run.next
        /\ run'.attempt = run.attempt /\ run'.command = run.command
        /\ run'.code = run.code
    BY DEF Goto, Running
  <1>2. run' # Rest
    BY <1>1 DEF Rest
  <1> QED BY <1>1, <1>2 DEF stage, InPipeline

LEMMA GateMoves ==
  ASSUME run \in Running, NEW policy \in Policies, NEW code \in Codes,
         run' = [run EXCEPT !.phase = "gates", !.policy = policy, !.code = code]
  PROVE  /\ run' \in Running /\ run' # Rest /\ run'.phase = "gates"
         /\ run'.request = run.request /\ run'.next = run.next
         /\ run'.attempt = run.attempt /\ run'.code = code
         /\ stage' = stage /\ (InPipeline' <=> InPipeline)
  <1>1. /\ run' \in Running /\ run'.phase = "gates"
        /\ run'.request = run.request /\ run'.next = run.next
        /\ run'.attempt = run.attempt /\ run'.code = code
    BY DEF Running, Phases
  <1>2. run' # Rest
    BY <1>1 DEF Rest
  <1> QED BY <1>1, <1>2 DEF stage, InPipeline

(* What the gates would make of a stage that returns code and artifacts.   *)
Passes(code, artifacts) ==
    /\ code = 0
    /\ stage = "diagnose" =>
           ~(Confidence(artifacts) < diagnose_to_correct_min_confidence)
    /\ ~(stage = "converge" /\ artifacts.freeze)

(* A stage returns, to the agent or to the gates.                          *)
LEMMA StageReturnKeeps ==
  ASSUME SInv, run.phase \notin {"idle", "compose", "gates"},
         NEW policy \in Policies, NEW code \in Codes, NEW artifacts \in Contexts,
         StageReturn(policy, code, artifacts),
         Honest(artifacts, diagnosed', vouched'), Others',
         UNCHANGED <<runs, diagnosed, vouched>>, attempts' = 0,
         frozen' => /\ artifacts.freeze
                    /\ stage = "converge" \/ (context.freeze /\ carrier.freeze),
         InPipeline /\ Passes(code, artifacts) => finished' = run.next
  PROVE  SInv'
  <1>1. CASE ~InPipeline
    BY <1>1, ReturnKeeps DEF StageReturn
  <1>2. CASE InPipeline
    <2>1. /\ run \in Running /\ run # Rest
          /\ run' = [run EXCEPT !.phase = "gates", !.policy = policy, !.code = code]
          /\ made' = artifacts /\ UNCHANGED <<context, carrier, result>>
      BY <1>2, AtWork DEF StageReturn
    <2>2. /\ run' \in Running /\ run' # Rest /\ run'.phase = "gates"
          /\ run'.request = run.request /\ run'.next = run.next
          /\ run'.attempt = run.attempt /\ run'.code = code
          /\ stage' = stage /\ (InPipeline' <=> InPipeline)
      BY <2>1, GateMoves
    <2>3. Within'
      BY <1>2, <2>1, <2>2 DEF SInv, Within
    <2>4. Tries'
      <3>1. attempts' = 0 /\ ~(attempts' > 1)
        OBVIOUS
      <3>2. run.attempt > 0 => stage = "diagnose"
        BY <2>1 DEF SInv, Tries
      <3> QED BY <2>2, <3>1, <3>2 DEF Tries
    <2>5. FreezeKept'
      BY <1>2, <2>1, <2>2 DEF FreezeKept
    <2>6. Counted'
      <3>1. Passing' => Passes(code, artifacts)
        BY <2>1, <2>2 DEF Passing, Passes, LowConfidence, Confidence,
                          diagnose_to_correct_min_confidence
      <3> QED BY <1>2, <2>2, <3>1 DEF Counted
    <2>7. Honest(carrier', diagnosed', vouched') /\ carrier' \in Contexts
      BY <2>1 DEF SInv, Shape, AllHonest
    <2> QED BY <2>1, <2>2, <2>3, <2>4, <2>5, <2>6, <2>7, RunKeeps
  <1> QED BY <1>1, <1>2

(* pre_run has prepared its stage.                                         *)
LEMMA PreparedKeeps ==
  ASSUME SInv, run.phase = "pre_run", NEW artifacts \in Contexts, Prepared(artifacts),
         Others', UNCHANGED <<runs, vouched, frozen, finished, attempts>>,
         diagnosed \subseteq diagnosed', Honest(artifacts, diagnosed', vouched'),
         artifacts.freeze = carrier.freeze
  PROVE  SInv'
  <1>1. PICK phase \in {"command", "post_run"} : Goto(phase)
    BY DEF Prepared
  <1>2. run \in Running /\ run # Rest /\ phase \in Phases \ {"idle"}
    BY AtWork DEF Phases
  <1>3. /\ run' \in Running /\ run' # Rest /\ run'.phase = phase
        /\ run'.request = run.request /\ run'.next = run.next
        /\ run'.attempt = run.attempt
        /\ stage' = stage /\ (InPipeline' <=> InPipeline)
    BY <1>1, <1>2, PhaseMoves
  <1>4. made' = artifacts /\ UNCHANGED <<context, carrier, result>>
    BY DEF Prepared
  <1>5. Within'
    BY <1>2, <1>3 DEF SInv, Within
  <1>6. Tries'
    <2>1. run.attempt = 0 /\ attempts = 0
      BY <1>2 DEF SInv, Tries
    <2> QED BY <1>3, <2>1 DEF Tries
  <1>7. FreezeKept'
    <2>1. frozen => context.freeze /\ carrier.freeze
      BY <1>2 DEF SInv, FreezeKept
    <2> QED BY <1>3, <1>4, <2>1 DEF FreezeKept
  <1>8. Counted'
    BY <1>2, <1>3 DEF SInv, Counted
  <1>9. carrier' \in Contexts /\ Honest(carrier', diagnosed', vouched')
    BY <1>4, HonestStays DEF SInv, Shape, AllHonest
  <1> QED BY <1>3, <1>4, <1>5, <1>6, <1>7, <1>8, <1>9, RunKeeps

-----------------------------------------------------------------------------
(* The next run starts on any context, and on no attestation but the       *)
(* agent's own or the one it was left.                                     *)
LEMMA GivenOK ==
  ASSUME SInv, Given
  PROVE  /\ context' \in Contexts
         /\ context'.attestation = context.attestation =>
                Honest(context', diagnosed, vouched)
  <1>1. PICK contract \in Written \cup {context.contract, None},
             report \in Reports \cup {context.report, None},
             attestation \in Vouched \cup {context.attestation, None},
             freeze \in BOOLEAN, aligned \in BOOLEAN :
            context' = [contract |-> contract, report |-> report,
                        attestation |-> attestation, freeze |-> freeze,
                        aligned |-> aligned]
    BY DEF Given
  <1>2. context \in Contexts /\ Honest(context, diagnosed, vouched)
    BY DEF SInv, Shape, AllHonest
  <1>3. /\ contract \in Contracts \cup {None} /\ report \in Diagnoses \cup {None}
        /\ attestation \in Attestations \cup {None}
    BY <1>2, ContextFields, PipelineAssumption
  <1>4. context' \in Contexts
    BY <1>1, <1>3 DEF Contexts
  <1> QED BY <1>2, <1>4 DEF Honest

LEMMA StartKeeps ==
  ASSUME SInv, NEW request \in Requests, run_skill(request)
  PROVE  SInv'
  <1>1. /\ run = Rest /\ runs < MaxRuns /\ runs' = runs + 1
        /\ finished' = 0 /\ attempts' = 0 /\ result' = Unknown
        /\ UNCHANGED <<ledger, active, clock, diagnosed>>
        /\ carrier' = context' /\ made' = context'
    BY DEF run_skill, world
  <1>2. /\ context' \in Contexts
        /\ context'.attestation = context.attestation =>
               Honest(context', diagnosed, vouched)
    BY GivenOK DEF run_skill
  <1>3. Honest(context', diagnosed, vouched')
    <2>1. vouched' \/ context'.attestation = None
              \/ (context'.attestation = context.attestation /\ ~vouched)
      BY DEF run_skill
    <2> QED BY <1>2, <2>1 DEF Honest
  <1>4. frozen' => frozen /\ context'.freeze = context.freeze
    BY DEF run_skill
  <1>5. frozen' => context'.freeze
    BY <1>1, <1>4 DEF SInv, FreezeKept
  <1>6. PICK phase \in {"compose", "authorise"} :
            /\ phase = IF request.skill = "pipeline" THEN "compose" ELSE "authorise"
            /\ run' = [phase |-> phase, request |-> request, next |-> 1, command |-> 1,
                       attempt |-> 0, policy |-> "planned", code |-> 0]
    BY DEF run_skill
  <1>7. /\ run' \in Running /\ run' # Rest /\ run'.phase = phase /\ run'.request = request
        /\ run'.next = 1 /\ run'.attempt = 0
    <2>1. run' \in Running /\ run'.phase = phase
      BY <1>6, Numbers DEF Running, Phases, Policies, Codes
    <2>2. run' # Rest
      BY <1>6, <2>1 DEF Rest
    <2> QED BY <1>6, <2>1, <2>2
  <1>8. Others'
    <2>1. frozen' \in BOOLEAN /\ vouched' \in BOOLEAN
      BY DEF run_skill
    <2>2. runs' \in 0 .. MaxRuns /\ finished' \in Nat /\ attempts' \in 0 .. max_retries + 1
      BY <1>1, Numbers DEF SInv, Shape, Others
    <2> QED BY <1>1, <2>1, <2>2 DEF SInv, Shape, Others
  <1>9. Shape'
    <2>1. result'.policy = "none" /\ result'.code = 0
      BY <1>1 DEF Unknown
    <2> QED BY <1>1, <1>2, <1>7, <1>8, <2>1 DEF Shape, Codes
  <1>10. Within'
    <2>1. runs' >= 1
      BY <1>1 DEF SInv, Shape, Others
    <2>2. request.skill = "pipeline" => 1 <= Len(request.stages)
      <3>1. request.stages \in Seq(Stages \cup {"other"})
                /\ (request.skill = "pipeline" => request.stages # << >>)
        BY PipelineAssumption
      <3> QED BY <3>1, EmptySeq, LenProperties
    <2> QED BY <1>6, <1>7, <2>1, <2>2 DEF Within, InPipeline
  <1>11. Tries'
    BY <1>1, <1>6, <1>7 DEF Tries
  <1>12. AllHonest'
    BY <1>1, <1>3 DEF AllHonest
  <1>13. FreezeKept'
    BY <1>1, <1>5, <1>7 DEF FreezeKept
  <1>14. Counted'
    BY <1>1, <1>6, <1>7 DEF Counted
  <1> QED BY <1>9, <1>10, <1>11, <1>12, <1>13, <1>14 DEF SInv

(* A run that goes on to its next phase without anything else.             *)
LEMMA StayKeeps ==
  ASSUME SInv, run.phase \in {"compose", "authorise"}, Stay,
         NEW phase \in {"authorise", "pre_run"}, Goto(phase),
         UNCHANGED <<ledger, runs, world, ghosts>>
  PROVE  SInv'
  <1>1. /\ run \in Running /\ run # Rest /\ phase \in Phases \ {"idle"}
        /\ UNCHANGED <<context, carrier, made, result>>
        /\ UNCHANGED <<ledger, runs, active, clock, diagnosed, vouched, frozen, finished,
                       attempts>>
    BY AtWork DEF Phases, Stay, world, ghosts
  <1>2. /\ run' \in Running /\ run' # Rest /\ run'.phase = phase
        /\ run'.request = run.request /\ run'.next = run.next
        /\ run'.attempt = run.attempt
        /\ stage' = stage /\ (InPipeline' <=> InPipeline)
    BY <1>1, PhaseMoves
  <1>3. Others'
    BY <1>1 DEF SInv, Shape, Others
  <1>4. Within'
    BY <1>1, <1>2 DEF SInv, Within
  <1>5. Tries'
    BY <1>1, <1>2 DEF SInv, Tries
  <1>6. FreezeKept'
    BY <1>1, <1>2 DEF SInv, FreezeKept
  <1>7. Counted'
    BY <1>1, <1>2 DEF SInv, Counted
  <1> QED
    BY <1>1, <1>2, <1>3, <1>4, <1>5, <1>6, <1>7, RunKeeps DEF SInv, Shape, AllHonest

(* A run that is refused or raises leaves the agent what it had.           *)
LEMMA RefusalKeeps ==
  ASSUME SInv, run.phase \notin {"idle", "gates"}, NEW policy \in Policies,
         Return(policy, 1, context), UNCHANGED <<diagnosed, vouched, frozen>>, Others'
  PROVE  SInv'
  <1>1. run # Rest
    BY AtWork
  <1>2. context \in Contexts /\ Honest(context, diagnosed', vouched')
    BY DEF SInv, Shape, AllHonest
  <1>3. frozen' => context.freeze
    BY <1>1 DEF SInv, FreezeKept
  <1>4. 1 \in Codes
    BY DEF Codes
  <1> QED BY <1>2, <1>3, <1>4, ReturnKeeps

LEMMA ComposeKeeps ==
  ASSUME SInv, NEW declared, Compose(declared)
  PROVE  SInv'
  <1>1. run.phase = "compose" /\ UNCHANGED <<ledger, runs, world, ghosts>>
    BY DEF Compose
  <1>2. UNCHANGED <<diagnosed, vouched, frozen>> /\ Others'
    BY <1>1 DEF SInv, Shape, Others, world, ghosts
  <1>3. CASE \E policy \in {"blocked", "invalid_pipeline"} : Return(policy, 1, context)
    <2>1. PICK policy \in Policies : Return(policy, 1, context)
      BY <1>3 DEF Policies
    <2> QED BY <1>1, <1>2, <2>1, RefusalKeeps
  <1>4. CASE Goto("authorise") /\ Stay
    BY <1>1, <1>4, StayKeeps
  <1> QED BY <1>3, <1>4 DEF Compose

(* A stage that is stopped before it did anything.                         *)
LEMMA StoppedKeeps ==
  ASSUME SInv, run.phase \in {"authorise", "pre_run"}, NEW policy \in Policies,
         StageReturn(policy, 1, carrier), UNCHANGED <<ledger, runs, world, ghosts>>
  PROVE  SInv'
  <1>1. /\ run # Rest /\ attempts = 0 /\ attempts' = attempts
        /\ UNCHANGED <<runs, diagnosed, vouched>> /\ frozen' = frozen
    BY AtWork DEF SInv, Tries, ghosts
  <1>2. Others'
    BY DEF SInv, Shape, Others, world, ghosts
  <1>3. frozen' => /\ carrier.freeze
                   /\ stage = "converge" \/ (context.freeze /\ carrier.freeze)
    BY <1>1 DEF SInv, FreezeKept
  <1>4. carrier \in Contexts /\ Honest(carrier, diagnosed', vouched')
    BY <1>1 DEF SInv, Shape, AllHonest
  <1>5. 1 \in Codes /\ ~Passes(1, carrier)
    BY DEF Codes, Passes
  <1> QED BY <1>1, <1>2, <1>3, <1>4, <1>5, StageReturnKeeps

LEMMA AuthoriseKeeps ==
  ASSUME SInv, NEW declared, Authorise(declared)
  PROVE  SInv'
  <1>1. run.phase = "authorise" /\ UNCHANGED <<ledger, runs, world, ghosts>>
    BY DEF Authorise
  <1>2. CASE Goto("pre_run") /\ Stay
    BY <1>1, <1>2, StayKeeps
  <1>3. CASE StageReturn("blocked", 1, carrier)
    BY <1>1, <1>3, StoppedKeeps DEF Policies
  <1> QED BY <1>2, <1>3 DEF Authorise

-----------------------------------------------------------------------------
LEMMA WorldOnly ==
  ASSUME SInv, UNCHANGED <<ledger, runs, world, ghosts>>
  PROVE  /\ Others'
         /\ UNCHANGED <<runs, diagnosed, vouched, frozen, finished, attempts>>
         /\ \A c : Honest(c, diagnosed, vouched) => Honest(c, diagnosed', vouched')
  BY DEF SInv, Shape, Others, world, ghosts

LEMMA RaiseKeeps ==
  ASSUME SInv, run.phase \in {"pre_run", "post_run"}, Raise,
         UNCHANGED <<diagnosed, vouched, frozen>>, Others'
  PROVE  SInv'
  <1>1. "raised" \in Policies
    BY DEF Policies
  <1> QED BY <1>1, RefusalKeeps DEF Raise

LEMMA AskPreRunKeeps ==
  ASSUME SInv, NEW torn, AskPreRun(torn)
  PROVE  SInv'
  <1>1. run.phase = "pre_run" /\ UNCHANGED <<ledger, runs, world, ghosts>>
    BY DEF AskPreRun
  <1>2. CASE Raise
    BY <1>1, <1>2, WorldOnly, RaiseKeeps
  <1>3. CASE Prepared([carrier EXCEPT !.contract = _build_execution_contract(runs)])
    <2>1. runs \in 1 .. MaxRuns /\ runs \in 0 .. MaxRuns /\ carrier \in Contexts
      BY <1>1, AtWork DEF SInv, Shape, Others
    <2>2. PICK contract \in Contracts :
              contract = _build_execution_contract(runs)
      BY <2>1, ContractOK
    <2>3. PICK artifacts : artifacts = [carrier EXCEPT !.contract = contract]
      OBVIOUS
    <2>4. /\ artifacts \in Contexts /\ artifacts.freeze = carrier.freeze
          /\ artifacts.contract = contract /\ artifacts.report = carrier.report
          /\ artifacts.attestation = carrier.attestation
      BY <2>1, <2>2, <2>3 DEF Contexts
    <2>5. Honest(artifacts, diagnosed, vouched)
      BY <2>2, <2>4 DEF SInv, AllHonest, Honest
    <2>6. Prepared(artifacts)
      BY <1>3, <2>2, <2>3
    <2> QED BY <1>1, <2>4, <2>5, <2>6, WorldOnly, PreparedKeeps
  <1> QED BY <1>2, <1>3 DEF AskPreRun

(* A diagnosis covers the attestation made of it.                          *)
LEMMA AttestationOK ==
  ASSUME SInv, vouched' = vouched,
         diagnosed' = diagnosed \cup
             {[task |-> _build_execution_contract(0).task, at |-> clock, of |-> Calibrated]}
  PROVE  /\ _build_diagnosis_attestation \in Attestations
         /\ vouched \/ Covered(_build_diagnosis_attestation, diagnosed')
         /\ diagnosed \subseteq diagnosed'
         /\ diagnosed' \subseteq [task : Tasks, at : 0 .. MaxTime, of : Diagnoses]
  <1>1. 0 \in 0 .. MaxRuns /\ clock \in 0 .. MaxTime /\ TTL \in Nat /\ TTL >= 1
            /\ MaxTime \in Nat
    BY Numbers DEF SInv, Shape, Others
  <1>2. PICK until : until = clock + TTL
    OBVIOUS
  <1>3. until \in Instants /\ 0 \in Instants /\ until # 0
    BY <1>1, <1>2 DEF Instants
  <1>4. PICK task \in Tasks : task = _build_execution_contract(0).task
    BY <1>1, ContractOK DEF Contracts
  <1>5. PICK of \in Diagnoses : of = Calibrated
    BY CalibratedOK
  <1>6. PICK d : d = [task |-> task, at |-> clock, of |-> of]
    OBVIOUS
  <1>7. d.task = task /\ d.at = clock /\ d.of = of /\ diagnosed' = diagnosed \cup {d}
    BY <1>4, <1>5, <1>6
  <1>8. diagnosed' \subseteq [task : Tasks, at : 0 .. MaxTime, of : Diagnoses]
    <2>1. d \in [task : Tasks, at : 0 .. MaxTime, of : Diagnoses]
      BY <1>1, <1>6
    <2> QED BY <1>7, <2>1 DEF SInv, Shape, Others
  <1>9. CASE carrier.attestation # None
    <2>1. carrier.attestation \in Attestations
      BY <1>9, ContextFields DEF SInv, Shape
    <2>2. PICK exp \in Instants :
              exp = IF carrier.attestation.exp = 0 THEN until ELSE carrier.attestation.exp
      BY <1>3, <2>1 DEF Attestations
    <2>3. _build_diagnosis_attestation = [carrier.attestation EXCEPT !.exp = exp]
      BY <1>2, <1>9, <2>2 DEF _build_diagnosis_attestation
    <2>4. _build_diagnosis_attestation \in Attestations
      BY <2>1, <2>2, <2>3 DEF Attestations
    <2>5. ASSUME ~vouched PROVE Covered(_build_diagnosis_attestation, diagnosed')
      <3>1. Covered(carrier.attestation, diagnosed)
        BY <1>9, <2>5 DEF SInv, AllHonest, Honest
      <3>2. exp = carrier.attestation.exp
        BY <2>2, <3>1 DEF Covered
      <3>3. _build_diagnosis_attestation = carrier.attestation
        BY <2>1, <2>3, <3>2 DEF Attestations
      <3> QED BY <1>7, <3>1, <3>3 DEF Covered
    <2> QED BY <1>7, <1>8, <2>4, <2>5
  <1>10. CASE carrier.attestation = None
    <2>1. PICK attested : attested = [task |-> task, exp |-> until, of |-> of]
      OBVIOUS
    <2>2. _build_diagnosis_attestation = attested
      <3>1. PICK given : given = [task |-> task, exp |-> 0, of |-> of]
        OBVIOUS
      <3>2. _build_diagnosis_attestation =
                [given EXCEPT !.exp = IF given.exp = 0 THEN until ELSE given.exp]
        BY <1>2, <1>4, <1>5, <1>10, <3>1 DEF _build_diagnosis_attestation
      <3>3. given.exp = 0
        BY <3>1
      <3> QED BY <2>1, <3>1, <3>2, <3>3
    <2>3. attested \in Attestations /\ attested.exp = until
              /\ attested.task = task /\ attested.of = of
      BY <1>3, <2>1 DEF Attestations
    <2>4. Covered(attested, diagnosed')
      <3>1. until <= d.at + TTL
        BY <1>1, <1>2, <1>7
      <3> QED BY <1>3, <1>7, <2>3, <3>1 DEF Covered
    <2> QED BY <1>7, <1>8, <2>2, <2>3, <2>4
  <1> QED BY <1>9, <1>10

LEMMA DiagnosePreRunKeeps ==
  ASSUME SInv, NEW torn, DiagnosePreRun(torn)
  PROVE  SInv'
  <1>1. /\ run.phase = "pre_run" /\ carrier \in Contexts
        /\ UNCHANGED <<ledger, runs, active, clock, vouched, frozen, finished, attempts>>
    BY DEF DiagnosePreRun, SInv, Shape, world
  <1>2. CASE Raise /\ UNCHANGED diagnosed
    <2>1. Others'
      BY <1>1, <1>2 DEF SInv, Shape, Others
    <2> QED BY <1>1, <1>2, <2>1, RaiseKeeps
  <1>3. CASE /\ Prepared([carrier EXCEPT !.report = Calibrated,
                                         !.attestation = _build_diagnosis_attestation])
             /\ diagnosed' = diagnosed \cup
                    {[task |-> _build_execution_contract(0).task, at |-> clock,
                      of |-> Calibrated]}
    <2>1. PICK report \in Diagnoses : report = Calibrated
      BY CalibratedOK
    <2>2. PICK attested \in Attestations :
              /\ attested = _build_diagnosis_attestation
              /\ vouched \/ Covered(attested, diagnosed')
              /\ diagnosed \subseteq diagnosed'
              /\ diagnosed' \subseteq [task : Tasks, at : 0 .. MaxTime, of : Diagnoses]
      BY <1>1, <1>3, AttestationOK
    <2>3. PICK artifacts :
              artifacts = [carrier EXCEPT !.report = report, !.attestation = attested]
      OBVIOUS
    <2>4. /\ artifacts \in Contexts /\ artifacts.freeze = carrier.freeze
          /\ artifacts.attestation = attested
      BY <1>1, <2>1, <2>2, <2>3 DEF Contexts
    <2>5. Honest(artifacts, diagnosed', vouched')
      BY <1>1, <2>2, <2>4 DEF Honest
    <2>6. Prepared(artifacts)
      BY <1>3, <2>1, <2>2, <2>3
    <2>7. Others'
      BY <1>1, <2>2 DEF SInv, Shape, Others
    <2> QED BY <1>1, <2>2, <2>4, <2>5, <2>6, <2>7, PreparedKeeps
  <1> QED BY <1>2, <1>3 DEF DiagnosePreRun

LEMMA CorrectPreRunKeeps ==
  ASSUME SInv, NEW torn, CorrectPreRun(torn)
  PROVE  SInv'
  <1>1. /\ run.phase = "pre_run" /\ UNCHANGED <<ledger, runs, world, ghosts>>
        /\ carrier \in Contexts /\ Honest(carrier, diagnosed, vouched)
    BY DEF CorrectPreRun, SInv, Shape, AllHonest
  <1>2. CASE Raise
    BY <1>1, <1>2, WorldOnly, RaiseKeeps
  <1>3. CASE Prepared(carrier)
    BY <1>1, <1>3, WorldOnly, PreparedKeeps
  <1>4. CASE \E policy \in {"denied", "escalated"} : StageReturn(policy, 1, carrier)
    BY <1>1, <1>4, StoppedKeeps DEF Policies
  <1> QED BY <1>2, <1>3, <1>4 DEF CorrectPreRun

LEMMA ConvergePreRunKeeps ==
  ASSUME SInv, ConvergePreRun
  PROVE  SInv'
  <1>1. /\ run.phase = "pre_run" /\ UNCHANGED <<ledger, runs, world, ghosts>>
        /\ carrier \in Contexts /\ Honest(carrier, diagnosed, vouched) /\ Prepared(carrier)
    BY DEF ConvergePreRun, SInv, Shape, AllHonest
  <1> QED BY <1>1, WorldOnly, PreparedKeeps

-----------------------------------------------------------------------------
LEMMA CommandKeeps ==
  ASSUME SInv, NEW outcome, Command(outcome)
  PROVE  SInv'
  <1>1. /\ run.phase = "command" /\ run \in Running /\ run # Rest
        /\ run.attempt \in 0 .. 1 /\ run.command \in 1 .. 2
        /\ UNCHANGED <<context, carrier, made, result>>
        /\ UNCHANGED <<ledger, runs, active, clock, diagnosed, vouched, frozen, finished>>
        /\ attempts' = IF run.attempt = 0 THEN 1 ELSE attempts + 1
        /\ cli_fallback = 2 /\ max_retries = 1
    BY AtWork, Numbers DEF Command, Stay, world
  <1>2. attempts' \in 0 .. 2
    BY <1>1 DEF SInv, Tries
  <1>3. Others'
    BY <1>1, <1>2 DEF SInv, Shape, Others
  <1>4. /\ run' \in Running /\ run'.phase \in {"command", "post_run"}
        /\ run'.request = run.request /\ run'.next = run.next
        /\ run'.attempt > 0 \/ attempts' > 1 => stage = "diagnose"
        /\ run'.phase = "command" /\ run'.attempt > 0 => attempts' = run'.attempt
    <2>1. CASE /\ run.command < cli_fallback
               /\ run' = [run EXCEPT !.command = @ + 1, !.attempt = 0]
      <3>1. PICK command \in 1 .. cli_fallback : command = run.command + 1
        BY <1>1, <2>1
      <3>3. run' = [run EXCEPT !.command = command, !.attempt = 0]
        BY <2>1, <3>1
      <3>4. 0 \in 0 .. max_retries /\ run \in Running /\ run.phase = "command"
        BY <1>1
      <3>2. /\ run' \in Running /\ run'.phase = "command" /\ run'.attempt = 0
            /\ run'.request = run.request /\ run'.next = run.next
        BY <3>3, <3>4 DEF Running
      <3> QED BY <1>1, <3>2 DEF SInv, Tries
    <2>2. CASE Retried(outcome) /\ run' = [run EXCEPT !.attempt = @ + 1]
      <3>1. run.attempt = 0 /\ stage = "diagnose"
        BY <1>1, <2>2 DEF Retried, can_retry
      <3>2. /\ run' \in Running /\ run'.phase = "command" /\ run'.attempt = 1
            /\ run'.request = run.request /\ run'.next = run.next
        BY <1>1, <2>2, <3>1 DEF Running
      <3> QED BY <1>1, <3>1, <3>2
    <2>3. CASE run' = [run EXCEPT !.phase = "post_run",
                                  !.code = CASE outcome = "ok" -> 0
                                             [] outcome = "timeout" -> 124
                                             [] OTHER -> 1]
      <3>1. PICK code \in Codes : run' = [run EXCEPT !.phase = "post_run", !.code = code]
        BY <2>3 DEF Codes
      <3>2. /\ run' \in Running /\ run'.phase = "post_run" /\ run'.attempt = run.attempt
            /\ run'.request = run.request /\ run'.next = run.next
        BY <1>1, <3>1 DEF Running, Phases
      <3> QED BY <1>1, <3>2 DEF SInv, Tries
    <2> QED BY <2>1, <2>2, <2>3 DEF Command
  <1>5. run' # Rest /\ stage' = stage /\ (InPipeline' <=> InPipeline)
    BY <1>4 DEF Rest, stage, InPipeline
  <1>6. Within'
    BY <1>1, <1>4, <1>5 DEF SInv, Within
  <1>7. Tries'
    BY <1>4, <1>5 DEF Tries
  <1>8. FreezeKept'
    BY <1>1, <1>4, <1>5 DEF SInv, FreezeKept
  <1>9. Counted'
    BY <1>1, <1>4, <1>5 DEF SInv, Counted
  <1> QED
    BY <1>1, <1>3, <1>4, <1>6, <1>7, <1>8, <1>9, RunKeeps DEF SInv, Shape, AllHonest

-----------------------------------------------------------------------------
(* A stage that did its work and returns what it made.                     *)
LEMMA PostRunKeeps ==
  ASSUME SInv, run.phase = "post_run", NEW artifacts \in Contexts, PostRun(artifacts),
         Honest(artifacts, diagnosed, vouched),
         ledger' \in [Pattern -> 0 .. similar_limit], active' \subseteq Pattern,
         frozen' \in BOOLEAN,
         frozen' => /\ artifacts.freeze
                    /\ stage = "converge" \/ (context.freeze /\ carrier.freeze)
  PROVE  SInv'
  <1>1. /\ run # Rest /\ run.next \in Nat \ {0} /\ run.code \in Codes
        /\ UNCHANGED <<runs, clock, diagnosed, vouched>> /\ attempts' = 0
        /\ finished' = IF GoesThrough(artifacts) THEN finished + 1 ELSE finished
        /\ finished = run.next - 1
    BY AtWork DEF PostRun, SInv, Counted
  <1>2. Others'
    <2>1. finished' \in Nat /\ attempts' \in 0 .. max_retries + 1
      BY <1>1, Numbers
    <2> QED BY <1>1, <2>1 DEF SInv, Shape, Others
  <1>3. PICK policy \in Policies : StageReturn(policy, run.code, artifacts)
    BY DEF PostRun, _classify_execution_outcome, Policies
  <1>4. Passes(run.code, artifacts) => GoesThrough(artifacts)
    <2>1. Confidence(artifacts) \in 0 .. 100
      BY ContextFields DEF Confidence, Diagnoses
    <2>2. diagnose_to_correct_min_confidence \in 0 .. 100
      BY AtWork, PipelineAssumption DEF diagnose_to_correct_min_confidence
    <2> QED BY <2>1, <2>2 DEF Passes, GoesThrough
  <1>5. Passes(run.code, artifacts) => finished' = run.next
    BY <1>1, <1>4
  <1> QED BY <1>1, <1>2, <1>3, <1>5, StageReturnKeeps

LEMMA AppendOK ==
  ASSUME SInv, NEW report \in Diagnoses \cup {None}
  PROVE  append_failure(report) \in [Pattern -> 0 .. similar_limit]
  <1>1. ledger \in [Pattern -> 0 .. similar_limit] /\ similar_limit = 5
    BY Numbers DEF SInv, Shape, Others
  <1>2. CASE report = None \/ report.pattern = None
    BY <1>1, <1>2 DEF append_failure
  <1>3. CASE report # None /\ report.pattern # None
    <2>1. report.pattern \in Pattern
      BY <1>3 DEF Diagnoses
    <2> QED BY <1>1, <1>3, <2>1 DEF append_failure
  <1> QED BY <1>2, <1>3

(* What the snapshots of a stage at post_run are.                          *)
LEMMA AtPostRun ==
  ASSUME SInv, run.phase = "post_run"
  PROVE  /\ made \in Contexts /\ Honest(made, diagnosed, vouched)
         /\ made.report \in Diagnoses \cup {None}
         /\ carrier.report \in Diagnoses \cup {None}
         /\ carrier.aligned \in BOOLEAN
         /\ frozen => made.freeze /\ context.freeze /\ carrier.freeze
         /\ frozen \in BOOLEAN /\ ledger \in [Pattern -> 0 .. similar_limit]
         /\ active \subseteq Pattern
  <1>1. run # Rest
    BY AtWork
  <1>2. made \in Contexts /\ carrier \in Contexts /\ Honest(made, diagnosed, vouched)
            /\ frozen \in BOOLEAN /\ ledger \in [Pattern -> 0 .. similar_limit]
            /\ active \subseteq Pattern
    BY DEF SInv, Shape, Others, AllHonest
  <1>3. frozen => made.freeze /\ context.freeze /\ carrier.freeze
    BY <1>1 DEF SInv, FreezeKept
  <1> QED BY <1>2, <1>3, ContextFields

(* A post_run that raises leaves the agent what it had.                    *)
LEMMA PostRunRaisesKeeps ==
  ASSUME SInv, run.phase = "post_run", PostRunRaises,
         ledger' \in [Pattern -> 0 .. similar_limit], active' \subseteq Pattern
  PROVE  SInv'
  <1>1. /\ Raise /\ attempts' = 0
        /\ UNCHANGED <<runs, clock, diagnosed, vouched, frozen, finished>>
    BY DEF PostRunRaises
  <1>2. Others'
    BY <1>1, Numbers DEF SInv, Shape, Others
  <1> QED BY <1>1, <1>2, RaiseKeeps

LEMMA AskPostRunKeeps ==
  ASSUME SInv, AskPostRun
  PROVE  SInv'
  <1>1. run.phase = "post_run" /\ PostRun(made) /\ UNCHANGED <<ledger, active, frozen>>
    BY DEF AskPostRun
  <1> QED BY <1>1, AtPostRun, PostRunKeeps

LEMMA DiagnosePostRunKeeps ==
  ASSUME SInv, DiagnosePostRun
  PROVE  SInv'
  <1>1. run.phase = "post_run" /\ PostRun(made) /\ UNCHANGED <<active, frozen>>
            /\ ledger' = append_failure(made.report)
    BY DEF DiagnosePostRun
  <1>2. ledger' \in [Pattern -> 0 .. similar_limit]
    BY <1>1, AtPostRun, AppendOK
  <1> QED BY <1>1, <1>2, AtPostRun, PostRunKeeps

LEMMA CorrectPostRunKeeps ==
  ASSUME SInv, NEW torn, CorrectPostRun(torn)
  PROVE  SInv'
  <1>1. run.phase = "post_run" /\ active' = active
            /\ ledger' = append_failure(carrier.report)
    BY DEF CorrectPostRun
  <1>2. ledger' \in [Pattern -> 0 .. similar_limit]
    BY <1>1, AtPostRun, AppendOK
  <1>3. CASE PostRun(made) /\ UNCHANGED frozen
    BY <1>1, <1>2, <1>3, AtPostRun, PostRunKeeps
  <1>4. CASE PostRunRaises
    BY <1>1, <1>2, <1>4, AtPostRun, PostRunRaisesKeeps
  <1> QED BY <1>3, <1>4 DEF CorrectPostRun

LEMMA ConvergePostRunKeeps ==
  ASSUME SInv, NEW raises, NEW decided \in Some, NEW retired,
         ConvergePostRun(raises, decided, retired)
  PROVE  SInv'
  <1>1. run.phase = "post_run" /\ stage = "converge" /\ ledger' = ledger
    BY DEF ConvergePostRun
  <1>2. active' \subseteq Pattern /\ ledger' \in [Pattern -> 0 .. similar_limit]
    <2>1. decided \subseteq Pattern
      BY DEF Some
    <2> QED BY <1>1, <2>1, AtPostRun DEF ConvergePostRun
  <1>3. CASE PostRunRaises
    BY <1>1, <1>2, <1>3, PostRunRaisesKeeps
  <1>4. CASE /\ PostRun([made EXCEPT !.freeze = ~carrier.aligned])
             /\ frozen' = ~carrier.aligned
    <2>1. PICK freeze \in BOOLEAN : freeze = ~carrier.aligned
      OBVIOUS
    <2>2. PICK artifacts : artifacts = [made EXCEPT !.freeze = freeze]
      OBVIOUS
    <2>3. /\ artifacts \in Contexts /\ artifacts.freeze = freeze
          /\ artifacts.attestation = made.attestation
      BY <1>1, <2>2, AtPostRun DEF Contexts
    <2>4. Honest(artifacts, diagnosed, vouched)
      BY <1>1, <2>3, AtPostRun DEF Honest
    <2>5. PostRun(artifacts) /\ frozen' = freeze
      BY <1>4, <2>1, <2>2
    <2> QED BY <1>1, <1>2, <2>3, <2>4, <2>5, PostRunKeeps
  <1> QED BY <1>3, <1>4 DEF ConvergePostRun

-----------------------------------------------------------------------------
(* The gates let a stage pass only when they find nothing, and otherwise   *)
(* end the run with a code that is not 0.                                  *)
LEMMA Verdicts ==
  ASSUME SInv, run.phase = "gates"
  PROVE  /\ Verdict = << >> => Passing
         /\ Verdict # << >> => Verdict[1] \in Policies /\ Verdict[2] \in Codes \ {0}
  <1>1. run.code \in Codes /\ run.policy \in Policies
    BY AtWork
  <1>2. CASE LowConfidence
    <2>1. Verdict = <<"escalated", 1>>
      BY <1>2 DEF Verdict
    <2> QED BY <2>1 DEF Policies, Codes
  <1>3. CASE ~LowConfidence /\ stage = "converge" /\ made.freeze
    <2>1. Verdict = <<"escalated", 2>>
      BY <1>3 DEF Verdict
    <2> QED BY <2>1 DEF Policies, Codes
  <1>4. CASE ~LowConfidence /\ ~(stage = "converge" /\ made.freeze) /\ run.code = 124
    <2>1. Verdict = <<"escalated", 124>>
      BY <1>4 DEF Verdict
    <2> QED BY <2>1 DEF Policies, Codes
  <1>5. CASE /\ ~LowConfidence /\ ~(stage = "converge" /\ made.freeze)
             /\ run.code # 124 /\ run.code # 0
    <2>1. Verdict = <<run.policy, run.code>>
      BY <1>5 DEF Verdict
    <2> QED BY <1>1, <1>5, <2>1
  <1>6. CASE ~LowConfidence /\ ~(stage = "converge" /\ made.freeze) /\ run.code = 0
    <2>1. Verdict = << >>
      BY <1>6 DEF Verdict
    <2> QED BY <1>6, <2>1 DEF Passing
  <1> QED BY <1>2, <1>3, <1>4, <1>5, <1>6

LEMMA GatesKeeps ==
  ASSUME SInv, Gates
  PROVE  SInv'
  <1>1. /\ run.phase = "gates" /\ run \in Running /\ run # Rest
        /\ UNCHANGED <<ledger, runs, world, ghosts>>
        /\ made \in Contexts /\ Honest(made, diagnosed, vouched)
        /\ frozen => made.freeze
        /\ InPipeline
        /\ attempts = 0
        /\ run.next \in Nat \ {0}
    BY AtWork DEF Gates, SInv, Shape, AllHonest, FreezeKept, Within, Tries
  <1>2. ASSUME NEW policy \in Policies, NEW code \in Codes, Return(policy, code, made)
        PROVE  SInv'
    BY <1>1, <1>2, WorldOnly, ReturnKeeps
  <1>3. CASE Verdict # << >> /\ Return(Verdict[1], Verdict[2], made)
    BY <1>1, <1>2, <1>3, Verdicts
  <1>4. CASE Return(IF run.request.execute THEN "executed" ELSE "planned", 0, made)
    <2>1. \E policy \in Policies : Return(policy, 0, made)
      BY <1>4 DEF Policies
    <2> QED BY <1>2, <2>1 DEF Codes
  <1>5. CASE /\ Verdict = << >> /\ run.next < Len(run.request.stages)
             /\ run' = [run EXCEPT !.phase = "authorise", !.next = @ + 1, !.command = 1,
                                   !.attempt = 0, !.policy = "planned", !.code = 0]
             /\ carrier' = made
             /\ UNCHANGED <<context, made, result>>
    <2>1. /\ run' \in Running /\ run'.phase = "authorise" /\ run'.attempt = 0
          /\ run'.request = run.request /\ run'.next = run.next + 1
      <3>1. PICK next \in Nat \ {0} : next = run.next + 1
        BY <1>1
      <3>2. run' = [run EXCEPT !.phase = "authorise", !.next = next, !.command = 1,
                               !.attempt = 0, !.policy = "planned", !.code = 0]
        BY <1>5, <3>1
      <3>3. /\ "authorise" \in Phases \ {"idle"} /\ "planned" \in Policies /\ 0 \in Codes
            /\ 1 \in 1 .. cli_fallback /\ 0 \in 0 .. max_retries
        BY Numbers DEF Phases, Policies, Codes
      <3> QED BY <1>1, <3>1, <3>2, <3>3 DEF Running
    <2>2. run' # Rest /\ (InPipeline' <=> InPipeline)
      BY <2>1 DEF Rest, InPipeline
    <2>3. Passing
      BY <1>1, <1>5, Verdicts
    <2>4. /\ Others' /\ runs' = runs /\ diagnosed' = diagnosed
          /\ vouched' = vouched /\ frozen' = frozen
          /\ finished' = finished /\ attempts' = attempts
      BY <1>1, WorldOnly
    <2>5. Within'
      BY <1>1, <1>5, <2>1, <2>2, <2>4, AtWork DEF SInv, Within
    <2>6. Tries'
      BY <1>1, <2>1, <2>4 DEF Tries
    <2>7. FreezeKept'
      <3>1. frozen => context.freeze
        BY <1>1, <2>3 DEF SInv, FreezeKept, Passing
      <3> QED BY <1>1, <1>5, <2>2, <2>4, <3>1 DEF FreezeKept
    <2>8. Counted'
      <3>1. finished = run.next
        BY <1>1, <2>3 DEF SInv, Counted
      <3> QED BY <1>1, <2>1, <2>4, <3>1 DEF Counted
    <2> QED
      BY <1>1, <1>5, <2>1, <2>4, <2>5, <2>6, <2>7, <2>8, RunKeeps
  <1> QED BY <1>3, <1>4, <1>5 DEF Gates

-----------------------------------------------------------------------------
(* Time and rules move beside the executor, which keeps what it has.       *)
LEMMA WorldKeeps ==
  ASSUME SInv, UNCHANGED agent, clock' \in 0 .. MaxTime, active' \subseteq Pattern
  PROVE  SInv'
  <1>1. /\ context' = context /\ carrier' = carrier /\ made' = made /\ run' = run
        /\ result' = result /\ ledger' = ledger /\ runs' = runs
        /\ diagnosed' = diagnosed /\ vouched' = vouched /\ frozen' = frozen
        /\ finished' = finished
        /\ attempts' = attempts
    BY DEF agent, ghosts
  <1>2. Shape'
    BY <1>1 DEF SInv, Shape, Others
  <1>3. stage' = stage /\ (InPipeline' <=> InPipeline)
    BY <1>1 DEF stage, InPipeline
  <1>4. Within' /\ Tries'
    BY <1>1, <1>3 DEF SInv, Within, Tries
  <1>5. AllHonest'
    BY <1>1 DEF SInv, AllHonest
  <1>6. FreezeKept'
    BY <1>1, <1>3 DEF SInv, FreezeKept
  <1>7. Counted'
    BY <1>1, <1>3 DEF SInv, Counted, Passing, LowConfidence, Confidence,
                      diagnose_to_correct_min_confidence
  <1> QED BY <1>2, <1>4, <1>5, <1>6, <1>7 DEF SInv

LEMMA StepSafe == SInv /\ [Next]_vars => SInv'
  <1> SUFFICES ASSUME SInv, [Next]_vars PROVE SInv'
    OBVIOUS
  <1>1. clock \in 0 .. MaxTime /\ active \subseteq Pattern
    BY DEF SInv, Shape, Others
  <1>2. CASE UNCHANGED vars
    BY <1>1, <1>2, WorldKeeps DEF vars, world, agent
  <1>3. CASE Tick
    <2>1. clock' \in 0 .. MaxTime /\ active' = active /\ UNCHANGED agent
      BY <1>1, <1>3, Numbers DEF Tick
    <2> QED BY <1>1, <2>1, WorldKeeps
  <1>4. CASE \E pattern \in Pattern : DecideRule(pattern)
    <2>1. active' \subseteq Pattern /\ clock' = clock /\ UNCHANGED agent
      BY <1>1, <1>4 DEF DecideRule
    <2> QED BY <1>1, <2>1, WorldKeeps
  <1>5. CASE \E request \in Requests : run_skill(request)
    BY <1>5, StartKeeps
  <1>6. CASE Execute
    BY <1>6, ComposeKeeps, AuthoriseKeeps, AskPreRunKeeps, DiagnosePreRunKeeps,
       CorrectPreRunKeeps, ConvergePreRunKeeps, CommandKeeps, AskPostRunKeeps,
       DiagnosePostRunKeeps, CorrectPostRunKeeps, ConvergePostRunKeeps, GatesKeeps
       DEF Execute
  <1> QED BY <1>2, <1>3, <1>4, <1>5, <1>6 DEF Next

(* The types of the executor's state hold in every state.                  *)
THEOREM TypeCorrect == Spec => []TypeOK
  BY InitSafe, StepSafe, SInvType, PTL DEF Spec

(* Of the commands that are executed, only those of diagnose are executed  *)
(* again.                                                                  *)
THEOREM RepeatsHold == Spec => []OnlyDiagnoseRepeats
  <1>1. SInv => OnlyDiagnoseRepeats
    BY DEF SInv, Tries, OnlyDiagnoseRepeats
  <1> QED BY <1>1, InitSafe, StepSafe, PTL DEF Spec

-----------------------------------------------------------------------------
(* The gate lets through in one step only, and only when it allows.        *)
LEMMA LetThroughBy ==
  ASSUME SInv, [Next]_vars, LetThrough
  PROVE  run.phase = "pre_run" /\ run # Rest /\ Gate = "allow"
  <1>1. /\ run.phase = "pre_run" /\ stage = "correct" /\ run # Rest
        /\ run \in Running /\ run'.phase \in {"command", "post_run"}
    BY AtWork DEF LetThrough
  <1>2. run' # run
    BY <1>1
  <1>3. PICK torn \in Torn : CorrectPreRun(torn)
    <2>1. ~UNCHANGED vars /\ ~Tick /\ ~(\E pattern \in Pattern : DecideRule(pattern))
      BY <1>2 DEF vars, Tick, DecideRule, agent
    <2>2. Execute
      BY <1>1, <2>1 DEF Next, run_skill
    <2> QED
      BY <1>1, <2>2 DEF Execute, Compose, Authorise, AskPreRun, DiagnosePreRun,
                        ConvergePreRun, Command, AskPostRun, DiagnosePostRun,
                        CorrectPostRun, ConvergePostRun, Gates
  <1>4. ASSUME NEW policy, NEW code, NEW artifacts,
               Return(policy, code, artifacts)
        PROVE  FALSE
    BY <1>1, <1>4 DEF Return, Rest
  <1>5. ASSUME NEW policy, NEW code, NEW artifacts,
               StageReturn(policy, code, artifacts)
        PROVE  FALSE
    <2>1. run' = [run EXCEPT !.phase = "gates", !.policy = policy, !.code = code]
      BY <1>4, <1>5 DEF StageReturn
    <2>2. run'.phase = "gates"
      BY <1>1, <2>1 DEF Running
    <2> QED BY <1>1, <2>2
  <1>6. Gate = "allow"
    BY <1>3, <1>4, <1>5 DEF CorrectPreRun, Raise
  <1> QED BY <1>1, <1>6

(* A correction is let through only when a diagnosis, made for the task of *)
(* its own contract and not older than an attestation lasts, or else an    *)
(* attestation of the agent itself, gives the contract the evidence and    *)
(* the confidence it asks for, and no active rule blocks the pattern.      *)
THEOREM CoverageHolds == Spec => CorrectionIsCovered
  <1>1. SInv /\ [Next]_vars => [LetThrough => Covering]_vars
    <2> SUFFICES ASSUME SInv, [Next]_vars, LetThrough PROVE Covering
      OBVIOUS
    <2>1. Gate = "allow"
      BY LetThroughBy
    <2> DEFINE contract == _build_execution_contract(0)
               attested == carrier.attestation
    <2>2. /\ attested # None /\ contract.task # 0 /\ attested.task = contract.task
          /\ ~(contract.exp <= clock) /\ attested.exp \notin 1 .. clock
          /\ Sound(attested.of, contract) /\ attested.of.pattern \notin active
      BY <2>1 DEF Gate
    <2>3. clock \in Nat /\ TTL \in Nat /\ MaxTime \in Nat /\ 0 \in 0 .. MaxRuns
      BY Numbers DEF SInv, Shape, Others
    <2>4. /\ carrier.contract # None /\ contract.task = carrier.contract.task
          /\ contract.min = carrier.contract.min
          /\ carrier.contract.exp # 0 => contract.exp = carrier.contract.exp
      BY <2>2, <2>3, ContractOK
    <2>5. carrier.contract.exp = 0 \/ clock < carrier.contract.exp
      <3>1. carrier.contract.exp \in Nat
        BY <2>3, <2>4, ContextFields DEF SInv, Shape, Contracts, Instants
      <3> QED BY <2>2, <2>3, <2>4, <3>1
    <2>6. Warrants(attested.task, attested.of)
      BY <2>2, <2>4 DEF Warrants, Sound
    <2>7. attested.exp \in Nat /\ (attested.exp = 0 \/ clock < attested.exp)
      <3>1. attested.exp \in Nat
        BY <2>2, <2>3, ContextFields DEF SInv, Shape, Attestations, Instants
      <3> QED BY <2>2, <2>3, <3>1
    <2>8. ASSUME ~vouched
          PROVE  \E d \in diagnosed : Warrants(d.task, d.of) /\ clock < d.at + TTL
      <3>1. Covered(attested, diagnosed)
        BY <2>2, <2>8 DEF SInv, AllHonest, Honest
      <3>2. PICK d \in diagnosed : /\ d.task = attested.task /\ d.of = attested.of
                                   /\ attested.exp <= d.at + TTL
        BY <3>1 DEF Covered
      <3>3. d.at \in Nat
        BY DEF SInv, Shape, Others
      <3>4. clock < d.at + TTL
        BY <2>3, <2>7, <3>1, <3>2, <3>3 DEF Covered
      <3> QED BY <2>6, <3>2, <3>4
    <2> HIDE DEF contract
    <2> QED BY <2>4, <2>5, <2>6, <2>7, <2>8 DEF Covering
  <1> QED BY <1>1, InitSafe, StepSafe, PTL DEF Spec, CorrectionIsCovered

(* While a freeze lasts, no correction on its context is let through.      *)
THEOREM FreezeStops == Spec => FreezeHolds
  <1>1. SInv /\ [Next]_vars => [LetThrough => ~frozen]_vars
    <2> SUFFICES ASSUME SInv, [Next]_vars, LetThrough PROVE ~frozen
      OBVIOUS
    <2>1. run.phase = "pre_run" /\ run # Rest /\ Gate = "allow"
      BY LetThroughBy
    <2>2. ~carrier.freeze
      BY <2>1 DEF Gate
    <2> QED BY <2>1, <2>2 DEF SInv, FreezeKept
  <1> QED BY <1>1, InitSafe, StepSafe, PTL DEF Spec, FreezeHolds

-----------------------------------------------------------------------------
(* The code of a run that has come to its end.                             *)
LEMMA EndCode ==
  ASSUME run \in Running, run' = Rest, NEW policy, NEW code, NEW artifacts
  PROVE  /\ Return(policy, code, artifacts) => result'.code = code
         /\ StageReturn(policy, code, artifacts) => ~InPipeline /\ result'.code = code
  <1>1. Return(policy, code, artifacts) => result'.code = code
    BY DEF Return
  <1>2. ASSUME InPipeline, StageReturn(policy, code, artifacts) PROVE FALSE
    <2>1. run' = [run EXCEPT !.phase = "gates", !.policy = policy, !.code = code]
      BY <1>2 DEF StageReturn
    <2>2. run'.phase = "gates"
      BY <2>1 DEF Running
    <2> QED BY <2>2 DEF Rest
  <1> QED BY <1>1, <1>2 DEF StageReturn

LEMMA PostRunEnds ==
  ASSUME SInv, run \in Running, run.phase = "post_run", run' = Rest,
         NEW artifacts, PostRun(artifacts), result'.code = 0
  PROVE  ~InPipeline /\ finished' = 1
  <1>1. ~InPipeline /\ run.code = 0
    BY EndCode DEF PostRun
  <1>2. GoesThrough(artifacts)
    BY <1>1 DEF GoesThrough
  <1>3. finished = 0 /\ finished' = finished + 1
    <2>1. run # Rest /\ run.next = 1
      BY <1>1 DEF Rest, SInv, Within
    <2> QED BY <1>2, <2>1 DEF PostRun, SInv, Counted
  <1> QED BY <1>1, <1>3

(* A run that returns 0 went through every stage it was asked for.         *)
THEOREM OkHolds == Spec => OkMeansEveryStage
  <1> DEFINE Fine == run # Rest /\ run' = Rest /\ result'.code = 0 =>
                        finished' = IF InPipeline THEN Len(run.request.stages) ELSE 1
  <1>1. SInv /\ [Next]_vars => [Fine]_vars
    <2> SUFFICES ASSUME SInv, Next, run # Rest, run' = Rest, result'.code = 0
                 PROVE  finished' = IF InPipeline THEN Len(run.request.stages) ELSE 1
      OBVIOUS
    <2>1. run \in Running /\ run' # run
      BY DEF SInv, Shape
    <2>2. Execute
      BY <2>1 DEF Next, run_skill, Tick, DecideRule, agent
    <2>3. ASSUME NEW policy, NEW artifacts,
                 Return(policy, 1, artifacts) \/ StageReturn(policy, 1, artifacts)
          PROVE  FALSE
      BY <2>1, <2>3, EndCode
    <2>4. ASSUME NEW phase \in Phases \ {"idle"}, Goto(phase) PROVE FALSE
      BY <2>1, <2>4, PhaseMoves
    <2>5. ASSUME NEW artifacts, Prepared(artifacts) PROVE FALSE
      <3>1. PICK phase \in {"command", "post_run"} : Goto(phase)
        BY <2>5 DEF Prepared
      <3> QED BY <2>4, <3>1 DEF Phases
    <2>6. CASE \E declared \in Agreements : Compose(declared) \/ Authorise(declared)
      BY <2>3, <2>4, <2>6 DEF Compose, Authorise, Phases
    <2>7. CASE \/ \E torn \in Torn : \/ AskPreRun(torn) \/ CorrectPreRun(torn)
                                   \/ DiagnosePreRun(torn)
               \/ ConvergePreRun
      BY <2>3, <2>5, <2>7 DEF AskPreRun, CorrectPreRun, DiagnosePreRun, ConvergePreRun, Raise
    <2>8. CASE \E outcome : Command(outcome)
      <3>1. run.phase = "command"
        BY <2>8 DEF Command
      <3>2. PICK outcome : Command(outcome)
        BY <2>8
      <3>3. run'.phase \in {"command", "post_run"}
        <4>1. CASE run' = [run EXCEPT !.command = @ + 1, !.attempt = 0]
          BY <2>1, <3>1, <4>1 DEF Running
        <4>2. CASE run' = [run EXCEPT !.attempt = @ + 1]
          BY <2>1, <3>1, <4>2 DEF Running
        <4>3. CASE \E code : run' = [run EXCEPT !.phase = "post_run", !.code = code]
          BY <2>1, <4>3 DEF Running
        <4> QED BY <3>2, <4>1, <4>2, <4>3 DEF Command
      <3> QED BY <3>3 DEF Rest
    <2>9. CASE \/ AskPostRun \/ DiagnosePostRun
               \/ \E torn \in Torn : CorrectPostRun(torn)
               \/ \E raises \in BOOLEAN, decided, retired \in Some :
                      ConvergePostRun(raises, decided, retired)
      <3>1. ~PostRunRaises
        BY <2>3 DEF PostRunRaises, Raise
      <3>2. \E artifacts : PostRun(artifacts) /\ run.phase = "post_run"
        BY <2>9, <3>1 DEF AskPostRun, DiagnosePostRun, ConvergePostRun, CorrectPostRun
      <3> QED BY <2>1, <3>2, PostRunEnds
    <2>10. CASE Gates
      <3>1. run.phase = "gates" /\ InPipeline /\ finished' = finished
        BY <2>10 DEF Gates, ghosts, SInv, Within
      <3>2. CASE Verdict # << >> /\ Return(Verdict[1], Verdict[2], made)
        BY <2>1, <3>1, <3>2, Verdicts, EndCode
      <3>3. CASE Verdict = << >> /\ run.next = Len(run.request.stages)
        BY <3>1, <3>3, Verdicts DEF SInv, Counted
      <3>4. CASE run' = [run EXCEPT !.phase = "authorise", !.next = @ + 1, !.command = 1,
                                    !.attempt = 0, !.policy = "planned", !.code = 0]
        <4>1. run'.phase = "authorise"
          BY <2>1, <3>4 DEF Running
        <4> QED BY <4>1 DEF Rest
      <3> QED BY <2>10, <3>2, <3>3, <3>4 DEF Gates
    <2> QED BY <2>2, <2>6, <2>7, <2>8, <2>9, <2>10 DEF Execute
  <1> QED BY <1>1, InitSafe, StepSafe, PTL DEF Spec, OkMeansEveryStage
=============================================================================
