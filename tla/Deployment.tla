----------------------------- MODULE Deployment -----------------------------
(***************************************************************************)
(* How compiled governance reaches .sdd/compiled (sdd_core).  The pipeline *)
(* of GovernanceOrchestrator saves the built JSON files, has the Go        *)
(* compiler write the artifacts into the compiled directory, validates     *)
(* them and publishes them; DeploymentManager copies the artifacts from    *)
(* the compiled directory to the same place, with backups.  Every file is  *)
(* written in place, one after the other, with no lock and no staging, and *)
(* a process may fail or die between any two calls.  A file is known by    *)
(* the generation of the specification it was made from.                   *)
(***************************************************************************)
EXTENDS Naturals, Sequences

CONSTANTS Pipeline,     \* processes that run the pipeline
          Deployer,     \* processes that deploy
          Empty,        \* generations without client items
          MaxRuns,      \* bound: runs begun
          Absent, Torn  \* no file, a file that is cut off

ASSUME DeploymentAssumption ==
    /\ Pipeline \cap Deployer = {}
    /\ MaxRuns \in Nat
    /\ Empty \subseteq 1 .. MaxRuns
    /\ Absent # Torn
    /\ {Absent, Torn} \cap ((0 .. MaxRuns) \X (0 .. MaxRuns)) = {}

VARIABLES fs,       \* the files
          stage,    \* what each process is doing
          todo,     \* the files it still has to write in this stage
          gen,      \* the generation each pipeline built
          loaded,   \* the core and client JSON its compiler read
          runs,     \* runs begun; a pipeline builds the generation of its number
          result,   \* of each process' last run, until another run begins
          quiet,    \* ghost: no other process has run since that run began
          before    \* ghost: the runtime when the last deployment began

vars == <<fs, stage, todo, gen, loaded, runs, result, quiet, before>>

Process == Pipeline \cup Deployer

Msgpacks == {"coreMsgpack", "clientMsgpack"}
Jsons    == {"coreJson", "clientJson"}
RootMeta == {"coreMeta", "clientMeta"}
AuditOf  == [coreMeta |-> "coreAudit", clientMeta |-> "clientAudit"]
Audit    == {AuditOf[f] : f \in RootMeta}

(* GOVERNANCE_ARTIFACTS, the metadata in audit/, in the order they are     *)
(* copied.                                                                 *)
Artifacts == <<"coreMsgpack", "clientMsgpack", "coreAudit", "clientAudit">>
Deployed  == {Artifacts[i] : i \in DOMAIN Artifacts}

Paths ==
    ({"build"} \X Jsons)
    \cup ({"compiled", "runtime"} \X (Msgpacks \cup Jsons \cup RootMeta \cup Audit))
    \cup ({"backup"} \X Deployed)

(* What a file holds: its generation and the one whose fingerprint salts   *)
(* it, which may differ in client metadata only.                           *)
Content(file, core, client) ==
    CASE file \in {"coreMsgpack", "coreJson", "coreMeta", "coreAudit"} -> <<core, core>>
      [] file \in {"clientMsgpack", "clientJson"} -> <<client, client>>
      [] file \in {"clientMeta", "clientAudit"} -> <<client, core>>

Whole(place, g) ==
    \A path \in Paths :
        path[1] = place => fs[path] = Content(path[2], g, g)

Put(path, v)   == [src |-> path, dst |-> path, val |-> v, copy |-> FALSE]
Copy(from, to) == [src |-> from, dst |-> to, val |-> Absent, copy |-> TRUE]

Gens   == 0 .. MaxRuns
Values == (Gens \X Gens) \cup {Absent, Torn}
Jobs   == [src : Paths, dst : Paths, val : Values, copy : BOOLEAN]

TypeOK ==
    /\ fs \in [Paths -> Values]
    /\ stage \in [Process -> {"idle", "build", "compile", "publish", "deploy"}]
    /\ todo \in [Process -> Seq(Jobs)]
    /\ gen \in [Pipeline -> Gens]
    /\ loaded \in [Pipeline -> Gens \X Gens]
    /\ runs \in Gens
    /\ result \in [Process -> {"none", "ok", "failed"}]
    /\ quiet \in [Process -> BOOLEAN]
    /\ before \in [Deployed -> Values]

(* A new workspace, or one whose governance was compiled and published.    *)
Init ==
    /\ \/ fs = [path \in Paths |-> Absent]
       \/ fs = [path \in Paths |->
                   IF path[1] = "backup" THEN Absent ELSE Content(path[2], 0, 0)]
    /\ stage = [p \in Process |-> "idle"]
    /\ todo = [p \in Process |-> <<>>]
    /\ gen = [p \in Pipeline |-> 0]
    /\ loaded = [p \in Pipeline |-> <<0, 0>>]
    /\ runs = 0
    /\ result = [p \in Process |-> "none"]
    /\ quiet = [p \in Process |-> FALSE]
    /\ before = [f \in Deployed |-> Absent]

Enter(p, s, jobs) ==
    /\ stage' = [stage EXCEPT ![p] = s]
    /\ todo' = [todo EXCEPT ![p] = jobs]

Begin(p) ==
    /\ stage[p] = "idle"
    /\ runs < MaxRuns
    /\ runs' = runs + 1
    /\ result' = [q \in Process |-> "none"]
    /\ quiet' = [q \in Process |-> q = p /\ \A r \in Process : stage[r] = "idle"]

Finish(p, r) ==
    /\ Enter(p, "idle", <<>>)
    /\ result' = [result EXCEPT ![p] = r]

Finished(p, s) == stage[p] = s /\ todo[p] = <<>>

-----------------------------------------------------------------------------
(* A file being written is truncated first: others may find it cut off.    *)
Seen(p, path) ==
    {fs[path]} \cup
    {Torn : q \in {r \in Process \ {p} : todo[r] # <<>> /\ Head(todo[r]).dst = path}}

(* The next file of the stage is written.  A copy of a file that is not    *)
(* there is left out.                                                      *)
Write(p) ==
    /\ todo[p] # <<>>
    /\ LET job == Head(todo[p])
       IN  IF job.copy
           THEN \E v \in Seen(p, job.src) :
                    fs' = IF v = Absent THEN fs ELSE [fs EXCEPT ![job.dst] = v]
           ELSE fs' = [fs EXCEPT ![job.dst] = job.val]
    /\ todo' = [todo EXCEPT ![p] = Tail(@)]
    /\ UNCHANGED <<stage, gen, loaded, runs, result, quiet, before>>

(* A call raises, which ends the run as a failure, or the process dies,    *)
(* before or while it writes a file.  Nothing is undone.                   *)
Stop(p) ==
    /\ stage[p] # "idle"
    /\ \/ UNCHANGED fs
       \/ /\ todo[p] # <<>>
          /\ LET job == Head(todo[p])
             IN  /\ job.copy => fs[job.src] # Absent
                 /\ fs' = [fs EXCEPT ![job.dst] = Torn]
    /\ \E r \in {"failed", "none"} : Finish(p, r)
    /\ UNCHANGED <<gen, loaded, runs, quiet, before>>

-----------------------------------------------------------------------------
(* run_full_pipeline.                                                      *)

(* Phase 1 builds the next generation and saves it.                        *)
BuildJobs(g) ==
    <<Put(<<"build", "coreJson">>, Content("coreJson", g, g)),
      Put(<<"build", "clientJson">>, Content("clientJson", g, g))>>

Build(p) ==
    /\ Begin(p)
    /\ gen' = [gen EXCEPT ![p] = runs']
    /\ Enter(p, "build", BuildJobs(runs'))
    /\ before' = [f \in Deployed |-> Absent]
    /\ UNCHANGED <<fs, loaded>>

(* The files the Go compiler writes, in its order.                         *)
CompileJobs(core, client) ==
    LET file(f) == Put(<<"compiled", f>>, Content(f, core, client))
    IN  <<file("coreMsgpack"), file("clientMsgpack"), file("coreJson"),
          file("clientJson"), file("coreAudit"), file("clientAudit"),
          Copy(<<"compiled", "coreAudit">>, <<"compiled", "coreMeta">>),
          Copy(<<"compiled", "clientAudit">>, <<"compiled", "clientMeta">>)>>

Load(p) ==
    /\ Finished(p, "build")
    /\ \E core \in Seen(p, <<"build", "coreJson">>),
          client \in Seen(p, <<"build", "clientJson">>) :
          IF Torn \in {core, client}
           THEN Finish(p, "failed") /\ UNCHANGED loaded
           ELSE /\ loaded' = [loaded EXCEPT ![p] = <<core[1], client[1]>>]
                /\ Enter(p, "compile", CompileJobs(core[1], client[1]))
                /\ UNCHANGED result
    /\ UNCHANGED <<fs, gen, runs, quiet, before>>

(* ValidateCompilationDetailed looks at the metadata in the root.          *)
CompilationValid ==
    /\ Torn \notin {fs[<<"compiled", f>>] : f \in RootMeta}
    /\ fs[<<"compiled", "clientMeta">>][2] = fs[<<"compiled", "coreMeta">>][1]

FromBuild(f) == Copy(<<"build", f>>, <<"compiled", f>>)
FromAudit(f) == Copy(<<"compiled", AuditOf[f]>>, <<"compiled", f>>)
Publish(f)   == Copy(<<"compiled", f>>, <<"runtime", f>>)

CopyBuildJobs == <<FromBuild("coreJson"), FromBuild("clientJson"),
                   FromAudit("coreMeta"), FromAudit("clientMeta")>>

(* Mutant: the metadata in audit/ is not published.                        *)
PublishNoAudit ==
    CopyBuildJobs \o
    <<Publish("coreMsgpack"), Publish("clientMsgpack"), Publish("coreJson"),
      Publish("clientJson"), Publish("coreMeta"), Publish("clientMeta")>>

(* Mutant: the metadata is looked for in the build directory.              *)
PublishBuildMeta ==
    CopyBuildJobs \o
    <<FromBuild("coreMeta"), FromBuild("clientMeta")>>

(* copy_build_artifacts, then publish_canonical_artifacts.                 *)
PublishJobs ==
    CopyBuildJobs \o
    <<Publish("coreMsgpack"), Publish("clientMsgpack"), Publish("coreJson"),
      Publish("clientJson"), Publish("coreMeta"), Publish("clientMeta"),
      Publish("coreAudit"), Publish("clientAudit")>>

Validate(p) ==
    /\ Finished(p, "compile")
    /\ IF CompilationValid
       THEN Enter(p, "publish", PublishJobs) /\ UNCHANGED result
       ELSE Finish(p, "failed")
    /\ UNCHANGED <<fs, gen, loaded, runs, quiet, before>>

(* pipeline_checks: the fingerprints that were compiled are those that     *)
(* were built, and there are items.                                        *)
ChecksPass(p) == loaded[p] = <<gen[p], gen[p]>> /\ gen[p] \notin Empty

Conclude(p) ==
    /\ Finished(p, "publish")
    /\ Finish(p, IF ChecksPass(p) THEN "ok" ELSE "failed")
    /\ UNCHANGED <<fs, gen, loaded, runs, quiet, before>>

-----------------------------------------------------------------------------
(* deploy.                                                                 *)

(* Both artifacts and their metadata exist and the metadata parses.        *)
ArtifactsValid ==
    /\ \A f \in Deployed : fs[<<"compiled", f>>] # Absent
    /\ \A f \in Audit : fs[<<"compiled", f>>] # Torn

(* Mutant: each file is backed up after it has been replaced.              *)
BackupLate ==
    [i \in 1 .. 8 |->
        LET f == Artifacts[(i + 1) \div 2]
        IN  IF i % 2 = 0 THEN Copy(<<"runtime", f>>, <<"backup", f>>)
                         ELSE Copy(<<"compiled", f>>, <<"runtime", f>>)]

(* copy_files: each file of the runtime is backed up and then replaced.    *)
DeployJobs ==
    [i \in 1 .. 8 |->
        LET f == Artifacts[(i + 1) \div 2]
        IN  IF i % 2 = 1 THEN Copy(<<"runtime", f>>, <<"backup", f>>)
                         ELSE Copy(<<"compiled", f>>, <<"runtime", f>>)]

Deploy(p) ==
    /\ ArtifactsValid
    /\ Begin(p)
    /\ before' = [f \in Deployed |-> fs[<<"runtime", f>>]]
    /\ Enter(p, "deploy", DeployJobs)
    /\ UNCHANGED <<fs, gen, loaded>>

Verify(p) ==
    /\ Finished(p, "deploy")
    /\ Finish(p, IF \A f \in Deployed : fs[<<"runtime", f>>] # Absent
                 THEN "ok" ELSE "failed")
    /\ UNCHANGED <<fs, gen, loaded, runs, quiet, before>>

Next ==
    \/ \E p \in Process : Write(p) \/ Stop(p)
    \/ \E p \in Pipeline : Build(p) \/ Load(p) \/ Validate(p) \/ Conclude(p)
    \/ \E p \in Deployer : Deploy(p) \/ Verify(p)

Spec == Init /\ [][Next]_vars

-----------------------------------------------------------------------------
(* A pipeline that reports success, and that no other process overlapped,  *)
(* leaves the compiled directory and the runtime whole and of its own      *)
(* generation, whatever earlier runs that failed half-way or overlapped    *)
(* had left there.                                                         *)
SuccessIsWhole ==
    \A p \in Pipeline : result[p] = "ok" /\ quiet[p] =>
        Whole("compiled", gen[p]) /\ Whole("runtime", gen[p])

(* At every moment of a deployment that no other process overlaps, and     *)
(* after it, however it ended, each file it found in the runtime is still  *)
(* there or in the backup.                                                 *)
RollbackPossible ==
    \A p \in Deployer : quiet[p] =>
        \A f \in Deployed :
            before[f] \in {Absent, fs[<<"runtime", f>>], fs[<<"backup", f>>]}

(* "Copy files with rollback to last known good state on failure."         *)
FailedDeployRollsBack ==
    \A p \in Deployer : quiet[p] /\ result[p] = "failed" =>
        \A f \in Deployed : fs[<<"runtime", f>>] = before[f]
=============================================================================
