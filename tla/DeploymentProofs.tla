-------------------------- MODULE DeploymentProofs --------------------------
(***************************************************************************)
(* Proofs about Deployment, for any number of pipelines, deployers and     *)
(* runs, any of which may overlap and stop half-way: the type invariant,   *)
(* that a deployment that runs alone always leaves a way back, and that a  *)
(* success is whole.                                                       *)
(***************************************************************************)
EXTENDS Deployment, SequenceTheorems, TLAPS

Names == Msgpacks \cup Jsons \cup RootMeta \cup Audit

(* The jobs there are: a copy, or a write of what a file of some           *)
(* generation holds; nothing is ever written as absent.                    *)
RealJobs == {job \in Jobs : job.copy \/ job.val \in Gens \X Gens}

(* What is left of a list of jobs that is done in order.                   *)
Remains(t, jobs) ==
    /\ Len(t) <= Len(jobs)
    /\ \A i \in 1 .. Len(t) : t[i] = jobs[Len(jobs) - Len(t) + i]

(* The files of the list that have been written.                           *)
DoneOf(t, jobs) == {jobs[i].dst : i \in 1 .. (Len(jobs) - Len(t))}

ProcOK(p) ==
    /\ stage[p] = "idle" \/ result[p] = "none"
    /\ stage[p] = "idle" => todo[p] = <<>>
    /\ stage[p] \in {"build", "compile", "publish"} => p \in Pipeline
    /\ stage[p] = "build" => Remains(todo[p], BuildJobs(gen[p]))
    /\ stage[p] = "compile" => Remains(todo[p], CompileJobs(loaded[p][1], loaded[p][2]))
    /\ stage[p] = "publish" => Remains(todo[p], PublishJobs)
    /\ stage[p] = "deploy" => p \in Deployer /\ Remains(todo[p], DeployJobs)

(* A JSON file a pipeline has written exists: files are never removed.     *)
BuildExists ==
    \A p \in Pipeline : stage[p] = "build" =>
        \A path \in DoneOf(todo[p], BuildJobs(gen[p])) : fs[path] # Absent

Shape ==
    /\ fs \in [Paths -> Values]
    /\ stage \in [Process -> {"idle", "build", "compile", "publish", "deploy"}]
    /\ todo \in [Process -> Seq(RealJobs)]
    /\ gen \in [Pipeline -> Gens]
    /\ loaded \in [Pipeline -> Gens \X Gens]
    /\ runs \in Gens
    /\ result \in [Process -> {"none", "ok", "failed"}]
    /\ quiet \in [Process -> BOOLEAN]
    /\ before \in [Deployed -> Values]

DTypes == Shape /\ (\A p \in Process : ProcOK(p)) /\ BuildExists

(* Nobody else is at work while a quiet run is.                            *)
QuietAlone == \A p, q \in Process : quiet[p] /\ q # p => stage[q] = "idle"

(* Of the files a quiet deployment has still to replace the runtime holds  *)
(* what it found there, and of those it has backed up the backup does: k   *)
(* of the eight jobs are done, file i is backed up and replaced by the     *)
(* jobs 2 i - 1 and 2 i.                                                   *)
FileBack(i, k, files, found) ==
    /\ k < 2 * i => files[<<"runtime", Artifacts[i]>>] = found[Artifacts[i]]
    /\ k >= 2 * i - 1 =>
         found[Artifacts[i]] \in {Absent, files[<<"backup", Artifacts[i]>>]}

Either(files, found) ==
    \A f \in Deployed :
        found[f] \in {Absent, files[<<"runtime", f>>], files[<<"backup", f>>]}

WayBack ==
    \A p \in Deployer : quiet[p] =>
        IF stage[p] = "deploy"
        THEN \A i \in 1 .. 4 : FileBack(i, 8 - Len(todo[p]), fs, before)
        ELSE Either(fs, before)

(* What a pipeline of generation g writes in a stage, and what it has      *)
(* made in the stages before.                                              *)
Built    == {<<"build", f>> : f \in Jsons}
Place(x) == {<<x, f>> : f \in Names}

JobsOf(s, g) ==
    CASE s = "build"   -> BuildJobs(g)
      [] s = "compile" -> CompileJobs(g, g)
      [] OTHER         -> PublishJobs

MadeBefore(s) ==
    CASE s = "build"   -> {}
      [] s = "compile" -> Built
      [] OTHER         -> Built \cup Place("compiled")

(* The files a quiet pipeline has made so far, all of its generation.      *)
Made(p) ==
    IF stage[p] = "idle"
    THEN IF result[p] = "ok" THEN Place("compiled") \cup Place("runtime") ELSE {}
    ELSE MadeBefore(stage[p]) \cup DoneOf(todo[p], JobsOf(stage[p], gen[p]))

OwnGeneration ==
    \A p \in Pipeline : quiet[p] =>
        /\ stage[p] = "compile" => loaded[p] = <<gen[p], gen[p]>>
        /\ \A path \in Made(p) : fs[path] = <<gen[p], gen[p]>>

DInv == DTypes /\ QuietAlone /\ WayBack /\ OwnGeneration

-----------------------------------------------------------------------------
LEMMA NamesAre ==
  /\ Names = {"coreMsgpack", "clientMsgpack", "coreJson", "clientJson",
              "coreMeta", "clientMeta", "coreAudit", "clientAudit"}
  /\ Deployed = {"coreMsgpack", "clientMsgpack", "coreAudit", "clientAudit"}
  /\ Jsons = {"coreJson", "clientJson"}
  <1>1. Audit = {"coreAudit", "clientAudit"}
    BY DEF Audit, AuditOf, RootMeta
  <1>2. DOMAIN Artifacts = 1 .. 4 /\ Artifacts[1] = "coreMsgpack" /\ Artifacts[2] = "clientMsgpack"
        /\ Artifacts[3] = "coreAudit" /\ Artifacts[4] = "clientAudit"
    BY DEF Artifacts
  <1>3. Deployed = {Artifacts[1], Artifacts[2], Artifacts[3], Artifacts[4]}
    BY <1>2 DEF Deployed
  <1> QED BY <1>1, <1>2, <1>3 DEF Names, Msgpacks, Jsons, RootMeta

LEMMA PathsAre ==
  /\ \A f \in Names : <<"compiled", f>> \in Paths /\ <<"runtime", f>> \in Paths
  /\ \A f \in Jsons : <<"build", f>> \in Paths
  /\ \A f \in Deployed : <<"backup", f>> \in Paths
  BY DEF Paths, Names

LEMMA WholePaths ==
  ASSUME NEW path \in Paths
  PROVE  /\ path = <<path[1], path[2]>> /\ path[2] \in Names
  BY NamesAre DEF Paths, Names

(* A file that is made from one generation holds it twice.                 *)
LEMMA ContentIs ==
  ASSUME NEW f \in Names, NEW c \in Gens, NEW k \in Gens
  PROVE  Content(f, c, k) \in Gens \X Gens /\ Content(f, c, c) = <<c, c>>
  BY NamesAre DEF Content

LEMMA JobFields ==
  /\ \A path \in Paths, v \in Gens \X Gens :
        /\ Put(path, v) \in RealJobs /\ Put(path, v).dst = path
        /\ Put(path, v).val = v /\ ~Put(path, v).copy
  /\ \A from, to \in Paths :
        /\ Copy(from, to) \in RealJobs /\ Copy(from, to).dst = to
        /\ Copy(from, to).src = from /\ Copy(from, to).copy
  /\ \A job \in RealJobs :
        /\ job.copy \in BOOLEAN /\ job.src \in Paths /\ job.dst \in Paths
        /\ ~job.copy => job.val \in Gens \X Gens
  /\ RealJobs \subseteq Jobs
  <1>1. ASSUME NEW path \in Paths, NEW v \in Gens \X Gens
        PROVE  /\ Put(path, v) \in RealJobs /\ Put(path, v).dst = path
               /\ Put(path, v).val = v /\ ~Put(path, v).copy
    BY DEF Put, RealJobs, Jobs, Values
  <1>2. ASSUME NEW from \in Paths, NEW to \in Paths
        PROVE  /\ Copy(from, to) \in RealJobs /\ Copy(from, to).dst = to
               /\ Copy(from, to).src = from /\ Copy(from, to).copy
    BY DEF Copy, RealJobs, Jobs, Values
  <1>3. ASSUME NEW job \in RealJobs
        PROVE  /\ job.copy \in BOOLEAN /\ job.src \in Paths /\ job.dst \in Paths
               /\ ~job.copy => job.val \in Gens \X Gens
               /\ job \in Jobs
    <2>1. job \in Jobs /\ (job.copy \/ job.val \in Gens \X Gens)
      BY DEF RealJobs
    <2>2. job.copy \in BOOLEAN
      BY <2>1, Zenon DEF Jobs
    <2> QED BY <2>1, <2>2 DEF Jobs
  <1> QED BY <1>1, <1>2, <1>3

LEMMA SpecialValues ==
  /\ Absent # Torn /\ Absent \notin Gens \X Gens /\ Torn \notin Gens \X Gens
  /\ MaxRuns \in Nat /\ 0 \in Gens
  BY DeploymentAssumption DEF Gens

-----------------------------------------------------------------------------
(* The four lists of jobs, job by job.                                     *)
LEMMA BuildList ==
  ASSUME NEW g \in Gens
  PROVE  /\ BuildJobs(g) \in Seq(RealJobs) /\ Len(BuildJobs(g)) = 2
         /\ BuildJobs(g)[1] = Put(<<"build", "coreJson">>, <<g, g>>)
         /\ BuildJobs(g)[2] = Put(<<"build", "clientJson">>, <<g, g>>)
  <1>1. /\ Content("coreJson", g, g) = <<g, g>> /\ Content("clientJson", g, g) = <<g, g>>
        /\ <<g, g>> \in Gens \X Gens
    BY ContentIs, NamesAre
  <1>2. /\ Put(<<"build", "coreJson">>, <<g, g>>) \in RealJobs
        /\ Put(<<"build", "clientJson">>, <<g, g>>) \in RealJobs
    BY <1>1, JobFields, PathsAre, NamesAre
  <1> QED BY <1>1, <1>2 DEF BuildJobs

LEMMA BuildJobsWrite ==
  ASSUME NEW g \in Gens
  PROVE  /\ BuildJobs(g)[1].dst = <<"build", "coreJson">>
         /\ BuildJobs(g)[2].dst = <<"build", "clientJson">>
         /\ BuildJobs(g)[1].val = <<g, g>> /\ ~BuildJobs(g)[1].copy
         /\ BuildJobs(g)[2].val = <<g, g>> /\ ~BuildJobs(g)[2].copy
  <1> DEFINE core   == Put(<<"build", "coreJson">>, <<g, g>>)
             client == Put(<<"build", "clientJson">>, <<g, g>>)
  <1>1. /\ core.dst = <<"build", "coreJson">> /\ core.val = <<g, g>> /\ ~core.copy
        /\ client.dst = <<"build", "clientJson">> /\ client.val = <<g, g>> /\ ~client.copy
    BY DEF Put
  <1>2. BuildJobs(g)[1] = core /\ BuildJobs(g)[2] = client
    BY BuildList
  <1> HIDE DEF core, client
  <1> QED BY <1>1, <1>2

LEMMA CompileList ==
  ASSUME NEW c \in Gens, NEW k \in Gens
  PROVE  LET J == CompileJobs(c, k)
             put(f) == Put(<<"compiled", f>>, Content(f, c, k))
         IN  /\ J \in Seq(RealJobs) /\ Len(J) = 8
             /\ J[1] = put("coreMsgpack") /\ J[2] = put("clientMsgpack")
             /\ J[3] = put("coreJson") /\ J[4] = put("clientJson")
             /\ J[5] = put("coreAudit") /\ J[6] = put("clientAudit")
             /\ J[7] = Copy(<<"compiled", "coreAudit">>, <<"compiled", "coreMeta">>)
             /\ J[8] = Copy(<<"compiled", "clientAudit">>, <<"compiled", "clientMeta">>)
  <1> DEFINE put(f) == Put(<<"compiled", f>>, Content(f, c, k))
  <1>1. \A f \in Names : put(f) \in RealJobs
    BY ContentIs, JobFields, PathsAre
  <1>2. \A f, h \in Names : Copy(<<"compiled", f>>, <<"compiled", h>>) \in RealJobs
    BY JobFields, PathsAre
  <1> HIDE DEF put
  <1>3. CompileJobs(c, k) =
          <<put("coreMsgpack"), put("clientMsgpack"), put("coreJson"),
            put("clientJson"), put("coreAudit"), put("clientAudit"),
            Copy(<<"compiled", "coreAudit">>, <<"compiled", "coreMeta">>),
            Copy(<<"compiled", "clientAudit">>, <<"compiled", "clientMeta">>)>>
    BY DEF put, CompileJobs
  <1>4. /\ put("coreMsgpack") \in RealJobs /\ put("clientMsgpack") \in RealJobs
        /\ put("coreJson") \in RealJobs /\ put("clientJson") \in RealJobs
        /\ put("coreAudit") \in RealJobs /\ put("clientAudit") \in RealJobs
        /\ Copy(<<"compiled", "coreAudit">>, <<"compiled", "coreMeta">>) \in RealJobs
        /\ Copy(<<"compiled", "clientAudit">>, <<"compiled", "clientMeta">>) \in RealJobs
    BY <1>1, <1>2, NamesAre
  <1> QED BY <1>3, <1>4 DEF put

LEMMA PublishList ==
  LET J == PublishJobs
      publish(f) == Copy(<<"compiled", f>>, <<"runtime", f>>)
  IN  /\ J \in Seq(RealJobs) /\ Len(J) = 12
      /\ J[1] = Copy(<<"build", "coreJson">>, <<"compiled", "coreJson">>)
      /\ J[2] = Copy(<<"build", "clientJson">>, <<"compiled", "clientJson">>)
      /\ J[3] = Copy(<<"compiled", "coreAudit">>, <<"compiled", "coreMeta">>)
      /\ J[4] = Copy(<<"compiled", "clientAudit">>, <<"compiled", "clientMeta">>)
      /\ J[5] = publish("coreMsgpack") /\ J[6] = publish("clientMsgpack")
      /\ J[7] = publish("coreJson") /\ J[8] = publish("clientJson")
      /\ J[9] = publish("coreMeta") /\ J[10] = publish("clientMeta")
      /\ J[11] = publish("coreAudit") /\ J[12] = publish("clientAudit")
  <1> DEFINE last == <<Publish("coreMsgpack"), Publish("clientMsgpack"), Publish("coreJson"),
                       Publish("clientJson"), Publish("coreMeta"), Publish("clientMeta"),
                       Publish("coreAudit"), Publish("clientAudit")>>
  <1>1. \A f \in Names : Publish(f) \in RealJobs
    BY JobFields, PathsAre DEF Publish
  <1>2. \A f \in Jsons : FromBuild(f) \in RealJobs
    BY JobFields, PathsAre, NamesAre DEF FromBuild
  <1>3. /\ FromAudit("coreMeta") \in RealJobs /\ FromAudit("clientMeta") \in RealJobs
        /\ AuditOf["coreMeta"] = "coreAudit" /\ AuditOf["clientMeta"] = "clientAudit"
    <2>1. AuditOf["coreMeta"] = "coreAudit" /\ AuditOf["clientMeta"] = "clientAudit"
      BY DEF AuditOf
    <2>2. \A f, h \in Names : Copy(<<"compiled", f>>, <<"compiled", h>>) \in RealJobs
      BY JobFields, PathsAre
    <2> QED BY <2>1, <2>2, NamesAre DEF FromAudit
  <1>4. CopyBuildJobs \in Seq(RealJobs) /\ Len(CopyBuildJobs) = 4
    <2>1. /\ FromBuild("coreJson") \in RealJobs /\ FromBuild("clientJson") \in RealJobs
          /\ FromAudit("coreMeta") \in RealJobs /\ FromAudit("clientMeta") \in RealJobs
      BY <1>2, <1>3 DEF Jsons, RootMeta
    <2> QED BY <2>1 DEF CopyBuildJobs
  <1>5. last \in Seq(RealJobs) /\ Len(last) = 8
    <2>1. /\ Publish("coreMsgpack") \in RealJobs /\ Publish("clientMsgpack") \in RealJobs
          /\ Publish("coreJson") \in RealJobs /\ Publish("clientJson") \in RealJobs
          /\ Publish("coreMeta") \in RealJobs /\ Publish("clientMeta") \in RealJobs
          /\ Publish("coreAudit") \in RealJobs /\ Publish("clientAudit") \in RealJobs
      BY <1>1, NamesAre
    <2> QED BY <2>1
  <1>6. PublishJobs = CopyBuildJobs \o last
    BY DEF PublishJobs
  <1>7. /\ PublishJobs \in Seq(RealJobs) /\ Len(PublishJobs) = 12
        /\ \A i \in 1 .. 12 : PublishJobs[i] = IF i <= 4 THEN CopyBuildJobs[i] ELSE last[i - 4]
    <2> HIDE DEF last
    <2>1. /\ CopyBuildJobs \o last \in Seq(RealJobs)
          /\ Len(CopyBuildJobs \o last) = Len(CopyBuildJobs) + Len(last)
          /\ \A i \in 1 .. Len(CopyBuildJobs) + Len(last) : (CopyBuildJobs \o last)[i] =
                IF i <= Len(CopyBuildJobs) THEN CopyBuildJobs[i] ELSE last[i - Len(CopyBuildJobs)]
      BY <1>4, <1>5, ConcatProperties, Zenon
    <2>2. Len(CopyBuildJobs) + Len(last) = 12
      BY <1>4, <1>5
    <2>3. PublishJobs \in Seq(RealJobs) /\ Len(PublishJobs) = 12
      BY <1>6, <2>1, <2>2
    <2>4. ASSUME NEW i \in 1 .. 12
          PROVE  PublishJobs[i] = IF i <= 4 THEN CopyBuildJobs[i] ELSE last[i - 4]
      <3>1. i \in 1 .. Len(CopyBuildJobs) + Len(last)
        BY <2>2
      <3>2. (CopyBuildJobs \o last)[i] =
              IF i <= Len(CopyBuildJobs) THEN CopyBuildJobs[i] ELSE last[i - Len(CopyBuildJobs)]
        BY <2>1, <3>1, Zenon
      <3>3. Len(CopyBuildJobs) = 4
        BY <1>4
      <3> QED BY <3>2, <3>3, <1>6, Zenon
    <2> QED BY <2>3, <2>4
  <1>8. /\ PublishJobs[1] = FromBuild("coreJson") /\ PublishJobs[2] = FromBuild("clientJson")
        /\ PublishJobs[3] = FromAudit("coreMeta") /\ PublishJobs[4] = FromAudit("clientMeta")
    BY <1>7 DEF CopyBuildJobs
  <1>9. \A i \in 1 .. 8 : PublishJobs[i + 4] = last[i]
    BY <1>7
  <1>10. /\ PublishJobs[5] = last[1] /\ PublishJobs[6] = last[2] /\ PublishJobs[7] = last[3]
         /\ PublishJobs[8] = last[4] /\ PublishJobs[9] = last[5] /\ PublishJobs[10] = last[6]
         /\ PublishJobs[11] = last[7] /\ PublishJobs[12] = last[8]
    <2> HIDE DEF last
    <2> QED BY <1>9
  <1> QED BY <1>7, <1>8, <1>10, <1>3 DEF FromBuild, FromAudit, Publish

LEMMA DeployList ==
  /\ DeployJobs \in Seq(RealJobs) /\ Len(DeployJobs) = 8
  /\ \A i \in 1 .. 4 :
       /\ DeployJobs[2 * i - 1] = Copy(<<"runtime", Artifacts[i]>>, <<"backup", Artifacts[i]>>)
       /\ DeployJobs[2 * i] = Copy(<<"compiled", Artifacts[i]>>, <<"runtime", Artifacts[i]>>)
  <1>1. \A i \in 1 .. 4 : Artifacts[i] \in Deployed /\ Artifacts[i] \in Names
    BY NamesAre DEF Artifacts
  <1>2. \A i \in 1 .. 4 : /\ 2 * i - 1 \in 1 .. 8 /\ ((2 * i - 1) + 1) \div 2 = i
                          /\ (2 * i - 1) % 2 = 1
                          /\ 2 * i \in 1 .. 8 /\ ((2 * i) + 1) \div 2 = i /\ (2 * i) % 2 = 0
    OBVIOUS
  <1>3. \A i \in 1 .. 4 :
       /\ DeployJobs[2 * i - 1] = Copy(<<"runtime", Artifacts[i]>>, <<"backup", Artifacts[i]>>)
       /\ DeployJobs[2 * i] = Copy(<<"compiled", Artifacts[i]>>, <<"runtime", Artifacts[i]>>)
    BY <1>2 DEF DeployJobs
  <1>4. \A j \in 1 .. 8 : \E i \in 1 .. 4 : j = 2 * i - 1 \/ j = 2 * i
    OBVIOUS
  <1>5. \A j \in 1 .. 8 : DeployJobs[j] \in RealJobs
    BY <1>1, <1>3, <1>4, JobFields, PathsAre
  <1>6. DOMAIN DeployJobs = 1 .. 8 /\ DeployJobs = [j \in 1 .. 8 |-> DeployJobs[j]]
    BY DEF DeployJobs
  <1>7. DeployJobs \in [1 .. 8 -> RealJobs]
    BY <1>5, <1>6
  <1>8. DeployJobs \in Seq(RealJobs) /\ Len(DeployJobs) = 8
    BY <1>7, <1>6
  <1> QED BY <1>3, <1>8

-----------------------------------------------------------------------------
(* A list of jobs that is done in order.                                   *)
LEMMA FreshList ==
  ASSUME NEW jobs \in Seq(RealJobs)
  PROVE  /\ Remains(jobs, jobs) /\ DoneOf(jobs, jobs) = {}
         /\ Remains(<<>>, jobs)
         /\ DoneOf(<<>>, jobs) = {jobs[i].dst : i \in 1 .. Len(jobs)}
  <1>1. Len(jobs) \in Nat /\ Len(jobs) - Len(jobs) = 0
    OBVIOUS
  <1>2. Len(<<>>) = 0 /\ Len(jobs) - Len(<<>>) = Len(jobs)
    OBVIOUS
  <1>3. Remains(jobs, jobs) /\ Remains(<<>>, jobs)
    BY DEF Remains
  <1>4. DoneOf(jobs, jobs) = {}
    BY <1>1 DEF DoneOf
  <1>5. DoneOf(<<>>, jobs) = {jobs[i].dst : i \in 1 .. Len(jobs)}
    BY <1>2, Zenon DEF DoneOf
  <1> QED BY <1>3, <1>4, <1>5

LEMMA NextOfList ==
  ASSUME NEW jobs \in Seq(RealJobs), NEW t \in Seq(RealJobs), t # <<>>, Remains(t, jobs)
  PROVE  /\ Len(t) \in 1 .. Len(jobs)
         /\ Head(t) = jobs[Len(jobs) - Len(t) + 1] /\ Head(t) \in RealJobs
         /\ Tail(t) \in Seq(RealJobs) /\ Len(Tail(t)) = Len(t) - 1
         /\ Remains(Tail(t), jobs)
         /\ DoneOf(Tail(t), jobs) = DoneOf(t, jobs) \cup {Head(t).dst}
  <1> DEFINE n == Len(jobs)
             m == Len(t)
  <1>1. n \in Nat /\ m \in Nat \ {0} /\ m <= n
    BY DEF Remains
  <1>2. /\ Tail(t) \in Seq(RealJobs) /\ Len(Tail(t)) = m - 1
        /\ \A i \in 1 .. m - 1 : Tail(t)[i] = t[i + 1]
        /\ Head(t) = t[1] /\ Head(t) \in RealJobs
    BY HeadTailProperties
  <1>3. t[1] = jobs[n - m + 1]
    BY <1>1 DEF Remains
  <1>4. Remains(Tail(t), jobs)
    <2>1. ASSUME NEW i \in 1 .. m - 1 PROVE Tail(t)[i] = jobs[n - (m - 1) + i]
      <3>1. i + 1 \in 1 .. m /\ n - m + (i + 1) = n - (m - 1) + i
        BY <1>1
      <3>2. t[i + 1] = jobs[n - m + (i + 1)]
        BY <3>1 DEF Remains
      <3> QED BY <1>2, <3>1, <3>2
    <2> QED BY <1>1, <1>2, <2>1 DEF Remains
  <1>5. DoneOf(Tail(t), jobs) = DoneOf(t, jobs) \cup {Head(t).dst}
    <2>1. 1 .. n - (m - 1) = (1 .. n - m) \cup {n - m + 1}
      BY <1>1
    <2>2. DoneOf(Tail(t), jobs) = {jobs[i].dst : i \in 1 .. n - (m - 1)}
      BY <1>2 DEF DoneOf
    <2>3. DoneOf(t, jobs) = {jobs[i].dst : i \in 1 .. n - m}
      BY DEF DoneOf
    <2>4. Head(t).dst = jobs[n - m + 1].dst
      BY <1>2, <1>3
    <2> HIDE DEF n, m
    <2> QED BY <2>1, <2>2, <2>3, <2>4, Zenon
  <1> QED BY <1>1, <1>2, <1>3, <1>4, <1>5

(* The stages of a quiet pipeline make each file from what they have made. *)
LEMMA OwnJobs ==
  ASSUME NEW s \in {"build", "compile", "publish"}, NEW g \in Gens,
         NEW i \in 1 .. Len(JobsOf(s, g)),
         NEW made, MadeBefore(s) \subseteq made,
         \A j \in 1 .. (i - 1) : JobsOf(s, g)[j].dst \in made
  PROVE  /\ JobsOf(s, g)[i].copy => JobsOf(s, g)[i].src \in made
         /\ ~JobsOf(s, g)[i].copy => JobsOf(s, g)[i].val = <<g, g>>
  <1>1. CASE s = "build"
    <2>1. JobsOf(s, g) = BuildJobs(g)
      BY <1>1 DEF JobsOf
    <2>2. i = 1 \/ i = 2
      <3>1. i \in 1 .. Len(BuildJobs(g))
        BY <2>1
      <3>2. i \in 1 .. 2
        BY <3>1, BuildList
      <3> QED BY <3>2
    <2>3. JobsOf(s, g)[i].val = <<g, g>> /\ ~JobsOf(s, g)[i].copy
      <3> DEFINE J == BuildJobs(g)
      <3>1. J[1].val = <<g, g>> /\ J[2].val = <<g, g>> /\ ~J[1].copy /\ ~J[2].copy
        BY BuildJobsWrite
      <3> HIDE DEF J
      <3>2. JobsOf(s, g) = J
        BY <2>1 DEF J
      <3> QED BY <2>2, <3>1, <3>2
    <2> QED BY <2>3
  <1>2. CASE s = "compile"
    <2> DEFINE J == JobsOf(s, g)
               put(f) == Put(<<"compiled", f>>, Content(f, g, g))
    <2>1. JobsOf(s, g) = CompileJobs(g, g)
      BY <1>2 DEF JobsOf
    <2>2. \A f \in Names : put(f).val = <<g, g>> /\ ~put(f).copy /\ put(f).dst = <<"compiled", f>>
      BY ContentIs DEF Put
    <2> HIDE DEF put
    <2>3. /\ Len(J) = 8
          /\ J[1] = put("coreMsgpack") /\ J[2] = put("clientMsgpack")
          /\ J[3] = put("coreJson") /\ J[4] = put("clientJson")
          /\ J[5] = put("coreAudit") /\ J[6] = put("clientAudit")
          /\ J[7].src = <<"compiled", "coreAudit">>
          /\ J[8].src = <<"compiled", "clientAudit">> /\ J[7].copy /\ J[8].copy
      BY <2>1, CompileList DEF put, Copy
    <2>4. CASE i \in 1 .. 6
      <3>1. J[i] = put("coreMsgpack") \/ J[i] = put("clientMsgpack")
            \/ J[i] = put("coreJson") \/ J[i] = put("clientJson")
            \/ J[i] = put("coreAudit") \/ J[i] = put("clientAudit")
        BY <2>3, <2>4
      <3>2. PICK f \in Names : J[i] = put(f)
        BY <3>1, NamesAre
      <3> QED BY <2>2, <3>2
    <2>5. CASE i \in 7 .. 8
      <3>1. <<"compiled", "coreAudit">> \in made /\ <<"compiled", "clientAudit">> \in made
        <4>1. 5 \in 1 .. (i - 1) /\ 6 \in 1 .. (i - 1)
          BY <2>5
        <4>2. J[5].dst \in made /\ J[6].dst \in made
          BY <4>1
        <4> QED BY <2>2, <2>3, <4>2, NamesAre
      <3>2. i = 7 \/ i = 8
        BY <2>5
      <3> QED BY <2>3, <3>1, <3>2
    <2> QED BY <2>3, <2>4, <2>5
  <1>3. CASE s = "publish"
    <2> DEFINE J == JobsOf(s, g)
    <2>1. JobsOf(s, g) = PublishJobs
      BY <1>3 DEF JobsOf
    <2>2. Built \subseteq made /\ Place("compiled") \subseteq made
      BY <1>3 DEF MadeBefore
    <2>3. \A f \in Names : <<"compiled", f>> \in made
      BY <2>2 DEF Place
    <2>4. \A f \in Jsons : <<"build", f>> \in made
      BY <2>2 DEF Built
    <2> DEFINE Pub(f) == Copy(<<"compiled", f>>, <<"runtime", f>>)
    <2>5. \A f \in Names : Pub(f).copy /\ Pub(f).src = <<"compiled", f>>
      BY DEF Copy
    <2> HIDE DEF Pub
    <2>6. /\ Len(J) = 12
          /\ J[1].src = <<"build", "coreJson">> /\ J[1].copy
          /\ J[2].src = <<"build", "clientJson">> /\ J[2].copy
          /\ J[3].src = <<"compiled", "coreAudit">> /\ J[3].copy
          /\ J[4].src = <<"compiled", "clientAudit">> /\ J[4].copy
      BY <2>1, PublishList DEF Copy
    <2>7. /\ J[5] = Pub("coreMsgpack") /\ J[6] = Pub("clientMsgpack")
          /\ J[7] = Pub("coreJson") /\ J[8] = Pub("clientJson")
          /\ J[9] = Pub("coreMeta") /\ J[10] = Pub("clientMeta")
          /\ J[11] = Pub("coreAudit") /\ J[12] = Pub("clientAudit")
      BY <2>1, PublishList DEF Pub
    <2>8. CASE i \in 1 .. 4
      BY <2>3, <2>4, <2>6, <2>8, NamesAre
    <2>9. CASE i \in 5 .. 12
      <3>1. \/ J[i] = Pub("coreMsgpack") \/ J[i] = Pub("clientMsgpack")
            \/ J[i] = Pub("coreJson") \/ J[i] = Pub("clientJson")
            \/ J[i] = Pub("coreMeta") \/ J[i] = Pub("clientMeta")
            \/ J[i] = Pub("coreAudit") \/ J[i] = Pub("clientAudit")
        BY <2>7, <2>9
      <3>2. PICK f \in Names : J[i] = Pub(f)
        BY <3>1, NamesAre
      <3> QED BY <2>3, <2>5, <3>2
    <2> QED BY <2>6, <2>8, <2>9
  <1> QED BY <1>1, <1>2, <1>3

LEMMA StageList ==
  ASSUME NEW s \in {"build", "compile", "publish"}, NEW g \in Gens
  PROVE  JobsOf(s, g) \in Seq(RealJobs)
  BY BuildList, CompileList, PublishList DEF JobsOf

(* What a stage leaves when its list is done.                              *)
LEMMA StagesMake ==
  ASSUME NEW g \in Gens
  PROVE  /\ DoneOf(<<>>, BuildJobs(g)) = Built
         /\ Place("compiled") \subseteq DoneOf(<<>>, CompileJobs(g, g))
         /\ Place("runtime") \subseteq DoneOf(<<>>, PublishJobs)
  <1>1. DoneOf(<<>>, BuildJobs(g)) = Built
    <2>1. /\ BuildJobs(g)[1].dst = <<"build", "coreJson">>
          /\ BuildJobs(g)[2].dst = <<"build", "clientJson">>
          /\ DoneOf(<<>>, BuildJobs(g)) = {BuildJobs(g)[i].dst : i \in {1, 2}}
      <3>1. 1 .. 2 = {1, 2}
        OBVIOUS
      <3>2. Len(BuildJobs(g)) = 2
        BY BuildList
      <3>3. DoneOf(<<>>, BuildJobs(g)) = {BuildJobs(g)[i].dst : i \in 1 .. Len(BuildJobs(g))}
        BY BuildList, FreshList
      <3>4. DoneOf(<<>>, BuildJobs(g)) = {BuildJobs(g)[i].dst : i \in {1, 2}}
        BY <3>1, <3>2, <3>3, Zenon
      <3> QED BY <3>4, BuildJobsWrite
    <2> QED BY <2>1 DEF Built, Jsons
  <1>2. ASSUME NEW f \in Names PROVE <<"compiled", f>> \in DoneOf(<<>>, CompileJobs(g, g))
    <2> DEFINE J == CompileJobs(g, g)
    <2>1. /\ J \in Seq(RealJobs) /\ Len(J) = 8
          /\ J[1].dst = <<"compiled", "coreMsgpack">> /\ J[2].dst = <<"compiled", "clientMsgpack">>
          /\ J[3].dst = <<"compiled", "coreJson">> /\ J[4].dst = <<"compiled", "clientJson">>
          /\ J[5].dst = <<"compiled", "coreAudit">> /\ J[6].dst = <<"compiled", "clientAudit">>
          /\ J[7].dst = <<"compiled", "coreMeta">> /\ J[8].dst = <<"compiled", "clientMeta">>
      <3> DEFINE put(f0) == Put(<<"compiled", f0>>, Content(f0, g, g))
      <3>1. \A f0 \in Names : put(f0).dst = <<"compiled", f0>>
        BY DEF Put
      <3> HIDE DEF put
      <3>2. /\ J \in Seq(RealJobs) /\ Len(J) = 8
            /\ J[1] = put("coreMsgpack") /\ J[2] = put("clientMsgpack")
            /\ J[3] = put("coreJson") /\ J[4] = put("clientJson")
            /\ J[5] = put("coreAudit") /\ J[6] = put("clientAudit")
            /\ J[7].dst = <<"compiled", "coreMeta">> /\ J[8].dst = <<"compiled", "clientMeta">>
        BY CompileList DEF put, Copy
      <3> HIDE DEF J
      <3> QED BY <3>1, <3>2, NamesAre
    <2>2. DoneOf(<<>>, J) = {J[i].dst : i \in 1 .. Len(J)}
      BY <2>1, FreshList
    <2> HIDE DEF J
    <2>3. \E i \in 1 .. 8 : J[i].dst = <<"compiled", f>>
      BY <2>1, NamesAre
    <2> QED BY <2>1, <2>2, <2>3 DEF J
  <1>3. ASSUME NEW f \in Names PROVE <<"runtime", f>> \in DoneOf(<<>>, PublishJobs)
    <2> DEFINE J == PublishJobs
    <2>1. /\ J \in Seq(RealJobs) /\ Len(J) = 12
          /\ J[5].dst = <<"runtime", "coreMsgpack">> /\ J[6].dst = <<"runtime", "clientMsgpack">>
          /\ J[7].dst = <<"runtime", "coreJson">> /\ J[8].dst = <<"runtime", "clientJson">>
          /\ J[9].dst = <<"runtime", "coreMeta">> /\ J[10].dst = <<"runtime", "clientMeta">>
          /\ J[11].dst = <<"runtime", "coreAudit">> /\ J[12].dst = <<"runtime", "clientAudit">>
      BY PublishList DEF Copy
    <2>2. DoneOf(<<>>, J) = {J[i].dst : i \in 1 .. Len(J)}
      BY <2>1, FreshList
    <2> HIDE DEF J
    <2>3. \E i \in 1 .. 12 : J[i].dst = <<"runtime", f>>
      BY <2>1, NamesAre
    <2> QED BY <2>1, <2>2, <2>3 DEF J
  <1> QED BY <1>1, <1>2, <1>3 DEF Place

-----------------------------------------------------------------------------
(* The steps that touch the files.                                         *)
Types == Shape /\ \A p \in Process : ProcOK(p)

(* Whom nobody overlaps sees the files as they are.                        *)
LEMMA SeenAlone ==
  ASSUME Types, NEW p \in Process, NEW path,
         \A q \in Process : q # p => stage[q] = "idle"
  PROVE  Seen(p, path) = {fs[path]}
  <1>1. \A q \in Process \ {p} : todo[q] = <<>>
    BY DEF Types, ProcOK
  <1> QED BY <1>1 DEF Seen

LEMMA SeenIsRead ==
  ASSUME Types, NEW p \in Process, NEW path \in Paths, NEW v \in Seen(p, path)
  PROVE  v \in Values /\ (v = fs[path] \/ v = Torn)
  BY DEF Seen, Types, Shape, Values

LEMMA WriteFile ==
  ASSUME Types, NEW p \in Process, Write(p)
  PROVE  /\ Head(todo[p]) \in RealJobs
         /\ fs' \in [Paths -> Values]
         /\ \A path \in Paths : fs[path] # Absent => fs'[path] # Absent
         /\ \A path \in Paths : path # Head(todo[p]).dst => fs'[path] = fs[path]
         /\ ~Head(todo[p]).copy => fs'[Head(todo[p]).dst] = Head(todo[p]).val
         /\ (Head(todo[p]).copy /\ \A q \in Process : q # p => stage[q] = "idle") =>
              fs'[Head(todo[p]).dst] = IF fs[Head(todo[p]).src] = Absent
                                       THEN fs[Head(todo[p]).dst]
                                       ELSE fs[Head(todo[p]).src]
  <1> DEFINE job == Head(todo[p])
  <1>1. job \in RealJobs
    BY HeadTailProperties DEF Write, Types, Shape
  <1> HIDE DEF job
  <1>2. /\ job.copy \in BOOLEAN /\ job.src \in Paths /\ job.dst \in Paths
        /\ ~job.copy => job.val \in Gens \X Gens
    BY <1>1, JobFields
  <1>3. fs \in [Paths -> Values]
    BY DEF Types, Shape
  <1>4. IF job.copy
        THEN \E v \in Seen(p, job.src) : fs' = IF v = Absent THEN fs ELSE [fs EXCEPT ![job.dst] = v]
        ELSE fs' = [fs EXCEPT ![job.dst] = job.val]
    BY DEF Write, job
  <1>5. CASE job.copy
    <2>1. PICK v \in Seen(p, job.src) : fs' = IF v = Absent THEN fs ELSE [fs EXCEPT ![job.dst] = v]
      BY <1>4, <1>5
    <2>2. v \in Values
      BY <1>2, <2>1, SeenIsRead
    <2>3. (\A q \in Process : q # p => stage[q] = "idle") => v = fs[job.src]
      BY <2>1, SeenAlone
    <2>4. /\ fs' \in [Paths -> Values]
          /\ \A path \in Paths : fs[path] # Absent => fs'[path] # Absent
          /\ \A path \in Paths : path # job.dst => fs'[path] = fs[path]
      BY <1>2, <1>3, <2>1, <2>2
    <2>5. (\A q \in Process : q # p => stage[q] = "idle") =>
            fs'[job.dst] = IF fs[job.src] = Absent THEN fs[job.dst] ELSE fs[job.src]
      BY <1>2, <1>3, <2>1, <2>3
    <2> QED BY <1>1, <1>5, <2>4, <2>5 DEF job
  <1>6. CASE ~job.copy
    <2>1. fs' = [fs EXCEPT ![job.dst] = job.val] /\ job.val \in Values /\ job.val # Absent
      BY <1>2, <1>4, <1>6, SpecialValues DEF Values
    <2>2. /\ fs' \in [Paths -> Values]
          /\ \A path \in Paths : fs[path] # Absent => fs'[path] # Absent
          /\ \A path \in Paths : path # job.dst => fs'[path] = fs[path]
          /\ fs'[job.dst] = job.val
      BY <1>2, <1>3, <2>1
    <2> QED BY <1>1, <1>6, <2>2 DEF job
  <1> QED BY <1>2, <1>5, <1>6

LEMMA StopFile ==
  ASSUME Types, NEW p \in Process, Stop(p)
  PROVE  /\ fs' \in [Paths -> Values]
         /\ \A path \in Paths : fs[path] # Absent => fs'[path] # Absent
         /\ \A path \in Paths :
              fs'[path] = fs[path] \/ (todo[p] # <<>> /\ path = Head(todo[p]).dst)
  <1>1. fs \in [Paths -> Values] /\ Torn \in Values /\ Torn # Absent
    BY SpecialValues DEF Types, Shape, Values
  <1>2. CASE UNCHANGED fs
    BY <1>1, <1>2
  <1>3. CASE todo[p] # <<>> /\ fs' = [fs EXCEPT ![Head(todo[p]).dst] = Torn]
    BY <1>1, <1>3
  <1>4. (UNCHANGED fs) \/ (todo[p] # <<>> /\ fs' = [fs EXCEPT ![Head(todo[p]).dst] = Torn])
    BY DEF Stop
  <1> QED BY <1>2, <1>3, <1>4

LEMMA InitHolds == ASSUME Init PROVE DInv
  <1>1. fs \in [Paths -> Values]
    <2>1. Absent \in Values
      BY DEF Values
    <2>2. CASE fs = [path \in Paths |-> Absent]
      BY <2>1, <2>2
    <2>3. CASE fs = [path \in Paths |->
                      IF path[1] = "backup" THEN Absent ELSE Content(path[2], 0, 0)]
      <3>1. \A path \in Paths : Content(path[2], 0, 0) \in Values
        BY WholePaths, ContentIs, SpecialValues DEF Values
      <3> QED BY <2>1, <2>3, <3>1
    <2> QED BY <2>2, <2>3 DEF Init
  <1>2. /\ stage = [p \in Process |-> "idle"] /\ todo = [p \in Process |-> <<>>]
        /\ result = [p \in Process |-> "none"] /\ quiet = [p \in Process |-> FALSE]
    BY DEF Init
  <1>3. Shape
    <2>1. quiet \in [Process -> BOOLEAN]
      BY <1>2, Zenon
    <2>2. before \in [Deployed -> Values]
      BY DEF Init, Values
    <2>3. todo \in [Process -> Seq(RealJobs)]
      BY <1>2
    <2>4. gen \in [Pipeline -> Gens] /\ loaded \in [Pipeline -> Gens \X Gens] /\ runs \in Gens
      BY SpecialValues DEF Init
    <2> QED BY <1>1, <1>2, <2>1, <2>2, <2>3, <2>4 DEF Shape
  <1>4. \A p \in Process : ProcOK(p)
    BY <1>2 DEF ProcOK
  <1>5. BuildExists
    BY <1>2 DEF BuildExists, Process
  <1>6. QuietAlone /\ WayBack /\ OwnGeneration
    <2>1. \A p \in Process : ~quiet[p]
      BY <1>2
    <2> QED BY <2>1 DEF QuietAlone, WayBack, OwnGeneration, Process
  <1> QED BY <1>3, <1>4, <1>5, <1>6 DEF DInv, DTypes

-----------------------------------------------------------------------------
(* The type invariant, action by action.                                   *)

(* A step of p changes nothing of the others, but may reset their results. *)
Elsewhere(p) ==
    \A q \in Process : q # p =>
        /\ stage'[q] = stage[q] /\ todo'[q] = todo[q] /\ result'[q] \in {result[q], "none"}
        /\ q \in Pipeline => gen'[q] = gen[q] /\ loaded'[q] = loaded[q]

FilesStay == \A path \in Paths : fs[path] # Absent => fs'[path] # Absent

LEMMA DoneArePaths ==
  ASSUME NEW jobs \in Seq(RealJobs), NEW t \in Seq(RealJobs), Remains(t, jobs)
  PROVE  DoneOf(t, jobs) \subseteq Paths
  <1>1. \A i \in 1 .. (Len(jobs) - Len(t)) : i \in 1 .. Len(jobs)
    BY DEF Remains
  <1>2. \A i \in 1 .. Len(jobs) : jobs[i] \in RealJobs
    OBVIOUS
  <1> QED BY <1>1, <1>2, JobFields DEF DoneOf

LEMMA TypesFrom ==
  ASSUME DTypes, NEW p \in Process, Elsewhere(p), FilesStay, Shape', ProcOK(p)',
         (p \in Pipeline /\ stage[p] = "build" =>
            \A path \in DoneOf(todo[p], BuildJobs(gen[p])) : fs[path] # Absent)'
  PROVE  DTypes'
  <1>1. ASSUME NEW q \in Process, q # p PROVE ProcOK(q)'
    <2>1. /\ stage'[q] = stage[q] /\ todo'[q] = todo[q] /\ result'[q] \in {result[q], "none"}
          /\ q \in Pipeline => gen'[q] = gen[q] /\ loaded'[q] = loaded[q]
      BY <1>1 DEF Elsewhere
    <2>2. ProcOK(q)
      BY DEF DTypes
    <2>3. CASE q \in Pipeline
      BY <2>1, <2>2, <2>3 DEF ProcOK
    <2>4. CASE q \notin Pipeline
      <3>1. stage[q] \in {"idle", "deploy"}
        BY <2>2, <2>4 DEF ProcOK, DTypes, Shape
      <3> QED BY <2>1, <2>2, <3>1 DEF ProcOK
    <2> QED BY <2>3, <2>4
  <1>2. ASSUME NEW q \in Pipeline, q # p, stage'[q] = "build",
               NEW path \in DoneOf(todo'[q], BuildJobs(gen'[q]))
        PROVE  fs'[path] # Absent
    <2>1. q \in Process
      BY DEF Process
    <2>2. stage[q] = "build" /\ todo'[q] = todo[q] /\ gen'[q] = gen[q]
      BY <1>2, <2>1 DEF Elsewhere
    <2>3. path \in DoneOf(todo[q], BuildJobs(gen[q]))
      BY <2>2
    <2>4. fs[path] # Absent
      BY <2>2, <2>3 DEF DTypes, BuildExists
    <2>5. BuildJobs(gen[q]) \in Seq(RealJobs)
      BY BuildList DEF DTypes, Shape
    <2>6. path \in Paths
      <3>1. todo[q] \in Seq(RealJobs) /\ Remains(todo[q], BuildJobs(gen[q]))
        BY <2>1, <2>2 DEF DTypes, Shape, ProcOK
      <3> QED BY <2>3, <2>5, <3>1, DoneArePaths
    <2> QED BY <2>4, <2>6 DEF FilesStay
  <1>3. BuildExists'
    BY <1>2 DEF BuildExists
  <1>4. (\A q \in Process : ProcOK(q))'
    BY <1>1
  <1> QED BY <1>3, <1>4 DEF DTypes

LEMMA FinishTypes ==
  ASSUME DTypes, NEW p \in Process, NEW r \in {"none", "ok", "failed"}, Finish(p, r),
         fs' \in [Paths -> Values], FilesStay, UNCHANGED <<gen, loaded, runs, quiet, before>>
  PROVE  DTypes'
  <1>1. /\ stage' = [stage EXCEPT ![p] = "idle"] /\ todo' = [todo EXCEPT ![p] = <<>>]
        /\ result' = [result EXCEPT ![p] = r]
    BY DEF Finish, Enter
  <1>2. Shape /\ <<>> \in Seq(RealJobs)
    BY DEF DTypes
  <1>3. /\ stage' \in [Process -> {"idle", "build", "compile", "publish", "deploy"}]
        /\ todo' \in [Process -> Seq(RealJobs)]
        /\ result' \in [Process -> {"none", "ok", "failed"}]
    BY <1>1, <1>2 DEF Shape
  <1>4. Shape'
    BY <1>2, <1>3 DEF Shape
  <1>5. stage'[p] = "idle" /\ todo'[p] = <<>>
    BY <1>1, <1>2 DEF Shape
  <1>6. ProcOK(p)'
    BY <1>5 DEF ProcOK
  <1>7. Elsewhere(p)
    BY <1>1, <1>2 DEF Elsewhere, Shape
  <1>8. (p \in Pipeline /\ stage[p] = "build" =>
            \A path \in DoneOf(todo[p], BuildJobs(gen[p])) : fs[path] # Absent)'
    BY <1>5
  <1> QED BY <1>4, <1>6, <1>7, <1>8, TypesFrom

LEMMA StopTypes ==
  ASSUME DTypes, NEW p \in Process, Stop(p)
  PROVE  DTypes'
  <1>1. Types
    BY DEF DTypes, Types
  <1>2. fs' \in [Paths -> Values] /\ FilesStay
    BY <1>1, StopFile DEF FilesStay
  <1>3. PICK r \in {"failed", "none"} : Finish(p, r)
    BY DEF Stop
  <1>4. UNCHANGED <<gen, loaded, runs, quiet, before>>
    BY DEF Stop
  <1> QED BY <1>2, <1>3, <1>4, FinishTypes

LEMMA WriteTypes ==
  ASSUME DTypes, NEW p \in Process, Write(p)
  PROVE  DTypes'
  <1>1. Types /\ Shape /\ ProcOK(p)
    BY DEF DTypes, Types
  <1>2. fs' \in [Paths -> Values] /\ FilesStay
    BY <1>1, WriteFile DEF FilesStay
  <1>3. /\ todo[p] # <<>> /\ todo' = [todo EXCEPT ![p] = Tail(todo[p])]
        /\ UNCHANGED <<stage, gen, loaded, runs, result, quiet, before>>
    BY DEF Write
  <1>4. todo[p] \in Seq(RealJobs)
    BY <1>1 DEF Shape
  <1>5. Tail(todo[p]) \in Seq(RealJobs)
    BY <1>3, <1>4, HeadTailProperties
  <1>6. todo' \in [Process -> Seq(RealJobs)] /\ todo'[p] = Tail(todo[p])
    BY <1>1, <1>3, <1>5 DEF Shape
  <1>7. Shape'
    BY <1>1, <1>2, <1>3, <1>6 DEF Shape
  <1>8. Elsewhere(p)
    BY <1>1, <1>3 DEF Elsewhere, Shape
  <1>9. stage[p] # "idle"
    BY <1>1, <1>3 DEF ProcOK
  <1>10. ASSUME NEW jobs \in Seq(RealJobs), Remains(todo[p], jobs)
         PROVE  Remains(Tail(todo[p]), jobs)
    BY <1>3, <1>4, <1>10, NextOfList
  <1>11. ProcOK(p)'
    <2>1. stage[p] = "build" => Remains(Tail(todo[p]), BuildJobs(gen[p]))
      <3>1. stage[p] = "build" => gen[p] \in Gens /\ Remains(todo[p], BuildJobs(gen[p]))
        BY <1>1 DEF ProcOK, Shape
      <3> QED BY <1>10, <3>1, BuildList
    <2>2. stage[p] = "compile" => Remains(Tail(todo[p]), CompileJobs(loaded[p][1], loaded[p][2]))
      <3>1. stage[p] = "compile" =>
               /\ loaded[p][1] \in Gens /\ loaded[p][2] \in Gens
               /\ Remains(todo[p], CompileJobs(loaded[p][1], loaded[p][2]))
        BY <1>1 DEF ProcOK, Shape
      <3> QED BY <1>10, <3>1, CompileList
    <2>3. stage[p] = "publish" => Remains(Tail(todo[p]), PublishJobs)
      BY <1>1, <1>10, PublishList DEF ProcOK
    <2>4. stage[p] = "deploy" => Remains(Tail(todo[p]), DeployJobs)
      BY <1>1, <1>10, DeployList DEF ProcOK
    <2> QED BY <1>1, <1>3, <1>6, <1>9, <2>1, <2>2, <2>3, <2>4 DEF ProcOK
  <1>12. ASSUME p \in Pipeline, stage'[p] = "build",
                NEW path \in DoneOf(todo'[p], BuildJobs(gen'[p]))
         PROVE  fs'[path] # Absent
    <2> DEFINE jobs == BuildJobs(gen[p])
               job  == Head(todo[p])
    <2>1. gen[p] \in Gens /\ Remains(todo[p], jobs) /\ stage[p] = "build"
      BY <1>1, <1>3, <1>12 DEF ProcOK, Shape
    <2>2. jobs \in Seq(RealJobs) /\ Len(jobs) = 2
      BY <2>1, BuildList
    <2>3. path \in DoneOf(todo[p], jobs) \cup {job.dst}
      BY <1>3, <1>4, <1>6, <1>12, <2>1, <2>2, NextOfList
    <2>4. CASE path \in DoneOf(todo[p], jobs)
      <3>1. fs[path] # Absent /\ path \in Paths
        BY <1>4, <1>12, <2>1, <2>2, <2>4, DoneArePaths DEF DTypes, BuildExists
      <3> QED BY <1>2, <3>1 DEF FilesStay
    <2>5. CASE path = job.dst
      <3>1. job = jobs[1] \/ job = jobs[2]
        <4>1. /\ Len(todo[p]) \in 1 .. Len(jobs)
              /\ job = jobs[Len(jobs) - Len(todo[p]) + 1]
          BY <1>3, <1>4, <2>1, <2>2, NextOfList
        <4> DEFINE n == Len(todo[p])
        <4>2. n \in 1 .. 2 /\ job = jobs[2 - n + 1]
          BY <2>2, <4>1
        <4> HIDE DEF jobs, job, n
        <4>3. (n = 1 /\ 2 - n + 1 = 2) \/ (n = 2 /\ 2 - n + 1 = 1)
          BY <4>2
        <4> QED BY <4>2, <4>3
      <3>2. ~job.copy /\ job.val = <<gen[p], gen[p]>>
        BY <2>1, <3>1, BuildJobsWrite
      <3>3. fs'[job.dst] = <<gen[p], gen[p]>>
        BY <1>1, <3>2, WriteFile
      <3> QED BY <2>1, <2>5, <3>3, SpecialValues
    <2> QED BY <2>3, <2>4, <2>5
  <1>13. (p \in Pipeline /\ stage[p] = "build" =>
            \A path \in DoneOf(todo[p], BuildJobs(gen[p])) : fs[path] # Absent)'
    BY <1>12
  <1> QED BY <1>2, <1>7, <1>8, <1>11, <1>13, TypesFrom

LEMMA EnterTypes ==
  ASSUME DTypes, NEW p \in Process,
         NEW s \in {"build", "compile", "publish", "deploy"}, NEW jobs \in Seq(RealJobs),
         Enter(p, s, jobs), UNCHANGED fs,
         result'[p] = "none", \A q \in Process : result'[q] \in {result[q], "none"},
         \A q \in Pipeline : q # p => gen'[q] = gen[q] /\ loaded'[q] = loaded[q],
         gen' \in [Pipeline -> Gens], loaded' \in [Pipeline -> Gens \X Gens], runs' \in Gens,
         result' \in [Process -> {"none", "ok", "failed"}],
         quiet' \in [Process -> BOOLEAN], before' \in [Deployed -> Values],
         s \in {"build", "compile", "publish"} => p \in Pipeline,
         s = "build" => jobs = BuildJobs(gen'[p]),
         s = "compile" => jobs = CompileJobs(loaded'[p][1], loaded'[p][2]),
         s = "publish" => jobs = PublishJobs,
         s = "deploy" => p \in Deployer /\ jobs = DeployJobs
  PROVE  DTypes' /\ stage'[p] = s /\ todo'[p] = jobs
  <1>1. stage' = [stage EXCEPT ![p] = s] /\ todo' = [todo EXCEPT ![p] = jobs]
    BY DEF Enter
  <1>2. Shape
    BY DEF DTypes
  <1>3. /\ stage' \in [Process -> {"idle", "build", "compile", "publish", "deploy"}]
        /\ todo' \in [Process -> Seq(RealJobs)]
        /\ stage'[p] = s /\ todo'[p] = jobs
    BY <1>1, <1>2 DEF Shape
  <1>4. Shape'
    BY <1>2, <1>3 DEF Shape
  <1>5. Remains(jobs, jobs) /\ DoneOf(jobs, jobs) = {}
    BY FreshList
  <1>6. ProcOK(p)'
    BY <1>3, <1>5 DEF ProcOK
  <1>7. Elsewhere(p)
    BY <1>1, <1>2 DEF Elsewhere, Shape
  <1>8. (p \in Pipeline /\ stage[p] = "build" =>
            \A path \in DoneOf(todo[p], BuildJobs(gen[p])) : fs[path] # Absent)'
    BY <1>3, <1>5
  <1>9. FilesStay
    BY DEF FilesStay
  <1> QED BY <1>3, <1>4, <1>6, <1>7, <1>8, <1>9, TypesFrom

LEMMA BuildTypes ==
  ASSUME DTypes, NEW p \in Pipeline, Build(p)
  PROVE  /\ DTypes' /\ stage'[p] = "build" /\ todo'[p] = BuildJobs(gen'[p])
         /\ \A q \in Process : result'[q] = "none"
  <1>1. p \in Process /\ Shape
    BY DEF Process, DTypes
  <1>2. /\ runs < MaxRuns /\ runs' = runs + 1 /\ result' = [q \in Process |-> "none"]
        /\ quiet' = [q \in Process |-> q = p /\ \A r \in Process : stage[r] = "idle"]
        /\ gen' = [gen EXCEPT ![p] = runs'] /\ before' = [f \in Deployed |-> Absent]
        /\ UNCHANGED <<fs, loaded>> /\ Enter(p, "build", BuildJobs(runs'))
    BY DEF Build, Begin
  <1>3. runs' \in Gens
    BY <1>1, <1>2, SpecialValues DEF Shape, Gens
  <1>4. gen' \in [Pipeline -> Gens] /\ gen'[p] = runs' /\ \A q \in Pipeline : q # p => gen'[q] = gen[q]
    BY <1>1, <1>2, <1>3 DEF Shape
  <1>5. quiet' \in [Process -> BOOLEAN]
    BY <1>2, Zenon
  <1>6. before' \in [Deployed -> Values]
    BY <1>2 DEF Values
  <1>7. BuildJobs(runs') \in Seq(RealJobs)
    BY <1>3, BuildList
  <1>8. /\ result' \in [Process -> {"none", "ok", "failed"}]
        /\ \A q \in Process : result'[q] = "none"
    BY <1>2
  <1>9. loaded' \in [Pipeline -> Gens \X Gens] /\ loaded' = loaded
    BY <1>1, <1>2 DEF Shape
  <1> DEFINE jobs == BuildJobs(runs')
  <1>10. jobs \in Seq(RealJobs) /\ jobs = BuildJobs(gen'[p]) /\ Enter(p, "build", jobs) /\ UNCHANGED fs
    BY <1>2, <1>4, <1>7
  <1> HIDE DEF jobs
  <1>11. DTypes' /\ stage'[p] = "build" /\ todo'[p] = jobs
    BY <1>1, <1>3, <1>4, <1>5, <1>6, <1>8, <1>9, <1>10, EnterTypes
  <1> QED BY <1>8, <1>10, <1>11

LEMMA DeployTypes ==
  ASSUME DTypes, NEW p \in Deployer, Deploy(p)
  PROVE  DTypes' /\ stage'[p] = "deploy" /\ todo'[p] = DeployJobs
  <1>1. p \in Process /\ Shape
    BY DEF Process, DTypes
  <1>2. /\ runs < MaxRuns /\ runs' = runs + 1 /\ result' = [q \in Process |-> "none"]
        /\ quiet' = [q \in Process |-> q = p /\ \A r \in Process : stage[r] = "idle"]
        /\ before' = [f \in Deployed |-> fs[<<"runtime", f>>]]
        /\ UNCHANGED <<fs, gen, loaded>> /\ Enter(p, "deploy", DeployJobs)
    BY DEF Deploy, Begin
  <1>3. runs' \in Gens
    BY <1>1, <1>2, SpecialValues DEF Shape, Gens
  <1>5. quiet' \in [Process -> BOOLEAN]
    BY <1>2, Zenon
  <1>6. before' \in [Deployed -> Values]
    <2>1. \A f \in Deployed : <<"runtime", f>> \in Paths
      BY PathsAre, NamesAre
    <2> QED BY <1>1, <1>2, <2>1 DEF Shape
  <1>7. DeployJobs \in Seq(RealJobs)
    BY DeployList
  <1>8. /\ result' \in [Process -> {"none", "ok", "failed"}]
        /\ \A q \in Process : result'[q] = "none"
    BY <1>2
  <1>9. /\ loaded' \in [Pipeline -> Gens \X Gens] /\ loaded' = loaded
        /\ gen' \in [Pipeline -> Gens] /\ gen' = gen
    BY <1>1, <1>2 DEF Shape
  <1> QED BY <1>1, <1>2, <1>3, <1>5, <1>6, <1>7, <1>8, <1>9, EnterTypes

(* Both JSON files of a pipeline that has saved them exist, so that what   *)
(* its compiler reads is a generation unless it is cut off.                *)
LEMMA LoadReads ==
  ASSUME DTypes, NEW p \in Pipeline, Finished(p, "build"), NEW f \in Jsons,
         NEW v \in Seen(p, <<"build", f>>), v # Torn
  PROVE  v \in Gens \X Gens /\ v[1] \in Gens
  <1>1. p \in Process /\ Types
    BY DEF Process, DTypes, Types
  <1>2. gen[p] \in Gens /\ stage[p] = "build" /\ todo[p] = <<>>
    BY <1>1 DEF Types, Shape, Finished
  <1>3. <<"build", f>> \in DoneOf(todo[p], BuildJobs(gen[p]))
    BY <1>2, StagesMake DEF Built
  <1>4. fs[<<"build", f>>] # Absent
    BY <1>2, <1>3 DEF DTypes, BuildExists
  <1>5. v \in Values /\ v # Absent
    BY <1>1, <1>4, PathsAre, SeenIsRead, SpecialValues
  <1> QED BY <1>5 DEF Values

LEMMA LoadTypes ==
  ASSUME DTypes, NEW p \in Pipeline, Load(p)
  PROVE  DTypes'
  <1>1. p \in Process /\ Shape /\ Types /\ ProcOK(p)
    BY DEF Process, DTypes, Types
  <1>2. PICK core \in Seen(p, <<"build", "coreJson">>),
             client \in Seen(p, <<"build", "clientJson">>) :
          IF Torn \in {core, client}
           THEN Finish(p, "failed") /\ UNCHANGED loaded
           ELSE /\ loaded' = [loaded EXCEPT ![p] = <<core[1], client[1]>>]
                /\ Enter(p, "compile", CompileJobs(core[1], client[1]))
                /\ UNCHANGED result
    BY DEF Load
  <1>3. UNCHANGED <<fs, gen, runs, quiet, before>> /\ Finished(p, "build")
    BY DEF Load
  <1>4. CASE Torn \in {core, client}
    BY <1>1, <1>2, <1>3, <1>4, FinishTypes DEF Shape, FilesStay
  <1>5. CASE Torn \notin {core, client}
    <2> DEFINE c == core[1]
               k == client[1]
    <2>1. c \in Gens /\ k \in Gens
      BY <1>2, <1>3, <1>5, LoadReads, NamesAre
    <2>2. loaded' = [loaded EXCEPT ![p] = <<c, k>>] /\ Enter(p, "compile", CompileJobs(c, k))
          /\ UNCHANGED result
      BY <1>2, <1>5
    <2> HIDE DEF c, k
    <2>3. /\ loaded' \in [Pipeline -> Gens \X Gens]
          /\ loaded'[p][1] = c /\ loaded'[p][2] = k
          /\ \A q \in Pipeline : q # p => loaded'[q] = loaded[q]
      BY <1>1, <2>1, <2>2 DEF Shape
    <2>4. CompileJobs(c, k) \in Seq(RealJobs)
      BY <2>1, CompileList
    <2>5. result'[p] = "none" /\ \A q \in Process : result'[q] \in {result[q], "none"}
      BY <1>1, <1>3, <2>2 DEF ProcOK, Finished
    <2>6. /\ gen' \in [Pipeline -> Gens] /\ gen' = gen /\ runs' \in Gens
          /\ result' \in [Process -> {"none", "ok", "failed"}]
          /\ quiet' \in [Process -> BOOLEAN] /\ before' \in [Deployed -> Values]
      BY <1>1, <1>3, <2>2 DEF Shape
    <2> QED BY <1>1, <1>3, <2>2, <2>3, <2>4, <2>5, <2>6, EnterTypes
  <1> QED BY <1>4, <1>5

LEMMA ValidateTypes ==
  ASSUME DTypes, NEW p \in Pipeline, Validate(p)
  PROVE  DTypes'
  <1>1. p \in Process /\ Shape /\ ProcOK(p)
    BY DEF Process, DTypes
  <1>2. UNCHANGED <<fs, gen, loaded, runs, quiet, before>> /\ Finished(p, "compile")
    BY DEF Validate
  <1>3. CASE Finish(p, "failed")
    BY <1>1, <1>2, <1>3, FinishTypes DEF Shape, FilesStay
  <1>4. CASE Enter(p, "publish", PublishJobs) /\ UNCHANGED result
    <2>1. result'[p] = "none" /\ \A q \in Process : result'[q] \in {result[q], "none"}
      BY <1>1, <1>2, <1>4 DEF ProcOK, Finished
    <2>2. /\ gen' \in [Pipeline -> Gens] /\ gen' = gen /\ runs' \in Gens
          /\ loaded' \in [Pipeline -> Gens \X Gens] /\ loaded' = loaded
          /\ result' \in [Process -> {"none", "ok", "failed"}]
          /\ quiet' \in [Process -> BOOLEAN] /\ before' \in [Deployed -> Values]
      BY <1>1, <1>2, <1>4 DEF Shape
    <2> QED BY <1>1, <1>2, <1>4, <2>1, <2>2, PublishList, EnterTypes
  <1> QED BY <1>3, <1>4 DEF Validate

LEMMA ConcludeTypes ==
  ASSUME DTypes, NEW p \in Pipeline, Conclude(p)
  PROVE  DTypes'
  <1>1. p \in Process /\ Shape
    BY DEF Process, DTypes
  <1> QED BY <1>1, FinishTypes DEF Conclude, Shape, FilesStay

LEMMA VerifyTypes ==
  ASSUME DTypes, NEW p \in Deployer, Verify(p)
  PROVE  DTypes'
  <1>1. p \in Process /\ Shape
    BY DEF Process, DTypes
  <1> QED BY <1>1, FinishTypes DEF Verify, Shape, FilesStay

LEMMA TypesStay == ASSUME DTypes, [Next]_vars PROVE DTypes'
  <1>1. CASE UNCHANGED vars
    BY <1>1 DEF vars, DTypes, Shape, ProcOK, BuildExists
  <1>2. CASE Next
    BY <1>2, WriteTypes, StopTypes, BuildTypes, LoadTypes, ValidateTypes, ConcludeTypes,
       DeployTypes, VerifyTypes DEF Next
  <1> QED BY <1>1, <1>2

-----------------------------------------------------------------------------
(* Who is at work.                                                         *)
Busy(p) ==
    /\ stage[p] # "idle"
    /\ UNCHANGED <<quiet, gen, before>>
    /\ \A q \in Process : q # p => stage'[q] = stage[q]

Working(p) ==
    \/ Write(p) \/ Stop(p)
    \/ p \in Pipeline /\ (Load(p) \/ Validate(p) \/ Conclude(p))
    \/ p \in Deployer /\ Verify(p)

LEMMA WorkingIsBusy ==
  ASSUME DTypes, NEW p \in Process, Working(p)
  PROVE  Busy(p)
  <1>1. Shape /\ ProcOK(p)
    BY DEF DTypes
  <1>2. ASSUME NEW r, Finish(p, r) PROVE \A q \in Process : q # p => stage'[q] = stage[q]
    BY <1>1, <1>2 DEF Finish, Enter, Shape
  <1>3. ASSUME NEW t, NEW jobs, Enter(p, t, jobs) PROVE \A q \in Process : q # p => stage'[q] = stage[q]
    BY <1>1, <1>3 DEF Enter, Shape
  <1>4. CASE Write(p)
    BY <1>1, <1>4 DEF Write, ProcOK, Busy
  <1>5. CASE Stop(p)
    BY <1>2, <1>5 DEF Stop, Busy
  <1>6. CASE Load(p)
    <2>1. \A q \in Process : q # p => stage'[q] = stage[q]
      BY <1>2, <1>3, <1>6 DEF Load
    <2> QED BY <1>6, <2>1 DEF Load, Finished, Busy
  <1>7. CASE Validate(p)
    <2>1. \A q \in Process : q # p => stage'[q] = stage[q]
      BY <1>2, <1>3, <1>7 DEF Validate
    <2> QED BY <1>7, <2>1 DEF Validate, Finished, Busy
  <1>8. CASE Conclude(p)
    BY <1>2, <1>8 DEF Conclude, Finished, Busy
  <1>9. CASE Verify(p)
    BY <1>2, <1>9 DEF Verify, Finished, Busy
  <1> QED BY <1>4, <1>5, <1>6, <1>7, <1>8, <1>9 DEF Working

LEMMA NextIs ==
  ASSUME Next
  PROVE  \/ \E p \in Process : Working(p)
         \/ \E p \in Pipeline : Build(p)
         \/ \E p \in Deployer : Deploy(p)
  BY DEF Next, Working, Process

(* When a process of those that are busy takes a step, only it can be      *)
(* quiet.                                                                  *)
LEMMA QuietIsBusy ==
  ASSUME DTypes, QuietAlone, NEW p \in Process, Busy(p), NEW x \in Process, quiet'[x]
  PROVE  x = p /\ quiet[p] /\ \A q \in Process : q # p => stage[q] = "idle"
  BY DEF QuietAlone, Busy

LEMMA QuietBegins ==
  ASSUME NEW p \in Process, Begin(p), NEW x \in Process, quiet'[x]
  PROVE  x = p /\ \A q \in Process : stage[q] = "idle"
  BY DEF Begin

LEMMA AloneStays ==
  ASSUME DTypes, QuietAlone, [Next]_vars
  PROVE  QuietAlone'
  <1>1. CASE UNCHANGED vars
    BY <1>1 DEF vars, QuietAlone
  <1>2. ASSUME NEW p \in Process, Working(p) PROVE QuietAlone'
    <2>1. Busy(p)
      BY <1>2, WorkingIsBusy
    <2>2. ASSUME NEW x \in Process, NEW q \in Process, quiet'[x], q # x
          PROVE  stage'[q] = "idle"
      BY <2>1, <2>2, QuietIsBusy DEF Busy
    <2> QED BY <2>2 DEF QuietAlone
  <1>3. ASSUME NEW p \in Process, Begin(p), NEW t, NEW jobs, Enter(p, t, jobs) PROVE QuietAlone'
    <2>1. ASSUME NEW x \in Process, NEW q \in Process, quiet'[x], q # x
          PROVE  stage'[q] = "idle"
      <3>1. x = p /\ stage[q] = "idle"
        BY <1>3, <2>1, QuietBegins
      <3> QED BY <1>3, <2>1, <3>1 DEF Enter, DTypes, Shape
    <2> QED BY <2>1 DEF QuietAlone
  <1>4. ASSUME NEW p \in Pipeline, Build(p) PROVE QuietAlone'
    BY <1>3, <1>4 DEF Build, Process
  <1>5. ASSUME NEW p \in Deployer, Deploy(p) PROVE QuietAlone'
    BY <1>3, <1>5 DEF Deploy, Process
  <1> QED BY <1>1, <1>2, <1>4, <1>5, NextIs

-----------------------------------------------------------------------------
(* A way back.                                                             *)

LEMMA FourFiles ==
  /\ \A f \in Deployed : \E i \in 1 .. 4 : f = Artifacts[i]
  /\ \A i \in 1 .. 4 : /\ Artifacts[i] \in Deployed
                       /\ <<"runtime", Artifacts[i]>> \in Paths
                       /\ <<"backup", Artifacts[i]>> \in Paths
                       /\ <<"compiled", Artifacts[i]>> \in Paths
  /\ \A i, j \in 1 .. 4 : Artifacts[i] = Artifacts[j] => i = j
  <1>1. /\ Artifacts[1] = "coreMsgpack" /\ Artifacts[2] = "clientMsgpack"
        /\ Artifacts[3] = "coreAudit" /\ Artifacts[4] = "clientAudit"
    BY DEF Artifacts
  <1>2. \A i \in 1 .. 4 : i = 1 \/ i = 2 \/ i = 3 \/ i = 4
    OBVIOUS
  <1>3. \A i \in 1 .. 4 : Artifacts[i] \in Deployed
    BY <1>1, <1>2, NamesAre
  <1>4. \A f \in Deployed : f \in Names
    BY NamesAre
  <1>5. \A f \in Deployed : \E i \in 1 .. 4 : f = Artifacts[i]
    BY <1>1, NamesAre
  <1>6. \A i, j \in 1 .. 4 : Artifacts[i] = Artifacts[j] => i = j
    BY <1>1, <1>2
  <1> QED BY <1>3, <1>4, <1>5, <1>6, PathsAre

(* The next job of a deployment: a backup after an even number of jobs, a  *)
(* replacement after an odd one.                                           *)
LEMMA NextDeployJob ==
  ASSUME DTypes, NEW p \in Deployer, stage[p] = "deploy"
  PROVE  /\ 8 - Len(todo[p]) \in 0 .. 8
         /\ todo[p] = <<>> => 8 - Len(todo[p]) = 8
         /\ todo[p] # <<>> =>
              /\ 8 - Len(Tail(todo[p])) = 8 - Len(todo[p]) + 1
              /\ \E j \in 1 .. 4 :
                   \/ /\ 8 - Len(todo[p]) = 2 * j - 2
                      /\ Head(todo[p]) = Copy(<<"runtime", Artifacts[j]>>, <<"backup", Artifacts[j]>>)
                   \/ /\ 8 - Len(todo[p]) = 2 * j - 1
                      /\ Head(todo[p]) = Copy(<<"compiled", Artifacts[j]>>, <<"runtime", Artifacts[j]>>)
  <1> DEFINE n == Len(todo[p])
  <1>1. todo[p] \in Seq(RealJobs) /\ Remains(todo[p], DeployJobs)
    BY DEF DTypes, Shape, ProcOK, Process
  <1>2. n \in Nat /\ n <= 8
    BY <1>1, DeployList DEF Remains
  <1>3. ASSUME todo[p] # <<>>
        PROVE  /\ n \in 1 .. 8 /\ Head(todo[p]) = DeployJobs[8 - n + 1]
               /\ Len(Tail(todo[p])) = n - 1
    <2>1. /\ Len(todo[p]) \in 1 .. Len(DeployJobs)
          /\ Head(todo[p]) = DeployJobs[Len(DeployJobs) - Len(todo[p]) + 1]
          /\ Len(Tail(todo[p])) = Len(todo[p]) - 1
      BY <1>1, <1>3, DeployList, NextOfList
    <2>2. Len(DeployJobs) = 8
      BY DeployList
    <2> QED BY <2>1, <2>2
  <1>4. ASSUME todo[p] # <<>>
        PROVE  \E j \in 1 .. 4 :
                   \/ /\ 8 - n = 2 * j - 2
                      /\ Head(todo[p]) = Copy(<<"runtime", Artifacts[j]>>, <<"backup", Artifacts[j]>>)
                   \/ /\ 8 - n = 2 * j - 1
                      /\ Head(todo[p]) = Copy(<<"compiled", Artifacts[j]>>, <<"runtime", Artifacts[j]>>)
    <2>1. n \in 1 .. 8 /\ Head(todo[p]) = DeployJobs[8 - n + 1]
      BY <1>3, <1>4
    <2> HIDE DEF n
    <2>2. PICK j \in 1 .. 4 : 8 - n = 2 * j - 2 \/ 8 - n = 2 * j - 1
      BY <2>1
    <2>3. CASE 8 - n = 2 * j - 2
      <3>1. 8 - n + 1 = 2 * j - 1
        BY <2>1, <2>3
      <3> QED BY <2>1, <2>3, <3>1, DeployList
    <2>4. CASE 8 - n = 2 * j - 1
      <3>1. 8 - n + 1 = 2 * j
        BY <2>1, <2>4
      <3> QED BY <2>1, <2>4, <3>1, DeployList
    <2> QED BY <2>2, <2>3, <2>4
  <1>5. todo[p] = <<>> => n = 0
    BY <1>1
  <1> HIDE DEF n
  <1>6. 8 - n \in 0 .. 8
    BY <1>2
  <1>7. todo[p] # <<>> => 8 - Len(Tail(todo[p])) = 8 - n + 1
    BY <1>3
  <1> QED BY <1>4, <1>5, <1>6, <1>7 DEF n

LEMMA EitherFromBack ==
  ASSUME NEW k \in 0 .. 8, NEW files, NEW found,
         \A i \in 1 .. 4 : FileBack(i, k, files, found)
  PROVE  Either(files, found)
  <1>1. ASSUME NEW i \in 1 .. 4
        PROVE  found[Artifacts[i]] \in {Absent, files[<<"runtime", Artifacts[i]>>],
                                        files[<<"backup", Artifacts[i]>>]}
    <2>1. k < 2 * i \/ k >= 2 * i - 1
      OBVIOUS
    <2> QED BY <2>1 DEF FileBack
  <1> QED BY <1>1, FourFiles DEF Either

LEMMA WriteBack ==
  ASSUME DTypes, NEW p \in Deployer, stage[p] = "deploy", Write(p),
         \A q \in Process : q # p => stage[q] = "idle",
         \A i \in 1 .. 4 : FileBack(i, 8 - Len(todo[p]), fs, before)
  PROVE  \A i \in 1 .. 4 : FileBack(i, 8 - Len(todo'[p]), fs', before')
  <1> DEFINE k   == 8 - Len(todo[p])
             job == Head(todo[p])
  <1>1. p \in Process /\ Types
    BY DEF Process, DTypes, Types
  <1>2. /\ k \in 0 .. 8 /\ todo'[p] = Tail(todo[p]) /\ 8 - Len(todo'[p]) = k + 1
        /\ before' = before
        /\ \E j \in 1 .. 4 :
             \/ k = 2 * j - 2 /\ job = Copy(<<"runtime", Artifacts[j]>>, <<"backup", Artifacts[j]>>)
             \/ k = 2 * j - 1 /\ job = Copy(<<"compiled", Artifacts[j]>>, <<"runtime", Artifacts[j]>>)
    <2>1. todo[p] # <<>> /\ before' = before /\ todo'[p] = Tail(todo[p])
      BY <1>1 DEF Write, Types, Shape
    <2> QED BY <2>1, NextDeployJob
  <1>3. /\ \A path \in Paths : path # job.dst => fs'[path] = fs[path]
        /\ job.copy => fs'[job.dst] = IF fs[job.src] = Absent THEN fs[job.dst] ELSE fs[job.src]
    BY <1>1, WriteFile
  <1>4. \A i \in 1 .. 4 : FileBack(i, k, fs, before)
    OBVIOUS
  <1> HIDE DEF k, job
  <1>5. PICK j \in 1 .. 4 :
             \/ k = 2 * j - 2 /\ job = Copy(<<"runtime", Artifacts[j]>>, <<"backup", Artifacts[j]>>)
             \/ k = 2 * j - 1 /\ job = Copy(<<"compiled", Artifacts[j]>>, <<"runtime", Artifacts[j]>>)
    BY <1>2
  <1>6. ASSUME NEW i \in 1 .. 4
        PROVE  FileBack(i, k + 1, fs', before)
    <2>1. FileBack(i, k, fs, before)
      BY <1>4
    <2>2. CASE k = 2 * j - 2 /\ job = Copy(<<"runtime", Artifacts[j]>>, <<"backup", Artifacts[j]>>)
      <3>1. /\ job.dst = <<"backup", Artifacts[j]>> /\ job.src = <<"runtime", Artifacts[j]>> /\ job.copy
        BY <2>2 DEF Copy
      <3>2. fs'[<<"runtime", Artifacts[i]>>] = fs[<<"runtime", Artifacts[i]>>]
        BY <1>3, <3>1, FourFiles
      <3>3. CASE i = j
        <4>1. fs[<<"runtime", Artifacts[i]>>] = before[Artifacts[i]]
          BY <2>1, <2>2, <3>3 DEF FileBack
        <4>2. before[Artifacts[i]] \in {Absent, fs'[<<"backup", Artifacts[i]>>]}
          BY <1>3, <3>1, <3>3, <4>1
        <4> QED BY <3>2, <4>1, <4>2 DEF FileBack
      <3>4. CASE i # j
        <4>1. fs'[<<"backup", Artifacts[i]>>] = fs[<<"backup", Artifacts[i]>>]
          BY <1>3, <3>1, <3>4, FourFiles
        <4>2. (k + 1 < 2 * i => k < 2 * i) /\ (k + 1 >= 2 * i - 1 => k >= 2 * i - 1)
          BY <1>2, <2>2, <3>4
        <4> QED BY <2>1, <3>2, <4>1, <4>2 DEF FileBack
      <3> QED BY <3>3, <3>4
    <2>3. CASE k = 2 * j - 1 /\ job = Copy(<<"compiled", Artifacts[j]>>, <<"runtime", Artifacts[j]>>)
      <3>1. job.dst = <<"runtime", Artifacts[j]>>
        BY <2>3 DEF Copy
      <3>2. fs'[<<"backup", Artifacts[i]>>] = fs[<<"backup", Artifacts[i]>>]
        BY <1>3, <3>1, FourFiles
      <3>3. k + 1 >= 2 * i - 1 => k >= 2 * i - 1
        BY <1>2, <2>3
      <3>4. k + 1 < 2 * i => k < 2 * i /\ i # j
        BY <1>2, <2>3
      <3>5. i # j => fs'[<<"runtime", Artifacts[i]>>] = fs[<<"runtime", Artifacts[i]>>]
        BY <1>3, <3>1, FourFiles
      <3> QED BY <2>1, <3>2, <3>3, <3>4, <3>5 DEF FileBack
    <2> QED BY <1>5, <2>2, <2>3
  <1> QED BY <1>2, <1>6

LEMMA StopBack ==
  ASSUME DTypes, NEW p \in Deployer, stage[p] = "deploy", Stop(p),
         \A i \in 1 .. 4 : FileBack(i, 8 - Len(todo[p]), fs, before)
  PROVE  Either(fs', before')
  <1> DEFINE k   == 8 - Len(todo[p])
             job == Head(todo[p])
  <1>1. p \in Process /\ Types /\ before' = before
    BY DEF Process, DTypes, Types, Stop
  <1>2. /\ k \in 0 .. 8
        /\ todo[p] # <<>> =>
             \E j \in 1 .. 4 :
               \/ k = 2 * j - 2 /\ job = Copy(<<"runtime", Artifacts[j]>>, <<"backup", Artifacts[j]>>)
               \/ k = 2 * j - 1 /\ job = Copy(<<"compiled", Artifacts[j]>>, <<"runtime", Artifacts[j]>>)
    BY NextDeployJob
  <1>3. \A path \in Paths : fs'[path] = fs[path] \/ (todo[p] # <<>> /\ path = job.dst)
    BY <1>1, StopFile
  <1>4. \A i \in 1 .. 4 : FileBack(i, k, fs, before)
    OBVIOUS
  <1> HIDE DEF k, job
  <1>5. ASSUME NEW i \in 1 .. 4
        PROVE  before[Artifacts[i]] \in {Absent, fs'[<<"runtime", Artifacts[i]>>],
                                         fs'[<<"backup", Artifacts[i]>>]}
    <2>1. FileBack(i, k, fs, before)
      BY <1>4
    <2>2. CASE fs'[<<"runtime", Artifacts[i]>>] = fs[<<"runtime", Artifacts[i]>>] /\ k < 2 * i
      BY <2>1, <2>2 DEF FileBack
    <2>3. CASE fs'[<<"backup", Artifacts[i]>>] = fs[<<"backup", Artifacts[i]>>] /\ k >= 2 * i - 1
      BY <2>1, <2>3 DEF FileBack
    <2>4. k < 2 * i \/ k >= 2 * i - 1
      BY <1>2
    <2>5. CASE fs'[<<"runtime", Artifacts[i]>>] # fs[<<"runtime", Artifacts[i]>>]
      <3>1. todo[p] # <<>> /\ job.dst = <<"runtime", Artifacts[i]>>
        BY <1>3, <2>5, FourFiles
      <3>2. PICK j \in 1 .. 4 :
               \/ k = 2 * j - 2 /\ job = Copy(<<"runtime", Artifacts[j]>>, <<"backup", Artifacts[j]>>)
               \/ k = 2 * j - 1 /\ job = Copy(<<"compiled", Artifacts[j]>>, <<"runtime", Artifacts[j]>>)
        BY <1>2, <3>1
      <3>3. k = 2 * i - 1
        BY <3>1, <3>2, FourFiles DEF Copy
      <3>4. fs'[<<"backup", Artifacts[i]>>] = fs[<<"backup", Artifacts[i]>>]
        BY <1>3, <3>1, FourFiles
      <3> QED BY <1>2, <2>3, <3>3, <3>4
    <2>6. CASE fs'[<<"backup", Artifacts[i]>>] # fs[<<"backup", Artifacts[i]>>]
      <3>1. todo[p] # <<>> /\ job.dst = <<"backup", Artifacts[i]>>
        BY <1>3, <2>6, FourFiles
      <3>2. PICK j \in 1 .. 4 :
               \/ k = 2 * j - 2 /\ job = Copy(<<"runtime", Artifacts[j]>>, <<"backup", Artifacts[j]>>)
               \/ k = 2 * j - 1 /\ job = Copy(<<"compiled", Artifacts[j]>>, <<"runtime", Artifacts[j]>>)
        BY <1>2, <3>1
      <3>3. k = 2 * i - 2
        BY <3>1, <3>2, FourFiles DEF Copy
      <3>4. fs'[<<"runtime", Artifacts[i]>>] = fs[<<"runtime", Artifacts[i]>>]
        BY <1>3, <3>1, FourFiles
      <3> QED BY <1>2, <2>2, <3>3, <3>4
    <2> QED BY <2>2, <2>3, <2>4, <2>5, <2>6
  <1> QED BY <1>1, <1>5, FourFiles DEF Either

LEMMA WayBackStays ==
  ASSUME DTypes, DTypes', QuietAlone, WayBack, [Next]_vars
  PROVE  WayBack'
  <1>1. CASE UNCHANGED vars
    BY <1>1 DEF vars, WayBack
  <1>2. ASSUME NEW p \in Process, Working(p), NEW d \in Deployer, quiet'[d]
        PROVE  IF stage'[d] = "deploy"
               THEN \A i \in 1 .. 4 : FileBack(i, 8 - Len(todo'[d]), fs', before')
               ELSE Either(fs', before')
    <2>1. d \in Process /\ Busy(p)
      BY <1>2, WorkingIsBusy DEF Process
    <2>2. d = p /\ quiet[d] /\ \A q \in Process : q # d => stage[q] = "idle"
      BY <1>2, <2>1, QuietIsBusy
    <2>3. p \in Deployer /\ p \notin Pipeline
      BY <2>2, DeploymentAssumption
    <2>4. stage[p] = "deploy"
      BY <2>1, <2>3 DEF Busy, DTypes, Shape, ProcOK
    <2>5. \A i \in 1 .. 4 : FileBack(i, 8 - Len(todo[p]), fs, before)
      BY <2>2, <2>4 DEF WayBack
    <2>6. CASE Write(p)
      <3>1. stage'[p] = "deploy"
        BY <2>4, <2>6 DEF Write
      <3> QED BY <2>2, <2>3, <2>4, <2>5, <2>6, <3>1, WriteBack
    <2>7. CASE Stop(p)
      <3>1. stage'[p] = "idle"
        BY <2>1, <2>2, <2>7 DEF Stop, Finish, Enter, DTypes, Shape
      <3> QED BY <2>2, <2>3, <2>4, <2>5, <2>7, <3>1, StopBack
    <2>8. CASE Verify(p)
      <3>1. stage'[p] = "idle" /\ fs' = fs /\ before' = before
        BY <2>1, <2>2, <2>8 DEF Verify, Finish, Enter, DTypes, Shape
      <3>2. 8 - Len(todo[p]) \in 0 .. 8
        BY <2>3, <2>4, NextDeployJob
      <3>3. Either(fs, before)
        BY <2>5, <3>2, EitherFromBack
      <3> QED BY <2>2, <3>1, <3>3
    <2> QED BY <1>2, <2>3, <2>6, <2>7, <2>8 DEF Working
  <1>3. ASSUME NEW p \in Pipeline, Build(p), NEW d \in Deployer PROVE ~quiet'[d]
    BY <1>3, DeploymentAssumption, QuietBegins DEF Build, Process
  <1>4. ASSUME NEW p \in Deployer, Deploy(p), NEW d \in Deployer, quiet'[d]
        PROVE  /\ stage'[d] = "deploy"
               /\ \A i \in 1 .. 4 : FileBack(i, 8 - Len(todo'[d]), fs', before')
    <2>1. d = p
      BY <1>4, QuietBegins DEF Deploy, Process
    <2>2. stage'[p] = "deploy" /\ todo'[p] = DeployJobs /\ 8 - Len(DeployJobs) = 0
      BY <1>4, DeployTypes, DeployList
    <2>3. before' = [f \in Deployed |-> fs[<<"runtime", f>>]] /\ fs' = fs
      BY <1>4 DEF Deploy
    <2>4. \A i \in 1 .. 4 : FileBack(i, 0, fs', before')
      BY <2>3, FourFiles DEF FileBack
    <2> QED BY <2>1, <2>2, <2>4
  <1>5. ASSUME NEW p \in Process, Working(p) PROVE WayBack'
    BY <1>2, <1>5 DEF WayBack
  <1>6. ASSUME NEW p \in Pipeline, Build(p) PROVE WayBack'
    BY <1>3, <1>6 DEF WayBack
  <1>7. ASSUME NEW p \in Deployer, Deploy(p) PROVE WayBack'
    BY <1>4, <1>7 DEF WayBack
  <1> QED BY <1>1, <1>5, <1>6, <1>7, NextIs

-----------------------------------------------------------------------------
(* One generation.                                                         *)

LEMMA MadeArePaths ==
  ASSUME DTypes, NEW p \in Pipeline, stage[p] \in {"build", "compile", "publish"},
         Remains(todo[p], JobsOf(stage[p], gen[p]))
  PROVE  Made(p) \subseteq Paths
  <1>1. gen[p] \in Gens /\ todo[p] \in Seq(RealJobs)
    BY DEF DTypes, Shape, Process
  <1>2. DoneOf(todo[p], JobsOf(stage[p], gen[p])) \subseteq Paths
    BY <1>1, StageList, DoneArePaths
  <1>3. MadeBefore(stage[p]) \subseteq Paths
    BY PathsAre DEF MadeBefore, Built, Place
  <1> QED BY <1>2, <1>3 DEF Made

(* The list of a quiet pipeline is that of its own generation.             *)
LEMMA OwnList ==
  ASSUME DTypes, OwnGeneration, NEW p \in Pipeline, quiet[p],
         stage[p] \in {"build", "compile", "publish"}
  PROVE  Remains(todo[p], JobsOf(stage[p], gen[p]))
  <1>1. ProcOK(p)
    BY DEF DTypes, Process
  <1>2. stage[p] = "compile" => loaded[p][1] = gen[p] /\ loaded[p][2] = gen[p]
    BY DEF OwnGeneration
  <1> QED BY <1>1, <1>2 DEF ProcOK, JobsOf

LEMMA WriteOwn ==
  ASSUME DTypes, OwnGeneration, NEW p \in Pipeline, quiet[p], Write(p),
         \A q \in Process : q # p => stage[q] = "idle"
  PROVE  /\ (stage[p] = "compile" => loaded[p] = <<gen[p], gen[p]>>)'
         /\ \A path \in Made(p)' : fs'[path] = <<gen'[p], gen'[p]>>
  <1> DEFINE g    == gen[p]
             s    == stage[p]
             jobs == JobsOf(stage[p], gen[p])
             t    == todo[p]
             job  == Head(todo[p])
             made == MadeBefore(stage[p]) \cup DoneOf(todo[p], JobsOf(stage[p], gen[p]))
  <1>1. p \in Process /\ Types /\ Shape /\ ProcOK(p) /\ p \notin Deployer
    BY DeploymentAssumption DEF Process, DTypes, Types
  <1>2. /\ t # <<>> /\ todo'[p] = Tail(t)
        /\ UNCHANGED <<stage, gen, loaded>>
    BY <1>1 DEF Write, Shape
  <1>3. s \in {"build", "compile", "publish"}
    BY <1>1, <1>2 DEF ProcOK, Shape
  <1>4. g \in Gens /\ t \in Seq(RealJobs) /\ jobs \in Seq(RealJobs) /\ Remains(t, jobs)
    BY <1>1, <1>3, OwnList, StageList DEF Shape
  <1>5. /\ Len(t) \in 1 .. Len(jobs) /\ job = jobs[Len(jobs) - Len(t) + 1] /\ job \in RealJobs
        /\ DoneOf(Tail(t), jobs) = DoneOf(t, jobs) \cup {job.dst}
    BY <1>2, <1>4, NextOfList
  <1>6. Made(p) = made /\ made \subseteq Paths
    BY <1>3, <1>4, MadeArePaths DEF Made
  <1>7. Made(p)' = made \cup {job.dst}
    <2>1. Made(p)' = MadeBefore(s) \cup DoneOf(Tail(t), jobs)
      BY <1>2, <1>3 DEF Made
    <2> QED BY <1>5, <2>1
  <1>8. \A path \in made : fs[path] = <<g, g>>
    BY <1>6 DEF OwnGeneration
  <1>9. /\ job.copy => job.src \in made
        /\ ~job.copy => job.val = <<g, g>>
    <2> DEFINE i == Len(jobs) - Len(t) + 1
    <2>1. i \in 1 .. Len(jobs) /\ i - 1 = Len(jobs) - Len(t)
      BY <1>4, <1>5
    <2>2. MadeBefore(s) \subseteq made
      OBVIOUS
    <2>3. \A j \in 1 .. (i - 1) : JobsOf(s, g)[j].dst \in made
      <3>1. \A j \in 1 .. (Len(jobs) - Len(t)) : jobs[j].dst \in DoneOf(t, jobs)
        BY DEF DoneOf
      <3> QED BY <2>1, <3>1
    <2> HIDE DEF i, made, s, g
    <2>4. /\ JobsOf(s, g)[i].copy => JobsOf(s, g)[i].src \in made
          /\ ~JobsOf(s, g)[i].copy => JobsOf(s, g)[i].val = <<g, g>>
      <3>1. i \in 1 .. Len(JobsOf(s, g))
        BY <2>1 DEF s, g
      <3> QED BY <1>3, <1>4, <2>2, <2>3, <3>1, OwnJobs
    <2>5. JobsOf(s, g)[i] = job
      BY <1>5 DEF i, s, g
    <2> QED BY <2>4, <2>5
  <1>10. /\ \A path \in Paths : path # job.dst => fs'[path] = fs[path]
         /\ ~job.copy => fs'[job.dst] = job.val
         /\ job.copy => fs'[job.dst] = IF fs[job.src] = Absent THEN fs[job.dst] ELSE fs[job.src]
    BY <1>1, WriteFile
  <1>11. job.copy \in BOOLEAN
    BY <1>5, JobFields
  <1> HIDE DEF g, s, jobs, t, job, made
  <1>12. fs'[job.dst] = <<g, g>>
    <2>1. CASE ~job.copy
      BY <1>9, <1>10, <2>1
    <2>2. CASE job.copy
      <3>1. fs[job.src] = <<g, g>>
        BY <1>8, <1>9, <2>2
      <3>2. <<g, g>> # Absent
        BY <1>4, SpecialValues
      <3> QED BY <1>10, <2>2, <3>1, <3>2
    <2> QED BY <1>11, <2>1, <2>2
  <1>13. \A path \in made \cup {job.dst} : fs'[path] = <<g, g>>
    BY <1>6, <1>8, <1>10, <1>12
  <1>14. stage'[p] = "compile" => loaded'[p] = <<gen'[p], gen'[p]>>
    BY <1>2 DEF OwnGeneration
  <1>15. gen'[p] = g
    BY <1>2 DEF g
  <1> QED BY <1>7, <1>13, <1>14, <1>15

LEMMA LoadOwn ==
  ASSUME DTypes, OwnGeneration, NEW p \in Pipeline, quiet[p], Load(p),
         \A q \in Process : q # p => stage[q] = "idle"
  PROVE  /\ (stage[p] = "compile" => loaded[p] = <<gen[p], gen[p]>>)'
         /\ \A path \in Made(p)' : fs'[path] = <<gen'[p], gen'[p]>>
  <1>1. p \in Process /\ Types /\ Shape /\ gen[p] \in Gens
    BY DEF Process, DTypes, Types, Shape
  <1>2. stage[p] = "build" /\ todo[p] = <<>> /\ UNCHANGED <<fs, gen>>
    BY DEF Load, Finished
  <1>3. \A path \in Built : fs[path] = <<gen[p], gen[p]>>
    <2>1. Made(p) = Built
      BY <1>1, <1>2, StagesMake DEF Made, MadeBefore, JobsOf
    <2> QED BY <2>1 DEF OwnGeneration
  <1>4. /\ Seen(p, <<"build", "coreJson">>) = {<<gen[p], gen[p]>>}
        /\ Seen(p, <<"build", "clientJson">>) = {<<gen[p], gen[p]>>}
    <2>1. <<"build", "coreJson">> \in Built /\ <<"build", "clientJson">> \in Built
      BY NamesAre DEF Built
    <2> QED BY <1>1, <1>3, <2>1, SeenAlone
  <1>5. <<gen[p], gen[p]>> # Torn
    BY <1>1, SpecialValues
  <1>6. /\ loaded' = [loaded EXCEPT ![p] = <<gen[p], gen[p]>>]
        /\ Enter(p, "compile", CompileJobs(gen[p], gen[p]))
    <2>1. PICK core \in Seen(p, <<"build", "coreJson">>),
               client \in Seen(p, <<"build", "clientJson">>) :
            IF Torn \in {core, client}
             THEN Finish(p, "failed") /\ UNCHANGED loaded
             ELSE /\ loaded' = [loaded EXCEPT ![p] = <<core[1], client[1]>>]
                  /\ Enter(p, "compile", CompileJobs(core[1], client[1]))
                  /\ UNCHANGED result
      BY DEF Load
    <2>2. core = <<gen[p], gen[p]>> /\ client = <<gen[p], gen[p]>>
      BY <1>4, <2>1
    <2>3. Torn \notin {core, client} /\ core[1] = gen[p] /\ client[1] = gen[p]
      BY <1>5, <2>2
    <2> QED BY <2>1, <2>3
  <1>7. /\ stage'[p] = "compile" /\ todo'[p] = CompileJobs(gen[p], gen[p])
        /\ loaded'[p] = <<gen[p], gen[p]>>
    BY <1>1, <1>6 DEF Enter, Shape
  <1>8. DoneOf(CompileJobs(gen[p], gen[p]), CompileJobs(gen[p], gen[p])) = {}
    BY <1>1, CompileList, FreshList
  <1>9. Made(p)' = Built
    BY <1>2, <1>7, <1>8 DEF Made, MadeBefore, JobsOf
  <1> QED BY <1>2, <1>3, <1>7, <1>9

LEMMA ValidateOwn ==
  ASSUME DTypes, OwnGeneration, NEW p \in Pipeline, quiet[p], Validate(p)
  PROVE  /\ (stage[p] = "compile" => loaded[p] = <<gen[p], gen[p]>>)'
         /\ \A path \in Made(p)' : fs'[path] = <<gen'[p], gen'[p]>>
  <1>1. p \in Process /\ Shape /\ gen[p] \in Gens
    BY DEF Process, DTypes, Shape
  <1>2. stage[p] = "compile" /\ todo[p] = <<>> /\ UNCHANGED <<fs, gen>>
    BY DEF Validate, Finished
  <1>3. \A path \in Built \cup Place("compiled") : fs[path] = <<gen[p], gen[p]>>
    <2>1. Made(p) = Built \cup DoneOf(<<>>, CompileJobs(gen[p], gen[p]))
      BY <1>2 DEF Made, MadeBefore, JobsOf
    <2> QED BY <1>1, <2>1, StagesMake DEF OwnGeneration
  <1>4. CASE Finish(p, "failed")
    <2>1. stage'[p] = "idle" /\ result'[p] = "failed"
      BY <1>1, <1>4 DEF Finish, Enter, Shape
    <2> QED BY <2>1 DEF Made
  <1>5. CASE Enter(p, "publish", PublishJobs)
    <2>1. stage'[p] = "publish" /\ todo'[p] = PublishJobs
      BY <1>1, <1>5 DEF Enter, Shape
    <2>2. DoneOf(PublishJobs, PublishJobs) = {}
      BY PublishList, FreshList
    <2>3. Made(p)' = Built \cup Place("compiled")
      BY <2>1, <2>2 DEF Made, MadeBefore, JobsOf
    <2> QED BY <1>2, <1>3, <2>1, <2>3
  <1> QED BY <1>4, <1>5 DEF Validate

LEMMA ConcludeOwn ==
  ASSUME DTypes, OwnGeneration, NEW p \in Pipeline, quiet[p], Conclude(p)
  PROVE  /\ (stage[p] = "compile" => loaded[p] = <<gen[p], gen[p]>>)'
         /\ \A path \in Made(p)' : fs'[path] = <<gen'[p], gen'[p]>>
  <1>1. p \in Process /\ Shape /\ gen[p] \in Gens
    BY DEF Process, DTypes, Shape
  <1>2. stage[p] = "publish" /\ todo[p] = <<>> /\ UNCHANGED <<fs, gen>>
    BY DEF Conclude, Finished
  <1>3. \A path \in Place("compiled") \cup Place("runtime") : fs[path] = <<gen[p], gen[p]>>
    <2>1. Made(p) = Built \cup Place("compiled") \cup DoneOf(<<>>, PublishJobs)
      BY <1>2 DEF Made, MadeBefore, JobsOf
    <2> QED BY <1>1, <2>1, StagesMake DEF OwnGeneration
  <1>4. stage'[p] = "idle"
    BY <1>1 DEF Conclude, Finish, Enter, Shape
  <1>5. Made(p)' \subseteq Place("compiled") \cup Place("runtime")
    BY <1>4 DEF Made
  <1> QED BY <1>2, <1>3, <1>4, <1>5

LEMMA OwnStays ==
  ASSUME DTypes, DTypes', QuietAlone, OwnGeneration, [Next]_vars
  PROVE  OwnGeneration'
  <1>1. CASE UNCHANGED vars
    BY <1>1 DEF vars, OwnGeneration, Made
  <1>2. ASSUME NEW p \in Process, Working(p), NEW x \in Pipeline, quiet'[x]
        PROVE  /\ (stage[x] = "compile" => loaded[x] = <<gen[x], gen[x]>>)'
               /\ \A path \in Made(x)' : fs'[path] = <<gen'[x], gen'[x]>>
    <2>1. x \in Process /\ Busy(p)
      BY <1>2, WorkingIsBusy DEF Process
    <2>2. x = p /\ quiet[x] /\ \A q \in Process : q # x => stage[q] = "idle"
      BY <1>2, <2>1, QuietIsBusy
    <2>3. p \in Pipeline /\ p \notin Deployer
      BY <2>2, DeploymentAssumption
    <2>4. CASE Write(p)
      BY <2>2, <2>3, <2>4, WriteOwn
    <2>5. CASE Stop(p)
      <3>1. stage'[p] = "idle" /\ result'[p] # "ok"
        BY <2>1, <2>2, <2>5 DEF Stop, Finish, Enter, DTypes, Shape
      <3> QED BY <2>2, <3>1 DEF Made
    <2>6. CASE Load(p)
      BY <2>2, <2>3, <2>6, LoadOwn
    <2>7. CASE Validate(p)
      BY <2>2, <2>3, <2>7, ValidateOwn
    <2>8. CASE Conclude(p)
      BY <2>2, <2>3, <2>8, ConcludeOwn
    <2> QED BY <1>2, <2>3, <2>4, <2>5, <2>6, <2>7, <2>8 DEF Working
  <1>3. ASSUME NEW p \in Pipeline, Build(p), NEW x \in Pipeline, quiet'[x]
        PROVE  /\ (stage[x] = "compile" => loaded[x] = <<gen[x], gen[x]>>)'
               /\ \A path \in Made(x)' : fs'[path] = <<gen'[x], gen'[x]>>
    <2>1. x = p
      BY <1>3, QuietBegins DEF Build, Process
    <2>2. stage'[p] = "build" /\ todo'[p] = BuildJobs(gen'[p]) /\ gen'[p] \in Gens
      BY <1>3, BuildTypes DEF DTypes, Shape
    <2>3. DoneOf(BuildJobs(gen'[p]), BuildJobs(gen'[p])) = {}
      BY <2>2, BuildList, FreshList
    <2>4. Made(p)' = {}
      BY <2>2, <2>3 DEF Made, MadeBefore, JobsOf
    <2> QED BY <2>1, <2>2, <2>4
  <1>4. ASSUME NEW p \in Deployer, Deploy(p), NEW x \in Pipeline PROVE ~quiet'[x]
    BY <1>4, DeploymentAssumption, QuietBegins DEF Deploy, Process
  <1>5. ASSUME NEW p \in Process, Working(p) PROVE OwnGeneration'
    BY <1>2, <1>5 DEF OwnGeneration
  <1>6. ASSUME NEW p \in Pipeline, Build(p) PROVE OwnGeneration'
    BY <1>3, <1>6 DEF OwnGeneration
  <1>7. ASSUME NEW p \in Deployer, Deploy(p) PROVE OwnGeneration'
    BY <1>4, <1>7 DEF OwnGeneration
  <1> QED BY <1>1, <1>5, <1>6, <1>7, NextIs

-----------------------------------------------------------------------------
LEMMA Inductive == ASSUME DInv, [Next]_vars PROVE DInv'
  BY TypesStay, AloneStays, WayBackStays, OwnStays DEF DInv

LEMMA Always == Spec => []DInv
  <1>1. Init => DInv
    BY InitHolds
  <1>2. DInv /\ [Next]_vars => DInv'
    BY Inductive
  <1> QED BY <1>1, <1>2, PTL DEF Spec

(* The state is always of its type, whatever overlaps and stops half-way.  *)
THEOREM TypeCorrect == Spec => []TypeOK
  <1>1. DInv => TypeOK
    <2>1. RealJobs \subseteq Jobs
      BY JobFields
    <2>2. Seq(RealJobs) \subseteq Seq(Jobs)
      BY <2>1
    <2> QED BY <2>2, Zenon DEF DInv, DTypes, Shape, TypeOK
  <1> QED BY <1>1, Always, PTL

(* A deployment that no other process overlaps always leaves each file it  *)
(* found in the runtime there or in the backup: copy_files backs a file up *)
(* right before it replaces it, and a crash cuts off one of the two only.  *)
THEOREM RollbackHolds == Spec => []RollbackPossible
  <1>1. DInv => RollbackPossible
    <2> SUFFICES ASSUME DInv, NEW p \in Deployer, quiet[p]
                 PROVE  Either(fs, before)
      BY DEF RollbackPossible, Either
    <2>1. CASE stage[p] = "deploy"
      <3>1. 8 - Len(todo[p]) \in 0 .. 8
        BY <2>1, NextDeployJob DEF DInv
      <3>2. \A i \in 1 .. 4 : FileBack(i, 8 - Len(todo[p]), fs, before)
        BY <2>1 DEF DInv, WayBack
      <3> QED BY <3>1, <3>2, EitherFromBack
    <2>2. CASE stage[p] # "deploy"
      BY <2>2 DEF DInv, WayBack
    <2> QED BY <2>1, <2>2
  <1> QED BY <1>1, Always, PTL

(* A pipeline that reports success, and that nobody overlapped, leaves the *)
(* compiled directory and the runtime whole and of its own generation,     *)
(* whatever the runs before it had left there.                             *)
THEOREM SuccessHolds == Spec => []SuccessIsWhole
  <1>1. DInv => SuccessIsWhole
    <2> SUFFICES ASSUME DInv, NEW p \in Pipeline, result[p] = "ok", quiet[p],
                        NEW place \in {"compiled", "runtime"},
                        NEW path \in Paths, path[1] = place
                 PROVE  fs[path] = Content(path[2], gen[p], gen[p])
      BY DEF SuccessIsWhole, Whole
    <2>1. stage[p] = "idle" /\ gen[p] \in Gens
      BY DEF DInv, DTypes, Shape, ProcOK, Process
    <2>2. Made(p) = Place("compiled") \cup Place("runtime")
      BY <2>1 DEF Made
    <2>3. path = <<path[1], path[2]>> /\ path[2] \in Names
      BY WholePaths
    <2>4. path \in Place("compiled") \cup Place("runtime")
      BY <2>3 DEF Place
    <2>5. fs[path] = <<gen[p], gen[p]>>
      BY <2>2, <2>4 DEF DInv, OwnGeneration
    <2> QED BY <2>1, <2>3, <2>5, ContentIs
  <1> QED BY <1>1, Always, PTL

=============================================================================
