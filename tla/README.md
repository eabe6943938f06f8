# Formal models of SDD Harness

SDD Harness compiles the governance of a workspace into artifacts and makes agents work under it: an agent
answers a handshake challenge bound to the artifact's fingerprint, its sessions are bound to the same
fingerprint, its actions are recorded in a telemetry and compliance log. Most of this state is **files under
`.sdd/`, shared by short-lived processes with no server between them**. That is where the hard behaviour is,
and it is what these modules model: interleaved processes, calls that raise, processes and machines that stop
between any two calls, a clock that runs, and files that others replace.

Contents: [inventory](#inventory) · [modules](#modules) · [runs](#runs) · [bounds](#bounds) ·
[fairness](#fairness) · [proofs](#proofs) · [where code and documents disagree](#where-code-and-documents-disagree) ·
[observations without a run](#observations-without-a-run) · [not modelled](#not-modelled) · [plan](#plan)

Paths below are relative to `src/packages/core/` unless they begin with `src/`; `core` stands for
`sdd_core/src/sdd_core`, `runtime` for `sdd_runtime/src/sdd_runtime`.

## Inventory

### How the parts meet

```
 markdown ──build──▶ build/*.json ──Go compiler──▶ compiled dir ──publish / deploy──▶ .sdd/compiled
                                                                                        │ fingerprint
                          ┌──────────────────────────────┬─────────────────────────────┤
                          ▼                              ▼                             ▼
              handshake challenge/response       session registry              drift, loaders, ask
                          │ valid?                       │
                          ▼                              ▼
                       ask guard, skill executor ─▶ telemetry sink ─┐
                            ledger │ ▲ active rules                 │
                                   ▼ │                              │
                              learning store                        │
                       compliance recording   ──▶ compliance log ───┴▶ .sdd/runtime/compliance-events.jsonl
```

* Publication and deployment write the directory that every other part reads the fingerprint from.
* The handshake and the sessions are *bound* to a fingerprint; a recompilation is supposed to end their authority.
* The telemetry sink and the compliance log append to **the same file by default**
  (`core/governance/compliance_constants.py:128`), one under a flock and an fsync, the other with neither and with
  rotation by rename.
* The skill executor writes what its runs did to the failure ledger; rules that a human approves in the learning store close its
  correction gate.
* The budget zone of a telemetry event creates a second event and may fire an alert.

### Components

| part | state | operations | what is hard | what makes it correct |
|---|---|---|---|---|
| **Session registry** `runtime/session.py` | one JSON file of sessions, a lock file, a copy in each process | construct, `upsert`, `delete`, `save` (each a locked read-merge-write with `os.replace`) | several processes, exceptions and deaths at any call | no session of another process is lost, the file is never torn, the lock is never left taken |
| **Handshake** `core/governance/handshake_challenge.py` | challenge file (written in place), response file (renamed into place) | `generate_challenge`, `complete_handshake`, `is_handshake_valid` | one pair of files for all clients; recompilation, signing and time in between | a valid answer is fresh, about the governance in force, and to the challenge on file |
| **Compliance log** `core/governance/compliance_log_store.py` | the log and its numbered backups | `append` (with `rotate`), `read` | no lock; each rename may fail, or be overtaken | what is lost is the oldest, files stay bounded |
| **Telemetry sink** `runtime/telemetry/_sink.py`, worker in `sdd_cli` | events in memory, marks of what was written, the JSONL file | `emit`, zone event, `flush`, exit | durability across stops, short writes, failing calls, the two-second exit | an acknowledged event is on disk, once; breaches are always recorded |
| **Publication and deployment** `core/governance_orchestrator.py`, `core/deployment_*.py`, `src/tools/sdd-compile/internal/govcompiler` | build, compiled, runtime and backup files | `run_full_pipeline`, `deploy` | many files written one by one, no lock, no staging | success means a whole, valid, single generation; failure can be undone |
| **Ask guard** `sdd_cli/_command_group.py`, `commands/_ask_backend/_budget.py` | a handshake verdict computed at startup | startup, `_guard_handshake` (twice) | the verdict is stale when used | strict mode blocks without an acknowledged handshake |
| **Learning store** `runtime/learning` | ledger, candidates, rules (JSON files) | record, generate, decide, list (expires), roll back | unlocked read-modify-write, deaths inside a write | a rule needs a human and a recurring pattern; a decision is not lost; a retired rule stays retired |
| **Skill executor** `runtime/_skill_executor`, `policy` | the context an agent carries from run to run | single skills and pipelines: authorise, pre_run, commands with retries, post_run, gates | stale attestations, any order of stages, failing commands, three gates with different exit codes | no correction without a valid diagnosis or attestation of it, or under a freeze; 0 means every stage |
| **Governance loader** `core/utils/loader.py` | none | reads four files and compares fingerprints | a publication in between | what is loaded belongs together |
| Circuit breaker, budgets, context cache `core/skill_circuit_breaker.py`, `runtime/budget`, `cache` | counters, entries with a TTL, in one process | allow, consume, get, set | ceilings, eviction | the first two are created by nothing but their tests |
| Artifact loading for the runtime, consistency check, signatures `runtime/artifacts`, `signatures` | none | read files and compare | a publication in between | what is accepted belongs together |
| Reader, metrics, providers, entropy, scoring, adapters, pages, wizard, tools | none shared | functions of their input | – | – |

The list with its files and the reason for each part left out is in `PROJECT.json` (`components`); the hazards of
the code, each at its line with the properties that cover it, are there too (`hazards`).

## Modules

| module | role |
|---|---|
| `SessionMap` | what the session registry promises: a map of sessions whose changes take effect one by one |
| `SessionStore` | the session registry as coded; implements `SessionMap` |
| `Handshake` | challenge, response and validity check, with recompilation, signing and the clock |
| `ComplianceLog` | append and rotation, one step per file-system call |
| `TelemetrySink` | emit, zone event, flush, with failing calls, exits and machine stops |
| `AskGuard` | composes `Handshake` with the command group's verdict and the guard of `sdd ask` |
| `Deployment` | build, Go compile, validation, publication and deployment as sequences of file writes |
| `GovernanceReaders` | composes `Deployment` with processes that load what is published |
| `RuleBook` | what the learning store promises of its rules |
| `LearningStore` | ledger, candidates and rule registry as coded; implements `RuleBook` where no writes overlap |
| `SkillPipeline` | runs of skills and pipelines over a context that is carried along |
| `SessionStoreProofs`, `HandshakeProofs`, `ComplianceLogProofs`, `DeploymentProofs`, `LearningStoreProofs`, `SkillPipelineProofs` | theorems about the module of that name |
| `TelemetrySinkProofs`, `TelemetryRecordProofs` | theorems about `TelemetrySink`: what is on the disk, and what is recorded once, completely and before its alert |
| `MC…` | constants, symmetry and constraint for TLC |

Definitions a comment calls *Mutant* are never part of a specification: each is the wrong form of the definition that
follows it, with which its property fails.

### SessionStore

State: `disk` (`sdd-runtime-sessions.json`), `tmp` (each process' temporary file), `lock` (the flock), `mem` (`_sessions`),
`todo` (keys the current call still has to persist), `cur`, `pc`. `Load`, `Upsert`, `Delete` and `Save` are the public
calls; each leaves `_persist_key` to do for one key (or, for `Save`, for every key it knows). `Acquire`, `ReadMerge`, `OpenTmp`,
`FillTmp`, `Replace`, `Release` are the steps of `_persist_key` and `_write_sessions_atomically`. `Raise` is an exception
in any of them (the `finally` releases the lock), `Crash` a death (the kernel releases it). `HasFcntl` is the
platform test: without `fcntl`, `Acquire` takes nothing. Values of a session are opaque.

### Handshake

`generate_challenge` reads the mandates, the signature status and the fingerprint **in three separate reads**, so it is three
steps (`ReadMandates`, `ReadSignature`, `ReadFingerprint`), then truncates and fills the challenge file
(`OpenChallenge`, `FillChallenge`) or logs that it could not (`ChallengeNotPersisted`). `StampResponse` is
`complete_handshake` up to the stamping of the binding fields from *whatever challenge is on file*; `WriteResponse` is its rename into
place. `Compile`, `Sign` and `Tick` are the rest of the workspace. `Valid(strict)` is `is_handshake_valid`, including its
fallback when there is no parsable challenge. A fingerprint is the artifact itself: hashes do not collide.

### AskGuard

Extends `Handshake` with processes of `sdd ask`. `Start` is `LazyCommandGroup.invoke`, which stores `is_handshake_valid()` in the
context of the command (`verdict`); a caller that does not come through the group has none. `Pass`, `Warn`, `Block` and `FailOpen`
are the ways out of `_guard_handshake`, which one ask passes twice, with any steps of the handshake's processes in between.

### ComplianceLog

A name (the log is 0, backup i is i) refers to an inode; an open file stays the same inode when its name moves. Each action is one
file-system call of `append` and `rotate`: `StartAppend` (exists), `Stat`, `BackupMissing`/`BackupExists`,
`RenameBackup`, `MoveLog`, `Touch`, `Open`, `Write`. `RotateFails` is the `except OSError` of `rotate`, after which the record is appended
all the same. `Abort` is a death or a failed write. Records are numbered in the order they are written.

### TelemetrySink

`file` is the sequence of half-lines in the JSONL file, `synced` how much of it survives a machine stop. `Emit` creates an event with the
zone its budget use calls for; `Open`, `Acquire`, `WriteHead`, `WriteTail`, `Fsync`, `Mark` are `_write_jsonl`; `Continue` is
what follows its return: the zone event, the alert, the next event of a flush. A line is written in two halves, since the buffer of a long line
reaches the file in several writes. `Raise` is a call that fails; `Exit` the end of a process (also the cut of a flush that outlasts the two
seconds of `ask_telemetry_worker.py:92`); `PowerLoss` the machine.

### Deployment

A file holds the generation it was made from, or is `Absent` or `Torn`. Each stage is a list of jobs (`CompileJobs`, `PublishJobs`,
`DeployJobs`) in the order the code writes the files; `Write` does one, `Stop` ends the run as a failure or a death, possibly
in the middle of a file. `Load`, `Validate`, `Conclude`, `Verify` are the decisions between the stages. A file that another process is
writing can be read cut off (`Seen`). The client's metadata carries the fingerprint of the core as its salt, hence the pairs in `Content`. A compiler that
stops in the middle of an artifact is `Stop` during the `compile` stage.

### GovernanceReaders

Extends `Deployment` with processes of `GovernanceLoader.load_all`: `StartLoad` looks whether the required files exist, `Read` reads the
next of the four files (metadata from `audit/` or else from the root; a file that others are writing may be cut off, which raises),
`FinishLoad` is `_validate_integrity`. `fingerprint_salt` is what the code finds under that key: nothing.

### LearningStore

`ledger`, `candidates` and `registry` are the three files; the last two are rewritten as a whole. A call is a process that first reads
(`GroupLedger` then `CreateCandidates` for generate, `FindCandidate` then `ActivateRule` for decide, `list_active_rules`,
`record_rule_impact`) and then, as two steps of `_write_json`, truncates and fills a file (`OpenFile`, `WriteFile`). `fresh` says that
the file is still the one it read, `alone` that no other process is between the two steps; `harm` collects what went wrong so far (a
stale write, overlapping writes, a process killed inside one). `human` are the candidates named by a call of `decide_rule` with `approved=True`: the code asks for no more, and a converge makes that call for the `rule_decision` of its context. A ledger counts rows up to `MaxRows`.
`append_failure` appends one line and is atomic.

### SkillPipeline

`context` is what the agent passes to its next run, `carrier` the snapshot the running stage was given and `made` that snapshot with the
stage's artifacts. The agent may run a skill on any context (`Given`): each part of it is missing, what the last run returned, or the agent's own writing (`Written` contracts,
`Reports`, `Vouched` attestations, a freeze, an alignment). A contract may name its task, its expiry and the confidence it asks for, and gets the defaults for what it does not name; an attestation in the
context stands as it is (`_contracts.py:70`), and one without an expiry does not expire at the gate (`_facts.py:54`). A run is `Compose` (a pipeline) or `Authorise` (a stage, the policy decision with the skills the handshake declares), the
handler's `pre_run`, `Command` for each command with its retries, the handler's `post_run`, and `Gates`, which decides whether the pipeline goes
on and with which exit code. `Gate` is the default rules of `_default_rules.py`, in their order. The world (clock, active rules) moves between any two of these. A file
that is read while others rewrite it may not parse (`torn`), and a handler that meets one raises, through `run_skill`, to the agent, who gets no artifacts (`Raise`).
`ConvergePostRun` decides on the freeze, then approves the rule the context asks for (`decided`) and rolls back the one it reports on (`retired`); either may raise, for a file or for a value that is no number.
Confidence is in percent. What decides is kept of the artifacts: contract (task, expiry, scope, confidence asked for), diagnosis (pattern, confidence, evidence), attestation (task, expiry, diagnosis), freeze.
The ghost `diagnosed` has every diagnosis ever made, `vouched` tells whether the attestation of the context is the agent's own, `frozen` whether the last converge that returned asked for a freeze.

## Runs

Each run finishes in at most about two minutes with two workers.

| run | instance | what it shows |
|---|---|---|
| `session_store` | 2 processes, 2 keys | `MutualExclusion`: only the holder of the flock is between read and write. `MergeIsFresh`: what is about to be written is the latest file with one key changed. `NeverTorn`: no step makes the file unparsable. `ImplementsMap`: the file refines the atomic map. |
| `session_live` | 2 processes, 1 key | `PersistEnds`: every call that waits for the lock ends, though holders raise and die |
| `handshake` | 2 clients, 2 challenges, TTL 1, 3 instants | `ValidUntilTTL`, `MandatesUnderstood`, `StrictMeansSigned`, `NoRevival` |
| `handshake_bound` | same | **violated**: `BoundToItsChallenge` |
| `compliance_log` | 2 writers, files of 2 records, 3 backups, 10 records | `RetentionIsSuffix`, `BackupsInOrder`: as long as appends do not overlap, the records lost are the oldest, however often a rotation fails half-way. `FilesBounded`: however the renames interleave, files stay near their limit |
| `ask_strict` | 1 client, 1 ask, strict mode | **violated**: `StrictBlocks` |
| `telemetry_sink` | 2 processes, 4 event ids | `AckedOnDisk`, `WrittenOnce`, `FlushCompletes`; `AlertedAfterRecorded`: the alert for an event goes out after its record and that of its zone event |
| `deployment` | a pipeline and a deployer, 3 runs | `SuccessIsWhole`: a run that succeeds alone leaves everything of one generation, whatever overlapping or broken runs left. `RollbackPossible`: what a deployment replaces is in the runtime or in the backup at every moment |
| `deployment_rollback` | 2 runs | **violated**: `FailedDeployRollsBack` |
| `loader_salt` | a pipeline, a deployer, a loader, 1 run | **violated**: `LoadedFits` |
| `learning_store` | 2 processes, 2 patterns, 2 ids | `HumanGate` and `OneCandidatePerPattern` whatever overlaps; `ReadableAtRest`, `RetiredStay`, `ImplementsBook` except after the lost updates, overlaps and kills they name |
| `skill_pipeline` | 2 runs on any context, 5 requests, 2 contracts, 1 attestation by hand, 1 pattern | `CorrectionIsCovered`: what the gate lets through is covered by a diagnosis that was made or by the agent's own attestation, under the contract's terms. `FreezeHolds`, `OkMeansEveryStage`, `OnlyDiagnoseRepeats`, and that every run ends (`RunEnds`) |

Every `TypeOK` is checked too. `CHECK_DEADLOCK FALSE` is said where the bounds exhaust (records, ids, runs, clock): there the
system of the model stops although the program would not. The session runs check for deadlock.

What some properties deliberately do not say:

* `MandatesUnderstood` and `StrictMeansSigned` hold for challenges built while the artifact did not change (ghost
  `clean`): a recompilation between the three reads mixes two versions in one challenge.
* The properties of `Valid` are about a challenge file that parses. See *observations* for the fallback.
* `RetentionIsSuffix` asks for two full files of newer records, not for `MaxBackups`: each rotation that fails at its last rename
  has already moved the backups up and costs one of them. Where one backup is all there is, it is the one full file: the log that was just moved. It says nothing of overlapping appends, of which the code makes no promise.
* `FilesBounded` allows a file `1 + MaxBackups(MaxBackups-1)/2` records beyond its size for every other writer. That many renames
  of the others can spoil a rotation before they run out, and each lets one record in.
* `ReadableAtRest`, `RetiredStay` and `ImplementsBook` name the harm after which they no longer speak. The code has no lock, so these
  exceptions are real; the properties say that nothing else breaks the promise. `HumanGate` and `OneCandidatePerPattern` have none: every list of candidates that
  is ever written was made from one whole list, and so has one for each pattern, however old it is.
* `CorrectionIsCovered` does not say that a diagnosis was *made*: an agent may attest to one itself, and tests of the repository do
  (`test_skills_runtime.py:248`, `test_skill_handler_correct.py:119`, `test_skill_executor_pipeline.py:20`). Such an attestation must say what the gate asks, for the task of the contract, and not have
  expired; for every other one there is a diagnosis of the executor behind it. What is asked is the contract's own: a contract may lower `min_diagnosis_confidence` and set its own expiry. Custom gate rules are left out.
* `CorrectionIsCovered` speaks of the moment the gate answers: the pattern may get a rule, or the attestation expire, while the correction's commands run.
* `FreezeHolds` is about one context, where the code keeps the freeze; an agent that leaves it out has none. It is about a converge that *returned*: one that raises in
  `decide_rule` or `record_rule_impact` has decided on the freeze already (`_converge.py:43`) and returns nothing of it, so the next correction on that context is not stopped. See *observations*.
* `HumanGate` says that a call with `approved=True` named the candidate, which is all the code can know of a human.
* `SuccessIsWhole` and `RollbackPossible` are about runs that no other process overlaps (ghost `quiet`); the runs *before* may overlap and stop anywhere.

## Bounds

* **Session** – two processes are enough for every race on one file: a third can only be in the same steps. Two keys separate "my key" from
  "the other's". The theorems lift all of this to any number.
* **Handshake** – two clients and two challenges give every overtaking of one by the other; with a TTL of one and three instants an answer can be on time,
  at the limit and late. Artifacts: none, and one with a mandate. `MaxId`, `MaxTime` are in the guards of `ReadMandates`, `ReadFingerprint` and `Tick`.
* **Compliance log** – `MaxBackups` is the code's own 3; 10 records in files of 2 fill all of them (8) and push the
  oldest out. `MaxRecords` guards `Write`.
* **Telemetry** – an emit takes two ids (source and zone), so four ids are two emits: by one process or by two, one before and one after an exit.
* **Deployment** – three runs: two that overlap, and one after them. The constraint `LastRunAlone` drops states in which the third run has begun while another is under
  way; all properties speak only of processes that run alone, so no violation can lie beyond. Generation 2 has no client items, to reach the failing final check.

* **Learning** – `MaxIds` 2 and `FewCandidates`: two candidates for one pattern, or one for each. A pattern recurs at the code's own minimum of two rows. One tick takes a rule to its expiry.
* **Skills** – two runs are "what was made before" and "what is decided now"; the second may be a pipeline of four stages. The report's confidence of 75 is enough
  for the pipeline (70) and not for a contract with the defaults (80), until calibration lifts it to 90 when the pattern has been seen before; a report that is missing has none. The other contract has its own
  expiry and a limit of 40; one attestation is written by hand, without an expiry. `TTL` 1 and one tick: on time and expired.
* **Ask, loader** – these look for one behaviour, which the smallest instance has.

## Fairness

`session_live` and `skill_pipeline` need it. A running process keeps running: weak fairness of the steps inside `_persist_key`. A waiter on a
flock is woken in turn by the kernel, so it is not passed over for ever: strong fairness of `Acquire`. No fairness is assumed of calls (nobody has to call), of
exceptions or of deaths. In `skill_pipeline` weak fairness of `Execute`: a command ends by itself or at its timeout, and the executor goes on. The other runs check safety only: the code of those parts waits for nobody except for the sink's flock, which is the same argument.

## Proofs

TLAPS proves every safety property that a passing run checks, for every value of the constants: any number of processes, clients, keys, events,
records, patterns, requests and any bound. What is assumed of the constants is the named assumption of each module (`SessionAssumption`, `SinkAssumption`,
`HandshakeAssumption`, `LogAssumption`, `DeploymentAssumption`, `LearningAssumption`, `PipelineAssumption`): special values are not ordinary ones, flags are
Boolean, bounds and limits are natural numbers (and not zero where the code has them so), a workspace without artifacts has no mandates, pipelines are not
deployers. Three theorems add a condition, stated in them.

| theorem | states |
|---|---|
| `SessionStoreProofs!TypeCorrect` | `Spec => []TypeOK` |
| `SessionStoreProofs!LockExcludes` | `Spec => []MutualExclusion` |
| `SessionStoreProofs!NoLostSession` | `Spec => []MergeIsFresh` |
| `SessionStoreProofs!DiskStaysWhole` | `Spec => NeverTorn`, with or without `fcntl` |
| `SessionStoreProofs!Refinement` | with `fcntl`, the registry implements `SessionMap` |
| `HandshakeProofs!TypeCorrect` | `Spec => []TypeOK` |
| `HandshakeProofs!ExpiryHolds` | `Spec => []ValidUntilTTL` |
| `HandshakeProofs!MandatesHold` | `Spec => []MandatesUnderstood` |
| `HandshakeProofs!StrictHolds` | `Spec => []StrictMeansSigned` |
| `HandshakeProofs!RevivalImpossible` | `Spec => NoRevival` (an action property) |
| `ComplianceLogProofs!TypeCorrect` | `Spec => []TypeOK` |
| `ComplianceLogProofs!OrderHolds` | `Spec => []BackupsInOrder` |
| `ComplianceLogProofs!RetentionHolds` | `Spec => []RetentionIsSuffix` |
| `ComplianceLogProofs!GrowthBounded` | for finitely many writers, `Spec => []FilesBounded` |
| `TelemetrySinkProofs!TypeCorrect` | `Spec => []TypeOK` |
| `TelemetrySinkProofs!Durable` | with the flock, `Spec => []AckedOnDisk` |
| `TelemetryRecordProofs!FlushHolds` | `Spec => []FlushCompletes`, with or without the flock |
| `TelemetryRecordProofs!OnceHolds` | `Spec => WrittenOnce` (an action property), likewise |
| `TelemetryRecordProofs!AlertsHold` | `Spec => AlertedAfterRecorded` (an action property), likewise |
| `DeploymentProofs!TypeCorrect` | `Spec => []TypeOK` |
| `DeploymentProofs!RollbackHolds` | `Spec => []RollbackPossible` |
| `DeploymentProofs!SuccessHolds` | `Spec => []SuccessIsWhole` |
| `LearningStoreProofs!TypeCorrect` | `Spec => []TypeOK` |
| `LearningStoreProofs!GateHolds` | `Spec => []HumanGate` |
| `LearningStoreProofs!OneCandidate` | `Spec => []OneCandidatePerPattern` |
| `LearningStoreProofs!RestReadable` | `Spec => []ReadableAtRest` |
| `LearningStoreProofs!RetiredForGood` | `Spec => RetiredStay` (an action property) |
| `LearningStoreProofs!Refinement` | the registry implements `RuleBook` as far as `ImplementsBook` says |
| `SkillPipelineProofs!TypeCorrect` | `Spec => []TypeOK` |
| `SkillPipelineProofs!RepeatsHold` | `Spec => []OnlyDiagnoseRepeats` |
| `SkillPipelineProofs!CoverageHolds` | `Spec => CorrectionIsCovered` (an action property) |
| `SkillPipelineProofs!FreezeStops` | `Spec => FreezeHolds` (an action property) |
| `SkillPipelineProofs!OkHolds` | `Spec => OkMeansEveryStage` (an action property) |

Each proof has the same shape: an inductive invariant, a lemma for every action (or group of actions that do the same to the files) that it is kept, and from it
the invariants and, with one more look at each action, the action properties. Why the properties are not inductive themselves, and what the invariants add:

**Session** (`IInv`). `MergeIsFresh` speaks of the moment before the rename only. `IInv` adds that the holder of the lock is the only one inside
(`MutualExclusion`), that what is renamed is the finished temporary file of the same call (`TmpIsComplete`), that the change being persisted is one the call
asked for (`CurrentIsAsked`), and that outside a call nothing is left to persist (`NothingLeft`).
`DiskStaysWhole` needs only `TmpIsComplete`, hence no lock. `Refinement` maps a `Replace` to the abstract change of one key and all other steps to
the beginning or dropping of changes, or to a stutter; the map is `disk` read as the code reads it (missing or torn is empty), and the pending changes of
a process are those it has not renamed into place.

**Handshake** (`HInv`). `ValidUntilTTL` compares a response with the challenge on file, but the response may have been stamped long ago, from another
challenge, or from one whose file is about to be overwritten. `IdsDrawn` and `OneChallengePerId` say that an id names one challenge, wherever copies of it
are. `ResponsesBound` says of every response, on file or still in a client's hands, and of every challenge that is on file *or may still be written there*, that they agree
on expiry and fingerprint if they have the same id, and that a challenge not yet written has no response. `ChallengesTruthful` follows mandates and signature through
the three reads of `generate_challenge`. `NoRevival` then takes one case for each action.

**Compliance log** (`CInv`, `Within`). As long as appends have not overlapped (`Alone`): one writer is at work and what it has open is the log; the log it rotates and
all backups are full; above the backup it is about to move there is a gap, unless that is the last but one. So a rename that loses a file loses the oldest, while two full
files stay. A death leaves all this as it is, which is why any number of failed rotations does no more harm. `FilesBounded` is an argument of counting: `Left` are the
renames the backups still have before them (pairs of a backup and a number above its own), at most half of `MaxBackups(MaxBackups-1)`; `Due` are the
writers that will append to the log though it is full. `LogWithin` bounds size and `Due` together: a rename makes at most the *others* due and takes one from `Left`, and
nothing but a new log gives any back. Half the pairs are counted by swapping them, so no induction is needed.

**Telemetry** (`TInv`, `DInv`, `RInv`). `TInv` types each process by what it is doing (its position lies in its own events, ids it carries were handed out).
`DInv` adds that only the holder of the lock is between the first half-line and the mark (`LockHeld`), what of its line is at the end of the file at each
step (`Partway`), and that every acknowledged event is in the synced part (`OnDisk`), which never changes (`OnDiskStays`).
`RInv` is about who writes what, and needs no lock: ids are given once, odd to an emitted event and the next even one to its zone event, which stands right behind it
(`Numbered`); `emit` works on the last event of the process (`AtTheEnd`); the marks tell which events were written, and one that is on its way is not marked (`Marked`); what
lies behind a flush, or behind a zone event, is written as far as the mode keeps it (`Behind`).

**Deployment** (`DInv`). `DTypes` says that a process' list of jobs is always the rest of the list its stage began with (`Remains`), and that the JSON files a pipeline
has saved exist. `QuietAlone`: while a quiet run is at work everybody else is idle. `WayBack` counts how far a quiet deployment is in its list: file i is backed up by job 2i - 1 and
replaced by job 2i. `OwnGeneration`: every file a quiet pipeline has made so far, in this stage and the ones before, is of its generation; a copy takes it from one of those.
At the end of the last list this is `SuccessIsWhole`. The order of the lists is where the proof would break: a file published before it is copied has no such source.

**Learning store** (`LInv`). A file is as good as the copies that are about to be written over it, so every part speaks of the files and of what each process carries: candidates have
recurred and rules were approved (`Earned`), lists have one candidate for each pattern (`Single`), an emptied file has a process that will fill it unless one was killed or two overlapped
(`Tended`), and a process whose copy is fresh is about to make exactly one change to the rules on file (`Current`), which is what the refinement and `RetiredStay` rest on.

**Skills** (`SInv`). `CorrectionIsCovered` speaks of a step of the gate, long after the diagnosis. `AllHonest` follows each attestation through the context, the stage's snapshot and what it has
made: unless the agent wrote it (`vouched`), it goes back to a diagnosis, made for its task and not longer ago than its expiry says. `FreezeKept` says in which of the three a freeze that a converge returned is at each point;
there is one moment, at the gates after a converge, when only the newest has it. A handler that raises returns the context it was given, which has the freeze still. `Counted` counts the stages that went through, `Within` and `Tries` where a run and its attempts are.

What the proofs taught about the model: `OneCandidatePerPattern` needed no exception for lost updates, `RetentionIsSuffix` was false for a single backup (two full files are
then more than there are), and `Deployment` had to say that the marks for missing and torn files are not generations.

**Only model-checked**: `PersistEnds` and `RunEnds`, liveness under fairness, which is out of the prover's reach. The runs that expect a violation show counterexamples, and
`AskGuard` and `GovernanceReaders` take part in those only.

## Where code and documents disagree

| run | code | document |
|---|---|---|
| `handshake_bound` | `handshake_challenge.py:259` stamps the response from the challenge on file, which may be another client's, issued later | `handshake_challenge.py:243` "a response cannot forge a binding to a challenge it did not actually receive (SEC-01)" |
| `ask_strict` | `_ask_backend/_budget.py:67` takes the verdict of the command group, which is not strict (`_command_group.py:102`): in strict mode a response that does not acknowledge the signatures passes | `docs/spec/canonical/core/mandates/M015_BIDIRECTIONAL_HANDSHAKE.md:32` "execution is blocked if the handshake is missing or if the agent has not acknowledged artifact signatures" |
| `deployment_rollback` | `deployment_file_system.py:128` a failed copy leaves the runtime half replaced | `deployment_file_system.py:105` "Copy files with rollback to last known good state on failure." |
| `loader_salt` | `core/utils/loader.py:134` looks for the salt under `fingerprint_salt`, both compilers write `fingerprint_core_salt`: core and client are never compared, and a load combines two compilations | `loader.py:150` "a validated summary payload"; `docs/spec/guides/operational/OPERATIONS.md:40` the salt "enables validation" |

## Observations without a run

Behaviours of the code that the models have, or that were met while modelling. Several contradict a document; the runs above are kept for the weightiest.

Files:

* While the challenge file is being filled, or for good if its writer dies, `is_handshake_valid` takes its fallback for workspaces without a
  challenge and accepts any response on file.
* A response completed without a challenge on file keeps the binding fields its caller supplied.
* An event whose `fsync` raises is in the file but not marked; the flush writes it again.
* A line appended after the half line of a stopped writer is glued to it, and no reader parses either (`_sink.py:213`), though `_sink.py:215` says "a crash right after
  emit() can't lose an event".
* An exception from the write of a source event leaves `emit` before the breach event is created (`_sink.py:94`); `docs/spec/canonical/core/economy/metrics.md:45`
  says "mandatory event — always emitted".
* The breach event the sink creates bypasses `emit` and so the alert dispatcher (`_sink.py:162`), whose first default trigger it is (`runtime/alerts/__init__.py:8`).
* A msgpack cut off by a compiler that stopped is deployed and verified as a success (`deployment_validator.py:45` asks only whether it exists).
* `check_artifact_consistency` compares the salts of the two client files and neither with the core: after a publication that stopped following `governance-core.json` and a
  deployment that stopped following the core's metadata, the core of one compilation and the client of another pass.
* Two writers that both saw a full log both rotate it: the second moves a log that is nearly empty.
* The pipeline's final checks run after the publication: a run that reports failure has already replaced the runtime.
* `Stat` on a log renamed since its `exists` check raises `FileNotFoundError` out of `append`.
* Without `fcntl` the session file is still never torn (`DiskStaysWhole`), but sessions are lost; telemetry lines may interleave.
* `save` writes back every session the process remembers, over newer ones and over deletions.


Learning and skills:

* A process killed inside `write_text` leaves the candidates or the registry empty, and every later call raises (`_store.py:72`).
* A rejection is not recorded: a rejected candidate can be approved by the next call, and one that is approved twice gets two rules.
* `record_rule_impact` appends to `rule-impact.jsonl` before it looks for the rule.
* A converge decides on the freeze and then, if the context carries a `rule_decision` or a `rule_impact`, reads candidates and registry unguarded and converts their numbers (`_converge.py:54` to 72,
  `_store.py:73`). If that raises, the freeze is lost with the other artifacts, although the rule it approved may stay, and the next correction on the context is let through.
* An attestation written by hand opens the gate, and without an `expires_at` it never expires (`_facts.py:54`); a contract may set its `min_diagnosis_confidence` to any value (`_facts.py:66`).
* A diagnosis on a context that holds an expired attestation returns the expired one (`_contracts.py:70`), so the gate's own `next_action` "re-diagnose" leads nowhere on that context.
* The freeze names the exit criterion `alignment_score>=0.80` (`_converge.py:48`), the code lifts it at 0.60; it is looked at after `converge` only, although
  `docs/guides/PIPELINE_ORCHESTRATION.md:87` says after each stage.
* A diagnosis that times out is reported by the low-confidence gate first, as "escalated".
* Only `diagnose` retries; the `max_retries` of the skills that execute corrections has no effect.
* Calibration counts every row of a pattern, successes and dry runs included, though `docs/guides/LEARNING_INTEGRATION.md:16` speaks of recurring failures; a calibrated
  report that is diagnosed again is calibrated again.
* An active rule blocks a correction although it has evidence, while its guardrail reads "without evidence".
* `skills_to_use` that is not a list authorises every skill; custom gate rules of which none matches let everything through.
* `sdd skills run` passes no context, so the pipeline run from there always ends in an escalation.

## Not modelled

Reasons are with each component in `PROJECT.json`. In short: parts that only compute (scores, retrieval, rendering, parsing, text templates) have no
state to model; the circuit breaker and the budgets are created by nothing but their tests; network output (alerts, OTLP, providers) is
fire-and-forget; cryptography and hashing are taken as working. Within the modelled parts: the bootstrap that `deploy` runs when an artifact is missing, the `.sig` files of
publication, manifest and checklist; segmentation of telemetry by work item (each segment is the same protocol on its own file).

Of the skills: handlers that only build reports, custom gate rules, attestations by hand that lack more than their expiry, expiries that are no date (denied), `rule-impact.jsonl` (append-only, read by a status report). The implementation is large (most of it
rendering, parsing, wizards, generators and maintenance scripts): these models cover the parts whose state is shared or outlives a call, which is a small share of its lines.

## Plan

What is left, in the order of its worth:

1. Proofs beyond the properties the runs check now: what does hold where a document is contradicted, for instance that a response carries the binding of a challenge that
   was on file when it was stamped, or which generations a load can combine. Each is first to be stated as a property of a run.
2. **`AuditFile`**: `TelemetrySink` and `ComplianceLog` composed on the one file they share.
3. Two profiles and `artifact_bootstrapper` in `Deployment`; `check_artifact_consistency` and `CompiledArtifact` beside the loader in `GovernanceReaders`.
4. **`ContextCache`**, checked against a reference definition of its eviction.

A new run takes the place of one whose question it contains (the composed file covers both logs'), and runs of settled disagreements are the first to be given up.
