---------------------------- MODULE ReleaseGate ----------------------------
(***************************************************************************)
(* The release gate (scripts/release-gate.mjs) and the steps it runs one   *)
(* after the other.  Steps talk through the files of release/evidence,     *)
(* which outlive a run of the gate; a run may be killed at any point, and  *)
(* package.json also offers steps by themselves ("hand").                  *)
(*                                                                         *)
(* A file is the launch that wrote it, its verdict and the one datum the   *)
(* steps compare.  Each carries the time it was written, so its digest     *)
(* stands for the whole of it.  Of a checkout the steps compare nothing    *)
(* but the lockfile; a print is the fingerprints of the required programs. *)
(* A file's own hash, its schema and its signature are taken to be right.  *)
(***************************************************************************)
EXTENDS Naturals, Sequences

CONSTANTS
  Prints,
  Environments,  \* of a launch: the lockfile, the pinned print, the deployment id and
                 \* whether RELEASE_REQUIRE_ATTESTATION is set ("attested")
  ByHand,        \* bound on the steps that are run by themselves; package.json offers
                 \* every step that writes a file
  MaxLaunches    \* bound on the runs of the gate and of single steps

\* Deployment 1 is the first, deployment d rolls back to d - 1.
Deployments == { e.deployment : e \in Environments }

ASSUME ReleaseAssumption ==
  /\ Prints \subseteq Nat \ {0}
  /\ Environments \subseteq [lock : Nat \ {0}, expected : Prints, deployment : Nat \ {0},
                            attested : BOOLEAN]
  /\ \A d \in Deployments \ {1} : d - 1 \in Deployments
  /\ MaxLaunches \in Nat

VARIABLES
  disk,      \* the reports in release/evidence
  evidence,  \* deployment-<id>.json
  seal,      \* deployment-<id>.attestation.json: the evidence it signs
  chain,     \* the print of the programs on chain
  approved,  \* the program upgrades with an approved change record
  exit,      \* the exit status of the last predeploy that ended
  gate       \* the run under way, with the environment it was given

releaseVars == <<disk, evidence, seal, chain, approved, exit, gate>>

PredeploySteps ==
  << "dependency-lock", "frozen-install", "typecheck", "test", "build",
     "release-sbom", "release-provenance", "release-artifacts",
     "release-policy", "production-config", "browser-secrets",
     "runbook-rollback-approval", "rollback-target", "program-change-control" >>

PostdeploySteps ==
  << "canary-verification", "live-readiness-programs-providers",
     "deployment-evidence", "deployment-attestation",
     "deployment-evidence-verify" >>

\* The reports the deployment evidence binds by their digests.
BoundReports ==
  { "predeploy", "live", "sbom", "provenance", "policy", "change", "canary",
    "rollback" }

Missing == [launch |-> 0, pass |-> FALSE, of |-> 0]
Exists(report) == report # Missing

NoEvidence ==
  [launch |-> 0, lock |-> 0, print |-> 0, previous |-> 0,
   binds |-> [name \in BoundReports |-> Missing]]

Idle(n) ==
  [launch |-> n, mode |-> "none", phase |-> "idle", todo |-> <<>>, ok |-> TRUE,
   lock |-> 0, expected |-> 0, deployment |-> 0, attested |-> FALSE]

ReleaseInit ==
  /\ disk = [name \in BoundReports \cup {"postdeploy"} |-> Missing]
  /\ evidence = [d \in Deployments |-> NoEvidence]
  /\ seal = [d \in Deployments |-> NoEvidence]
  /\ chain \in Prints
  /\ approved \in SUBSET { u \in Prints \X Prints : u[1] < u[2] }
  /\ exit = "none"
  /\ gate = Idle(0)

----------------------------------------------------------------------------
(* What a step demands, and what it leaves behind. *)

\* Faulty variant (mutant): every deployment counts as the first.
EveryDeployment == TRUE

Initial == gate.deployment = 1
Previous == IF Initial THEN NoEvidence ELSE evidence[gate.deployment - 1]

\* check-program-change-control.mjs
ChangeControlled ==
  \/ Initial
  \/ /\ Previous # NoEvidence
     /\ \/ Previous.print = gate.expected
        \/ <<Previous.print, gate.expected>> \in approved

\* verify-live-production.mjs compares every required program to its pin.
PinnedProgram == chain = gate.expected

Recordable ==
  /\ \A name \in BoundReports : Exists(disk[name])
  /\ \A name \in {"predeploy", "live", "canary", "policy", "change"} : disk[name].pass

Verifiable ==
  LET record == evidence[gate.deployment]
  IN /\ record # NoEvidence
     /\ record.lock = gate.lock
     /\ \A name \in BoundReports : Exists(disk[name]) => disk[name] = record.binds[name]
     /\ gate.attested => seal[gate.deployment] = record

CanPass(step) ==
  CASE step = "release-artifacts" ->
         Exists(disk["sbom"]) /\ disk["provenance"].of = gate.lock
    [] step = "production-config" -> gate.attested
    [] step = "rollback-target" -> Initial \/ Previous # NoEvidence
    [] step = "program-change-control" -> ChangeControlled
    [] step = "live-readiness-programs-providers" -> PinnedProgram
    [] step = "deployment-evidence" -> Recordable
    [] step = "deployment-attestation" -> evidence[gate.deployment] # NoEvidence
    [] step = "deployment-evidence-verify" -> Verifiable
    [] OTHER -> TRUE

\* The report a step writes, if any, and what it says.
Report(step) ==
  CASE step = "release-sbom" -> "sbom"
    [] step = "release-provenance" -> "provenance"
    [] step = "release-policy" -> "policy"
    [] step = "rollback-target" -> "rollback"
    [] step = "program-change-control" -> "change"
    [] step = "canary-verification" -> "canary"
    [] step = "live-readiness-programs-providers" -> "live"
    [] OTHER -> "none"

Subject(step) ==
  CASE step = "program-change-control" -> gate.expected
    [] step = "live-readiness-programs-providers" -> chain
    [] OTHER -> gate.lock

Written(step, passed) ==
  IF Report(step) = "none" THEN disk
  ELSE [disk EXCEPT ![Report(step)] =
          [launch |-> gate.launch, pass |-> passed, of |-> Subject(step)]]

\* These write their report when it is a FAIL, too.
WritesFailure ==
  { "release-policy", "program-change-control", "canary-verification",
    "live-readiness-programs-providers" }

Recorded ==
  [launch |-> gate.launch, lock |-> gate.lock, print |-> disk["live"].of,
   previous |-> Previous.print,
   binds |-> [name \in BoundReports |-> disk[name]]]

----------------------------------------------------------------------------
(* The gate (execute, runSequence, writeReport, predeploy, postdeploy). *)

\* The rest of a sequence is skipped after its first failure.
AfterStep(passed) ==
  IF passed THEN [gate EXCEPT !.todo = Tail(@)]
  ELSE [gate EXCEPT !.todo = <<>>, !.ok = FALSE]

Running(step) == gate.phase # "idle" /\ gate.todo # <<>> /\ Head(gate.todo) = step

StepPasses(step) ==
  /\ Running(step)
  /\ CanPass(step)
  /\ disk' = Written(step, TRUE)
  /\ evidence' = IF step = "deployment-evidence"
                 THEN [evidence EXCEPT ![gate.deployment] = Recorded] ELSE evidence
  /\ seal' = IF step = "deployment-attestation"
             THEN [seal EXCEPT ![gate.deployment] = evidence[gate.deployment]] ELSE seal
  /\ gate' = AfterStep(TRUE)
  /\ UNCHANGED <<chain, approved, exit>>

\* A check fails, or the step breaks before it has anything to write: a command
\* that is missing, a variable that is not set, an answer that does not come.
StepFails(step) ==
  /\ Running(step)
  /\ \/ disk' = disk
     \/ step \in WritesFailure /\ disk' = Written(step, FALSE)
  /\ gate' = AfterStep(FALSE)
  /\ UNCHANGED <<evidence, seal, chain, approved, exit>>

\* Faulty variant (mutant): only the report of a success is written.
ReportOfSuccess(phase) ==
  IF gate.ok
  THEN [disk EXCEPT ![phase] = [launch |-> gate.launch, pass |-> TRUE, of |-> gate.lock]]
  ELSE disk

\* Faulty variant (mutant): the report does not ask how the steps ended.
ReportOfThePhase(phase) ==
  [disk EXCEPT ![phase] = [launch |-> gate.launch, pass |-> TRUE, of |-> gate.lock]]

PhaseReport(phase) ==
  [disk EXCEPT ![phase] = [launch |-> gate.launch, pass |-> gate.ok, of |-> gate.lock]]

PredeployEnds ==
  /\ gate.phase = "predeploy" /\ gate.todo = <<>>
  /\ disk' = PhaseReport("predeploy")
  /\ exit' = IF gate.ok THEN "PASS" ELSE "FAIL"
  /\ gate' = IF gate.mode = "all" /\ gate.ok
             THEN [gate EXCEPT !.phase = "postdeploy", !.todo = PostdeploySteps]
             ELSE Idle(gate.launch)
  /\ UNCHANGED <<evidence, seal, chain, approved>>

PostdeployEnds ==
  /\ gate.phase = "postdeploy" /\ gate.todo = <<>>
  /\ disk' = PhaseReport("postdeploy")
  /\ gate' = Idle(gate.launch)
  /\ UNCHANGED <<evidence, seal, chain, approved, exit>>

HandStepEnds ==
  /\ gate.phase = "hand" /\ gate.todo = <<>>
  /\ gate' = Idle(gate.launch)
  /\ UNCHANGED <<disk, evidence, seal, chain, approved, exit>>

----------------------------------------------------------------------------
(* The operator, the programs and the machine. *)

Launch(mode, phase, todo) ==
  /\ gate.phase = "idle"
  /\ gate.launch < MaxLaunches
  /\ \E e \in Environments :
       gate' = [launch |-> gate.launch + 1, mode |-> mode, phase |-> phase, todo |-> todo,
                ok |-> TRUE, lock |-> e.lock, expected |-> e.expected,
                deployment |-> e.deployment, attested |-> e.attested]
  /\ UNCHANGED <<disk, evidence, seal, chain, approved, exit>>

LaunchPredeploy == Launch("predeploy", "predeploy", PredeploySteps)
LaunchPostdeploy == Launch("postdeploy", "postdeploy", PostdeploySteps)
LaunchAll == Launch("all", "predeploy", PredeploySteps)
RunByHand(step) == step \in ByHand /\ Launch("hand", "hand", <<step>>)

GateKilled ==
  /\ gate.phase # "idle"
  /\ gate' = Idle(gate.launch)
  /\ UNCHANGED <<disk, evidence, seal, chain, approved, exit>>

ProgramsUpgraded(print) ==
  /\ chain < print
  /\ chain' = print
  /\ UNCHANGED <<disk, evidence, seal, approved, exit, gate>>

ReleaseNext ==
  \/ LaunchPredeploy \/ LaunchPostdeploy \/ LaunchAll
  \/ \E i \in DOMAIN PredeploySteps :
       LET step == PredeploySteps[i]
       IN StepPasses(step) \/ StepFails(step) \/ RunByHand(step)
  \/ \E i \in DOMAIN PostdeploySteps :
       LET step == PostdeploySteps[i]
       IN StepPasses(step) \/ StepFails(step) \/ RunByHand(step)
  \/ PredeployEnds \/ PostdeployEnds \/ HandStepEnds
  \/ GateKilled
  \/ \E p \in Prints : ProgramsUpgraded(p)

----------------------------------------------------------------------------
(* Properties. *)

\* When a postdeploy reports PASS, its canary, its live verification, the
\* evidence and the attestation are all its own, whatever older runs left on
\* disk, and the evidence binds the reports that are there.
PassedGateIsFresh ==
  [][disk'["postdeploy"] # disk["postdeploy"] /\ disk'["postdeploy"].pass =>
       \E d \in Deployments :
         /\ seal[d] = evidence[d]
         /\ {disk["canary"].launch, disk["live"].launch, evidence[d].launch}
              = {disk'["postdeploy"].launch}
         /\ \A name \in BoundReports : evidence[d].binds[name] = disk[name]]_releaseVars

\* After a predeploy that failed, nothing is recorded as deployed until one
\* passes, by the gate or by hand.
FailedCandidateIsNotRecorded ==
  [][\A d \in Deployments : evidence'[d] # evidence[d] => exit = "PASS"]_releaseVars

\* What the "all" gate records over an earlier deployment are its programs or an
\* approved upgrade of them, though programs change while the gate runs and the
\* change control and the live verification are steps of different phases.
UpgradesAreApproved ==
  [][\A d \in Deployments \ {1} :
       evidence'[d] # evidence[d] /\ gate.mode = "all" =>
         \/ evidence'[d].print = evidence'[d].previous
         \/ <<evidence'[d].previous, evidence'[d].print>> \in approved]_releaseVars
============================================================================
