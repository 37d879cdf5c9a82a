-------------------------- MODULE EvidencePipeline --------------------------
(***************************************************************************)
(* The scripts that run the commands of EvidenceGates in order: "check",   *)
(* which is kurrentctl check and scripts/check.sh, the devnet test suite   *)
(* run-devnet-tests, the suite with --strict-production, and any single    *)
(* command given by hand.  Between two commands somebody may edit or       *)
(* commit sources, install or remove tools, deliver a review of the last   *)
(* package, or kill the script; every run starts from the files the        *)
(* earlier ones have left, complete or not.                                *)
(***************************************************************************)
EXTENDS EvidenceGates, Sequences

CONSTANT ByHand   \* the commands somebody gives by hand

VARIABLES
    script,   \* the running or last script
    trouble   \* history: something outside the scripts went wrong during it

files == <<now, head, tree, tools, review, detected, probe, ln, raw, live, flow, fixtures,
           transcripts, torn, report, semantic, soak, profile, reality, request, readiness>>
vars == <<files, script, trouble>>

LiveSteps ==
    <<"detect-tools", "run-kaspa-devnet", "run-ln-devnet", "run-state-channel-flow",
      "run-factory-flow", "run-ln-to-kaspa-flow", "run-kaspa-to-ln-flow", "run-refund-flow">>

(* Mutant: the suite profiles before it reports.                           *)
SuiteProfilingFirst ==
    LiveSteps \o
    <<"write-production-target-profile", "write-acceptance-report", "verify-evidence",
      "run-semantic-transaction-verifier", "run-adversarial-soak",
      "verify-presentation-reality", "prepare-security-review-package",
      "verify-production-readiness">>

(* Mutant: the suite verifies before it reports.                           *)
SuiteVerifyingFirst ==
    LiveSteps \o
    <<"verify-evidence", "write-acceptance-report", "write-production-target-profile",
      "run-semantic-transaction-verifier", "run-adversarial-soak",
      "verify-presentation-reality", "prepare-security-review-package",
      "verify-production-readiness">>

SuiteSteps ==
    LiveSteps \o
    <<"write-acceptance-report", "verify-evidence", "write-production-target-profile",
      "run-semantic-transaction-verifier", "run-adversarial-soak",
      "verify-presentation-reality", "prepare-security-review-package",
      "verify-production-readiness">>

(* The loop of check() is followed by the report and its verification.     *)
CheckSteps ==
    LiveSteps \o
    <<"write-production-target-profile", "run-semantic-transaction-verifier",
      "run-adversarial-soak", "write-acceptance-report", "verify-evidence">>

Suites == {"suite", "strict"}
Scripts == Suites \cup {"check"}

StepsOf(name) ==
    IF name = "check" THEN CheckSteps
    ELSE IF name \in Suites THEN SuiteSteps ELSE <<name>>

Idle == script.result # "running"
Current == StepsOf(script.name)[script.step]

(* What a command does to the files; a report written at the end of check  *)
(* says whether a command of the loop was blocked.                         *)
Command(name, outcome) ==
    \/ name = "detect-tools" /\ DetectTools(outcome)
    \/ name = "run-kaspa-devnet" /\ RunKaspaDevnet(outcome)
    \/ name = "run-ln-devnet" /\ RunLnDevnet(outcome)
    \/ name = "run-state-channel-flow" /\ RunStateChannelFlow(outcome)
    \/ name = "run-factory-flow" /\ RunFlow("factory", outcome)
    \/ name = "run-ln-to-kaspa-flow" /\ RunFlow("lnToKaspa", outcome)
    \/ name = "run-kaspa-to-ln-flow" /\ RunFlow("kaspaToLn", outcome)
    \/ name = "run-refund-flow" /\ RunFlow("refund", outcome)
    \/ name = "write-acceptance-report"
       /\ WriteReport(IF script.failed THEN "failed/blocked" ELSE "passed", outcome)
    \/ name = "verify-evidence" /\ VerifyEvidence(outcome)
    \/ name = "write-production-target-profile" /\ WriteProfile(outcome)
    \/ name = "run-semantic-transaction-verifier" /\ RunSemanticVerifier(outcome)
    \/ name = "run-adversarial-soak" /\ RunSoak(outcome)
    \/ name = "verify-presentation-reality" /\ VerifyReality(outcome)
    \/ name = "prepare-security-review-package" /\ PreparePackage(outcome)
    \/ name = "verify-production-readiness" /\ VerifyReadiness(outcome)

Commands == {SuiteSteps[i] : i \in 1 .. Len(SuiteSteps)}

(* What the world outside the scripts decides.                             *)
External == {"run-kaspa-devnet", "run-ln-devnet", "run-state-channel-flow"}

NoScript == [name |-> "none", step |-> 1, failed |-> FALSE, result |-> "none",
             cleanReport |-> FALSE, checked |-> FALSE]

(* A working tree without evidence; run 1 is that of another machine.      *)
CleanTree ==
    /\ now = 1 /\ head = 0 /\ tree = 0
    /\ detected = "absent" /\ probe = "absent" /\ ln = 0
    /\ raw = [f \in Flows |-> 0] /\ live = [f \in LiveFiles |-> 0]
    /\ flow = [f \in Flows |-> NoFlow] /\ fixtures = 0 /\ transcripts = FALSE
    /\ report = NoReport
    /\ semantic = 0 /\ soak = 0 /\ profile = [run |-> 0, pins |-> 0]
    /\ reality = "absent" /\ readiness = "absent"
    /\ request = [head |-> 0, artifacts |-> NoArtifacts]

(* A checkout of the repository, which carries the evidence of a suite;    *)
(* the commit that holds it is one later than the one it names.            *)
CommittedEvidence ==
    /\ now = 1 /\ head = 1 /\ tree = 0
    /\ detected = "ready" /\ probe = "passed" /\ ln = 1
    /\ raw = [f \in Flows |-> 1] /\ live = [f \in LiveFiles |-> 1]
    /\ flow = [f \in Flows |->
                 [status |-> "passed", of |-> 1, ln |-> IF f \in Swaps THEN 1 ELSE 0]]
    /\ fixtures = 1 /\ transcripts = TRUE
    /\ report = [run |-> 1, status |-> "passed", blocked |-> FALSE, head |-> 0,
                 tree |-> 0, ln |-> 1, flows |-> flow, raw |-> raw, markers |-> 1]
    /\ semantic = 1 /\ soak = 1 /\ profile = [run |-> 1, pins |-> 1]
    /\ reality = "passed" /\ readiness = "review missing"
    /\ request = [head |-> 0, artifacts |->
                   [tree |-> 0, report |-> 1, profile |-> 1, semantic |-> 1, soak |-> 1]]

Init ==
    /\ CleanTree \/ CommittedEvidence
    /\ tools = TRUE
    /\ torn = FALSE
    /\ review = [head |-> 0, artifacts |-> NoArtifacts]
    /\ script = NoScript
    /\ trouble = FALSE

-----------------------------------------------------------------------------
Start(name) ==
    /\ Idle
    /\ now < MaxRun
    /\ now' = now + 1
    /\ script' = [name |-> name, step |-> 1, failed |-> FALSE, result |-> "running",
                  cleanReport |-> Clean(report), checked |-> semantic # 0 /\ soak # 0]
    /\ trouble' = ~tools
    /\ UNCHANGED <<head, tree, tools, review, evidence, report, production>>

(* Where a script goes after a command.  check() reports a tool detection  *)
(* that is blocked and stops, notes the first command of its loop that is  *)
(* blocked and goes on, and stops at an error; the suite stops at whatever *)
(* is not ok, except that the production gate is a boundary.               *)
End(result) == [script EXCEPT !.result = result]
Goes(failed) == [script EXCEPT !.step = @ + 1, !.failed = failed]

(* Mutant: check() does not notice that its list of commands has ended.    *)
AfterCheckStepOverrun(outcome) ==
    IF outcome = "error" THEN End("failed")
    ELSE IF Current = "write-acceptance-report" /\ script.failed THEN End("failed")
    ELSE Goes(script.failed \/ outcome # "ok")

AfterCheckStep(outcome) ==
    IF outcome = "error" THEN End("failed")
    ELSE IF Current = "write-acceptance-report" /\ script.failed THEN End("failed")
    ELSE IF script.step = Len(CheckSteps)
         THEN End(IF outcome = "ok" THEN "passed" ELSE "failed")
    ELSE Goes(script.failed \/ outcome # "ok")

(* The outcome of the suite once the production gate has spoken.           *)
BoundaryHolds ==
    readiness' = "passed" \/ (script.name = "suite" /\ readiness' = "review missing")

AfterSuiteStep(outcome) ==
    IF Current = "verify-production-readiness"
    THEN End(IF BoundaryHolds THEN "passed" ELSE "failed")
    ELSE IF outcome = "ok" THEN Goes(FALSE) ELSE End("failed")

AfterStep(outcome) ==
    IF script.name = "check" THEN AfterCheckStep(outcome)
    ELSE IF script.name \in Suites THEN AfterSuiteStep(outcome)
    ELSE End(IF outcome = "ok" THEN "passed" ELSE "failed")

Step(outcome) ==
    /\ ~Idle
    /\ ~(script.name = "check" /\ Current = "detect-tools" /\ ~tools)
    /\ Command(Current, outcome)
    /\ script' = AfterStep(outcome)
    /\ trouble' = (trouble \/ (Current \in External /\ outcome # "ok"))

(* check() on a machine without its tools.                                 *)
CheckWithoutTools ==
    /\ ~Idle /\ script.name = "check" /\ Current = "detect-tools" /\ ~tools
    /\ detected' = "blocked"
    /\ report' = ReportSaying("failed/blocked")
    /\ script' = End("failed")
    /\ UNCHANGED <<world, probe, ln, raw, live, flowFiles, production, trouble>>

(* The script is killed between two commands.                              *)
Kill ==
    /\ ~Idle
    /\ script' = End("failed")
    /\ trouble' = TRUE
    /\ UNCHANGED files

Disturb == trouble' = (trouble \/ ~Idle)

Edit ==
    /\ tree < MaxTree /\ tree' = tree + 1
    /\ Disturb
    /\ UNCHANGED <<now, head, tools, review, evidence, report, production, script>>

Commit ==
    /\ head < MaxHead /\ head' = head + 1
    /\ Disturb
    /\ UNCHANGED <<now, tree, tools, review, evidence, report, production, script>>

ChangeTools ==
    /\ tools' = ~tools
    /\ Disturb
    /\ UNCHANGED <<now, head, tree, review, evidence, report, production, script>>

(* An independent reviewer passes the last package as it was requested.    *)
DeliverReview ==
    /\ request.artifacts.report # 0
    /\ review' = request
    /\ Disturb
    /\ UNCHANGED <<now, head, tree, tools, evidence, report, production, script>>

Next ==
    \/ \E name \in Scripts \cup ByHand : Start(name)
    \/ \E outcome \in Outcomes : Step(outcome)
    \/ CheckWithoutTools
    \/ Kill
    \/ Edit
    \/ Commit
    \/ ChangeTools
    \/ DeliverReview

Spec == Init /\ [][Next]_vars

-----------------------------------------------------------------------------
FlowFiles ==
    [status : {"absent", "passed", "blocked"}, of : Runs, ln : Runs]

ReportFiles ==
    [run : Runs, status : {"absent", "passed", "failed/blocked"}, blocked : BOOLEAN,
     head : 0 .. MaxHead, tree : 0 .. MaxTree, ln : Runs,
     flows : [Flows -> FlowFiles], raw : [Flows -> Runs], markers : Runs]

Packages ==
    [head : 0 .. MaxHead,
     artifacts : [tree : 0 .. MaxTree, report : Runs, profile : Runs,
                  semantic : Runs, soak : Runs]]

ScriptStates ==
    [name : Scripts \cup ByHand \cup {"none"}, step : 1 .. Len(SuiteSteps), failed : BOOLEAN,
     result : {"none", "running", "passed", "failed"},
     cleanReport : BOOLEAN, checked : BOOLEAN]

(* Every file is absent or of some run up to the last one; a running       *)
(* script is at one of its commands.                                       *)
TypeOK ==
    /\ now \in Runs /\ head \in 0 .. MaxHead /\ tree \in 0 .. MaxTree
    /\ tools \in BOOLEAN /\ torn \in BOOLEAN /\ transcripts \in BOOLEAN /\ trouble \in BOOLEAN
    /\ {ln, fixtures, semantic, soak} \subseteq Runs
    /\ raw \in [Flows -> Runs] /\ live \in [LiveFiles -> Runs]
    /\ flow \in [Flows -> FlowFiles] /\ report \in ReportFiles
    /\ profile \in [run : Runs, pins : Runs]
    /\ request \in Packages /\ review \in Packages
    /\ detected \in {"absent", "ready", "blocked"}
    /\ probe \in {"absent", "passed", "failed"}
    /\ reality \in {"absent", "passed", "failed"}
    /\ readiness \in {"absent", "passed", "review missing", "blocked"}
    /\ script \in ScriptStates
    /\ ~Idle => script.step <= Len(StepsOf(script.name))

(* A passed state-channel flow file vouches for all five flows: every raw  *)
(* file and every live file on disk is of the driver run it reports,       *)
(* unless a driver has been interrupted since.                             *)
FlowVouchesForDriverRun ==
    flow["state"].status = "passed" /\ ~torn =>
        /\ \A f \in Flows : raw[f] = flow["state"].of
        /\ \A f \in LiveFiles : live[f] = flow["state"].of

(* What verify-evidence accepts is the evidence of one driver run, whatever *)
(* commands were given in whatever order and wherever they stopped: a      *)
(* report cannot mix the flows of two runs.                                *)
VerifiedEvidenceIsOfOneRun ==
    EvidenceHolds /\ RealityHolds /\ ~torn =>
        \E run \in Runs \ {0} :
            /\ fixtures = run /\ report.markers = run
            /\ \A f \in Flows : raw[f] = run /\ report.raw[f] \in {0, run}
            /\ \A f \in LiveFiles : live[f] = run

(* A check or a suite that passes has made everything it passes on: no     *)
(* file that a command reads is left from an earlier run, and a suite's    *)
(* profile pins the report of that suite.                                  *)
PassedScriptIsItsOwn ==
    script.name \in Scripts /\ script.result = "passed" =>
        /\ {ln, report.run, report.ln, report.markers} = {now}
        /\ {semantic, soak, profile.run, fixtures} = {now}
        /\ \A f \in Flows : raw[f] = now /\ flow[f].of = now
        /\ \A f \in LiveFiles : live[f] = now
        /\ script.name \in Suites => profile.pins = now /\ request.artifacts.report = now

(* A check or suite that nobody disturbs and whose tools and daemons work  *)
(* fails for one reason only: what an earlier run has left.  A check fails *)
(* because the report it found is not clean, a suite because the files     *)
(* named by its later steps were missing when its earlier gate asked.      *)
ScriptFailsForAReason ==
    script.result = "failed" /\ ~trouble =>
        /\ script.name = "check" => ~script.cleanReport
        /\ script.name = "suite" => ~script.checked

(* No review is used twice: a suite under --strict-production passes only  *)
(* on a review of the very files that suite wrote.                         *)
StrictNeedsReviewOfItsRun ==
    script.name = "strict" /\ script.result = "passed" =>
        /\ review.artifacts.report = now /\ review.artifacts.profile = now
        /\ review.artifacts.semantic = now /\ review.artifacts.soak = now

(* docs/KURRENT_PRODUCTION_ACCEPTANCE.md, lines 19 and 20, of a checkout    *)
(* without current evidence: check.sh "regenerates local acceptance        *)
(* evidence for the intended source revision".  Undisturbed and with its   *)
(* tools, it would always get there.                                       *)
DocCheckRegenerates ==
    ~(script.name = "check" /\ script.result = "failed" /\ ~trouble)
=============================================================================
