----------------------- MODULE EvidencePipelineProofs -----------------------
(***************************************************************************)
(* Proofs about EvidencePipeline for every number of runs, commits and     *)
(* edits, and whatever commands are given by hand.                         *)
(***************************************************************************)
EXTENDS EvidencePipeline, TLAPS

(* The part of TypeOK that the files of the driver and the flows need.     *)
FilesTyped ==
    /\ now \in Runs /\ ln \in Runs
    /\ raw \in [Flows -> Runs] /\ live \in [LiveFiles -> Runs]
    /\ flow \in [Flows -> FlowFiles]

Vouching == FilesTyped /\ FlowVouchesForDriverRun

flowState == <<raw, live, flow, torn>>

-----------------------------------------------------------------------------
(* A driver that got all its writes done has renewed every file.           *)
LEMMA AllWritesRenewAll ==
    /\ RawAfter(AllWrites) = [f \in Flows |-> now]
    /\ LiveAfter(AllWrites) = [f \in LiveFiles |-> now]
<1>1. \A f \in LiveFiles : Turn[f] - 1 <= AllWrites /\ Turn[f] <= AllWrites
  BY DEF LiveFiles, Flows, Turn, AllWrites
<1> QED  BY <1>1 DEF RawAfter, LiveAfter, LiveFiles

(* Whatever its writes, the driver leaves files of runs.                   *)
LEMMA AfterTyped ==
    ASSUME FilesTyped, NEW writes \in Stops
    PROVE  RawAfter(writes) \in [Flows -> Runs] /\ LiveAfter(writes) \in [LiveFiles -> Runs]
BY DEF FilesTyped, RawAfter, LiveAfter

(* The command that runs the driver keeps its flow file truthful: a driver *)
(* that stops before its end leaves a blocked file or an interrupted       *)
(* command behind.                                                         *)
LEMMA DriverKeepsVouching ==
    ASSUME Vouching, NEW outcome, RunStateChannelFlow(outcome)
    PROVE  Vouching'
<1> PICK writes \in Stops :
        /\ raw' = RawAfter(writes) /\ live' = LiveAfter(writes)
        /\ StateFlowFinishes(writes, outcome) \/ StateFlowBreaks(writes, outcome)
  BY DEF RunStateChannelFlow
<1>1. now' = now /\ ln' = ln
  BY DEF RunStateChannelFlow, world
<1>2. raw' \in [Flows -> Runs] /\ live' \in [LiveFiles -> Runs]
  BY AfterTyped DEF Vouching
<1>3. CASE StateFlowFinishes(writes, outcome)
  <2> PICK sound \in BOOLEAN :
          flow' = [flow EXCEPT !["state"] =
                      [status |-> StateFlowStatus(writes, sound), of |-> now, ln |-> 0]]
    BY <1>3 DEF StateFlowFinishes
  <2>1. StateFlowStatus(writes, sound) \in {"passed", "blocked"}
    BY DEF StateFlowStatus
  <2>2. 0 \in Runs /\ "state" \in Flows
    BY BoundsAssumption DEF Runs, Flows
  <2>3. [status |-> StateFlowStatus(writes, sound), of |-> now, ln |-> 0] \in FlowFiles
    BY <2>1, <2>2 DEF FlowFiles, Vouching, FilesTyped
  <2>4. flow' \in [Flows -> FlowFiles]
    BY <2>3 DEF Vouching, FilesTyped
  <2>5. flow'["state"] = [status |-> StateFlowStatus(writes, sound), of |-> now, ln |-> 0]
    BY <2>2 DEF Vouching, FilesTyped
  <2>6. flow'["state"].status = "passed" => writes = AllWrites
    BY <2>5 DEF StateFlowStatus
  <2>7. writes = AllWrites =>
            (\A f \in Flows : raw'[f] = now) /\ (\A f \in LiveFiles : live'[f] = now)
    BY AllWritesRenewAll
  <2> QED  BY <1>1, <1>2, <2>4, <2>5, <2>6, <2>7
           DEF Vouching, FilesTyped, FlowVouchesForDriverRun
<1>4. CASE StateFlowBreaks(writes, outcome)
  <2>1. flow' = flow /\ torn' = (torn \/ writes > 0)
    BY <1>4 DEF StateFlowBreaks
  <2>2. writes = 0 => RawAfter(writes) = raw /\ LiveAfter(writes) = live
    <3>1. \A f \in LiveFiles : ~(Turn[f] - 1 <= 0) /\ ~(Turn[f] <= 0)
      BY DEF LiveFiles, Flows, Turn
    <3> QED  BY <3>1 DEF RawAfter, LiveAfter, LiveFiles, Vouching, FilesTyped
  <2>3. CASE writes = 0
    BY <1>1, <1>2, <2>1, <2>2, <2>3 DEF Vouching, FilesTyped, FlowVouchesForDriverRun
  <2>4. CASE writes # 0
    <3>0. writes > 0
      BY <2>4, BoundsAssumption
    <3>1. torn' = TRUE
      BY <2>1, <3>0, Zenon
    <3> QED  BY <1>1, <1>2, <2>1, <3>1 DEF Vouching, FilesTyped, FlowVouchesForDriverRun
  <2> QED  BY <2>3, <2>4
<1> QED  BY <1>3, <1>4

(* The other flows do not touch the state-channel flow file.               *)
LEMMA FlowKeepsVouching ==
    ASSUME Vouching, NEW f \in Flows, f # "state", NEW outcome, RunFlow(f, outcome)
    PROVE  Vouching'
<1>1. /\ now' = now /\ ln' = ln /\ raw' = raw /\ live' = live /\ torn' = torn
      /\ flow' = [flow EXCEPT ![f] = FlowFile(f)]
  BY DEF RunFlow, world
<1>2. FlowFile(f) \in FlowFiles
  BY BoundsAssumption DEF FlowFile, FlowFiles, LiveFiles, Vouching, FilesTyped, Runs
<1>3. flow' \in [Flows -> FlowFiles] /\ flow'["state"] = flow["state"]
  BY <1>1, <1>2 DEF Vouching, FilesTyped, Flows
<1> QED  BY <1>1, <1>3 DEF Vouching, FilesTyped, FlowVouchesForDriverRun

(* What leaves the driver's and the flows' files alone keeps the invariant.*)
LEMMA OthersKeepVouching ==
    ASSUME Vouching, now' \in Runs, ln' \in Runs, UNCHANGED flowState
    PROVE  Vouching'
BY DEF Vouching, FilesTyped, FlowVouchesForDriverRun, flowState

(* One command.                                                            *)
LEMMA CommandKeepsVouching ==
    ASSUME Vouching, NEW name, NEW outcome, Command(name, outcome)
    PROVE  Vouching'
<1> 0 \in Runs
  BY BoundsAssumption DEF Runs
<1>1. CASE DetectTools(outcome)
  BY <1>1, OthersKeepVouching
     DEF DetectTools, world, flowFiles, flowState, Vouching, FilesTyped
<1>2. CASE RunKaspaDevnet(outcome)
  BY <1>2, OthersKeepVouching
     DEF RunKaspaDevnet, world, flowFiles, flowState, Vouching, FilesTyped
<1>3. CASE RunLnDevnet(outcome)
  BY <1>3, OthersKeepVouching
     DEF RunLnDevnet, LnToolsMissing, PreviousLnRemains, LnNodesFail, LnChannelNotOpen,
         LnSwapUnpaid, LnSwapsPaid, world, flowFiles, flowState, Vouching, FilesTyped
<1>4. CASE RunStateChannelFlow(outcome)
  BY <1>4, DriverKeepsVouching
<1>5. CASE \E f \in Flows \ {"state"} : RunFlow(f, outcome)
  BY <1>5, FlowKeepsVouching
<1>6. CASE \E status \in {"passed", "failed/blocked"} : WriteReport(status, outcome)
  BY <1>6, OthersKeepVouching
     DEF WriteReport, world, evidence, flowFiles, flowState, Vouching, FilesTyped
<1>7. CASE VerifyEvidence(outcome) \/ VerifyReality(outcome)
  BY <1>7, OthersKeepVouching
     DEF VerifyEvidence, VerifyReality, world, evidence, flowFiles, flowState, Vouching, FilesTyped
<1>8. CASE WriteProfile(outcome) \/ PreparePackage(outcome) \/ VerifyReadiness(outcome)
  BY <1>8, OthersKeepVouching
     DEF WriteProfile, PreparePackage, VerifyReadiness,
         world, evidence, flowFiles, flowState, Vouching, FilesTyped
<1>9. CASE RunSemanticVerifier(outcome) \/ RunSoak(outcome)
  BY <1>9, OthersKeepVouching
     DEF RunSemanticVerifier, RunSoak,
         world, evidence, flowFiles, flowState, Vouching, FilesTyped
<1> QED  BY <1>1, <1>2, <1>3, <1>4, <1>5, <1>6, <1>7, <1>8, <1>9 DEF Command, Flows

LEMMA InitVouching == Init => Vouching
<1>1. ASSUME Init, CleanTree PROVE Vouching
  BY <1>1, BoundsAssumption
     DEF CleanTree, NoFlow, Vouching, FilesTyped, FlowVouchesForDriverRun, FlowFiles, Runs,
         LiveFiles, Flows
<1>2. ASSUME Init, CommittedEvidence PROVE Vouching
  <2>1. 0 \in Runs /\ 1 \in Runs
    BY BoundsAssumption DEF Runs
  <2>2. now = 1 /\ ln = 1 /\ raw = [f \in Flows |-> 1] /\ live = [f \in LiveFiles |-> 1]
    BY <1>2 DEF CommittedEvidence
  <2>3. flow = [f \in Flows |->
                 [status |-> "passed", of |-> 1, ln |-> IF f \in Swaps THEN 1 ELSE 0]]
    BY <1>2 DEF CommittedEvidence
  <2>4. \A f \in Flows : flow[f] \in FlowFiles /\ flow[f].of = 1
    BY <2>1, <2>3 DEF FlowFiles
  <2>5. "state" \in Flows
    BY DEF Flows
  <2>6. flow \in [Flows -> FlowFiles]
    BY <2>3, <2>4
  <2> QED  BY <2>1, <2>2, <2>4, <2>5, <2>6 DEF Vouching, FilesTyped, FlowVouchesForDriverRun
<1> QED  BY <1>1, <1>2 DEF Init

LEMMA NextVouching == Vouching /\ [Next]_vars => Vouching'
<1> SUFFICES ASSUME Vouching, [Next]_vars PROVE Vouching'
  OBVIOUS
<1>1. CASE \E name \in Scripts \cup ByHand : Start(name)
  BY <1>1, OthersKeepVouching, BoundsAssumption
     DEF Start, evidence, flowFiles, flowState, Vouching, FilesTyped, Runs
<1>2. CASE \E outcome \in Outcomes : Step(outcome)
  BY <1>2, CommandKeepsVouching DEF Step
<1>3. CASE CheckWithoutTools
  BY <1>3, OthersKeepVouching
     DEF CheckWithoutTools, world, flowFiles, flowState, Vouching, FilesTyped
<1>4. CASE Kill
  BY <1>4, OthersKeepVouching DEF Kill, files, flowState, Vouching, FilesTyped
<1>5. CASE Edit \/ Commit \/ ChangeTools \/ DeliverReview
  BY <1>5, OthersKeepVouching
     DEF Edit, Commit, ChangeTools, DeliverReview, evidence, flowFiles, flowState,
         Vouching, FilesTyped
<1>6. CASE UNCHANGED vars
  BY <1>6, OthersKeepVouching DEF vars, files, flowState, Vouching, FilesTyped
<1> QED  BY <1>1, <1>2, <1>3, <1>4, <1>5, <1>6 DEF Next

(* A passed state-channel flow file vouches for every raw and live file on *)
(* disk, for any commands in any order with any interruptions.             *)
THEOREM FlowVouches == Spec => []FlowVouchesForDriverRun
<1>1. Spec => []Vouching
  BY InitVouching, NextVouching, PTL DEF Spec
<1>2. Vouching => FlowVouchesForDriverRun
  BY DEF Vouching
<1> QED  BY <1>1, <1>2, PTL

(* What verify-evidence accepts is of one driver run: the flow file whose  *)
(* hash the report repeats is on disk, it has passed, and so it vouches    *)
(* for all the files.                                                      *)
THEOREM VerifiedIsOfOneRun == Spec => []VerifiedEvidenceIsOfOneRun
<1>1. ASSUME Vouching, EvidenceHolds, RealityHolds, ~torn
      PROVE  \E run \in Runs \ {0} :
                /\ fixtures = run /\ report.markers = run
                /\ \A f \in Flows : raw[f] = run /\ report.raw[f] \in {0, run}
                /\ \A f \in LiveFiles : live[f] = run
  <2>1. "state" \in Flows
    BY DEF Flows
  <2>2. report.flows["state"].status = "passed" /\ report.flows["state"] = flow["state"]
    BY <1>1, <2>1 DEF EvidenceHolds, ReportHolds, Accepted, FilesHold
  <2>3. /\ \A f \in Flows : raw[f] = flow["state"].of
        /\ \A f \in LiveFiles : live[f] = flow["state"].of
    BY <1>1, <2>2 DEF Vouching, FlowVouchesForDriverRun
  <2>4. \A f \in Flows : report.raw[f] \in {0, flow["state"].of}
    BY <1>1, <2>3 DEF EvidenceHolds, FilesHold
  <2>5. live["state"] \in Runs \ {0} /\ report.markers = live["markers"]
    <3>1. "state" \in LiveFiles
      BY DEF LiveFiles, Flows
    <3>2. live["state"] \in Runs \ {0}
      BY <1>1, <3>1 DEF EvidenceHolds, StateLinksHold, Vouching, FilesTyped
    <3>3. report.markers = live["markers"]
      BY <1>1 DEF EvidenceHolds, RealityHolds, AcceptanceReal, FilesHold
    <3> QED  BY <3>2, <3>3
  <2>6. fixtures = flow["state"].of
    BY <1>1 DEF EvidenceHolds, FixturesHold
  <2>7. "state" \in LiveFiles /\ "markers" \in LiveFiles
    BY DEF LiveFiles, Flows
  <2>8. flow["state"].of \in Runs \ {0} /\ report.markers = flow["state"].of
    BY <2>3, <2>5, <2>7
  <2> QED  BY <2>3, <2>4, <2>6, <2>8
<1>2. Vouching => VerifiedEvidenceIsOfOneRun
  BY <1>1 DEF VerifiedEvidenceIsOfOneRun
<1>3. Spec => []Vouching
  BY InitVouching, NextVouching, PTL DEF Spec
<1> QED  BY <1>2, <1>3, PTL

-----------------------------------------------------------------------------
(* The scripts                                                             *)

LEMMA SuitePlaces ==
    /\ Len(SuiteSteps) = 16
    /\ SuiteSteps[1] = "detect-tools" /\ SuiteSteps[2] = "run-kaspa-devnet"
    /\ SuiteSteps[3] = "run-ln-devnet" /\ SuiteSteps[4] = "run-state-channel-flow"
    /\ SuiteSteps[5] = "run-factory-flow" /\ SuiteSteps[6] = "run-ln-to-kaspa-flow"
    /\ SuiteSteps[7] = "run-kaspa-to-ln-flow" /\ SuiteSteps[8] = "run-refund-flow"
    /\ SuiteSteps[9] = "write-acceptance-report" /\ SuiteSteps[10] = "verify-evidence"
    /\ SuiteSteps[11] = "write-production-target-profile"
    /\ SuiteSteps[12] = "run-semantic-transaction-verifier"
    /\ SuiteSteps[13] = "run-adversarial-soak"
    /\ SuiteSteps[14] = "verify-presentation-reality"
    /\ SuiteSteps[15] = "prepare-security-review-package"
    /\ SuiteSteps[16] = "verify-production-readiness"
BY DEF SuiteSteps, LiveSteps

LEMMA CheckPlaces ==
    /\ Len(CheckSteps) = 13
    /\ CheckSteps[1] = "detect-tools" /\ CheckSteps[2] = "run-kaspa-devnet"
    /\ CheckSteps[3] = "run-ln-devnet" /\ CheckSteps[4] = "run-state-channel-flow"
    /\ CheckSteps[5] = "run-factory-flow" /\ CheckSteps[6] = "run-ln-to-kaspa-flow"
    /\ CheckSteps[7] = "run-kaspa-to-ln-flow" /\ CheckSteps[8] = "run-refund-flow"
    /\ CheckSteps[9] = "write-production-target-profile"
    /\ CheckSteps[10] = "run-semantic-transaction-verifier"
    /\ CheckSteps[11] = "run-adversarial-soak"
    /\ CheckSteps[12] = "write-acceptance-report" /\ CheckSteps[13] = "verify-evidence"
BY DEF CheckSteps, LiveSteps

(* What TypeOK adds to FilesTyped.                                         *)
RestTyped ==
    /\ head \in 0 .. MaxHead /\ tree \in 0 .. MaxTree
    /\ tools \in BOOLEAN /\ torn \in BOOLEAN /\ transcripts \in BOOLEAN
    /\ {fixtures, semantic, soak} \subseteq Runs
    /\ report \in ReportFiles
    /\ profile \in [run : Runs, pins : Runs]
    /\ request \in Packages /\ review \in Packages
    /\ detected \in {"absent", "ready", "blocked"}
    /\ probe \in {"absent", "passed", "failed"}
    /\ reality \in {"absent", "passed", "failed"}
    /\ readiness \in {"absent", "passed", "review missing", "blocked"}

ScriptTyped ==
    /\ script \in ScriptStates /\ trouble \in BOOLEAN
    /\ ~Idle => script.step <= Len(StepsOf(script.name))

Typed == FilesTyped /\ RestTyped /\ ScriptTyped

LEMMA TypedIsTypeOK == Typed => TypeOK
BY DEF Typed, FilesTyped, RestTyped, ScriptTyped, TypeOK

(* A report can be written of any files.                                   *)
LEMMA ReportSayingTyped ==
    ASSUME FilesTyped, RestTyped, NEW status \in {"passed", "failed/blocked"}
    PROVE  /\ ReportSaying(status) \in ReportFiles
           /\ [ReportSaying(status) EXCEPT !.ln = 0] \in ReportFiles
<1>1. ReportBlocked(status) \in BOOLEAN
  BY DEF ReportBlocked
<1>2. 0 \in Runs
  BY BoundsAssumption DEF Runs
<1>3. ReportSaying(status) \in ReportFiles
  <2>1. live["markers"] \in Runs /\ RawRecords \in [Flows -> Runs]
    BY DEF RawRecords, LiveFiles, FilesTyped
  <2> QED  BY <1>1, <2>1 DEF ReportSaying, ReportFiles, FilesTyped, RestTyped
<1> QED  BY <1>2, <1>3 DEF ReportFiles

(* One command leaves every file of its type.                              *)
LEMMA CommandKeepsTypes ==
    ASSUME FilesTyped, RestTyped, FilesTyped', NEW name, NEW outcome, Command(name, outcome)
    PROVE  RestTyped'
<1> USE DEF world, flowFiles, evidence, production
<1>1. CASE DetectTools(outcome)
  BY <1>1 DEF DetectTools, RestTyped
<1>2. CASE RunKaspaDevnet(outcome)
  BY <1>2, ReportSayingTyped DEF RunKaspaDevnet, RestTyped
<1>3. CASE RunLnDevnet(outcome)
  <2>1. report' \in {report, ReportSaying("failed/blocked"),
                      [ReportSaying("failed/blocked") EXCEPT !.ln = 0]}
    BY <1>3 DEF RunLnDevnet, LnToolsMissing, PreviousLnRemains, LnNodesFail, LnChannelNotOpen,
                LnSwapUnpaid, LnSwapsPaid
  <2>2. report' \in ReportFiles
    BY <2>1, ReportSayingTyped DEF RestTyped
  <2> QED  BY <1>3, <2>2 DEF RunLnDevnet, RestTyped
<1>4. CASE RunStateChannelFlow(outcome)
  <2>1. /\ fixtures' \in {fixtures, live'["state"]}
        /\ transcripts' \in BOOLEAN /\ torn' \in BOOLEAN
    BY <1>4 DEF RunStateChannelFlow, StateFlowFinishes, StateFlowBreaks, RestTyped
  <2>2. live'["state"] \in Runs
    BY DEF FilesTyped, LiveFiles, Flows
  <2> QED  BY <1>4, <2>1, <2>2 DEF RunStateChannelFlow, RestTyped
<1>5. CASE \E f \in Flows : RunFlow(f, outcome)
  BY <1>5 DEF RunFlow, RestTyped
<1>6. CASE \E status \in {"passed", "failed/blocked"} : WriteReport(status, outcome)
  <2>1. report' \in ReportFiles /\ UNCHANGED <<world, evidence, production>>
    BY <1>6, ReportSayingTyped DEF WriteReport
  <2> QED  BY <2>1 DEF RestTyped
<1>7. CASE VerifyEvidence(outcome) \/ VerifyReality(outcome)
  BY <1>7 DEF VerifyEvidence, VerifyReality, RestTyped
<1>8. CASE WriteProfile(outcome)
  <2>1. now \in Runs /\ report.run \in Runs
    BY DEF FilesTyped, RestTyped, ReportFiles
  <2>2. profile' \in [run : Runs, pins : Runs]
    BY <1>8, <2>1 DEF WriteProfile, RestTyped
  <2> QED  BY <1>8, <2>2 DEF WriteProfile, RestTyped
<1>9. CASE PreparePackage(outcome)
  <2>1. [head |-> head, artifacts |-> Artifacts] \in Packages
    BY DEF Artifacts, Packages, RestTyped, ReportFiles
  <2> QED  BY <1>9, <2>1 DEF PreparePackage, RestTyped
<1>10. CASE VerifyReadiness(outcome)
  BY <1>10 DEF VerifyReadiness, RestTyped
<1>11. CASE RunSemanticVerifier(outcome) \/ RunSoak(outcome)
  <2>1. semantic' \in {semantic, now} /\ soak' \in {soak, now} /\ now \in Runs
    BY <1>11 DEF RunSemanticVerifier, RunSoak, FilesTyped
  <2>2. UNCHANGED <<world, evidence, report, profile, reality, request, readiness>>
    BY <1>11 DEF RunSemanticVerifier, RunSoak
  <2> QED  BY <2>1, <2>2 DEF RestTyped
<1> QED  BY <1>1, <1>2, <1>3, <1>4, <1>5, <1>6, <1>7, <1>8, <1>9, <1>10, <1>11
         DEF Command, Flows

(* A script that goes on has a command to go on to.                        *)
LEMMA StepKeepsScriptTyped ==
    ASSUME ScriptTyped, NEW outcome, Step(outcome)
    PROVE  ScriptTyped'
<1>1. ~Idle /\ script' = AfterStep(outcome) /\ trouble' \in BOOLEAN
  BY DEF Step, ScriptTyped
<1>2. Len(SuiteSteps) = 16 /\ Len(CheckSteps) = 13
  BY SuitePlaces, CheckPlaces
<1>3. script \in ScriptStates /\ script.step \in 1 .. 16
  BY <1>2 DEF ScriptTyped, ScriptStates
<1>4. ASSUME NEW result \in {"passed", "failed"}, script' = End(result)
      PROVE  ScriptTyped'
  BY <1>1, <1>3, <1>4 DEF End, ScriptStates, ScriptTyped, Idle
<1>5. ASSUME NEW failed \in BOOLEAN, script' = Goes(failed),
             script.step + 1 <= Len(StepsOf(script.name)), script.step + 1 <= 16
      PROVE  ScriptTyped'
  <2>1. script' \in ScriptStates /\ script'.name = script.name /\ script'.step = script.step + 1
    <3>1. script' = [script EXCEPT !.step = script.step + 1, !.failed = failed]
      BY <1>5 DEF Goes
    <3>2. script.step + 1 \in 1 .. Len(SuiteSteps)
      BY <1>2, <1>3, <1>5
    <3> QED  BY <1>3, <1>5, <3>1, <3>2 DEF ScriptStates
  <2> QED  BY <1>1, <1>5, <2>1 DEF ScriptTyped
<1>6. CASE script.name = "check"
  <2>1. Len(StepsOf(script.name)) = 13 /\ script.step <= 13
    BY <1>1, <1>2, <1>6 DEF StepsOf, ScriptTyped
  <2>2. \/ script' = End("failed") \/ script' = End("passed")
        \/ script.step # 13 /\ \E failed \in BOOLEAN : script' = Goes(failed)
    BY <1>1, <1>2, <1>6 DEF AfterStep, AfterCheckStep
  <2>3. script.step # 13 => script.step + 1 <= 13 /\ script.step + 1 <= 16
    BY <1>3, <2>1
  <2>4. CASE script' = End("failed") \/ script' = End("passed")
    BY <1>4, <2>4
  <2>5. CASE script.step # 13 /\ \E failed \in BOOLEAN : script' = Goes(failed)
    BY <1>5, <2>1, <2>3, <2>5
  <2> QED  BY <2>2, <2>4, <2>5
<1>7. CASE script.name \in Suites
  <2>1. StepsOf(script.name) = SuiteSteps
    BY <1>7 DEF StepsOf, Suites
  <2>2. \/ script' = End("failed") \/ script' = End("passed")
        \/ script' = Goes(FALSE) /\ Current # "verify-production-readiness"
    BY <1>1, <1>7 DEF AfterStep, AfterSuiteStep, Suites
  <2>3. Current # "verify-production-readiness" => script.step # 16
    BY <2>1, SuitePlaces DEF Current
  <2>4. script.step # 16 => script.step + 1 <= 16
    BY <1>3
  <2>5. CASE script' = End("failed") \/ script' = End("passed")
    BY <1>4, <2>5
  <2>6. CASE script' = Goes(FALSE) /\ Current # "verify-production-readiness"
    BY <1>2, <1>5, <2>1, <2>3, <2>4, <2>6
  <2> QED  BY <2>2, <2>5, <2>6
<1>8. CASE script.name # "check" /\ script.name \notin Suites
  BY <1>1, <1>4, <1>8 DEF AfterStep
<1> QED  BY <1>6, <1>7, <1>8

LEMMA InitTyped == Init => Typed
<1> SUFFICES ASSUME Init PROVE Typed
  OBVIOUS
<1>1. FilesTyped
  BY InitVouching DEF Vouching
<1>2. /\ 0 \in Runs /\ 1 \in Runs /\ 0 \in 0 .. MaxHead /\ 1 \in 0 .. MaxHead
      /\ 0 \in 0 .. MaxTree
  BY BoundsAssumption DEF Runs
<1>3. NoReport \in ReportFiles
  BY <1>2 DEF NoReport, NoFlow, ReportFiles, FlowFiles
<1>4. [head |-> 0, artifacts |-> NoArtifacts] \in Packages
  BY <1>2 DEF NoArtifacts, Packages
<1>5. ASSUME CleanTree PROVE RestTyped
  <2>1. /\ tools \in BOOLEAN /\ torn \in BOOLEAN /\ review \in Packages
    BY <1>4 DEF Init
  <2>2. profile \in [run : Runs, pins : Runs] /\ report \in ReportFiles /\ request \in Packages
    BY <1>2, <1>3, <1>4, <1>5 DEF CleanTree
  <2>5. transcripts \in BOOLEAN
    BY <1>5 DEF CleanTree
  <2>6. {fixtures, semantic, soak} \subseteq Runs
    BY <1>2, <1>5 DEF CleanTree
  <2>7. head \in 0 .. MaxHead /\ tree \in 0 .. MaxTree
    BY <1>2, <1>5 DEF CleanTree
  <2>8. /\ detected \in {"absent", "ready", "blocked"} /\ probe \in {"absent", "passed", "failed"}
        /\ reality \in {"absent", "passed", "failed"}
        /\ readiness \in {"absent", "passed", "review missing", "blocked"}
    BY <1>5 DEF CleanTree
  <2> QED  BY <2>1, <2>2, <2>5, <2>6, <2>7, <2>8 DEF RestTyped
<1>6. ASSUME CommittedEvidence PROVE RestTyped
  <2>1. report \in ReportFiles
    BY <1>1, <1>2, <1>6 DEF CommittedEvidence, ReportFiles, FilesTyped
  <2>2. request \in Packages
    BY <1>2, <1>6 DEF CommittedEvidence, Packages
  <2>3. /\ tools \in BOOLEAN /\ torn \in BOOLEAN /\ review \in Packages
    BY <1>4 DEF Init
  <2>4. profile \in [run : Runs, pins : Runs]
    BY <1>2, <1>6 DEF CommittedEvidence
  <2>5. transcripts \in BOOLEAN
    BY <1>6 DEF CommittedEvidence
  <2>6. {fixtures, semantic, soak} \subseteq Runs
    BY <1>2, <1>6 DEF CommittedEvidence
  <2>7. head \in 0 .. MaxHead /\ tree \in 0 .. MaxTree
    BY <1>2, <1>6 DEF CommittedEvidence
  <2>8. /\ detected \in {"absent", "ready", "blocked"} /\ probe \in {"absent", "passed", "failed"}
        /\ reality \in {"absent", "passed", "failed"}
        /\ readiness \in {"absent", "passed", "review missing", "blocked"}
    BY <1>6 DEF CommittedEvidence
  <2> QED  BY <2>1, <2>2, <2>3, <2>4, <2>5, <2>6, <2>7, <2>8 DEF RestTyped
<1>7. ScriptTyped
  <2>1. 1 \in 1 .. Len(SuiteSteps)
    BY SuitePlaces
  <2> QED  BY <2>1 DEF Init, NoScript, ScriptStates, ScriptTyped, Idle
<1> QED  BY <1>1, <1>5, <1>6, <1>7 DEF Init, Typed

LEMMA NextKeepsTypes ==
    ASSUME Typed, FilesTyped', [Next]_vars
    PROVE  Typed'
<1> USE DEF world, flowFiles, evidence, production, files
<1>1. FilesTyped /\ RestTyped /\ ScriptTyped
  BY DEF Typed
<1>2. SUFFICES RestTyped' /\ ScriptTyped'
  BY DEF Typed
<1>3. ASSUME NEW name \in Scripts \cup ByHand, Start(name) PROVE RestTyped' /\ ScriptTyped'
  <2>1. RestTyped'
    BY <1>1, <1>3 DEF Start, RestTyped
  <2>2. /\ script'.name = name /\ script'.step = 1 /\ trouble' \in BOOLEAN
        /\ 1 \in 1 .. Len(SuiteSteps)
    BY <1>3, SuitePlaces DEF Start
  <2>3. Clean(report) \in BOOLEAN /\ (semantic # 0 /\ soak # 0) \in BOOLEAN
    BY DEF Clean
  <2>4. script' \in ScriptStates
    BY <1>3, <2>2, <2>3 DEF Start, ScriptStates
  <2>5. 1 <= Len(StepsOf(name))
    <3>1. CASE name = "check"
      <4>1. StepsOf(name) = CheckSteps
        BY <3>1 DEF StepsOf
      <4> QED  BY <4>1, CheckPlaces
    <3>2. CASE name \in Suites
      <4>1. StepsOf(name) = SuiteSteps
        BY <3>2 DEF StepsOf, Suites
      <4> QED  BY <4>1, SuitePlaces
    <3>3. CASE name # "check" /\ name \notin Suites
      <4>1. StepsOf(name) = <<name>>
        BY <3>3 DEF StepsOf
      <4> QED  BY <4>1
    <3> QED  BY <3>1, <3>2, <3>3
  <2> QED  BY <2>1, <2>2, <2>4, <2>5 DEF ScriptTyped
<1>4. ASSUME NEW outcome, Step(outcome) PROVE RestTyped' /\ ScriptTyped'
  BY <1>1, <1>4, CommandKeepsTypes, StepKeepsScriptTyped DEF Step
<1>5. CASE CheckWithoutTools
  <2>1. RestTyped'
    BY <1>1, <1>5, ReportSayingTyped DEF CheckWithoutTools, RestTyped
  <2>2. ScriptTyped'
    BY <1>1, <1>5 DEF CheckWithoutTools, End, ScriptTyped, ScriptStates, Idle
  <2> QED  BY <2>1, <2>2
<1>6. CASE Kill
  <2>1. RestTyped'
    BY <1>1, <1>6 DEF Kill, RestTyped
  <2>2. ScriptTyped'
    BY <1>1, <1>6 DEF Kill, End, ScriptTyped, ScriptStates, Idle
  <2> QED  BY <2>1, <2>2
<1>7. CASE Edit \/ Commit \/ ChangeTools \/ DeliverReview
  <2>1. RestTyped'
    <3>1. /\ tree' \in {tree, tree + 1} /\ (tree' = tree \/ tree < MaxTree)
          /\ head' \in {head, head + 1} /\ (head' = head \/ head < MaxHead)
          /\ tools' \in {tools, ~tools} /\ review' \in {review, request}
          /\ UNCHANGED <<evidence, report, production>>
      BY <1>7 DEF Edit, Commit, ChangeTools, DeliverReview
    <3>2. head' \in 0 .. MaxHead /\ tree' \in 0 .. MaxTree
      <4>1. head \in 0 .. MaxHead /\ tree \in 0 .. MaxTree /\ MaxHead \in Nat /\ MaxTree \in Nat
        BY <1>1, BoundsAssumption DEF RestTyped
      <4> QED  BY <3>1, <4>1
    <3>3. tools' \in BOOLEAN /\ review' \in Packages
      BY <1>1, <3>1 DEF RestTyped
    <3> QED  BY <1>1, <3>1, <3>2, <3>3 DEF RestTyped
  <2>2. script' = script /\ trouble' \in BOOLEAN
    BY <1>7 DEF Edit, Commit, ChangeTools, DeliverReview, Disturb
  <2> QED  BY <1>1, <2>1, <2>2 DEF ScriptTyped, Idle
<1>8. CASE UNCHANGED vars
  BY <1>1, <1>8 DEF vars, RestTyped, ScriptTyped, Idle
<1> QED  BY <1>3, <1>4, <1>5, <1>6, <1>7, <1>8 DEF Next

(* Every file is absent or of a run so far, and a running script is at one *)
(* of its commands, whatever was run before and wherever it stopped.       *)
THEOREM TypeCorrect == Spec => []TypeOK
<1>1. Vouching' => FilesTyped'
  BY DEF Vouching
<1>2. Typed /\ FilesTyped' /\ [Next]_vars => Typed'
  BY NextKeepsTypes
<1> QED  BY <1>1, <1>2, InitTyped, InitVouching, NextVouching, TypedIsTypeOK, PTL DEF Spec

-----------------------------------------------------------------------------
(* What a script has made                                                  *)

(* Of the files of devnets and flows, when the script is at its command n. *)
LiveFresh(n) ==
    /\ n > 3 => ln = now
    /\ n > 4 => /\ fixtures = now /\ flow["state"].of = now
                /\ \A f \in Flows : raw[f] = now
                /\ \A f \in LiveFiles : live[f] = now
    /\ n > 5 => flow["factory"].of = now
    /\ n > 6 => flow["lnToKaspa"].of = now
    /\ n > 7 => flow["kaspaToLn"].of = now
    /\ n > 8 => flow["refund"].of = now

ReportFresh == report.run = now /\ report.ln = now /\ report.markers = now

RequestFresh ==
    /\ request.artifacts.report = now /\ request.artifacts.profile = now
    /\ request.artifacts.semantic = now /\ request.artifacts.soak = now

SuiteFresh(n) ==
    /\ n > 9  => ReportFresh
    /\ n > 11 => profile.run = now /\ profile.pins = now
    /\ n > 12 => semantic = now
    /\ n > 13 => soak = now
    /\ n > 15 => RequestFresh

CheckFresh(n) ==
    /\ n > 9  => profile.run = now
    /\ n > 10 => semantic = now
    /\ n > 11 => soak = now
    /\ n > 12 => ReportFresh

Fresh(n) ==
    /\ LiveFresh(n)
    /\ script.name \in Suites => SuiteFresh(n)
    /\ script.name = "check" => CheckFresh(n)

ReviewFresh ==
    /\ review.artifacts.report = now /\ review.artifacts.profile = now
    /\ review.artifacts.semantic = now /\ review.artifacts.soak = now

(* A suite stops at its first failure and a check remembers it; without    *)
(* one everything the commands so far write is of the present run.         *)
FreshSoFar ==
    script.name \in Scripts =>
        /\ ~Idle /\ ~script.failed => Fresh(script.step)
        /\ ~Idle /\ (script.name \in Suites \/ script.step > 12) => ~script.failed
        /\ script.result = "passed" => Fresh(17)
        /\ script.name = "strict" /\ script.result = "passed" => ReviewFresh

LEMMA LiveRuns ==
    ASSUME script.name \in Scripts, NEW outcome, Step(outcome)
    PROVE  /\ script.step = 1 => DetectTools(outcome)
           /\ script.step = 2 => RunKaspaDevnet(outcome)
           /\ script.step = 3 => RunLnDevnet(outcome)
           /\ script.step = 4 => RunStateChannelFlow(outcome)
           /\ script.step = 5 => RunFlow("factory", outcome)
           /\ script.step = 6 => RunFlow("lnToKaspa", outcome)
           /\ script.step = 7 => RunFlow("kaspaToLn", outcome)
           /\ script.step = 8 => RunFlow("refund", outcome)
<1>1. Command(Current, outcome)
  BY DEF Step
<1>2. StepsOf(script.name) = CheckSteps \/ StepsOf(script.name) = SuiteSteps
  BY DEF StepsOf, Scripts
<1>3. /\ script.step = 1 => Current = "detect-tools"
      /\ script.step = 2 => Current = "run-kaspa-devnet"
      /\ script.step = 3 => Current = "run-ln-devnet"
      /\ script.step = 4 => Current = "run-state-channel-flow"
      /\ script.step = 5 => Current = "run-factory-flow"
      /\ script.step = 6 => Current = "run-ln-to-kaspa-flow"
      /\ script.step = 7 => Current = "run-kaspa-to-ln-flow"
      /\ script.step = 8 => Current = "run-refund-flow"
  BY <1>2, SuitePlaces, CheckPlaces DEF Current
<1> HIDE DEF Current
<1> QED  BY <1>1, <1>3 DEF Command

LEMMA SuiteRuns ==
    ASSUME script.name \in Suites, NEW outcome, Step(outcome)
    PROVE  /\ script.step = 9 =>
                  WriteReport(IF script.failed THEN "failed/blocked" ELSE "passed", outcome)
           /\ script.step = 10 => VerifyEvidence(outcome)
           /\ script.step = 11 => WriteProfile(outcome)
           /\ script.step = 12 => RunSemanticVerifier(outcome)
           /\ script.step = 13 => RunSoak(outcome)
           /\ script.step = 14 => VerifyReality(outcome)
           /\ script.step = 15 => PreparePackage(outcome)
           /\ script.step = 16 => VerifyReadiness(outcome)
<1>1. Command(Current, outcome)
  BY DEF Step
<1>2. StepsOf(script.name) = SuiteSteps
  BY DEF StepsOf, Suites
<1>3. /\ script.step = 9 => Current = "write-acceptance-report"
      /\ script.step = 10 => Current = "verify-evidence"
      /\ script.step = 11 => Current = "write-production-target-profile"
      /\ script.step = 12 => Current = "run-semantic-transaction-verifier"
      /\ script.step = 13 => Current = "run-adversarial-soak"
      /\ script.step = 14 => Current = "verify-presentation-reality"
      /\ script.step = 15 => Current = "prepare-security-review-package"
      /\ script.step = 16 => Current = "verify-production-readiness"
  BY <1>2, SuitePlaces DEF Current
<1> HIDE DEF Current
<1> QED  BY <1>1, <1>3 DEF Command

LEMMA CheckRuns ==
    ASSUME script.name = "check", NEW outcome, Step(outcome)
    PROVE  /\ script.step = 9 => WriteProfile(outcome)
           /\ script.step = 10 => RunSemanticVerifier(outcome)
           /\ script.step = 11 => RunSoak(outcome)
           /\ script.step = 12 =>
                  WriteReport(IF script.failed THEN "failed/blocked" ELSE "passed", outcome)
           /\ script.step = 13 => VerifyEvidence(outcome)
<1>1. Command(Current, outcome)
  BY DEF Step
<1>2. StepsOf(script.name) = CheckSteps
  BY DEF StepsOf
<1>3. /\ script.step = 9 => Current = "write-production-target-profile"
      /\ script.step = 10 => Current = "run-semantic-transaction-verifier"
      /\ script.step = 11 => Current = "run-adversarial-soak"
      /\ script.step = 12 => Current = "write-acceptance-report"
      /\ script.step = 13 => Current = "verify-evidence"
  BY <1>2, CheckPlaces DEF Current
<1> HIDE DEF Current
<1> QED  BY <1>1, <1>3 DEF Command

(* Where the scripts go after a command.                                   *)
LEMMA WhereTo ==
    ASSUME ScriptTyped, script.name \in Scripts, NEW outcome, Step(outcome)
    PROVE  /\ script'.name = script.name
           /\ script'.result \in {"running", "passed", "failed"}
           /\ script'.cleanReport = script.cleanReport /\ script'.checked = script.checked
           /\ script'.result = "running" =>
                  /\ script'.step = script.step + 1
                  /\ script.name = "check" =>
                        /\ ~script'.failed => outcome = "ok" /\ ~script.failed
                        /\ ~script.failed /\ outcome = "ok" => ~script'.failed
                        /\ script.step = 12 => ~script.failed
                        /\ script.step < 13
                  /\ script.name \in Suites =>
                        outcome = "ok" /\ ~script'.failed /\ script.step < 16
           /\ script'.result = "passed" =>
                  /\ script.name = "check" => outcome = "ok" /\ script.step = 13
                  /\ script.name \in Suites => BoundaryHolds /\ script.step = 16
           /\ script'.result = "failed" =>
                  /\ script.name = "check" =>
                        \/ outcome # "ok"
                        \/ script.step = 12 /\ script.failed
                  /\ script.name \in Suites =>
                        IF script.step = 16 THEN ~BoundaryHolds ELSE outcome # "ok"
<1>1. ~Idle /\ script' = AfterStep(outcome) /\ script \in ScriptStates
  BY DEF Step, ScriptTyped
<1>2. ASSUME NEW result
      PROVE  /\ End(result).result = result /\ End(result).name = script.name
             /\ End(result).cleanReport = script.cleanReport
             /\ End(result).checked = script.checked
  BY <1>1 DEF End, ScriptStates
<1>3. ASSUME NEW failed
      PROVE  /\ Goes(failed).result = "running" /\ Goes(failed).name = script.name
             /\ Goes(failed).step = script.step + 1 /\ Goes(failed).failed = failed
             /\ Goes(failed).cleanReport = script.cleanReport
             /\ Goes(failed).checked = script.checked
  BY <1>1 DEF Goes, ScriptStates, Idle
<1>4. CASE script.name = "check"
  <2>1. StepsOf(script.name) = CheckSteps
    BY <1>4 DEF StepsOf
  <2>2. script.step \in 1 .. 13
    <3>1. script.step <= 13 /\ script.step \in 1 .. Len(SuiteSteps)
      BY <1>1, <2>1, CheckPlaces DEF ScriptTyped, ScriptStates
    <3> QED  BY <3>1, SuitePlaces
  <2>3. Current = "write-acceptance-report" <=> script.step = 12
    BY <2>1, <2>2, CheckPlaces DEF Current
  <2>4. "check" \notin Suites /\ script.failed \in BOOLEAN
    BY <1>1 DEF Suites, ScriptStates
  <2> HIDE DEF Current
  <2>5. script' = AfterCheckStep(outcome)
    BY <1>1, <1>4 DEF AfterStep
  <2>6. CASE script' = End("failed") /\ (outcome # "ok" \/ (script.step = 12 /\ script.failed))
    BY <1>2, <1>4, <2>4, <2>6
  <2>7. CASE script' = End("passed") /\ script.step = 13 /\ outcome = "ok"
    BY <1>2, <1>4, <2>4, <2>7
  <2>8. ASSUME NEW failed, script' = Goes(failed), failed <=> script.failed \/ outcome # "ok",
               script.step # 13, ~(script.step = 12 /\ script.failed)
        PROVE  /\ script'.name = script.name /\ script'.result = "running"
               /\ script'.cleanReport = script.cleanReport
               /\ script'.checked = script.checked
               /\ script'.step = script.step + 1
               /\ ~script'.failed => outcome = "ok" /\ ~script.failed
               /\ ~script.failed /\ outcome = "ok" => ~script'.failed
               /\ script.step = 12 => ~script.failed
               /\ script.step < 13
    <3>1. script.step < 13
      BY <2>2, <2>8
    <3> QED  BY <1>3, <2>8, <3>1
  <2>9. \/ script' = End("failed") /\ (outcome # "ok" \/ (script.step = 12 /\ script.failed))
        \/ script' = End("passed") /\ script.step = 13 /\ outcome = "ok"
        \/ /\ script' = Goes(script.failed \/ outcome # "ok")
           /\ script.step # 13 /\ ~(script.step = 12 /\ script.failed)
    <3>1. CASE outcome = "error"
      <4>1. script' = End("failed")
        BY <2>5, <3>1 DEF AfterCheckStep
      <4>2. outcome # "ok"
        BY <3>1
      <4> QED  BY <4>1, <4>2, Zenon
    <3>2. CASE outcome # "error" /\ script.step = 12 /\ script.failed
      BY <2>3, <2>5, <3>2 DEF AfterCheckStep
    <3>3. CASE outcome # "error" /\ ~(script.step = 12 /\ script.failed)
      <4>1. script' = IF script.step = 13 THEN End(IF outcome = "ok" THEN "passed" ELSE "failed")
                      ELSE Goes(script.failed \/ outcome # "ok")
        BY <2>3, <2>5, <3>3, CheckPlaces DEF AfterCheckStep
      <4>2. CASE script.step = 13
        <5>1. script' = End(IF outcome = "ok" THEN "passed" ELSE "failed")
          BY <4>1, <4>2, Zenon
        <5> QED  BY <4>2, <5>1, Zenon
      <4>3. CASE script.step # 13
        BY <3>3, <4>1, <4>3, Zenon
      <4> QED  BY <4>2, <4>3, Zenon
    <3> QED  BY <3>1, <3>2, <3>3, Zenon
  <2> QED  BY <1>4, <2>4, <2>6, <2>7, <2>8, <2>9
<1>5. CASE script.name \in Suites
  <2>1. StepsOf(script.name) = SuiteSteps
    BY <1>5 DEF StepsOf, Suites
  <2>2. script.step \in 1 .. 16
    BY <1>1, SuitePlaces DEF ScriptStates
  <2>3. Current = "verify-production-readiness" <=> script.step = 16
    BY <2>1, <2>2, SuitePlaces DEF Current
  <2>4. script.name # "check" /\ (script.step # 16 => script.step < 16)
    BY <1>5, <2>2 DEF Suites
  <2> HIDE DEF Current
  <2>5. script' = AfterSuiteStep(outcome)
    BY <1>1, <1>5, <2>4 DEF AfterStep
  <2>6. \/ script.step = 16 /\ BoundaryHolds /\ script' = End("passed")
        \/ script.step = 16 /\ ~BoundaryHolds /\ script' = End("failed")
        \/ script.step # 16 /\ outcome = "ok" /\ script' = Goes(FALSE)
        \/ script.step # 16 /\ outcome # "ok" /\ script' = End("failed")
    BY <2>3, <2>5 DEF AfterSuiteStep
  <2>7. CASE script.step # 16 /\ outcome = "ok" /\ script' = Goes(FALSE)
    <3>1. /\ script'.result = "running" /\ script'.name = script.name
          /\ script'.step = script.step + 1 /\ script'.failed = FALSE
          /\ script'.cleanReport = script.cleanReport
          /\ script'.checked = script.checked
      BY <1>3, <2>7
    <3> QED  BY <1>5, <2>4, <2>7, <3>1
  <2>8. ASSUME NEW result \in {"passed", "failed"}, script' = End(result)
        PROVE  /\ script'.result = result /\ script'.name = script.name
               /\ script'.cleanReport = script.cleanReport
               /\ script'.checked = script.checked
    BY <1>2, <2>8
  <2>9. CASE script' = End("passed") /\ script.step = 16 /\ BoundaryHolds
    BY <1>5, <2>4, <2>8, <2>9
  <2>10. CASE /\ script' = End("failed")
              /\ IF script.step = 16 THEN ~BoundaryHolds ELSE outcome # "ok"
    BY <1>5, <2>4, <2>8, <2>10
  <2> QED  BY <2>6, <2>7, <2>9, <2>10
<1> QED  BY <1>4, <1>5 DEF Scripts


(* Each of the commands of all scripts renews what Fresh asks for next.    *)
LEMMA LiveAdvances ==
    ASSUME FilesTyped, script.name \in Scripts, NEW n \in 1 .. 8, script.step = n, Step("ok"),
           LiveFresh(n)
    PROVE  LiveFresh(n + 1)'
<1> USE DEF world
<1>1. now' = now /\ flow \in [Flows -> FlowFiles] /\ (n > 3 => ln' = ln)
  BY LiveRuns DEF DetectTools, RunKaspaDevnet, RunLnDevnet, RunStateChannelFlow, RunFlow,
     FilesTyped
<1>2. CASE n = 1 \/ n = 2
  BY <1>2 DEF LiveFresh
<1>3. CASE n = 3
  <2>1. RunLnDevnet("ok")
    BY <1>3, LiveRuns
  <2>2. ln' = now
    BY <2>1 DEF RunLnDevnet, LnToolsMissing, PreviousLnRemains, LnNodesFail, LnChannelNotOpen,
                LnSwapUnpaid, LnSwapsPaid
  <2> QED  BY <1>1, <1>3, <2>2 DEF LiveFresh
<1>4. CASE n = 4
  <2>1. RunStateChannelFlow("ok")
    BY <1>4, LiveRuns
  <2>2. PICK writes \in Stops :
          raw' = RawAfter(writes) /\ live' = LiveAfter(writes) /\ StateFlowFinishes(writes, "ok")
    BY <2>1 DEF RunStateChannelFlow, StateFlowBreaks
  <2>3. PICK sound \in BOOLEAN :
          /\ StateFlowStatus(writes, sound) = "passed"
          /\ flow' = [flow EXCEPT !["state"] =
                        [status |-> StateFlowStatus(writes, sound), of |-> now, ln |-> 0]]
          /\ fixtures' = live'["state"]
    BY <2>2 DEF StateFlowFinishes
  <2>4. writes = AllWrites
    BY <2>3 DEF StateFlowStatus
  <2>5. (\A f \in Flows : raw'[f] = now) /\ (\A f \in LiveFiles : live'[f] = now)
    BY <2>2, <2>4, AllWritesRenewAll
  <2>6. "state" \in Flows /\ "state" \in LiveFiles
    BY DEF LiveFiles, Flows
  <2>7. flow'["state"].of = now /\ fixtures' = now
    BY <1>1, <2>3, <2>5, <2>6
  <2> QED  BY <1>1, <1>4, <2>5, <2>7 DEF LiveFresh
<1>5. ASSUME NEW f \in Flows \ {"state"}, RunFlow(f, "ok"), n > 4
      PROVE  /\ flow'[f].of = now
             /\ \A g \in Flows \ {f} : flow'[g] = flow[g]
             /\ UNCHANGED <<now, ln, raw, live, fixtures>>
  <2>1. flow' = [flow EXCEPT ![f] = FlowFile(f)] /\ live[f] = now
    BY <1>5 DEF RunFlow, LiveFresh, LiveFiles
  <2> QED  BY <1>1, <1>5, <2>1 DEF RunFlow, FlowFile
<1>6. CASE n = 5
  BY <1>5, <1>6, LiveRuns DEF LiveFresh, Flows
<1>7. CASE n = 6
  BY <1>5, <1>7, LiveRuns DEF LiveFresh, Flows
<1>8. CASE n = 7
  BY <1>5, <1>8, LiveRuns DEF LiveFresh, Flows
<1>9. CASE n = 8
  BY <1>5, <1>9, LiveRuns DEF LiveFresh, Flows
<1> QED  BY <1>2, <1>3, <1>4, <1>6, <1>7, <1>8, <1>9

(* The later commands leave the files of devnets and flows alone.          *)
LEMMA SuiteAdvances ==
    ASSUME script.name \in Suites, NEW n \in 9 .. 16, script.step = n,
           NEW outcome, Step(outcome), outcome = "ok" \/ n = 16, Fresh(n)
    PROVE  LiveFresh(n + 1)' /\ SuiteFresh(n + 1)'
<1> USE DEF world, flowFiles, evidence
<1>1. LiveFresh(n) /\ SuiteFresh(n)
  BY DEF Fresh
<1>2. UNCHANGED <<now, ln, fixtures, raw, live, flow>>
  <2>1. n = 9 => UNCHANGED <<now, ln, fixtures, raw, live, flow>>
    BY SuiteRuns DEF WriteReport
  <2>2. n \in {10, 14} => UNCHANGED <<now, ln, fixtures, raw, live, flow>>
    BY SuiteRuns DEF VerifyEvidence, VerifyReality
  <2>3. n \in {11, 12, 13} => UNCHANGED <<now, ln, fixtures, raw, live, flow>>
    BY SuiteRuns DEF WriteProfile, RunSemanticVerifier, RunSoak
  <2>4. n \in {15, 16} => UNCHANGED <<now, ln, fixtures, raw, live, flow>>
    BY SuiteRuns DEF PreparePackage, VerifyReadiness
  <2> QED  BY <2>1, <2>2, <2>3, <2>4
<1>3. LiveFresh(n + 1)'
  BY <1>1, <1>2 DEF LiveFresh
<1>4. CASE n = 9
  <2>1. \E status \in {"passed", "failed/blocked"} : report' = ReportSaying(status)
    BY <1>4, SuiteRuns DEF WriteReport
  <2>2. ReportFresh'
    BY <1>1, <1>2, <1>4, <2>1 DEF LiveFresh, LiveFiles, ReportFresh, ReportSaying
  <2> QED  BY <1>3, <1>4, <2>2 DEF SuiteFresh
<1>5. CASE n = 10
  BY <1>1, <1>2, <1>3, <1>5, SuiteRuns DEF VerifyEvidence, SuiteFresh, ReportFresh
<1>6. CASE n = 11
  <2>1. WriteProfile("ok")
    BY <1>6, SuiteRuns
  <2>2. profile' = [run |-> now, pins |-> report.run] /\ report' = report
    BY <2>1 DEF WriteProfile
  <2> QED  BY <1>1, <1>2, <1>3, <1>6, <2>2 DEF SuiteFresh, ReportFresh
<1>7. CASE n = 12
  <2>1. RunSemanticVerifier("ok")
    BY <1>7, SuiteRuns
  <2>2. semantic' = now /\ UNCHANGED <<report, profile>>
    BY <2>1 DEF RunSemanticVerifier
  <2> QED  BY <1>1, <1>2, <1>3, <1>7, <2>2 DEF SuiteFresh, ReportFresh
<1>8. CASE n = 13
  <2>1. soak' = now /\ UNCHANGED <<report, profile, semantic>>
    BY <1>8, SuiteRuns DEF RunSoak
  <2> QED  BY <1>1, <1>2, <1>3, <1>8, <2>1 DEF SuiteFresh, ReportFresh
<1>9. CASE n = 14
  BY <1>1, <1>2, <1>3, <1>9, SuiteRuns DEF VerifyReality, SuiteFresh, ReportFresh
<1>10. CASE n = 15
  <2>1. PreparePackage("ok")
    BY <1>10, SuiteRuns
  <2>2. request' = [head |-> head, artifacts |-> Artifacts]
        /\ UNCHANGED <<report, profile, semantic, soak>>
    BY <2>1 DEF PreparePackage
  <2>3. RequestFresh'
    BY <1>1, <1>2, <1>10, <2>2 DEF Artifacts, SuiteFresh, ReportFresh, RequestFresh
  <2> QED  BY <1>1, <1>2, <1>3, <1>10, <2>2, <2>3 DEF SuiteFresh, ReportFresh
<1>11. CASE n = 16
  <2>1. UNCHANGED <<report, profile, semantic, soak, request>>
    BY <1>11, SuiteRuns DEF VerifyReadiness
  <2> QED  BY <1>1, <1>2, <1>3, <1>11, <2>1 DEF SuiteFresh, ReportFresh, RequestFresh
<1> QED  BY <1>4, <1>5, <1>6, <1>7, <1>8, <1>9, <1>10, <1>11

LEMMA CheckAdvances ==
    ASSUME script.name = "check", NEW n \in 9 .. 13, script.step = n, Step("ok"), Fresh(n)
    PROVE  LiveFresh(n + 1)' /\ CheckFresh(n + 1)'
<1> USE DEF world, flowFiles, evidence
<1>1. LiveFresh(n) /\ CheckFresh(n)
  BY DEF Fresh
<1>2. UNCHANGED <<now, ln, fixtures, raw, live, flow>>
  BY CheckRuns DEF WriteReport, VerifyEvidence, WriteProfile, RunSemanticVerifier, RunSoak
<1>3. LiveFresh(n + 1)'
  BY <1>1, <1>2 DEF LiveFresh
<1>4. CASE n = 9
  <2>1. WriteProfile("ok")
    BY <1>4, CheckRuns
  <2>2. profile'.run = now
    BY <2>1 DEF WriteProfile
  <2> QED  BY <1>2, <1>3, <1>4, <2>2 DEF CheckFresh
<1>5. CASE n = 10
  <2>1. RunSemanticVerifier("ok")
    BY <1>5, CheckRuns
  <2>2. semantic' = now /\ profile' = profile
    BY <2>1 DEF RunSemanticVerifier
  <2> QED  BY <1>1, <1>2, <1>3, <1>5, <2>2 DEF CheckFresh
<1>6. CASE n = 11
  <2>1. soak' = now /\ UNCHANGED <<profile, semantic>>
    BY <1>6, CheckRuns DEF RunSoak
  <2> QED  BY <1>1, <1>2, <1>3, <1>6, <2>1 DEF CheckFresh
<1>7. CASE n = 12
  <2>1. \E status \in {"passed", "failed/blocked"} : report' = ReportSaying(status)
    BY <1>7, CheckRuns DEF WriteReport
  <2>2. ReportFresh'
    BY <1>1, <1>2, <1>7, <2>1 DEF LiveFresh, LiveFiles, ReportFresh, ReportSaying
  <2>3. UNCHANGED <<profile, semantic, soak>>
    BY <1>7, CheckRuns DEF WriteReport, production
  <2> QED  BY <1>1, <1>2, <1>3, <1>7, <2>2, <2>3 DEF CheckFresh
<1>8. CASE n = 13
  BY <1>1, <1>2, <1>3, <1>8, CheckRuns DEF VerifyEvidence, CheckFresh, ReportFresh
<1> QED  BY <1>4, <1>5, <1>6, <1>7, <1>8

(* A command that is ok, or the last gate of a suite, brings a script as   *)
(* far as its files have to be for the next one.                           *)
LEMMA FreshAdvances ==
    ASSUME Typed, script.name \in Scripts, NEW n \in 1 .. 16, script.step = n,
           script.name = "check" => n < 14, NEW outcome, Step(outcome),
           outcome = "ok" \/ (script.name \in Suites /\ n = 16), Fresh(n)
    PROVE  Fresh(n + 1)'
<1>1. script'.name = script.name
  BY WhereTo DEF Typed
<1>2. CASE n \in 1 .. 8
  <2>1. LiveFresh(n + 1)'
    BY <1>2, LiveAdvances DEF Typed, Fresh
  <2>2. SuiteFresh(n + 1)' /\ CheckFresh(n + 1)'
    BY <1>2 DEF SuiteFresh, CheckFresh
  <2> QED  BY <2>1, <2>2 DEF Fresh
<1>3. CASE n \in 9 .. 16 /\ script.name \in Suites
  <2>1. script.name # "check"
    BY <1>3 DEF Suites
  <2> QED  BY <1>1, <1>3, <2>1, SuiteAdvances DEF Fresh
<1>4. CASE n \in 9 .. 16 /\ script.name = "check"
  <2>1. n \in 9 .. 13 /\ outcome = "ok" /\ script.name \notin Suites
    BY <1>4 DEF Suites
  <2> QED  BY <1>1, <1>4, <2>1, CheckAdvances DEF Fresh
<1> QED  BY <1>2, <1>3, <1>4 DEF Scripts

(* A command of a check or of a suite.                                     *)
LEMMA StepKeepsFreshSoFar ==
    ASSUME Typed, FreshSoFar, script.name \in Scripts, NEW outcome, Step(outcome)
    PROVE  FreshSoFar'
<1>1. ~Idle /\ ScriptTyped
  BY DEF Step, Typed
<1>2. PICK n \in 1 .. 16 : script.step = n
  BY <1>1, SuitePlaces DEF ScriptTyped, ScriptStates
<1>3. script.name = "check" => n < 14
  <2>1. script.name = "check" => StepsOf(script.name) = CheckSteps
    BY DEF StepsOf
  <2>2. script.name = "check" => n <= 13
    BY <1>1, <1>2, <2>1, CheckPlaces DEF ScriptTyped
  <2> QED  BY <2>2
<1>4. script'.name = script.name
  BY <1>1, WhereTo
<1>5. script.name \in Suites => ~script.failed
  BY <1>1 DEF FreshSoFar
<1>6. ~script.failed => Fresh(n)
  BY <1>1, <1>2 DEF FreshSoFar
<1>7. ~script.failed /\ (outcome = "ok" \/ (script.name \in Suites /\ n = 16)) => Fresh(n + 1)'
  BY <1>2, <1>3, <1>6, FreshAdvances
<1>8. CASE script'.result = "running"
  <2>1. script'.step = n + 1
    BY <1>1, <1>2, <1>8, WhereTo
  <2>2. ~script'.failed => outcome = "ok" /\ ~script.failed
    BY <1>1, <1>5, <1>8, WhereTo DEF Scripts
  <2>3. ~script'.failed => Fresh(n + 1)'
    BY <1>7, <2>2
  <2>4. ~script'.failed => Fresh(script.step)'
    BY <2>1, <2>3 DEF Fresh, LiveFresh, SuiteFresh, CheckFresh
  <2>5. script.name \in Suites => ~script'.failed
    BY <1>1, <1>8, WhereTo
  <2>6. script.name = "check" /\ script'.step > 12 => ~script'.failed
    <3>1. ASSUME script.name = "check", script'.step > 12 PROVE ~script'.failed
      <4>1. n = 12
        BY <1>1, <1>2, <1>8, <2>1, <3>1, WhereTo
      <4>2. ~script.failed
        BY <1>1, <1>2, <1>8, <3>1, <4>1, WhereTo
      <4>3. outcome = "ok"
        BY <1>2, <3>1, <4>1, <4>2, CheckRuns DEF WriteReport
      <4> QED  BY <1>1, <1>8, <3>1, <4>2, <4>3, WhereTo
    <3> QED  BY <3>1
  <2> QED  BY <1>4, <1>8, <2>4, <2>5, <2>6 DEF FreshSoFar, Scripts
<1>9. CASE script'.result = "passed"
  <2>1. ~script.failed /\ (outcome = "ok" \/ (script.name \in Suites /\ n = 16)) /\ n > 12
    <3>1. CASE script.name = "check"
      <4>1. outcome = "ok" /\ n = 13
        BY <1>1, <1>2, <1>9, <3>1, WhereTo
      <4>2. ~script.failed
        BY <1>1, <1>2, <4>1 DEF FreshSoFar
      <4> QED  BY <4>1, <4>2
    <3>2. CASE script.name \in Suites
      BY <1>1, <1>2, <1>5, <1>9, <3>2, WhereTo
    <3> QED  BY <3>1, <3>2 DEF Scripts
  <2>2. Fresh(n + 1)' /\ Fresh(n)
    BY <1>6, <1>7, <2>1
  <2>3. script.name \in Suites => n = 16
    BY <1>1, <1>2, <1>9, WhereTo
  <2>4. Fresh(17)'
    BY <1>4, <2>1, <2>2, <2>3 DEF Fresh, LiveFresh, SuiteFresh, CheckFresh
  <2>5. ASSUME script.name = "strict" PROVE ReviewFresh'
    <3>1. n = 16 /\ BoundaryHolds /\ script.name \in Suites
      BY <1>1, <1>2, <1>9, <2>3, <2>5, WhereTo DEF Suites
    <3>2. readiness' = "passed"
      BY <2>5, <3>1 DEF BoundaryHolds
    <3>3. VerifyReadiness(outcome)
      BY <1>2, <3>1, SuiteRuns
    <3>4. ReviewHolds /\ review' = review /\ now' = now
      BY <3>2, <3>3 DEF VerifyReadiness, world
    <3>5. SuiteFresh(16)
      BY <2>2, <3>1 DEF Fresh
    <3> QED  BY <3>4, <3>5 DEF ReviewHolds, Artifacts, SuiteFresh, ReportFresh, ReviewFresh
  <2> QED  BY <1>4, <1>9, <2>4, <2>5 DEF FreshSoFar, Idle
<1>10. CASE script'.result = "failed"
  BY <1>10 DEF FreshSoFar, Idle
<1> QED  BY <1>1, <1>8, <1>9, <1>10, WhereTo

LEMMA FreshUntouched ==
    ASSUME FreshSoFar, UNCHANGED <<now, evidence, report, semantic, soak, profile, request, script>>,
           review' = review \/ review' = request
    PROVE  FreshSoFar'
<1> USE DEF evidence, flowFiles, FreshSoFar, Fresh, LiveFresh, SuiteFresh, CheckFresh,
            ReportFresh, RequestFresh, ReviewFresh, Idle
<1> QED  BY DEF Suites, Scripts

LEMMA NextKeepsFreshSoFar ==
    ASSUME Typed, FreshSoFar, [Next]_vars
    PROVE  FreshSoFar'
<1>1. ASSUME NEW name \in Scripts \cup ByHand, Start(name) PROVE FreshSoFar'
  <2>1. script'.step = 1 /\ script'.failed = FALSE /\ script'.result = "running"
    BY <1>1 DEF Start
  <2>2. Fresh(script.step)'
    BY <2>1 DEF Fresh, LiveFresh, SuiteFresh, CheckFresh
  <2> QED  BY <2>1, <2>2 DEF FreshSoFar, Idle
<1>2. ASSUME NEW outcome, Step(outcome) PROVE FreshSoFar'
  <2>1. CASE script.name \in Scripts
    BY <1>2, <2>1, StepKeepsFreshSoFar
  <2>2. CASE script.name \notin Scripts
    <3>1. script'.name = script.name
      BY <1>2, <2>2 DEF Step, AfterStep, End, Typed, ScriptTyped, ScriptStates, Scripts
    <3> QED  BY <2>2, <3>1 DEF FreshSoFar
  <2> QED  BY <2>1, <2>2
<1>3. CASE CheckWithoutTools \/ Kill
  <2>1. script'.result = "failed"
    BY <1>3 DEF CheckWithoutTools, Kill, End, Typed, ScriptTyped, ScriptStates
  <2> QED  BY <2>1 DEF FreshSoFar, Idle
<1>4. CASE Edit \/ Commit \/ ChangeTools \/ DeliverReview
  BY <1>4, FreshUntouched DEF Edit, Commit, ChangeTools, DeliverReview, production
<1>5. CASE UNCHANGED vars
  BY <1>5, FreshUntouched DEF vars, files, evidence, flowFiles
<1> QED  BY <1>1, <1>2, <1>3, <1>4, <1>5 DEF Next

LEMMA FreshThroughout == Spec => [](Typed /\ FreshSoFar)
<1>1. Vouching' => FilesTyped'
  BY DEF Vouching
<1>2. Typed /\ FilesTyped' /\ [Next]_vars => Typed'
  BY NextKeepsTypes
<1>3. Typed /\ FreshSoFar /\ [Next]_vars => FreshSoFar'
  BY NextKeepsFreshSoFar
<1>4. Init => FreshSoFar
  BY DEF Init, NoScript, FreshSoFar, Scripts, Suites
<1> QED  BY <1>1, <1>2, <1>3, <1>4, InitTyped, InitVouching, NextVouching, PTL DEF Spec

(* A check or suite that passes has made every file it passes on, whatever *)
(* the runs before it have left.                                           *)
THEOREM PassedIsItsOwn == Spec => []PassedScriptIsItsOwn
<1>1. ASSUME Typed, FreshSoFar, script.name \in Scripts, script.result = "passed"
      PROVE  /\ {ln, report.run, report.ln, report.markers} = {now}
             /\ {semantic, soak, profile.run, fixtures} = {now}
             /\ \A f \in Flows : raw[f] = now /\ flow[f].of = now
             /\ \A f \in LiveFiles : live[f] = now
             /\ script.name \in Suites => profile.pins = now /\ request.artifacts.report = now
  <2>1. Fresh(17)
    BY <1>1 DEF FreshSoFar
  <2>2. LiveFresh(17) /\ (SuiteFresh(17) \/ CheckFresh(17))
        /\ (script.name \in Suites => SuiteFresh(17))
    BY <1>1, <2>1 DEF Fresh, Scripts
  <2>3. /\ \A f \in Flows : raw[f] = now /\ flow[f].of = now
        /\ \A f \in LiveFiles : live[f] = now
    BY <2>2 DEF LiveFresh, Flows
  <2>4. /\ ln = now /\ report.run = now /\ report.ln = now /\ semantic = now /\ soak = now
        /\ profile.run = now /\ fixtures = now /\ report.markers = now
    BY <2>2 DEF LiveFresh, SuiteFresh, CheckFresh, ReportFresh
  <2>5. script.name \in Suites => profile.pins = now /\ request.artifacts.report = now
    BY <2>2 DEF SuiteFresh, RequestFresh
  <2> QED  BY <2>3, <2>4, <2>5
<1>2. Typed /\ FreshSoFar => PassedScriptIsItsOwn
  BY <1>1 DEF PassedScriptIsItsOwn
<1> QED  BY <1>2, FreshThroughout, PTL

(* A suite under --strict-production passes on a review of the files that  *)
(* suite wrote and on no other, whenever the review was delivered.         *)
THEOREM StrictOnItsOwnReview == Spec => []StrictNeedsReviewOfItsRun
<1>1. FreshSoFar => StrictNeedsReviewOfItsRun
  BY DEF FreshSoFar, ReviewFresh, StrictNeedsReviewOfItsRun, Scripts, Suites
<1> QED  BY <1>1, FreshThroughout, PTL

-----------------------------------------------------------------------------
(* What an undisturbed script can count on                                 *)

(* The tools of a check that found a clean report, and of a suite that     *)
(* found the files its earlier gate asks for.                              *)
Promised ==
    \/ script.name = "check" /\ script.cleanReport
    \/ script.name = "suite" /\ script.checked

FlowsPass(n) ==
    /\ n > 4 => flow["state"].status = "passed" /\ transcripts
    /\ n > 5 => flow["factory"].status = "passed"
    /\ n > 6 => flow["lnToKaspa"].status = "passed"
    /\ n > 7 => flow["kaspaToLn"].status = "passed"
    /\ n > 8 => flow["refund"].status = "passed"

(* Of devnets and flows, when the script is at its command n.              *)
LiveSmooth(n) ==
    /\ tools
    /\ n > 1 => detected = "ready"
    /\ n > 2 => probe = "passed"
    /\ FlowsPass(n)

ReportCurrent ==
    /\ Clean(report)
    /\ report.head = head /\ report.tree = tree /\ report.ln = ln
    /\ report.flows = flow /\ report.raw = RawRecords /\ report.markers = live["markers"]

Smooth(n) ==
    /\ ~script.failed
    /\ LiveSmooth(n)
    /\ script.name = "check" => Clean(report) /\ (n > 12 => ReportCurrent)
    /\ script.name = "suite" => (n > 9 => ReportCurrent) /\ semantic # 0 /\ soak # 0

(* As long as nothing outside the scripts goes wrong, every command of a   *)
(* promised script finds what it needs.                                    *)
SmoothSoFar ==
    /\ now # 0
    /\ ~trouble /\ Promised =>
        /\ ~Idle => Smooth(script.step)
        /\ script.result # "failed"

(* Files that are all of the present run pass both evidence gates.         *)
LEMMA GatesOpen ==
    ASSUME now # 0, LiveFresh(9), LiveSmooth(9), ReportCurrent, semantic # 0, soak # 0
    PROVE  EvidenceHolds /\ RealityHolds
<1>1. ln = now /\ fixtures = now /\ flow["state"].of = now
  BY DEF LiveFresh
<1>2. /\ \A f \in Flows : raw[f] = now /\ live[f] = now
      /\ live["markers"] = now
  BY DEF LiveFresh, LiveFiles
<1>3. \A f \in Flows : flow[f].status = "passed"
  BY DEF LiveSmooth, FlowsPass, Flows
<1>4. transcripts /\ tools /\ detected = "ready" /\ probe = "passed"
  BY DEF LiveSmooth, FlowsPass
<1>5. \A f \in Flows : Coherent(f) /\ report.raw[f] = now /\ report.flows[f] = flow[f]
  BY <1>2 DEF Coherent, ReportCurrent, RawRecords
<1>6. "state" \in Flows /\ "factory" \in Flows /\ "refund" \in Flows /\ Swaps \subseteq Flows
  BY DEF Flows, Swaps
<1>7. Accepted(report)
  BY <1>3, <1>5 DEF Accepted, ReportCurrent
<1>8. ReportHolds(report) /\ SourcesHold(report)
  BY <1>7 DEF ReportHolds, SourcesHold, ReportCurrent
<1>9. FieldsFilled(report)
  BY <1>5, <1>6 DEF FieldsFilled
<1>10. FilesHold(report)
  BY <1>1, <1>2, <1>5 DEF FilesHold, ReportCurrent
<1>11. StateLinksHold(report) /\ FixturesHold
  BY <1>1, <1>2, <1>5, <1>6 DEF StateLinksHold, FixturesHold
<1>12. EvidenceHolds
  BY <1>1, <1>4, <1>8, <1>9, <1>10, <1>11 DEF EvidenceHolds, TranscriptsHold
<1>13. StateChannelReal /\ RefundReal /\ LightningReal /\ (\A f \in Swaps : HashlockReal(f))
  BY <1>1, <1>5, <1>6 DEF StateChannelReal, RefundReal, LightningReal, HashlockReal
<1>14. AcceptanceReal
  BY <1>1, <1>2, <1>4, <1>7 DEF AcceptanceReal, TranscriptsHold, ReportCurrent
<1> QED  BY <1>4, <1>12, <1>13, <1>14
         DEF RealityHolds, DaemonsReal, ChecksReal

(* The commands that all scripts begin with are ok when nothing fails.     *)
LEMMA LiveGoesWell ==
    ASSUME FilesTyped, now # 0, script.name \in Scripts, NEW n \in 1 .. 8, script.step = n,
           NEW outcome, Step(outcome), ~trouble', LiveFresh(n), LiveSmooth(n)
    PROVE  /\ outcome = "ok" /\ LiveSmooth(n + 1)'
           /\ UNCHANGED <<report, semantic, soak>>
<1> USE DEF world, production
<1>1. Current \in External => outcome = "ok"
  BY DEF Step
<1>2. /\ n = 2 => Current = "run-kaspa-devnet"
      /\ n = 3 => Current = "run-ln-devnet"
      /\ n = 4 => Current = "run-state-channel-flow"
  BY SuitePlaces, CheckPlaces DEF Current, StepsOf, Scripts
<1>3. n \in {2, 3, 4} => outcome = "ok"
  BY <1>1, <1>2 DEF External
<1>4. UNCHANGED <<tools, semantic, soak>>
  BY LiveRuns DEF DetectTools, RunKaspaDevnet, RunLnDevnet, RunStateChannelFlow, RunFlow
<1>5. CASE n = 1
  BY <1>4, <1>5, LiveRuns DEF DetectTools, LiveSmooth, FlowsPass
<1>6. CASE n = 2
  BY <1>3, <1>4, <1>6, LiveRuns DEF RunKaspaDevnet, LiveSmooth, FlowsPass
<1>7. CASE n = 3
  <2>1. RunLnDevnet("ok")
    BY <1>3, <1>7, LiveRuns
  <2>2. report' = report /\ detected' = detected /\ probe' = probe
    BY <2>1 DEF RunLnDevnet, LnToolsMissing, PreviousLnRemains, LnNodesFail, LnChannelNotOpen,
                LnSwapUnpaid, LnSwapsPaid
  <2> QED  BY <1>3, <1>4, <1>7, <2>2 DEF LiveSmooth, FlowsPass
<1>8. CASE n = 4
  <2>1. RunStateChannelFlow("ok")
    BY <1>3, <1>8, LiveRuns
  <2>2. PICK writes \in Stops : StateFlowFinishes(writes, "ok")
    BY <2>1 DEF RunStateChannelFlow, StateFlowBreaks
  <2>3. PICK sound \in BOOLEAN :
          /\ StateFlowStatus(writes, sound) = "passed"
          /\ flow' = [flow EXCEPT !["state"] =
                        [status |-> StateFlowStatus(writes, sound), of |-> now, ln |-> 0]]
          /\ transcripts' \in IF sound THEN {TRUE} ELSE {FALSE, transcripts}
    BY <2>2 DEF StateFlowFinishes
  <2>4. sound
    BY <2>3 DEF StateFlowStatus
  <2>5. transcripts' = TRUE
    BY <2>3, <2>4
  <2>6. flow'["state"].status = "passed"
    BY <2>3 DEF FilesTyped, Flows
  <2>7. report' = report /\ detected' = detected /\ probe' = probe
    BY <2>1 DEF RunStateChannelFlow
  <2> QED  BY <1>3, <1>4, <1>8, <2>5, <2>6, <2>7 DEF LiveSmooth, FlowsPass
<1>9. ASSUME NEW f \in Flows \ {"state"}, RunFlow(f, outcome), n > 4
      PROVE  /\ outcome = "ok" /\ flow'[f].status = "passed"
             /\ \A g \in Flows \ {f} : flow'[g] = flow[g]
             /\ UNCHANGED <<report, detected, probe, transcripts>>
  <2>1. live[f] # 0 /\ ln # 0
    BY <1>9 DEF LiveFresh, LiveFiles
  <2>2. FlowFile(f).status = "passed"
    BY <2>1 DEF FlowFile, LivePassed, SwapPaid
  <2>3. flow' = [flow EXCEPT ![f] = FlowFile(f)] /\ flow \in [Flows -> FlowFiles]
    BY <1>9 DEF RunFlow, FilesTyped
  <2> QED  BY <1>9, <2>2, <2>3 DEF RunFlow
<1>10. CASE n = 5
  <2>1. RunFlow("factory", outcome) /\ "factory" \in Flows \ {"state"}
    BY <1>10, LiveRuns DEF Flows
  <2>2. outcome = "ok" /\ flow'["factory"].status = "passed"
        /\ UNCHANGED <<report, detected, probe, transcripts>>
    BY <1>9, <1>10, <2>1
  <2>3. \A g \in {"state"} : flow'[g] = flow[g]
    BY <1>9, <1>10, <2>1 DEF Flows
  <2> QED  BY <1>4, <1>10, <2>2, <2>3 DEF LiveSmooth, FlowsPass
<1>11. CASE n = 6
  <2>1. RunFlow("lnToKaspa", outcome) /\ "lnToKaspa" \in Flows \ {"state"}
    BY <1>11, LiveRuns DEF Flows
  <2>2. outcome = "ok" /\ flow'["lnToKaspa"].status = "passed"
        /\ UNCHANGED <<report, detected, probe, transcripts>>
    BY <1>9, <1>11, <2>1
  <2>3. \A g \in {"state", "factory"} : flow'[g] = flow[g]
    BY <1>9, <1>11, <2>1 DEF Flows
  <2> QED  BY <1>4, <1>11, <2>2, <2>3 DEF LiveSmooth, FlowsPass
<1>12. CASE n = 7
  <2>1. RunFlow("kaspaToLn", outcome) /\ "kaspaToLn" \in Flows \ {"state"}
    BY <1>12, LiveRuns DEF Flows
  <2>2. outcome = "ok" /\ flow'["kaspaToLn"].status = "passed"
        /\ UNCHANGED <<report, detected, probe, transcripts>>
    BY <1>9, <1>12, <2>1
  <2>3. \A g \in {"state", "factory", "lnToKaspa"} : flow'[g] = flow[g]
    BY <1>9, <1>12, <2>1 DEF Flows
  <2> QED  BY <1>4, <1>12, <2>2, <2>3 DEF LiveSmooth, FlowsPass
<1>13. CASE n = 8
  <2>1. RunFlow("refund", outcome) /\ "refund" \in Flows \ {"state"}
    BY <1>13, LiveRuns DEF Flows
  <2>2. outcome = "ok" /\ flow'["refund"].status = "passed"
        /\ UNCHANGED <<report, detected, probe, transcripts>>
    BY <1>9, <1>13, <2>1
  <2>3. \A g \in {"state", "factory", "lnToKaspa", "kaspaToLn"} : flow'[g] = flow[g]
    BY <1>9, <1>13, <2>1 DEF Flows
  <2> QED  BY <1>4, <1>13, <2>2, <2>3 DEF LiveSmooth, FlowsPass
<1> QED  BY <1>5, <1>6, <1>7, <1>8, <1>10, <1>11, <1>12, <1>13

(* The report of a run whose flows have passed is clean.                   *)
LEMMA CleanReportWritten ==
    ASSUME LiveSmooth(9), NEW outcome, WriteReport("passed", outcome)
    PROVE  outcome = "ok" /\ ReportCurrent' /\ LiveSmooth(9)' /\ UNCHANGED production
<1>1. \A f \in Flows : flow[f].status = "passed"
  BY DEF LiveSmooth, FlowsPass, Flows
<1>2. ~ReportBlocked("passed")
  BY <1>1 DEF ReportBlocked, LiveSmooth
<1>3. report' = ReportSaying("passed") /\ outcome = "ok" /\ UNCHANGED <<world, evidence, production>>
  BY DEF WriteReport
<1>4. ReportCurrent'
  BY <1>2, <1>3
     DEF ReportSaying, RawRecords, ReportCurrent, Clean, world, evidence, flowFiles
<1> QED  BY <1>3, <1>4 DEF LiveSmooth, FlowsPass, world, evidence, flowFiles

LEMMA ReportStaysCurrent ==
    ASSUME UNCHANGED <<world, evidence, report>>, NEW n \in 9 .. 16, LiveSmooth(n)
    PROVE  /\ LiveSmooth(n + 1)'
           /\ ReportCurrent => ReportCurrent'
           /\ Clean(report) => Clean(report)'
<1>1. LiveSmooth(n + 1)'
  BY DEF LiveSmooth, FlowsPass, world, evidence, flowFiles
<1>2. Clean(report) => Clean(report)'
  BY DEF Clean
<1>3. ReportCurrent => ReportCurrent'
  BY DEF ReportCurrent, RawRecords, Clean, world, evidence, flowFiles
<1> QED  BY <1>1, <1>2, <1>3

(* The rest of a suite.                                                    *)
LEMMA SuiteGoesWell ==
    ASSUME now # 0, script.name = "suite", NEW n \in 9 .. 16, script.step = n,
           NEW outcome, Step(outcome), Fresh(n), Smooth(n)
    PROVE  /\ n # 16 => outcome = "ok"
           /\ n = 16 => BoundaryHolds
           /\ LiveSmooth(n + 1)' /\ ReportCurrent'
           /\ semantic' # 0 /\ soak' # 0
<1>1. script.name \in Suites
  BY DEF Suites
<1>2. /\ LiveSmooth(n) /\ (n > 9 => ReportCurrent) /\ semantic # 0 /\ soak # 0
      /\ ~script.failed
  BY DEF Smooth
<1>3. LiveFresh(n) /\ SuiteFresh(n)
  BY <1>1 DEF Fresh
<1>4. LiveFresh(9) /\ LiveSmooth(9)
  BY <1>2, <1>3 DEF LiveFresh, LiveSmooth, FlowsPass
<1>5. n > 9 => EvidenceHolds /\ RealityHolds
  BY <1>2, <1>4, GatesOpen
<1>6. CASE n = 9
  <2>1. WriteReport("passed", outcome)
    BY <1>1, <1>2, <1>6, SuiteRuns
  <2>2. outcome = "ok" /\ ReportCurrent' /\ LiveSmooth(9)' /\ UNCHANGED production
    BY <1>4, <2>1, CleanReportWritten
  <2>3. LiveSmooth(n + 1)'
    BY <1>6, <2>2 DEF LiveSmooth, FlowsPass
  <2> QED  BY <1>2, <1>6, <2>2, <2>3 DEF production
<1>7. CASE n \in {10, 14}
  <2>1. /\ UNCHANGED <<world, evidence, report>> /\ outcome = "ok"
        /\ UNCHANGED <<semantic, soak>>
    BY <1>1, <1>5, <1>7, SuiteRuns DEF VerifyEvidence, VerifyReality
  <2> QED  BY <1>2, <1>7, <2>1, ReportStaysCurrent
<1>8. CASE n = 11
  <2>1. ProfileMayBeWritten
    BY <1>2, <1>8 DEF ReportCurrent, LiveSmooth, ProfileMayBeWritten
  <2>2. /\ UNCHANGED <<world, evidence, report>> /\ outcome = "ok"
        /\ UNCHANGED <<semantic, soak>>
    BY <1>1, <1>8, <2>1, SuiteRuns DEF WriteProfile
  <2> QED  BY <1>2, <1>8, <2>2, ReportStaysCurrent
<1>9. CASE n = 12
  <2>1. ln # 0 /\ MarkersCoherent /\ \A f \in Flows : Coherent(f)
    BY <1>4 DEF LiveFresh, LiveFiles, Flows, MarkersCoherent, Coherent
  <2>2. /\ UNCHANGED <<world, evidence, report>> /\ outcome = "ok"
        /\ semantic' = now /\ soak' = soak
    BY <1>1, <1>9, <2>1, SuiteRuns DEF RunSemanticVerifier
  <2> QED  BY <1>2, <1>9, <2>2, ReportStaysCurrent
<1>10. CASE n = 13
  <2>1. /\ UNCHANGED <<world, evidence, report>> /\ outcome = "ok"
        /\ soak' = now /\ semantic' = semantic
    BY <1>1, <1>10, SuiteRuns DEF RunSoak
  <2> QED  BY <1>2, <1>10, <2>1, ReportStaysCurrent
<1>11. CASE n = 15
  <2>1. ArtifactsExist
    BY <1>3, <1>11 DEF SuiteFresh, ReportFresh, ArtifactsExist
  <2>2. /\ UNCHANGED <<world, evidence, report>> /\ outcome = "ok"
        /\ UNCHANGED <<semantic, soak>>
    BY <1>1, <1>11, <2>1, SuiteRuns DEF PreparePackage
  <2> QED  BY <1>2, <1>11, <2>2, ReportStaysCurrent
<1>12. CASE n = 16
  <2>1. LocallyReady
    BY <1>2, <1>3, <1>12 DEF SuiteFresh, ReportCurrent, LocallyReady, ResultsPresent
  <2>2. VerifyReadiness(outcome)
    BY <1>1, <1>12, SuiteRuns
  <2>3. BoundaryHolds
    BY <2>1, <2>2 DEF VerifyReadiness, BoundaryHolds
  <2>4. UNCHANGED <<world, evidence, report>> /\ UNCHANGED <<semantic, soak>>
    BY <2>2 DEF VerifyReadiness
  <2> QED  BY <1>2, <1>12, <2>3, <2>4, ReportStaysCurrent
<1> QED  BY <1>6, <1>7, <1>8, <1>9, <1>10, <1>11, <1>12

(* The rest of a check.                                                    *)
LEMMA CheckGoesWell ==
    ASSUME now # 0, script.name = "check", NEW n \in 9 .. 13, script.step = n,
           NEW outcome, Step(outcome), Fresh(n), Smooth(n)
    PROVE  /\ outcome = "ok"
           /\ LiveSmooth(n + 1)' /\ Clean(report)'
           /\ n > 11 => ReportCurrent'
<1>1. LiveSmooth(n) /\ Clean(report) /\ (n > 12 => ReportCurrent) /\ ~script.failed
  BY DEF Smooth
<1>2. LiveFresh(n) /\ CheckFresh(n)
  BY DEF Fresh
<1>3. LiveFresh(9) /\ LiveSmooth(9)
  BY <1>1, <1>2 DEF LiveFresh, LiveSmooth, FlowsPass
<1>4. CASE n = 9
  <2>1. ProfileMayBeWritten
    BY <1>1 DEF LiveSmooth, ProfileMayBeWritten
  <2>2. UNCHANGED <<world, evidence, report>> /\ outcome = "ok"
    BY <1>4, <2>1, CheckRuns DEF WriteProfile
  <2> QED  BY <1>1, <1>4, <2>2, ReportStaysCurrent
<1>5. CASE n = 10
  <2>1. ln # 0 /\ MarkersCoherent /\ \A f \in Flows : Coherent(f)
    BY <1>3 DEF LiveFresh, LiveFiles, Flows, MarkersCoherent, Coherent
  <2>2. UNCHANGED <<world, evidence, report>> /\ outcome = "ok"
    BY <1>5, <2>1, CheckRuns DEF RunSemanticVerifier
  <2> QED  BY <1>1, <1>5, <2>2, ReportStaysCurrent
<1>6. CASE n = 11
  <2>1. UNCHANGED <<world, evidence, report>> /\ outcome = "ok"
    BY <1>6, CheckRuns DEF RunSoak
  <2> QED  BY <1>1, <1>6, <2>1, ReportStaysCurrent
<1>7. CASE n = 12
  <2>1. WriteReport("passed", outcome)
    BY <1>1, <1>7, CheckRuns
  <2>2. outcome = "ok" /\ ReportCurrent' /\ LiveSmooth(9)'
    BY <1>3, <2>1, CleanReportWritten
  <2>3. LiveSmooth(n + 1)'
    BY <1>7, <2>2 DEF LiveSmooth, FlowsPass
  <2> QED  BY <1>7, <2>2, <2>3 DEF ReportCurrent
<1>8. CASE n = 13
  <2>1. ReportCurrent /\ semantic # 0 /\ soak # 0
    BY <1>1, <1>2, <1>8 DEF CheckFresh
  <2>2. EvidenceHolds /\ RealityHolds
    BY <1>3, <2>1, GatesOpen
  <2>3. UNCHANGED <<world, evidence, report>> /\ outcome = "ok"
    BY <1>8, <2>2, CheckRuns DEF VerifyEvidence
  <2> QED  BY <1>1, <1>8, <2>1, <2>3, ReportStaysCurrent
<1> QED  BY <1>4, <1>5, <1>6, <1>7, <1>8

LEMMA StepKeepsNow == ASSUME NEW outcome, Step(outcome) PROVE now' = now
<1>1. Command(Current, outcome)
  BY DEF Step
<1> HIDE DEF Current
<1> USE DEF world
<1>2. CASE \/ DetectTools(outcome) \/ RunKaspaDevnet(outcome) \/ RunLnDevnet(outcome)
           \/ RunStateChannelFlow(outcome) \/ \E f \in Flows : RunFlow(f, outcome)
  BY <1>2 DEF DetectTools, RunKaspaDevnet, RunLnDevnet, RunStateChannelFlow, RunFlow
<1>3. CASE \/ \E status \in {"passed", "failed/blocked"} : WriteReport(status, outcome)
           \/ VerifyEvidence(outcome) \/ VerifyReality(outcome)
  BY <1>3 DEF WriteReport, VerifyEvidence, VerifyReality
<1>4. CASE \/ WriteProfile(outcome) \/ RunSemanticVerifier(outcome) \/ RunSoak(outcome)
           \/ PreparePackage(outcome) \/ VerifyReadiness(outcome)
  BY <1>4 DEF WriteProfile, RunSemanticVerifier, RunSoak, PreparePackage, VerifyReadiness
<1> QED  BY <1>1, <1>2, <1>3, <1>4 DEF Command, Flows

(* A promised script goes on to its end.                                   *)
LEMMA StepKeepsSmoothSoFar ==
    ASSUME Typed, FreshSoFar, SmoothSoFar, NEW outcome, Step(outcome)
    PROVE  SmoothSoFar'
<1>1. ~Idle /\ ScriptTyped /\ FilesTyped /\ now # 0
  BY DEF Step, Typed, SmoothSoFar
<1>2. now' = now
  BY StepKeepsNow
<1>3. CASE script.name \notin Scripts
  <2>1. script'.name = script.name
    BY <1>1, <1>3 DEF Step, AfterStep, End, ScriptTyped, ScriptStates, Scripts
  <2> QED  BY <1>1, <1>2, <1>3, <2>1 DEF SmoothSoFar, Promised, Scripts, Suites
<1>4. CASE script.name \in Scripts
  <2> SUFFICES ASSUME ~trouble', Promised'
               PROVE  (~Idle' => Smooth(script.step)') /\ script'.result # "failed"
    BY <1>1, <1>2 DEF SmoothSoFar
  <2>1. /\ script'.name = script.name
        /\ script'.cleanReport = script.cleanReport /\ script'.checked = script.checked
    BY <1>1, <1>4, WhereTo
  <2>2. ~trouble /\ Promised
    BY <2>1 DEF Step, Promised
  <2>3. PICK n \in 1 .. 16 : script.step = n
    BY <1>1, SuitePlaces DEF ScriptTyped, ScriptStates
  <2>4. Smooth(n)
    BY <1>1, <2>2, <2>3 DEF SmoothSoFar
  <2>5. Fresh(n)
    BY <1>1, <1>4, <2>3, <2>4 DEF FreshSoFar, Smooth
  <2>6. ~script.failed
    BY <2>4 DEF Smooth
  <2>7. CASE script.name = "suite"
    <3>1. script.name \in Suites /\ script.name # "check"
      BY <2>7 DEF Suites
    <3>2. /\ n # 16 => outcome = "ok"
          /\ n = 16 => BoundaryHolds
          /\ LiveSmooth(n + 1)' /\ (n + 1 > 9 => ReportCurrent')
          /\ semantic' # 0 /\ soak' # 0
      <4>1. CASE n \in 1 .. 8
        BY <1>1, <1>4, <2>3, <2>4, <2>5, <2>7, <4>1, LiveGoesWell DEF Smooth, Fresh
      <4>2. CASE n \in 9 .. 16
        BY <1>1, <2>3, <2>4, <2>5, <2>7, <4>2, SuiteGoesWell
      <4> QED  BY <4>1, <4>2
    <3>3. script'.result # "failed"
      BY <1>1, <1>4, <2>3, <3>1, <3>2, WhereTo
    <3>4. ASSUME ~Idle' PROVE Smooth(script.step)'
      <4>1. script'.step = n + 1 /\ ~script'.failed
        BY <1>1, <1>4, <2>3, <3>1, <3>4, WhereTo DEF Idle
      <4>2. LiveSmooth(script.step)'
        BY <3>2, <4>1 DEF LiveSmooth, FlowsPass
      <4> QED  BY <2>1, <3>1, <3>2, <4>1, <4>2 DEF Smooth
    <3> QED  BY <3>3, <3>4
  <2>8. CASE script.name = "check"
    <3>1. script.name # "suite" /\ n \in 1 .. 13
      <4>1. StepsOf(script.name) = CheckSteps
        BY <2>8 DEF StepsOf
      <4>2. n <= 13
        BY <1>1, <2>3, <4>1, CheckPlaces DEF ScriptTyped
      <4> QED  BY <2>8, <4>2
    <3>2. outcome = "ok" /\ LiveSmooth(n + 1)' /\ Clean(report)' /\ (n + 1 > 12 => ReportCurrent')
      <4>1. CASE n \in 1 .. 8
        <5>1. /\ outcome = "ok" /\ LiveSmooth(n + 1)'
              /\ UNCHANGED <<report, semantic, soak>>
          BY <1>1, <1>4, <2>3, <2>4, <2>5, <4>1, LiveGoesWell DEF Smooth, Fresh
        <5>2. Clean(report)
          BY <2>4, <2>8 DEF Smooth
        <5> QED  BY <4>1, <5>1, <5>2 DEF Clean
      <4>2. CASE n \in 9 .. 13
        BY <1>1, <2>3, <2>4, <2>5, <2>8, <4>2, CheckGoesWell
      <4> QED  BY <3>1, <4>1, <4>2
    <3>3. script'.result # "failed"
      BY <1>1, <1>4, <2>3, <2>6, <2>8, <3>2, WhereTo
    <3>4. ASSUME ~Idle' PROVE Smooth(script.step)'
      <4>1. script'.step = n + 1 /\ ~script'.failed
        BY <1>1, <1>4, <2>3, <2>6, <2>8, <3>2, <3>4, WhereTo DEF Idle
      <4>2. LiveSmooth(script.step)'
        BY <3>2, <4>1 DEF LiveSmooth, FlowsPass
      <4> QED  BY <2>1, <3>1, <3>2, <4>1, <4>2 DEF Smooth
    <3> QED  BY <3>3, <3>4
  <2> QED  BY <2>2, <2>7, <2>8 DEF Promised
<1> QED  BY <1>3, <1>4

LEMMA NextKeepsSmoothSoFar ==
    ASSUME Typed, FreshSoFar, SmoothSoFar, [Next]_vars
    PROVE  SmoothSoFar'
<1>1. ASSUME NEW name \in Scripts \cup ByHand, Start(name) PROVE SmoothSoFar'
  <2>1. now' # 0
    BY <1>1 DEF Start, Typed, FilesTyped, Runs
  <2>2. /\ script'.name = name /\ script'.step = 1 /\ script'.failed = FALSE
        /\ script'.result = "running" /\ trouble' = ~tools
        /\ script'.cleanReport = Clean(report)
        /\ script'.checked = (semantic # 0 /\ soak # 0)
        /\ UNCHANGED <<tools, report, semantic, soak>>
    BY <1>1 DEF Start, production
  <2>3. ASSUME ~trouble', Promised' PROVE Smooth(script.step)'
    <3>1. LiveSmooth(script.step)'
      <4>1. tools \in BOOLEAN
        BY DEF Typed, RestTyped
      <4>2. tools'
        BY <2>2, <2>3, <4>1
      <4> QED  BY <2>2, <4>2 DEF LiveSmooth, FlowsPass
    <3>2. (name = "check" => Clean(report)') /\ (name = "suite" => semantic' # 0 /\ soak' # 0)
      BY <2>2, <2>3 DEF Promised, Clean
    <3> QED  BY <2>2, <3>1, <3>2 DEF Smooth
  <2> QED  BY <2>1, <2>2, <2>3 DEF SmoothSoFar
<1>2. ASSUME NEW outcome, Step(outcome) PROVE SmoothSoFar'
  BY <1>2, StepKeepsSmoothSoFar
<1>3. CASE CheckWithoutTools
  <2>1. ~Idle /\ ~tools /\ trouble' = trouble /\ now' = now
    BY <1>3 DEF CheckWithoutTools, world
  <2>2. script'.name = script.name /\ script'.cleanReport = script.cleanReport
        /\ script'.checked = script.checked
    BY <1>3 DEF CheckWithoutTools, End, Typed, ScriptTyped, ScriptStates
  <2>3. trouble \/ ~Promised
    BY <2>1 DEF SmoothSoFar, Smooth, LiveSmooth
  <2> QED  BY <2>1, <2>2, <2>3 DEF SmoothSoFar, Promised
<1>4. CASE Kill
  BY <1>4 DEF Kill, files, SmoothSoFar
<1>5. CASE Edit \/ Commit \/ ChangeTools \/ DeliverReview
  <2>1. now' = now /\ script' = script /\ Disturb
    BY <1>5 DEF Edit, Commit, ChangeTools, DeliverReview
  <2>2. ~trouble' => ~trouble /\ Idle
    BY <2>1 DEF Disturb
  <2> QED  BY <2>1, <2>2 DEF SmoothSoFar, Promised, Idle
<1>6. CASE UNCHANGED vars
  <2>1. UNCHANGED <<world, evidence, report, production, script, trouble>>
    BY <1>6 DEF vars, files, world, evidence, flowFiles, production
  <2> QED  BY <2>1
           DEF SmoothSoFar, Promised, Idle, Smooth, LiveSmooth, FlowsPass, ReportCurrent,
               RawRecords, Clean, world, evidence, flowFiles, production
<1> QED  BY <1>1, <1>2, <1>3, <1>4, <1>5, <1>6 DEF Next

(* An undisturbed check fails only if the report it found was not clean,   *)
(* and an undisturbed suite only if the files of its later commands were   *)
(* missing when it began: nothing else that earlier runs can leave behind  *)
(* makes a command of theirs fail.                                         *)
THEOREM FailsForAReason == Spec => []ScriptFailsForAReason
<1>1. Typed /\ FreshSoFar /\ SmoothSoFar /\ [Next]_vars => SmoothSoFar'
  BY NextKeepsSmoothSoFar
<1>2. Init => SmoothSoFar
  <2>1. Init => now = 1 /\ script = NoScript
    <3>1. CleanTree => now = 1
      BY DEF CleanTree
    <3>2. CommittedEvidence => now = 1
      BY DEF CommittedEvidence
    <3> QED  BY <3>1, <3>2 DEF Init
  <2>2. NoScript.result # "running" /\ NoScript.result # "failed"
    BY DEF NoScript
  <2> QED  BY <2>1, <2>2 DEF SmoothSoFar, Idle
<1>3. SmoothSoFar => ScriptFailsForAReason
  BY DEF SmoothSoFar, Promised, ScriptFailsForAReason
<1> QED  BY <1>1, <1>2, <1>3, FreshThroughout, PTL DEF Spec

=============================================================================
