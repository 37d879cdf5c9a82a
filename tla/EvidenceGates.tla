---------------------------- MODULE EvidenceGates ----------------------------
(***************************************************************************)
(* The commands of src/bin/kurrentctl.rs over the evidence directory.      *)
(* Each command reads files that other commands wrote, possibly in another *)
(* run and from another revision, and writes its own.  A file is modelled  *)
(* by the run that wrote it and by what the gates read in it; two files    *)
(* have the same hash exactly when these agree.                            *)
(*                                                                         *)
(* One command, run-state-channel-flow, runs the devnet driver, which      *)
(* writes the live files of all flows one after the other, the raw         *)
(* transactions, scripts and witnesses of a flow before the JSON file that *)
(* names their hashes.  It may stop after any of these writes.             *)
(*                                                                         *)
(* LN preimages are constants of the program, so the payment hash of a     *)
(* swap is the same in every run and only the presence of the LN evidence  *)
(* matters to a hashlock flow.                                             *)
(***************************************************************************)
EXTENDS Naturals

CONSTANTS
    MaxRun,           \* bound on the runs: scripts started, commands by hand
    MaxHead, MaxTree, \* bounds on commits and on edits of the source files
    Stops             \* after how many of its writes the driver may end

(* The flows that have a command of their own.  The three files about the  *)
(* markers, of lane monitor, eligibility and sponsored displacement, are   *)
(* flow files and live files at once: the driver writes them, one right    *)
(* after the other, and they stand here for one live file.                 *)
Flows == {"state", "factory", "lnToKaspa", "kaspaToLn", "refund"}
Swaps == {"lnToKaspa", "kaspaToLn"}
LiveFiles == Flows \cup {"markers"}

Runs == 0 .. MaxRun   \* 0 stands for a file that does not exist
Outcomes == {"ok", "blocked", "error"}

ASSUME BoundsAssumption ==
    /\ MaxRun \in Nat \ {0} /\ MaxHead \in Nat \ {0} /\ MaxTree \in Nat
    /\ Stops \subseteq 0 .. 11

VARIABLES
    now,        \* the present run
    head, tree, \* commit at HEAD, contents of the source files
    tools,      \* whether tool detection finds no blocker
    detected,   \* tool-detection.json: its status
    probe,      \* kaspa-simnet-probe.json: its status
    ln,         \* ln-devnet-evidence.json: the run that wrote it
    raw, live,  \* per flow: raw transaction files; live JSON files
    flow,       \* per flow: the flow evidence file
    fixtures,   \* the protocol fixture files: the run of the live file in them
    transcripts, \* whether the captured transcripts carry their markers
    torn,       \* history: a driver ran and its command did not finish
    report,     \* kurrent-acceptance.json
    semantic,   \* semantic-transaction-verifier.json
    soak,       \* adversarial-model-soak.json
    profile,    \* target-profile.json
    reality,    \* presentation-reality.json: its status
    request,    \* security-review-request.json
    review,     \* security-review.json
    readiness   \* kurrent-production-readiness.json

world == <<now, head, tree, tools, review>>
flowFiles == <<flow, fixtures, transcripts, torn>>
evidence == <<detected, probe, ln, raw, live, flowFiles>>
production == <<semantic, soak, profile, reality, request, readiness>>

NoFlow == [status |-> "absent", of |-> 0, ln |-> 0]

NoReport ==
    [run |-> 0, status |-> "absent", blocked |-> FALSE, head |-> 0, tree |-> 0, ln |-> 0,
     flows |-> [f \in Flows |-> NoFlow], raw |-> [f \in Flows |-> 0], markers |-> 0]

NoArtifacts ==
    [tree |-> 0, report |-> 0, profile |-> 0, semantic |-> 0, soak |-> 0]

-----------------------------------------------------------------------------
(* The evidence a driver and the devnets produce                           *)

DetectTools(outcome) ==
    /\ outcome = IF tools THEN "ok" ELSE "blocked"
    /\ detected' = IF tools THEN "ready" ELSE "blocked"
    /\ UNCHANGED <<world, probe, ln, raw, live, flowFiles, report, production>>

(* Blockers of a report come from tool detection, from the flow files that *)
(* exist and, where detection finds none, from the caller.                 *)
ReportBlocked(status) ==
    ~tools \/ status # "passed" \/ \E f \in Flows : flow[f].status = "blocked"

(* The raw files a report lists are those the live files name.             *)
RawRecords == [f \in Flows |-> live[f]]

(* write_acceptance_report: what the live and flow files say now, under    *)
(* the caller's status.                                                    *)
ReportSaying(status) ==
    [run |-> now, status |-> status, blocked |-> ReportBlocked(status),
     head |-> head, tree |-> tree, ln |-> ln, flows |-> flow, raw |-> RawRecords,
     markers |-> live["markers"]]

WriteReport(status, outcome) ==
    /\ report' = ReportSaying(status)
    /\ outcome = IF status = "passed" THEN "ok" ELSE "blocked"
    /\ UNCHANGED <<world, evidence, production>>

(* A probe that does not come up writes a failed acceptance report; one    *)
(* that cannot be started at all leaves every file as it was.              *)
RunKaspaDevnet(outcome) ==
    /\ \/ outcome = "ok" /\ probe' = "passed" /\ report' = report
       \/ outcome = "blocked" /\ probe' = "failed" /\ report' = ReportSaying("failed/blocked")
       \/ outcome = "blocked" /\ ~tools /\ probe' = probe
          /\ report' = ReportSaying("failed/blocked")
       \/ outcome = "error" /\ probe' = probe /\ report' = report
    /\ UNCHANGED <<world, detected, ln, raw, live, flowFiles, production>>

(* run_ln_devnet returns before it touches anything when a tool is missing *)
(* or the nodes of an earlier call do not stop; after that the LN evidence *)
(* of earlier runs is gone, and new evidence comes last.                   *)
LnToolsMissing(outcome) ==
    /\ outcome = "blocked" /\ ~tools
    /\ ln' = ln /\ report' = ReportSaying("failed/blocked")

PreviousLnRemains(outcome) == outcome = "error" /\ ln' = ln /\ report' = report

LnNodesFail(outcome) == outcome = "error" /\ ln' = 0 /\ report' = report

LnChannelNotOpen(outcome) ==
    /\ outcome = "blocked"
    /\ ln' = 0 /\ report' = [ReportSaying("failed/blocked") EXCEPT !.ln = 0]

LnSwapUnpaid(outcome) == outcome = "error" /\ ln' = 0 /\ report' = report

LnSwapsPaid(outcome) == outcome = "ok" /\ ln' = now /\ report' = report

RunLnDevnet(outcome) ==
    /\ \/ LnToolsMissing(outcome)
       \/ PreviousLnRemains(outcome)
       \/ LnNodesFail(outcome)
       \/ LnChannelNotOpen(outcome)
       \/ LnSwapUnpaid(outcome)
       \/ LnSwapsPaid(outcome)
    /\ UNCHANGED <<world, detected, probe, raw, live, flowFiles, production>>

(* How many of its writes the driver got done: it writes the live files in *)
(* this order, the raw files of a flow right before its live file.  It     *)
(* reads the LN evidence before it funds the first hashlock.               *)
Turn == [state |-> 2, markers |-> 3, factory |-> 5, lnToKaspa |-> 7, kaspaToLn |-> 9,
         refund |-> 11]
AllWrites == 11

DriverReaches(writes) == ln # 0 \/ writes < Turn["lnToKaspa"] - 1

RawAfter(writes) == [f \in Flows |-> IF Turn[f] - 1 <= writes THEN now ELSE raw[f]]

LiveAfter(writes) == [f \in LiveFiles |-> IF Turn[f] <= writes THEN now ELSE live[f]]

(* Mutant: the flow goes by the live file, which may be an older run's.    *)
StateFlowByLiveFile(writes, sound) ==
    IF sound /\ (live["state"] # 0 \/ writes > 1) THEN "passed" ELSE "blocked"

StateFlowStatus(writes, sound) == IF sound /\ writes = AllWrites THEN "passed" ELSE "blocked"

(* run-state-channel-flow.  sound: the covenant example and the daemon     *)
(* test it runs first have succeeded.  The fixture files repeat what the   *)
(* live file says and are written just before the flow file, which names   *)
(* their hashes.                                                           *)
StateFlowFinishes(writes, outcome) ==
    \E sound \in BOOLEAN :
       LET status == StateFlowStatus(writes, sound) IN
       /\ outcome = IF status = "passed" THEN "ok" ELSE "blocked"
       /\ flow' = [flow EXCEPT !["state"] = [status |-> status, of |-> now, ln |-> 0]]
       /\ fixtures' = live'["state"]
       /\ transcripts' \in IF sound THEN {TRUE} ELSE {FALSE, transcripts}
       /\ torn' = FALSE

StateFlowBreaks(writes, outcome) ==
    /\ outcome = "error"
    /\ flow' = flow
    /\ fixtures' \in {fixtures, live'["state"]}
    /\ transcripts' \in BOOLEAN
    /\ torn' = (torn \/ writes > 0)

RunStateChannelFlow(outcome) ==
    /\ \E writes \in Stops :
          /\ DriverReaches(writes)
          /\ raw' = RawAfter(writes) /\ live' = LiveAfter(writes)
          /\ StateFlowFinishes(writes, outcome) \/ StateFlowBreaks(writes, outcome)
    /\ UNCHANGED <<world, detected, probe, ln, report, production>>

(* The other flows read the live file the driver left, the swaps the LN    *)
(* evidence too, and write a flow file of their own.                       *)
LivePassed(f) == live[f] # 0

SwapPaid(f) == f \in Swaps => ln # 0

FlowFile(f) ==
    [status |-> IF LivePassed(f) /\ SwapPaid(f) THEN "passed" ELSE "blocked",
     of |-> live[f], ln |-> IF f \in Swaps THEN ln ELSE 0]

RunFlow(f, outcome) ==
    /\ outcome = IF FlowFile(f).status = "passed" THEN "ok" ELSE "blocked"
    /\ flow' = [flow EXCEPT ![f] = FlowFile(f)]
    /\ UNCHANGED <<world, detected, probe, ln, raw, live, fixtures, transcripts, torn,
                   report, production>>

-----------------------------------------------------------------------------
(* The gates                                                               *)

Clean(r) == r.status = "passed" /\ ~r.blocked

Accepted(r) == Clean(r) /\ \A f \in Flows : r.flows[f].status = "passed"

(* The raw files a live file names are the ones on disk.                   *)
Coherent(f) == live[f] # 0 /\ raw[f] = live[f]

(* The logs of the LND nodes are written anew only after the LN evidence   *)
(* of earlier runs is gone, so they are whole when there is some; those of *)
(* the state flow's command are transcripts.                               *)
TranscriptsHold == transcripts /\ ln # 0

(* verify-presentation-reality.  It asks whether the tools that were       *)
(* detected are still there and whether no flow is missing in the report.  *)
(* It reads the live files of state channel, swaps and refund, and the     *)
(* results of the verifier and of the soak whoever's run they are of.      *)
DaemonsReal == detected = "ready" /\ probe = "passed" /\ tools
LightningReal == ln # 0
StateChannelReal == Coherent("state")
HashlockReal(f) == Coherent(f) /\ ln # 0
RefundReal == Coherent("refund")
AcceptanceReal == Accepted(report) /\ report.markers # 0 /\ TranscriptsHold
ChecksReal == semantic # 0 /\ soak # 0

RealityHolds ==
    /\ DaemonsReal
    /\ LightningReal
    /\ StateChannelReal
    /\ \A f \in Swaps : HashlockReal(f)
    /\ RefundReal
    /\ AcceptanceReal
    /\ ChecksReal

(* verify-evidence: the hashes of a report against the files on disk.      *)
SourcesHold(r) == r.tree = tree

FilesHold(r) ==
    /\ \A f \in Flows : r.raw[f] # 0 => raw[f] = r.raw[f]
    /\ \A f \in Flows : r.flows[f] = flow[f]
    /\ r.markers # 0 => live["markers"] = r.markers
    /\ r.ln # 0 /\ r.ln = ln

StateLinksHold(r) == live["state"] # 0 /\ live["state"] = r.raw["state"]

FixturesHold == fixtures = flow["state"].of

(* What a report must say of itself, and the fields that may not be empty. *)
ReportHolds(r) == r.head = head /\ Accepted(r)

FieldsFilled(r) == \A f \in {"state", "factory", "refund"} : r.raw[f] # 0

(* What verify-evidence asks before it turns to the presentation gate.     *)
EvidenceHolds ==
    /\ ReportHolds(report) /\ FieldsFilled(report)
    /\ SourcesHold(report) /\ FilesHold(report)
    /\ TranscriptsHold
    /\ StateLinksHold(report) /\ FixturesHold

VerifyReality(outcome) ==
    /\ outcome = IF RealityHolds THEN "ok" ELSE "blocked"
    /\ reality' = IF RealityHolds THEN "passed" ELSE "failed"
    /\ UNCHANGED <<world, evidence, report, semantic, soak, profile, request, readiness>>

VerifyEvidence(outcome) ==
    /\ \/ ~EvidenceHolds /\ outcome = "blocked" /\ reality' = reality
       \/ EvidenceHolds /\ outcome = (IF RealityHolds THEN "ok" ELSE "blocked")
          /\ reality' = IF RealityHolds THEN "passed" ELSE "failed"
    /\ UNCHANGED <<world, evidence, report, semantic, soak, profile, request, readiness>>

(* The driver's verifier decodes the live files of all flows against their *)
(* raw files and looks for the state channel's transactions in the files   *)
(* about the markers; when it refuses, the file of an earlier run stays.   *)
MarkersCoherent == live["markers"] = live["state"]

RunSemanticVerifier(outcome) ==
    LET sound == ln # 0 /\ MarkersCoherent /\ \A f \in Flows : Coherent(f) IN
    /\ outcome = IF sound THEN "ok" ELSE "error"
    /\ semantic' = IF sound THEN now ELSE semantic
    /\ UNCHANGED <<world, evidence, report, soak, profile, reality, request, readiness>>

RunSoak(outcome) ==
    /\ outcome = "ok"
    /\ soak' = now
    /\ UNCHANGED <<world, evidence, report, semantic, profile, reality, request, readiness>>

ProfileMayBeWritten == Clean(report) /\ tools

WriteProfile(outcome) ==
    /\ outcome = IF ProfileMayBeWritten THEN "ok" ELSE "error"
    /\ profile' = IF ProfileMayBeWritten THEN [run |-> now, pins |-> report.run] ELSE profile
    /\ UNCHANGED <<world, evidence, report, semantic, soak, reality, request, readiness>>

Artifacts ==
    [tree |-> tree, report |-> report.run, profile |-> profile.run,
     semantic |-> semantic, soak |-> soak]

ArtifactsExist == 0 \notin {report.run, profile.run, semantic, soak}

PreparePackage(outcome) ==
    /\ outcome = IF ArtifactsExist THEN "ok" ELSE "error"
    /\ request' = IF ArtifactsExist
                  THEN [head |-> head, artifacts |-> Artifacts] ELSE request
    /\ UNCHANGED <<world, evidence, report, semantic, soak, profile, reality, readiness>>

(* Mutant: the review is held against the commit only.                     *)
ReviewOfCommit == ArtifactsExist /\ review.head = head

ReviewHolds == ArtifactsExist /\ review.head = head /\ review.artifacts = Artifacts

(* verify-production-readiness, without the review; the runbooks it also   *)
(* asks for are sources that are there.                                    *)
ResultsPresent == 0 \notin {profile.run, semantic, soak}

LocallyReady == Clean(report) /\ report.head = head /\ ResultsPresent

VerifyReadiness(outcome) ==
    LET status == IF LocallyReady /\ ReviewHolds THEN "passed"
                  ELSE IF LocallyReady THEN "review missing" ELSE "blocked" IN
    /\ outcome = IF status = "passed" THEN "ok" ELSE "blocked"
    /\ readiness' = status
    /\ UNCHANGED <<world, evidence, report, semantic, soak, profile, reality, request>>
=============================================================================
