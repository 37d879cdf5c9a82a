SPECIFICATION Spec
CONSTANTS
    MaxRun = 3
    MaxHead = 1
    MaxTree = 1
    Stops <- MCStops
    ByHand <- MCByHand
INVARIANTS
    TypeOK
    FlowVouchesForDriverRun
    VerifiedEvidenceIsOfOneRun
    PassedScriptIsItsOwn
    ScriptFailsForAReason
    StrictNeedsReviewOfItsRun
