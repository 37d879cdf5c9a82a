\* One run; one foreign block; a refund after three DAA scores.
SPECIFICATION Spec
CONSTANTS
    FundingValue = 100
    UpdateFee = 5
    SettlementFee = 7
    RefundSequence = 3
    RefundMargin = 1
    MaxForeign = 1
    Tries <- MCTries
INVARIANTS
    TypeOK
    OneContestOutput
    RefundWaits
    PassedRejectionsWereScripts
    FailsForAReason
    PassedRunVerifies
    MixedUpReportRefused
PROPERTY ImplementsEscrow
\* The run ends.
CHECK_DEADLOCK FALSE
