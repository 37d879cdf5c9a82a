\* Three participants, one faulty, two to sign; two markers.
SPECIFICATION Spec
CONSTANTS
    alice = alice
    bob = bob
    mallory = mallory
    Participants <- MCParticipants
    Authorised <- MCParticipants
    KeyHolders <- MCParticipants
    Required = 2
    Scope = "ours"
    ConfigLane = "own"
    FundingLane = "own"
    UserLanes = {"own", "other"}
    NoLane = "none"
    FundingSplit <- MCSplit
    Principal = 6
    MaxValue = 31
    Updates <- MCUpdates
    Faulty = {mallory}
    Rule = "RejectConflict"
    Window = 1
    Tolerance = 0
    MaxDaa = 3
    MaxOrder = 2
    Lane = "own"
    Template <- MCTemplate
    Policy = "p"
    MaxSponsorFee = 3
    Witness <- MCWitness
    Accounts <- MCAccounts
SYMMETRY MCHonest
INVARIANTS
    TypeOK
    RivalsShareFaultySigners
    ReportsStayTrue
    VerifierFindsTheWindowKept
\* The clock is bounded.
CHECK_DEADLOCK FALSE
