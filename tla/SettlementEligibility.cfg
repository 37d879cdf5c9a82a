\* Every lane of up to three markers, forks of up to two DAA scores;
\* the clock is fair.
SPECIFICATION FairSpec
CONSTANTS
    Rule = "RejectConflict"
    Window = 2
    Tolerance = 1
    MaxDaa = 8
    MaxOrder = 3
    ReorgDepth = 2
    States <- MCStates
    Signed <- MCSigned
INVARIANTS
    TypeOK
    VerdictsAreFinal
    OneOpenCandidate
PROPERTY EventuallyDecided
