\* Up to four markers, forks of up to two DAA scores; the clock and the
\* watcher are fair.
SPECIFICATION FairWatchedSpec
CONSTANTS
    Rule = "RejectConflict"
    Window = 2
    Tolerance = 1
    MaxDaa = 7
    MaxOrder = 4
    ReorgDepth = 2
    States <- MCStates
    Signed <- MCSigned
    Top <- MCTop
INVARIANT StaleNeverEligible

PROPERTY LatestPrevails
