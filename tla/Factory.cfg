\* Three channels leave a factory in any order; three materialisation ids.
SPECIFICATION Spec
CONSTANTS
    v1 = v1
    v2 = v2
    v3 = v3
    VirtualChannels = {v1, v2, v3}
    Ids = {m1, m2, m3}
    FactoryId = f1
    FactoryIds = {f1, f2}
    Networks = {n1, n2}
    MaxAmount = 3
    ChannelStates <- MCChannelStates
    OpeningChannels <- MCOpeningChannels
    OpeningReserve = 1
INVARIANTS
    TypeOK
    ValueConserved
    EveryChannelOnce
    HonestExitAccepted
\* The factory stops when its channels have left or the ids are used up.
CHECK_DEADLOCK FALSE
