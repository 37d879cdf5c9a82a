\* One channel, every header field free to differ between updates.
SPECIFICATION Spec
CONSTANTS
    c1 = c1
    t1 = t1
    k1 = k1
    Channels = {c1}
    Commitments = {s1, s2}
    Templates = {t1, t2}
    Terms = {k1, k2}
    Covenants = {v1}
    MaxState = 2
    NoHeader = NoHeader
    NoCommitment = NoCommitment
    ForeignReceipts <- MCForeignReceipts
INVARIANTS
    TypeOK
    LatestAndSeenAgree
    SettledOnceOnLatest
PROPERTIES
    ImplementsLatestStateChannel
