\* What the documentation of accept_update_with_rule says of PreferLater.
SPECIFICATION Spec
CONSTANTS
    c1 = c1
    t1 = t1
    k1 = k1
    Channels = {c1}
    Commitments = {s1, s2}
    Templates = {t1}
    Terms = {k1}
    Covenants = {v1}
    MaxState = 2
    NoHeader = NoHeader
    NoCommitment = NoCommitment
    ForeignReceipts <- MCForeignReceipts
INVARIANT DocPreferLaterOverwrites
