CONSTANTS
    Blocks <- mcBlocks
    Round <- mcRound
    Ancestors <- mcAncestors
    GcDepth = 1
    CertifiedCommits <- mcCertifiedCommits
SPECIFICATION FairSpec
INVARIANTS
    IInv
    NoPanic
    MissingBlocksExact
    CausallyComplete
PROPERTIES
    SuspendedAccepted
