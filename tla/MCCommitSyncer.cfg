CONSTANTS
    BatchSize = 2
    BatchesAhead = 2
    ParallelFetches = 2
    KnownPeers = 3
    HandlerLag = 2
    MaxCommit = 6
    MaxRestarts = 1
SPECIFICATION FairSpec
INVARIANTS
    IInv
    NoGapToCore
    NothingLost
PROPERTIES
    CatchesUp
