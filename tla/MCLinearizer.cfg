CONSTANTS
    Blocks <- mcBlocks
    Author <- mcAuthor
    Round <- mcRound
    Ancestors <- mcAncestors
    Past <- mcPast
    Leaders <- mcLeaders
    GcDepth = 2
    CachedRounds = 1
    MaxRestarts = 1
SPECIFICATION Spec
INVARIANTS
    IInv
    CommitsExact
CHECK_DEADLOCK FALSE
