CONSTANTS
    Authorities <- mcAuthorities
    Own = "b"
    Byzantine = {"c"}
    Quorums <- mcQuorums
    ValiditySets <- mcValiditySets
    Unknown = Unknown
    MaxRound = 2
    MaxCrashes = 1
SPECIFICATION QuietSpec
INVARIANTS
    IInv
    NoEquivocation
    ReplayAgrees
CHECK_DEADLOCK FALSE
