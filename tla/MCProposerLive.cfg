CONSTANTS
    Authorities <- mcAuthorities
    Own = "b"
    Byzantine = {}
    Quorums <- mcQuorums
    ValiditySets <- mcValiditySets
    Unknown = Unknown
    MaxRound = 2
    MaxCrashes = 0
SPECIFICATION FairSpec
PROPERTY ProposesEventually
