CONSTANTS
    Authorities <- mcAuthorities
    Byzantine <- mcByzantine
    Quorums <- mcQuorums
    MaxRound = 6
    Leader <- mcLeader
    Blocks <- mcBlocks
    Author <- mcAuthor
    Round <- mcRound
    Graphs <- mcGraphs
    Ancestors <- mcAncestors
    Past <- mcPast
    Skip = Skip
    Undecided = Undecided
SPECIFICATION Spec
INVARIANTS
    Agreement
    OneCandidate
    BlamedNotCertified
