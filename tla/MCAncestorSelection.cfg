SPECIFICATION Spec
CONSTANTS
    N = 4
    Stakes <- MCStakes
    Own = 1
    PeerBlocks <- MCPeerBlocks
    ScoreUpdates <- MCScoreUpdates
    QuorumRounds <- MCQuorumRounds
    BadNodesStakeThreshold = 30
    LockRounds = 1
    MaxRound = 3
    MaxRestarts = 1
INVARIANTS
    ExcludedStakeBounded
    ExclusionNeverBlocks
    ProposalValid

    
CHECK_DEADLOCK FALSE
