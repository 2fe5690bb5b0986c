SPECIFICATION Spec
CONSTANTS
    N = 4
    QuorumSize = 3
    MaxRound = 9
    GcDepth = 4
    CommitsPerSchedule = 2
    SwapSize = 1
    MaxCrashes = 1
    Leader <- MCLeader
    Dags <- MCDags
    Shuffle <- MCShuffle
    Pick <- MCPick
    Deliveries <- MCDeliveries
INVARIANTS
    LeadersAgreed
    TableAgreed
    NoPanic
CHECK_DEADLOCK FALSE
