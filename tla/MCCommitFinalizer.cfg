CONSTANTS
    N = 4
    QuorumSize = 3
    MaxRound = 8
    GcDepth = 4
    Leader <- MCLeader
    Dags <- MCDags
    Worlds <- MCWorlds
    Deliveries <- MCDeliveries
    MaxInbox = 1
    MaxCrashes = 1
SPECIFICATION MCSpec
INVARIANTS
    OutcomeAgreed
    NoPanic
    PendingBounded
CHECK_DEADLOCK FALSE
