CONSTANTS
    accept = accept
    reject = reject
    Outcomes <- mcOutcomes
    NoOutcome = NoOutcome
    FinalizeDepth = 2
    MaxCommit = 4
    MaxCrashes = 2
SPECIFICATION FairSpec
INVARIANTS
    PersistedBeforeSent
    SameOutcome
    RecoveryAsserts
PROPERTIES
    ImplementsLog
    CommitsReachConsumer
CHECK_DEADLOCK FALSE
