SPECIFICATION FairSpec
CONSTANTS
    Authorities <- MCAuthorities
    Blocks <- MCBlocks
    Author <- MCAuthor
    Round <- MCRound
    Ancestors <- MCAncestors
    Past <- MCAncestors
    SentBlocks <- MCSentBlocks
    Excluded <- MCExcluded
    Peers = {1, 2}
    Responsive = {2}
    MaxBlocksPerSync = 2
    MaxBlocksPerFetch = 2
    FETCH_BLOCKS_CONCURRENCY = 1
    MAX_AUTHORITIES_TO_FETCH_PER_BLOCK = 1
    MAX_PERIODIC_SYNC_PEERS = 2
    MAX_RETRIES = 1
    CommitSyncBatchSize = 1
    COMMIT_LAG_MULTIPLIER = 1
    QuorumCommits = {3}
INVARIANTS
    IInv
    FetchBound

    
