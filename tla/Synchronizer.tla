---------------------------- MODULE Synchronizer ----------------------------
(***************************************************************************)
(* How a node fetches the blocks it is missing (core/src/synchronizer.rs): *)
(* the InflightBlocksMap with its guards, the main loop that takes          *)
(* FetchBlocks commands and the periodic timer, one task per peer for live *)
(* requests, and the scheduler task of the periodic sync.                  *)
(*                                                                         *)
(* The core is reduced to the blocks it was given and the blocks it is     *)
(* missing (BlockManager is modelled in its own module).  Peers answer as  *)
(* BlockSyncService says.  Time is left out: a timer may fire whenever it  *)
(* is armed, KickOffScheduler only moves it and is a stutter here.         *)
(***************************************************************************)
EXTENDS BlockSyncService

CONSTANTS
    Peers,          \* peers_pool.get_known_peers(): the authorities but this one
    Responsive,     \* peers that answer every request in time and truthfully
    Past,           \* all blocks a block depends on
    SentBlocks,     \* blocks their authors send over the subscription
    Excluded,       \* the excluded ancestors the author of a block reports
    FETCH_BLOCKS_CONCURRENCY,
    MAX_AUTHORITIES_TO_FETCH_PER_BLOCK,
    MAX_PERIODIC_SYNC_PEERS,
    MAX_RETRIES,
    CommitSyncBatchSize,    \* parameters.commit_sync_batch_size
    COMMIT_LAG_MULTIPLIER,
    QuorumCommits   \* bound: values of the quorum commit index

ASSUME SynchronizerAssumption ==
    /\ Peers \subseteq Authorities /\ Peers # {} /\ Responsive \subseteq Peers
    /\ Past = [b \in Blocks |-> UNION {Past[c] \cup {c} : c \in Ancestors[b]}]
    /\ SentBlocks \subseteq Blocks /\ \A b \in SentBlocks : Author[b] \in Peers
    /\ Excluded \in [SentBlocks -> SUBSET Blocks]
    /\ {FETCH_BLOCKS_CONCURRENCY, MAX_AUTHORITIES_TO_FETCH_PER_BLOCK,
        MAX_PERIODIC_SYNC_PEERS, MAX_RETRIES, CommitSyncBatchSize,
        COMMIT_LAG_MULTIPLIER} \subseteq Nat \ {0}
    /\ QuorumCommits \subseteq Nat

VARIABLES
    received,       \* blocks given to the core
    missing,        \* BlockManager::missing_blocks
    commands,       \* FetchBlocks commands not handled yet
    inflight,       \* InflightBlocksMap: block -> peers fetching it
    guards,         \* the BlocksGuards that are alive, each with its request
    task,           \* fetch_blocks_scheduler_task: what it is doing
    batches,        \* requests the scheduler task still has to send
    peers,          \* peers the scheduler task has not used yet
    swapping,       \* set of at most one: the refs and peer inside swap_locks
    commit_index, quorum_commit_index,
    last_changed_commit_index,
    stalled,        \* COMMIT_PROGRESS_TIMEOUT passed since last_commit_change_time
    commit_sync_failover

core_vars == <<received, missing>>
task_vars == <<task, batches, peers, swapping>>
lag_vars == <<commit_index, quorum_commit_index, last_changed_commit_index,
              stalled, commit_sync_failover>>
vars == <<received, missing, commands, inflight, guards, task, batches, peers,
          swapping, commit_index, quorum_commit_index,
          last_changed_commit_index, stalled, commit_sync_failover>>

Stages == {"queued", "live", "live_processing", "periodic", "result"}
Guard == [peer : Peers, refs : SUBSET Blocks, stage : Stages,
          retries : 1..MAX_RETRIES, after : Rounds, blocks : SUBSET Blocks]
Batch == [peer : Peers, refs : SUBSET Blocks, after : Rounds]

Init ==
    /\ received = {} /\ missing = {}
    /\ commands = {}
    /\ inflight = [b \in Blocks |-> {}]
    /\ guards = {}
    /\ task = "idle" /\ batches = <<>> /\ peers = <<>> /\ swapping = {}
    /\ commit_index = 0 /\ quorum_commit_index = 0
    /\ last_changed_commit_index = 0
    /\ stalled = FALSE /\ commit_sync_failover = FALSE

-----------------------------------------------------------------------------
(* The core, and what the node reads of it.                                *)

(* Core::add_blocks: ancestors that were never received become missing.    *)
AddBlocks(S) ==
    /\ received' = received \cup S
    /\ missing' = (missing \cup UNION {Ancestors[b] : b \in S}) \ (received \cup S)

Accepted == {b \in received : Past[b] \subseteq received}

(* get_fetch_after_rounds, before any garbage collection.                  *)
FetchAfterRounds == [a \in Authorities |-> LastRound(Accepted, a)]

is_commit_lagging ==
    commit_index + CommitSyncBatchSize * COMMIT_LAG_MULTIPLIER < quorum_commit_index

-----------------------------------------------------------------------------
(* InflightBlocksMap.                                                      *)

\* A mutant: the number of authorities is compared with <=.
Lockable_OneMore(refs, p) ==
    {b \in refs : /\ Cardinality(inflight[b]) <= MAX_AUTHORITIES_TO_FETCH_PER_BLOCK
                  /\ p \notin inflight[b]}

Lockable(refs, p) ==
    {b \in refs : /\ Cardinality(inflight[b]) < MAX_AUTHORITIES_TO_FETCH_PER_BLOCK
                  /\ p \notin inflight[b]}

Locked(refs, p) ==
    [b \in Blocks |-> IF b \in Lockable(refs, p) THEN inflight[b] \cup {p} ELSE inflight[b]]

(* Drop of a set of guards: unlock_blocks of each.                         *)
Unlocked(G) ==
    [b \in Blocks |-> inflight[b] \ {g.peer : g \in {h \in G : b \in h.refs}}]

NewGuard(p, refs, stage, after) ==
    [peer |-> p, refs |-> refs, stage |-> stage, retries |-> 1,
     after |-> after, blocks |-> {}]

-----------------------------------------------------------------------------
(* AuthorityService::handle_send_block, for a block of a connected peer.   *)

Queued(p) == {g \in guards : g.peer = p /\ g.stage = "queued"}

FetchCommand(refs, p) == IF refs = {} THEN {} ELSE {[peer |-> p, refs |-> refs]}

ReceiveBlock(b) ==
    LET now_received == received \cup {b}
        excluded == Excluded[b] \ now_received
    IN  /\ b \notin received
        /\ ~is_commit_lagging
        /\ received' = now_received
        /\ missing' = (missing \cup Ancestors[b] \cup excluded) \ now_received
        /\ commands' = commands
              \cup FetchCommand(Ancestors[b] \ now_received, Author[b])
              \cup FetchCommand(excluded, Author[b])
        /\ UNCHANGED <<inflight, guards, task_vars, lag_vars>>

(* Command::FetchBlocks: locked blocks go to the task of the peer, unless  *)
(* its channel is full, in which case the guard is dropped again.          *)
FetchBlocks(c) ==
    LET refs == Lockable(FirstBlocks(c.refs, MaxBlocksPerSync), c.peer)
    IN  /\ c \in commands
        /\ commands' = commands \ {c}
        /\ IF refs # {} /\ Cardinality(Queued(c.peer)) < FETCH_BLOCKS_CONCURRENCY
           THEN /\ inflight' = Locked(refs, c.peer)
                /\ guards' = guards \cup
                      {NewGuard(c.peer, refs, "queued", [a \in Authorities |-> 0])}
           ELSE UNCHANGED <<inflight, guards>>
        /\ UNCHANGED <<core_vars, task_vars, lag_vars>>

-----------------------------------------------------------------------------
(* fetch_blocks_from_peer: the task of one peer.  It processes one answer  *)
(* at a time and neither starts nor completes a request meanwhile.         *)

Live(p) == {g \in guards : g.peer = p /\ g.stage = "live"}
Processing(p) == {g \in guards : g.peer = p /\ g.stage = "live_processing"}

Replace(g, h) == (guards \ {g}) \cup {h}

\* The request of a guard on its way, and its answer in hand.
Asked(g, after) == [g EXCEPT !.stage = "live", !.after = after]
Answered(g, s, S) == [g EXCEPT !.stage = s, !.blocks = S]

StartRequest(g) ==
    /\ g \in guards /\ g.stage = "queued"
    /\ Processing(g.peer) = {}
    /\ Cardinality(Live(g.peer)) < FETCH_BLOCKS_CONCURRENCY
    /\ guards' = Replace(g, Asked(g, FetchAfterRounds))
    /\ UNCHANGED <<core_vars, commands, inflight, task_vars, lag_vars>>

(* What peer p may hold when it answers.                                   *)
Held(p) == IF p \in Responsive THEN {Blocks} ELSE {Blocks, {}}

LiveAnswer(g) ==
    /\ g \in guards /\ g.stage = "live" /\ Processing(g.peer) = {}
    /\ \E held \in Held(g.peer) : \E S \in LiveResponses(held, g.refs, g.after) :
          guards' = Replace(g, Answered(g, "live_processing", S))
    /\ UNCHANGED <<core_vars, commands, inflight, task_vars, lag_vars>>

\* A mutant: the request that is given up leaves its locks behind.
LiveFailure_KeepsLocks(g) ==
    /\ g \in guards /\ g.stage = "live" /\ Processing(g.peer) = {}
    /\ g.peer \notin Responsive
    /\ guards' = IF g.retries + 1 <= MAX_RETRIES
                 THEN Replace(g, [g EXCEPT !.retries = @ + 1])
                 ELSE guards \ {g}
    /\ UNCHANGED <<core_vars, commands, inflight, task_vars, lag_vars>>

(* A failed request is tried again, and given up after MAX_RETRIES.        *)
LiveFailure(g) ==
    /\ g \in guards /\ g.stage = "live" /\ Processing(g.peer) = {}
    /\ g.peer \notin Responsive
    /\ IF g.retries + 1 <= MAX_RETRIES
       THEN /\ guards' = Replace(g, [g EXCEPT !.retries = @ + 1])
            /\ UNCHANGED inflight
       ELSE /\ guards' = guards \ {g}
            /\ inflight' = Unlocked({g})
    /\ UNCHANGED <<core_vars, commands, task_vars, lag_vars>>

(* process_fetched_blocks: verified blocks go to the core, then the guard  *)
(* is dropped.  An answer that does not verify only drops it.              *)
ProcessFetchedBlocks(g) ==
    /\ \/ AddBlocks(g.blocks)
       \/ g.peer \notin Responsive /\ UNCHANGED core_vars
    /\ guards' = guards \ {g}
    /\ inflight' = Unlocked({g})
    /\ UNCHANGED <<commands, lag_vars>>

ProcessLive(g) ==
    /\ g \in guards /\ g.stage = "live_processing"
    /\ ProcessFetchedBlocks(g)
    /\ UNCHANGED task_vars

-----------------------------------------------------------------------------
(* The periodic timer: should_run_periodic_sync and, when it says so,      *)
(* start_fetch_missing_blocks_task.                                        *)


should_run_periodic_sync ==
    \/ ~is_commit_lagging
    \/ commit_sync_failover /\ commit_index < last_changed_commit_index + CommitSyncBatchSize
    \/ ~commit_sync_failover /\ commit_index = last_changed_commit_index /\ stalled

ResetCommitChange ==
    /\ last_changed_commit_index' = commit_index
    /\ stalled' = FALSE
    /\ commit_sync_failover' = FALSE

(* Commit sync is expected to catch up: no periodic sync.                  *)
PeriodicSkipped ==
    /\ task = "idle" /\ ~should_run_periodic_sync
    /\ commit_sync_failover \/ commit_index # last_changed_commit_index
    /\ ResetCommitChange
    /\ UNCHANGED <<core_vars, commands, inflight, guards, task_vars,
                   commit_index, quorum_commit_index>>

PeriodicRuns ==
    /\ task = "idle" /\ should_run_periodic_sync
    /\ IF is_commit_lagging
       THEN /\ commit_sync_failover' = TRUE
            /\ UNCHANGED <<last_changed_commit_index, stalled>>
       ELSE ResetCommitChange
    /\ UNCHANGED <<commit_index, quorum_commit_index>>

(* In failover only blocks that fetch_after_rounds does not cover.         *)
BlocksToFetch ==
    IF is_commit_lagging
    THEN {b \in missing : Round[b] <= FetchAfterRounds[Author[b]]}
    ELSE missing

PeriodicNothing ==
    /\ PeriodicRuns
    /\ ~is_commit_lagging /\ BlocksToFetch = {}
    /\ UNCHANGED <<core_vars, commands, inflight, guards, task_vars>>

(* fetch_blocks_with_fetch_after_rounds: one request to a random peer.     *)
PeriodicAfterRounds(p) ==
    /\ PeriodicRuns
    /\ is_commit_lagging /\ BlocksToFetch = {}
    /\ guards' = guards \cup {NewGuard(p, {}, "periodic", FetchAfterRounds)}
    /\ task' = "fetching"
    /\ UNCHANGED <<core_vars, commands, inflight, batches, peers, swapping>>

Orders(S) == {f \in [1..Cardinality(S) -> S] : \A i, j \in DOMAIN f : f[i] = f[j] => i = j}
DivCeil(m, n) == (m + n - 1) \div n

(* fetch_blocks_from_peers: the authors of the blocks, in a random order,  *)
(* are dealt in equal batches to the peers, in a random order.             *)
Batches(wanted, order, authors) ==
    LET size == DivCeil(Len(authors), Min(Len(order), MAX_PERIODIC_SYNC_PEERS))
        Of(i) == {authors[j] : j \in ((i - 1) * size + 1)..Min(i * size, Len(authors))}
    IN  [i \in 1..DivCeil(Len(authors), size) |->
            [peer |-> order[i], after |-> FetchAfterRounds,
             refs |-> FirstBlocks({b \in wanted : Author[b] \in Of(i)}, MaxBlocksPerFetch)]]

Wanted == FirstBlocks(BlocksToFetch, 2 * MAX_PERIODIC_SYNC_PEERS * MaxBlocksPerFetch)

PeriodicMissing ==
    /\ PeriodicRuns
    /\ Wanted # {}
    /\ \E order \in Orders(Peers), authors \in Orders({Author[b] : b \in Wanted}) :
          /\ batches' = Batches(Wanted, order, authors)
          /\ peers' = SubSeq(order, Len(batches') + 1, Len(order))
    /\ task' = "fetching"
    /\ UNCHANGED <<core_vars, commands, inflight, guards, swapping>>

-----------------------------------------------------------------------------
(* The scheduler task: requests go out one by one, each under its locks.   *)

(* Lock what can be locked of refs for a peer, and ask it for that.        *)
LockAndRequest(b) ==
    LET refs == Lockable(b.refs, b.peer)
    IN  /\ inflight' = Locked(refs, b.peer)
        /\ guards' = IF refs = {} THEN guards
                     ELSE guards \cup {NewGuard(b.peer, refs, "periodic", b.after)}

PeriodicSend ==
    /\ task = "fetching" /\ batches # <<>>
    /\ LockAndRequest(Head(batches))
    /\ batches' = Tail(batches)
    /\ UNCHANGED <<core_vars, commands, task, peers, swapping, lag_vars>>

Gathering == task = "fetching" /\ batches = <<>> /\ swapping = {}

(* The caller keeps max_blocks_per_sync blocks of the answer, in order.    *)
PeriodicAnswer(g) ==
    /\ Gathering /\ g \in guards /\ g.stage = "periodic"
    /\ \E held \in Held(g.peer) :
          LET scan == PeriodicScan(held, g.refs, g.after)
              kept == SubSeq(scan, 1, Min(Len(scan), MaxBlocksPerSync))
          IN  guards' = Replace(g, Answered(g, "result",
                             IF g.refs = {} THEN Elements(kept)
                             ELSE PeriodicResponse(held, g.refs, g.after)))
    /\ UNCHANGED <<core_vars, commands, inflight, task_vars, lag_vars>>

(* A request failed: its blocks pass to the next peer.  swap_locks drops   *)
(* the guard and locks for the new peer in two steps.                      *)
PeriodicFailure(g) ==
    /\ Gathering /\ g \in guards /\ g.stage = "periodic"
    /\ g.peer \notin Responsive
    /\ guards' = guards \ {g}
    /\ inflight' = Unlocked({g})
    /\ IF peers = <<>>
       THEN UNCHANGED <<swapping, peers>>
       ELSE /\ swapping' = {[peer |-> Head(peers), refs |-> g.refs, after |-> g.after]}
            /\ peers' = Tail(peers)
    /\ UNCHANGED <<core_vars, commands, task, batches, lag_vars>>

SwapLocks(s) ==
    /\ s \in swapping
    /\ LockAndRequest(s)
    /\ swapping' = {}
    /\ UNCHANGED <<core_vars, commands, task, batches, peers, lag_vars>>

(* All have answered, or FETCH_FROM_PEERS_TIMEOUT: the requests still open *)
(* are dropped, with their guards.                                         *)
PeriodicGathered ==
    LET open == {g \in guards : g.stage = "periodic"}
    IN  /\ Gathering
        /\ \A g \in open : g.peer \notin Responsive
        /\ guards' = guards \ open
        /\ inflight' = Unlocked(open)
        /\ task' = "processing"
        /\ UNCHANGED <<core_vars, commands, batches, peers, swapping, lag_vars>>

ProcessPeriodic(g) ==
    /\ task = "processing" /\ g \in guards /\ g.stage = "result"
    /\ ProcessFetchedBlocks(g)
    /\ UNCHANGED task_vars

PeriodicEnd ==
    /\ task = "processing" /\ \A g \in guards : g.stage # "result"
    /\ task' = "idle" /\ peers' = <<>>
    /\ UNCHANGED <<core_vars, commands, inflight, guards, batches, swapping, lag_vars>>

-----------------------------------------------------------------------------
(* What happens around the synchronizer.                                   *)

CommitAdvances ==
    /\ commit_index < quorum_commit_index
    /\ commit_index' = commit_index + 1
    /\ UNCHANGED <<core_vars, commands, inflight, guards, task_vars,
                   quorum_commit_index, last_changed_commit_index, stalled,
                   commit_sync_failover>>

QuorumAdvances ==
    /\ quorum_commit_index' \in {q \in QuorumCommits : q > quorum_commit_index}
    /\ UNCHANGED <<core_vars, commands, inflight, guards, task_vars,
                   commit_index, last_changed_commit_index, stalled,
                   commit_sync_failover>>

(* COMMIT_PROGRESS_TIMEOUT.  Without lag every tick of the timer starts it *)
(* anew.                                                                   *)
CommitStalls ==
    /\ is_commit_lagging
    /\ ~stalled /\ stalled' = TRUE
    /\ UNCHANGED <<core_vars, commands, inflight, guards, task_vars,
                   commit_index, quorum_commit_index, last_changed_commit_index,
                   commit_sync_failover>>

Next ==
    \/ \E b \in SentBlocks : ReceiveBlock(b)
    \/ \E c \in commands : FetchBlocks(c)
    \/ \E g \in guards : StartRequest(g)
    \/ \E g \in guards : LiveAnswer(g)
    \/ \E g \in guards : LiveFailure(g)
    \/ \E g \in guards : ProcessLive(g)
    \/ PeriodicSkipped
    \/ PeriodicNothing
    \/ \E p \in Peers : PeriodicAfterRounds(p)
    \/ PeriodicMissing
    \/ PeriodicSend
    \/ \E g \in guards : PeriodicAnswer(g)
    \/ \E g \in guards : PeriodicFailure(g)
    \/ \E s \in swapping : SwapLocks(s)
    \/ PeriodicGathered
    \/ \E g \in guards : ProcessPeriodic(g)
    \/ PeriodicEnd
    \/ CommitAdvances
    \/ QuorumAdvances
    \/ CommitStalls

Spec == Init /\ [][Next]_vars

-----------------------------------------------------------------------------
TypeOK ==
    /\ received \subseteq Blocks /\ missing \subseteq Blocks \ received
    /\ commands \subseteq [peer : Peers, refs : SUBSET Blocks]
    /\ inflight \in [Blocks -> SUBSET Peers]
    /\ guards \subseteq Guard
    /\ task \in {"idle", "fetching", "processing"}
    /\ batches \in Seq(Batch) /\ peers \in Seq(Peers) /\ swapping \subseteq Batch
    /\ commit_index \in Nat /\ quorum_commit_index \in Nat
    /\ last_changed_commit_index \in Nat
    /\ stalled \in BOOLEAN /\ commit_sync_failover \in BOOLEAN

(* The map of in-flight blocks says exactly which requests are out: a peer *)
(* is in the entry of a block if and only if one guard of that peer holds  *)
(* the block.  So the expect and the assert of unlock_blocks never fail,   *)
(* and no lock outlives its guard, on whatever path the guard is dropped.  *)
LocksExact ==
    /\ \A b \in Blocks : inflight[b] = {g.peer : g \in {h \in guards : b \in h.refs}}
    /\ \A b \in Blocks : \A g, h \in guards :
          b \in g.refs /\ b \in h.refs /\ g.peer = h.peer => g = h

(* The task of a peer never has more requests than it may: as many wait in *)
(* its channel as the channel holds, as many are out, or in hand, as       *)
(* fetch_blocks_from_peer starts, and one answer is processed at a time.   *)
RequestsBounded ==
    \A p \in Peers :
        /\ Cardinality(Queued(p)) <= FETCH_BLOCKS_CONCURRENCY
        /\ Cardinality(Live(p) \cup Processing(p)) <= FETCH_BLOCKS_CONCURRENCY
        /\ \A g, h \in Processing(p) : g = h

(* A periodic sync leaves nothing behind: once its task has gathered the   *)
(* answers no request of it is open or being handed over, and once it has  *)
(* ended, on whatever path, no guard of it, and so no lock, is alive.      *)
NothingLeftBehind ==
    /\ task # "fetching" =>
          batches = <<>> /\ swapping = {} /\ \A g \in guards : g.stage # "periodic"
    /\ task = "idle" => \A g \in guards : g.stage # "result"

(* "allows concurrent requests for missing blocks from up to two           *)
(* authorities": never more requests for one block than that, live,        *)
(* periodic and handed over ones together.                                 *)
FetchBound ==
    \A b \in Blocks :
        Cardinality({g \in guards : b \in g.refs}) <= MAX_AUTHORITIES_TO_FETCH_PER_BLOCK

(* The inductive invariant.                                                *)
EntriesBounded ==
    \A b \in Blocks : Cardinality(inflight[b]) <= MAX_AUTHORITIES_TO_FETCH_PER_BLOCK

IInv ==
    /\ TypeOK /\ IsFiniteSet(guards)
    /\ LocksExact /\ EntriesBounded
    /\ RequestsBounded /\ NothingLeftBehind

-----------------------------------------------------------------------------
(* The blocks that can become missing.                                     *)
Fetchable == UNION {Ancestors[b] : b \in Blocks} \cup UNION {Excluded[b] : b \in SentBlocks}

(* Every task of the node takes its steps, and the timers fire.  A shuffle *)
(* is random: it gives a block that stays missing to a responsive peer     *)
(* again and again.                                                        *)
Fairness ==
    /\ WF_vars(\E c \in commands : FetchBlocks(c))
    /\ \A p \in Peers :
          WF_vars(\E g \in guards : g.peer = p /\ (StartRequest(g) \/ LiveAnswer(g)
                                                   \/ LiveFailure(g) \/ ProcessLive(g)))
    /\ WF_vars(PeriodicSkipped) /\ WF_vars(CommitStalls)
    /\ WF_vars(PeriodicSend) /\ WF_vars(\E s \in swapping : SwapLocks(s))
    /\ WF_vars(\E g \in guards : PeriodicAnswer(g) \/ PeriodicFailure(g))
    /\ WF_vars(PeriodicGathered)
    /\ WF_vars(\E g \in guards : ProcessPeriodic(g)) /\ WF_vars(PeriodicEnd)
    /\ \A p \in Responsive : SF_vars(PeriodicAfterRounds(p))
    /\ \A b \in Fetchable :
          SF_vars(/\ PeriodicMissing
                  /\ \E i \in DOMAIN batches' :
                        batches'[i].peer \in Responsive /\ b \in batches'[i].refs)

FairSpec == Spec /\ Fairness


=============================================================================
