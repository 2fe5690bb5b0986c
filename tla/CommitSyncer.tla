---------------------------- MODULE CommitSyncer ----------------------------
(***************************************************************************)
(* Commit synchronization of a node that has fallen behind                 *)
(* (core/src/commit_syncer.rs), with what it reads from and sends to the   *)
(* rest of the node: the quorum commit index of the CommitVoteMonitor, the *)
(* last commit index of DagState, the highest commit handled by the commit *)
(* consumer, and Core::add_certified_commits.                              *)
(*                                                                         *)
(* The syncer is one task.  `phase' is the place where it is: waiting in   *)
(* tokio::select, in the loop of handle_fetch_result, awaiting Core, or in *)
(* the loop of try_start_fetches.  Core, the peers and the consumer take   *)
(* steps between any two of its steps.  A commit range is a pair <<start,  *)
(* end>>, both inclusive; the commits themselves are their indices.        *)
(***************************************************************************)
EXTENDS Integers, FiniteSets

CONSTANTS
    BatchSize,       \* commit_sync_batch_size
    BatchesAhead,    \* commit_sync_batches_ahead
    ParallelFetches, \* commit_sync_parallel_fetches
    KnownPeers,      \* peers_pool.get_known_peers().len()
    HandlerLag,      \* commits the consumer may hold back until later ones
    MaxCommit,       \* bound: the last commit of the network
    MaxRestarts      \* bound: crashes of the node

ASSUME ParametersAssumption ==
    /\ BatchSize \in Nat \ {0}
    /\ BatchesAhead \in Nat \ {0}
    /\ ParallelFetches \in Nat /\ KnownPeers \in Nat
    /\ HandlerLag \in Nat /\ MaxCommit \in Nat /\ MaxRestarts \in Nat

VARIABLES
    quorum_commit_index,     \* CommitVoteMonitor::quorum_commit_index()
    last_commit_index,       \* DagState::last_commit_index()
    highest_handled,         \* CommitConsumerMonitor::highest_handled_commit()
    phase,                   \* where the syncer task is
    inflight_fetches,        \* ranges of the running fetch_loop tasks
    pending_fetches,         \* ranges to be fetched
    fetched_ranges,          \* ranges fetched and not sent to Core yet
    sending,                 \* the range being sent to Core: a set of at most one
    highest_scheduled_index, \* 0 when nothing was scheduled
    synced_commit_index,
    restarts

nodeVars  == <<quorum_commit_index, last_commit_index, highest_handled, restarts>>
fetchVars == <<inflight_fetches, pending_fetches, fetched_ranges, sending>>
indexVars == <<highest_scheduled_index, synced_commit_index>>
vars == <<nodeVars, phase, fetchVars, indexVars>>

Range == {r \in Nat \X Nat : 0 < r[1] /\ r[1] <= r[2]}

TypeOK ==
    /\ quorum_commit_index \in Nat
    /\ last_commit_index \in Nat
    /\ highest_handled \in Nat
    /\ phase \in {"select", "schedule", "process", "await", "start"}
    /\ inflight_fetches \in SUBSET Range
    /\ pending_fetches \in SUBSET Range
    /\ fetched_ranges \in SUBSET Range
    /\ sending \in SUBSET Range
    /\ highest_scheduled_index \in Nat
    /\ synced_commit_index \in Nat
    /\ restarts \in Nat

Larger(m, n) == IF m > n THEN m ELSE n
Smaller(m, n) == IF m < n THEN m ELSE n

\* Range r is the one that pop_first takes.
IsFirst(r, ranges) == r \in ranges /\ \A s \in ranges : r[1] <= s[1]

Init ==
    /\ quorum_commit_index = 0
    /\ last_commit_index = 0
    /\ highest_handled = 0
    /\ restarts = 0
    /\ phase = "select"
    /\ inflight_fetches = {}
    /\ pending_fetches = {}
    /\ fetched_ranges = {}
    /\ sending = {}
    /\ highest_scheduled_index = 0
    /\ synced_commit_index = 0

-----------------------------------------------------------------------------
\* The scheduling task.

\* Faulty variant of unhandled_commits_threshold: one batch only.
unhandled_commits_threshold_OneBatch == BatchSize

unhandled_commits_threshold == BatchSize * BatchesAhead

\* The interval ticks: try_schedule_once runs up to its loop.
TryScheduleOnce ==
    /\ phase = "select"
    /\ synced_commit_index' = Larger(synced_commit_index, last_commit_index)
    /\ phase' = "schedule"
    /\ UNCHANGED <<nodeVars, fetchVars, highest_scheduled_index>>

\* The next batch is full and the consumer does not lag too far behind it.
CanSchedule(range_end) ==
    /\ range_end <= quorum_commit_index
    /\ range_end <= highest_handled + unhandled_commits_threshold

\* prev_end of the loop of try_schedule_once.
FetchAfterIndex == Larger(synced_commit_index, highest_scheduled_index)

\* An iteration of that loop.
ScheduleBatch ==
    LET range_end == FetchAfterIndex + BatchSize IN
    /\ phase = "schedule"
    /\ CanSchedule(range_end)
    /\ pending_fetches' = pending_fetches \cup {<<FetchAfterIndex + 1, range_end>>}
    /\ highest_scheduled_index' = range_end
    /\ UNCHANGED <<nodeVars, phase, inflight_fetches, fetched_ranges, sending, synced_commit_index>>

ScheduleDone ==
    /\ phase = "schedule"
    /\ ~CanSchedule(FetchAfterIndex + BatchSize)
    /\ phase' = "start"
    /\ UNCHANGED <<nodeVars, fetchVars, indexVars>>

\* The fetch of range r returns with the commits up to k, the whole range or a
\* prefix of it, and handle_fetch_result runs up to its loop; the set rest of
\* ranges is to be fetched again.
HandleFetchResult(r, k, rest) ==
    LET synced == Larger(synced_commit_index, last_commit_index) IN
    /\ phase = "select"
    /\ r \in inflight_fetches
    /\ k \in r[1] .. r[2]
    /\ inflight_fetches' = inflight_fetches \ {r}
    /\ pending_fetches' = pending_fetches \cup rest
    /\ synced_commit_index' = synced
    /\ fetched_ranges' = IF synced < k THEN fetched_ranges \cup {<<r[1], k>>} ELSE fetched_ranges
    /\ phase' = "process"
    /\ UNCHANGED <<nodeVars, sending, highest_scheduled_index>>

\* Faulty variants of FetchReturns: the rest of a partial result is not fetched,
\* or overlaps the result.
FetchReturns_DropRest(r, k) == HandleFetchResult(r, k, {})
FetchReturns_RestOverlaps(r, k) ==
    HandleFetchResult(r, k, IF k < r[2] THEN {<<k, r[2]>>} ELSE {})
FetchReturns(r, k) == HandleFetchResult(r, k, IF k < r[2] THEN {<<k + 1, r[2]>>} ELSE {})

\* An iteration of the loop of handle_fetch_result on the first fetched range:
\* it is synced already and dropped.
SkipSynced(r) ==
    /\ phase = "process"
    /\ IsFirst(r, fetched_ranges)
    /\ r[1] <= synced_commit_index + 1
    /\ r[2] <= synced_commit_index
    /\ fetched_ranges' = fetched_ranges \ {r}
    /\ UNCHANGED <<nodeVars, phase, inflight_fetches, pending_fetches, sending, indexVars>>

\* Faulty variant of SendToCore: the first fetched range is sent, gap or not.
SendToCore_IgnoreGap(r) ==
    /\ phase = "process"
    /\ IsFirst(r, fetched_ranges)
    /\ r[2] > synced_commit_index
    /\ fetched_ranges' = fetched_ranges \ {r}
    /\ sending' = {r}
    /\ phase' = "await"
    /\ UNCHANGED <<nodeVars, inflight_fetches, pending_fetches, indexVars>>

\* The first fetched range has no gap to what is synced: it goes to Core.
SendToCore(r) ==
    /\ phase = "process"
    /\ IsFirst(r, fetched_ranges)
    /\ r[1] <= synced_commit_index + 1
    /\ r[2] > synced_commit_index
    /\ fetched_ranges' = fetched_ranges \ {r}
    /\ sending' = {r}
    /\ phase' = "await"
    /\ UNCHANGED <<nodeVars, inflight_fetches, pending_fetches, indexVars>>

\* Nothing fetched, or a gap before it: the loop ends.
ProcessDone ==
    /\ phase = "process"
    /\ \A r \in fetched_ranges : r[1] > synced_commit_index + 1
    /\ phase' = "start"
    /\ UNCHANGED <<nodeVars, fetchVars, indexVars>>

\* Core::add_certified_commits: the commits above the last one are committed.
\* The syncer resumes and ratchets up synced_commit_index.
AddCertifiedCommits(r) ==
    /\ phase = "await"
    /\ r \in sending
    /\ last_commit_index' = Larger(last_commit_index, r[2])
    /\ synced_commit_index' = Larger(synced_commit_index, r[2])
    /\ sending' = {}
    /\ phase' = "process"
    /\ UNCHANGED <<quorum_commit_index, highest_handled, restarts, inflight_fetches,
                   pending_fetches, fetched_ranges, highest_scheduled_index>>

TargetParallelFetches ==
    LET ahead == Larger(BatchesAhead - Cardinality(fetched_ranges), 0)
    IN Larger(Smaller(Smaller(ParallelFetches, (KnownPeers * 2) \div 3), ahead), 1)

\* An iteration of try_start_fetches.
StartFetch(r) ==
    /\ phase = "start"
    /\ Cardinality(inflight_fetches) < TargetParallelFetches
    /\ IsFirst(r, pending_fetches)
    /\ pending_fetches' = pending_fetches \ {r}
    /\ inflight_fetches' = inflight_fetches \cup {r}
    /\ UNCHANGED <<nodeVars, phase, fetched_ranges, sending, indexVars>>

StartFetchesDone ==
    /\ phase = "start"
    /\ pending_fetches # {} => Cardinality(inflight_fetches) >= TargetParallelFetches
    /\ phase' = "select"
    /\ UNCHANGED <<nodeVars, fetchVars, indexVars>>

-----------------------------------------------------------------------------
\* The rest of the node and the network.

\* Core commits a leader by itself.
LocalCommit ==
    /\ last_commit_index < MaxCommit
    /\ last_commit_index' = last_commit_index + 1
    /\ UNCHANGED <<quorum_commit_index, highest_handled, restarts, phase, fetchVars, indexVars>>

\* Votes of other authorities raise the quorum commit index.
ObserveVotes ==
    /\ quorum_commit_index < MaxCommit
    /\ quorum_commit_index' = quorum_commit_index + 1
    /\ UNCHANGED <<last_commit_index, highest_handled, restarts, phase, fetchVars, indexVars>>

\* The commit consumer handles the next commit.
HandleCommit ==
    /\ highest_handled < last_commit_index
    /\ highest_handled' = highest_handled + 1
    /\ UNCHANGED <<quorum_commit_index, last_commit_index, restarts, phase, fetchVars, indexVars>>

\* The node crashes and restarts with the commits that were flushed, at least
\* those the consumer has handled; the consumer asks for a replay.
Restart ==
    /\ restarts < MaxRestarts
    /\ restarts' = restarts + 1
    /\ last_commit_index' \in highest_handled .. last_commit_index
    /\ highest_handled' \in 0 .. highest_handled
    /\ quorum_commit_index' = 0
    /\ phase' = "select"
    /\ inflight_fetches' = {}
    /\ pending_fetches' = {}
    /\ fetched_ranges' = {}
    /\ sending' = {}
    /\ highest_scheduled_index' = 0
    /\ synced_commit_index' = last_commit_index'

Sync ==
    \/ TryScheduleOnce \/ ScheduleBatch \/ ScheduleDone
    \/ \E r \in inflight_fetches : \E k \in r[1] .. r[2] : FetchReturns(r, k)
    \/ \E r \in fetched_ranges : SkipSynced(r) \/ SendToCore(r)
    \/ ProcessDone
    \/ \E r \in sending : AddCertifiedCommits(r)
    \/ \E r \in pending_fetches : StartFetch(r)
    \/ StartFetchesDone

Next == Sync \/ LocalCommit \/ ObserveVotes \/ HandleCommit \/ Restart

Spec == Init /\ [][Next]_vars

\* The runtime polls every ready branch of the select (tokio picks at random)
\* and a fetch_loop retries until some peer answers; Core answers; the network
\* goes on committing; the consumer handles commits, except the last HandlerLag
\* that CommitFinalizer may hold back.
Fairness ==
    /\ WF_vars(Sync)
    /\ SF_vars(TryScheduleOnce)
    /\ SF_vars(\E r \in inflight_fetches : \E k \in r[1] .. r[2] : FetchReturns(r, k))
    /\ WF_vars(ObserveVotes)
    /\ WF_vars(highest_handled + HandlerLag < last_commit_index /\ HandleCommit)

FairSpec == Spec /\ Fairness

-----------------------------------------------------------------------------
\* Safety.

Scheduled == pending_fetches \cup inflight_fetches \cup fetched_ranges \cup sending

\* What filter_new_commits of Core expects: the commits that reach Core
\* continue the local ones without a gap.  Otherwise Core panics.
NoGapToCore == \A r \in sending : r[1] <= last_commit_index + 1

\* No commit is forgotten: every index that was scheduled and is not synced
\* waits in some range, also after partial results and restarts.  An index that
\* got lost would never be scheduled again.
NothingLost ==
    \A i \in 1 .. highest_scheduled_index :
        synced_commit_index < i => \E r \in Scheduled : r[1] <= i /\ i <= r[2]

Apart(r, s) == r[2] < s[1] \/ s[2] < r[1]

\* No commit is fetched twice: ranges do not overlap and none is in two places.
FetchedOnce ==
    /\ \A r, s \in Scheduled : r = s \/ Apart(r, s)
    /\ pending_fetches \cap inflight_fetches = {}
    /\ (pending_fetches \cup inflight_fetches) \cap (fetched_ranges \cup sending) = {}

\* The inductive invariant behind them.
IInv ==
    /\ TypeOK
    /\ synced_commit_index <= last_commit_index
    /\ \A r \in sending : r[1] <= synced_commit_index + 1
    /\ \A r \in Scheduled : r[2] <= highest_scheduled_index
    /\ NothingLost
    /\ FetchedOnce
    /\ fetched_ranges \cap sending = {}
    /\ phase # "await" => sending = {}
    /\ \A r, s \in sending : r = s

-----------------------------------------------------------------------------
\* Liveness.

\* A node catches up: when a quorum has committed a full batch beyond a commit,
\* that commit is made locally, without any help of local decisions.
CatchesUp ==
    \A i \in 1 .. MaxCommit :
        (quorum_commit_index >= i + BatchSize - 1) ~> (last_commit_index >= i)
=============================================================================
