----------------------------- MODULE Linearizer -----------------------------
(***************************************************************************)
(* From committed leaders to commits: Linearizer (core/src/linearizer.rs)  *)
(* and the part of DagState it relies on (core/src/dag_state.rs): the      *)
(* cache with its `committed' flags, its eviction by flush, and how the    *)
(* flags are rebuilt from the store by DagState::new.                      *)
(*                                                                         *)
(* One validator runs; the leaders it commits are given, as the commit rule *)
(* (module Committer) gives the same ones to all.  The loop of             *)
(* linearize_sub_dag is unfolded, one step for each block popped from the  *)
(* buffer, in any order: what is committed does not depend on the order,   *)
(* and the sub-dag is sorted afterwards.  A sub-dag is the set of its      *)
(* blocks.  Commit timestamps are left out.                                *)
(***************************************************************************)
EXTENDS Naturals, Sequences

CONSTANTS
    Blocks, Author, Round,
    Ancestors,      \* Ancestors[b]: the ancestors of b, genesis blocks left out
    Past,           \* Past[b]: all blocks that b refers to, also indirectly
    Leaders,        \* the sequence of committed leaders
    GcDepth,        \* gc_depth() of the protocol config
    CachedRounds,   \* dag_state_cached_rounds
    MaxRestarts     \* bound: crashes

\* Past is the transitive closure of Ancestors (its second conjunct says that it has
\* nothing else), and committed leaders are of increasing rounds.
ASSUME LinearizerAssumption ==
    /\ Round \in [Blocks -> Nat \ {0}]
    /\ Ancestors \in [Blocks -> SUBSET Blocks] /\ Past \in [Blocks -> SUBSET Blocks]
    /\ \A b \in Blocks : \A a \in Ancestors[b] : Round[a] < Round[b]
    /\ \A b \in Blocks : Past[b] = Ancestors[b] \cup UNION {Past[a] : a \in Ancestors[b]}
    /\ Leaders \in Seq(Blocks)
    /\ \A i, j \in 1 .. Len(Leaders) : i < j => Round[Leaders[i]] < Round[Leaders[j]]
    /\ GcDepth \in Nat /\ CachedRounds \in Nat /\ MaxRestarts \in Nat

VARIABLES
    accepted,       \* blocks in DagState, in the cache or evicted from it
    recent_blocks,  \* blocks in the cache
    committed,      \* those of them with the committed flag
    commits,        \* commits of DagState: a sequence of sets of blocks
    linearizing,    \* handle_commit is at work on the next leader
    buffer, to_commit,  \* of linearize_sub_dag
    stored_blocks, stored_commits,
    restarts

dagVars == <<accepted, recent_blocks, commits>>
loopVars == <<linearizing, buffer, to_commit>>
storeVars == <<stored_blocks, stored_commits, restarts>>
vars == <<dagVars, committed, loopVars, storeVars>>

calculate_gc_round(r) == IF r > GcDepth THEN r - GcDepth ELSE 0

\* The GC round of DagState after n commits.
GcRoundAfter(n) == IF n = 0 THEN 0 ELSE calculate_gc_round(Round[Leaders[n]])

gc_round == GcRoundAfter(Len(commits))
AboveGc(S) == {b \in S : Round[b] > gc_round}

TypeOK ==
    /\ accepted \subseteq Blocks /\ recent_blocks \subseteq accepted
    /\ committed \subseteq recent_blocks
    /\ commits \in Seq(SUBSET Blocks) /\ Len(commits) <= Len(Leaders)
    /\ linearizing \in BOOLEAN
    /\ linearizing => Len(commits) < Len(Leaders)
    /\ buffer \subseteq accepted /\ to_commit \subseteq accepted
    /\ stored_blocks \subseteq accepted
    /\ stored_commits \in Seq(SUBSET Blocks) /\ Len(stored_commits) <= Len(commits)
    /\ restarts \in 0 .. MaxRestarts

Init ==
    /\ accepted = {} /\ recent_blocks = {} /\ committed = {} /\ commits = <<>>
    /\ linearizing = FALSE /\ buffer = {} /\ to_commit = {}
    /\ stored_blocks = {} /\ stored_commits = <<>> /\ restarts = 0

\* A block is accepted once its ancestors above the GC round are (module BlockManager).
AcceptBlock(b) ==
    /\ ~linearizing
    /\ b \in AboveGc(Blocks) \ accepted
    /\ AboveGc(Ancestors[b]) \subseteq accepted
    /\ accepted' = accepted \cup {b} /\ recent_blocks' = recent_blocks \cup {b}
    /\ UNCHANGED <<committed, commits, loopVars, storeVars>>

NextLeader == Leaders[Len(commits) + 1]

\* linearize_sub_dag is called for the next leader.
StartLinearize ==
    /\ ~linearizing /\ linearizing' = TRUE
    /\ Len(commits) < Len(Leaders) /\ NextLeader \in accepted
    /\ committed' = committed \cup {NextLeader}
    /\ buffer' = {NextLeader} /\ to_commit' = {}
    /\ UNCHANGED <<dagVars, storeVars>>

\* Faulty variant of UncommittedAncestors: blocks of the first round above the GC round
\* are left out.
UncommittedAncestors_OffByOne(x) ==
    {a \in AboveGc(Ancestors[x]) : a \notin committed /\ Round[a] > gc_round + 1}

UncommittedAncestors(x) == AboveGc(Ancestors[x]) \ committed

\* An iteration of the loop of linearize_sub_dag.
LinearizeBlock(x) ==
    /\ linearizing /\ x \in buffer
    /\ to_commit' = to_commit \cup {x}
    /\ committed' = committed \cup UncommittedAncestors(x)
    /\ buffer' = (buffer \ {x}) \cup UncommittedAncestors(x)
    /\ UNCHANGED <<dagVars, linearizing, storeVars>>

\* The commit is made of the sub-dag and added to DagState: the GC round moves.
AddCommit ==
    /\ linearizing /\ buffer = {} /\ linearizing' = FALSE
    /\ commits' = Append(commits, to_commit)
    /\ to_commit' = {}
    /\ UNCHANGED <<accepted, recent_blocks, committed, buffer, storeVars>>

\* Of the cached blocks S, block b is at or below the eviction round of its author: the GC
\* round, or CachedRounds below the last block of the author when that is less.
Evicted(b, S, gc) ==
    /\ Round[b] <= gc
    /\ \E c \in S : Author[c] = Author[b] /\ Round[b] + CachedRounds <= Round[c]

Cached(S, gc) == {b \in S : ~Evicted(b, S, gc)}

\* DagState::flush, by the core thread or another task: never inside linearize_sub_dag,
\* which holds the lock, but also between it and add_commit.
Flush ==
    /\ buffer = {}
    /\ stored_blocks' = accepted /\ stored_commits' = commits
    /\ recent_blocks' = Cached(recent_blocks, gc_round)
    /\ committed' = committed \cap recent_blocks'
    /\ UNCHANGED <<accepted, commits, loopVars, restarts>>

\* Faulty variant of RecoveredCommits: only the last commit is read.
RecoveredCommits_LastOnly(gc) == {Len(stored_commits)} \ {0}

\* The commits that DagState::new reads back, from the last one on: the loop stops at a
\* leader at or below the GC round.
RecoveredCommits(gc) ==
    {i \in 1 .. Len(stored_commits) :
        \A j \in i .. Len(stored_commits) : gc = 0 \/ Round[Leaders[j]] > gc}

\* The blocks that DagState::new sets as committed.
RecoveredFlags(gc) ==
    {b \in UNION {stored_commits[i] : i \in RecoveredCommits(gc)} : Round[b] > gc}

\* A crash, and DagState::new.
Restart ==
    LET gc == GcRoundAfter(Len(stored_commits)) IN
    /\ restarts < MaxRestarts /\ restarts' = restarts + 1
    /\ accepted' = stored_blocks /\ commits' = stored_commits
    /\ recent_blocks' = Cached(stored_blocks, gc)
    /\ committed' = RecoveredFlags(gc)
    /\ linearizing' = FALSE /\ buffer' = {} /\ to_commit' = {}
    /\ UNCHANGED <<stored_blocks, stored_commits>>

Next ==
    \/ \E b \in Blocks : AcceptBlock(b)
    \/ StartLinearize
    \/ \E x \in buffer : LinearizeBlock(x)
    \/ AddCommit \/ Flush \/ Restart

Spec == Init /\ [][Next]_vars

-----------------------------------------------------------------------------
\* The blocks of the first n commits of C.
CommittedBefore(C, n) == UNION {C[i] : i \in 1 .. n}

\* What the commits promise, without the loop and the flags: commit i has exactly the
\* blocks of the history of its leader that are above the GC round and in no earlier commit.
Exact(C) ==
    \A i \in 1 .. Len(C) :
        C[i] = {b \in Past[Leaders[i]] \cup {Leaders[i]} :
                   Round[b] > GcRoundAfter(i - 1) /\ b \notin CommittedBefore(C, i - 1)}

\* The commits of DagState and those of the store are as promised.  The promise only names
\* the leaders and the DAG, so all validators have the same commits, whenever they flushed,
\* evicted blocks or restarted, and no block is in two (linearize_sub_dag).
CommitsExact == Exact(commits) /\ Exact(stored_commits)

\* Between commits the flags of the cache say exactly which blocks above the GC round are
\* in a commit, and all such blocks are in the cache: the comment of is_committed ("Only
\* valid for blocks above the GC round"), also after flush and DagState::new.
FlagsExact ==
    ~linearizing =>
        /\ AboveGc(accepted) \subseteq recent_blocks
        /\ AboveGc(committed) = AboveGc(CommittedBefore(commits, Len(commits)))

\* The expects and assertions of linearize_sub_dag, set_committed and is_committed cannot
\* fail: the leader and all ancestors above the GC round are in the cache, the leader is not
\* committed yet, and only blocks above the GC round are collected.
NoPanic ==
    /\ linearizing => \A x \in buffer :
          AboveGc(Ancestors[x]) \subseteq recent_blocks /\ Round[x] > gc_round
    /\ ~linearizing /\ Len(commits) < Len(Leaders) /\ NextLeader \in accepted =>
          NextLeader \in recent_blocks \ committed

-----------------------------------------------------------------------------
\* The inductive invariant behind them.

\* Blocks S and commits C belong together: the commits are of blocks in S, and S has the
\* ancestors of its blocks above the GC round.
DagOf(S, C) ==
    /\ CommittedBefore(C, Len(C)) \subseteq S
    /\ \A b \in S : \A a \in Ancestors[b] : Round[a] > GcRoundAfter(Len(C)) => a \in S

\* The loop has collected and buffered a part of the history of the leader that is in no
\* commit and flagged, and has the ancestors of all it has collected.
LoopInv ==
    LET Taken == to_commit \cup buffer
        Done  == CommittedBefore(commits, Len(commits))
    IN /\ AboveGc(accepted) \subseteq recent_blocks
       /\ AboveGc(committed) = AboveGc(Done) \cup Taken
       /\ Taken \subseteq AboveGc(Past[NextLeader] \cup {NextLeader})
       /\ Taken \cap Done = {}
       /\ NextLeader \in Taken
       /\ \A x \in to_commit : AboveGc(Ancestors[x]) \subseteq Taken \cup Done

IInv ==
    /\ TypeOK
    /\ DagOf(accepted, commits) /\ DagOf(stored_blocks, stored_commits)
    /\ CommitsExact
    /\ FlagsExact
    /\ linearizing => LoopInv
    /\ ~linearizing => buffer = {} /\ to_commit = {}
=============================================================================
