---------------------------- MODULE BlockManager ----------------------------
(***************************************************************************)
(* The block manager of a consensus node (core/src/block_manager.rs) and   *)
(* the part of DagState it drives: which blocks are in the DAG and the     *)
(* garbage collection round.                                               *)
(*                                                                         *)
(* All operations run on the core thread, one at a time.  The loops of     *)
(* try_accept_blocks_internal, try_unsuspend_children_blocks and           *)
(* try_unsuspend_blocks_for_latest_gc_round are unfolded: `phase' says     *)
(* which loop the core thread is in and one step is one iteration, so no   *)
(* other operation can start before the running one has returned.          *)
(*                                                                         *)
(* A batch given to try_accept_blocks is processed block by block with no  *)
(* state of its own, so it is a sequence of batches of one block; a batch  *)
(* of committed blocks is kept whole, because the GC round only moves once *)
(* all of it has been accepted.                                            *)
(***************************************************************************)
EXTENDS Naturals, FiniteSets

CONSTANTS
    Blocks,       \* block references, genesis blocks included
    Round,        \* Round[b]: the round of block b
    Ancestors,    \* Ancestors[b]: the ancestor references of block b
    GcDepth,      \* consensus_gc_depth of the protocol config
    CertifiedCommits \* pairs <<C, leader>> that commit sync may deliver

GENESIS_ROUND == 0

\* What SignedBlockVerifier::verify_block lets through: ancestors are of
\* lower rounds; only genesis blocks have none.
ASSUME BlocksAssumption ==
    /\ Round \in [Blocks -> Nat]
    /\ Ancestors \in [Blocks -> SUBSET Blocks]
    /\ \A b \in Blocks : \A a \in Ancestors[b] : Round[a] < Round[b]
    /\ GcDepth \in Nat
    /\ CertifiedCommits \subseteq (SUBSET Blocks) \X Blocks

Genesis == {b \in Blocks : Round[b] = GENESIS_ROUND}

VARIABLES
    dag,                \* blocks accepted into DagState (cache and store)
    last_commit_round,  \* DagState::last_commit_round()
    suspended_blocks,   \* suspended block -> its missing ancestors
    missing_ancestors,  \* missing block -> suspended blocks that reference it
    missing_blocks,     \* blocks to be fetched
    phase,              \* loop the core thread is in
    to_process,         \* to_process_blocks of try_unsuspend_children_blocks
    blocks_to_accept,   \* blocks to be accepted when that loop ends
    commit_blocks,      \* committed blocks still to be accepted
    commit_round        \* leader round of the commit being processed

dagVars    == <<dag, last_commit_round>>
bmVars     == <<suspended_blocks, missing_ancestors, missing_blocks>>
loopVars   == <<to_process, blocks_to_accept>>
commitVars == <<commit_blocks, commit_round>>
vars == <<dagVars, bmVars, phase, loopVars, commitVars>>

calculate_gc_round(r) == IF r > GcDepth THEN r - GcDepth ELSE 0

gc_round == calculate_gc_round(last_commit_round)

Phases == {"idle", "accept", "committed", "gc"}

TypeOK ==
    /\ dag \in SUBSET Blocks
    /\ last_commit_round \in Nat
    /\ gc_round \in Nat
    /\ suspended_blocks \in [DOMAIN suspended_blocks -> SUBSET Blocks]
    /\ DOMAIN suspended_blocks \in SUBSET Blocks
    /\ missing_ancestors \in [DOMAIN missing_ancestors -> SUBSET Blocks]
    /\ DOMAIN missing_ancestors \in SUBSET Blocks
    /\ missing_blocks \in SUBSET Blocks
    /\ phase \in Phases
    /\ to_process \in SUBSET Blocks
    /\ blocks_to_accept \in SUBSET Blocks
    /\ commit_blocks \in SUBSET Blocks
    /\ commit_round \in Nat

-----------------------------------------------------------------------------
\* Map updates.

Suspended == DOMAIN suspended_blocks
Missing   == DOMAIN missing_ancestors

Children(a) == IF a \in Missing THEN missing_ancestors[a] ELSE {}

Put(f, k, v) == [x \in DOMAIN f \cup {k} |-> IF x = k THEN v ELSE f[x]]

Remove(f, S) == [x \in DOMAIN f \ S |-> f[x]]

-----------------------------------------------------------------------------
Init ==
    /\ dag = Genesis
    /\ last_commit_round = 0
    /\ suspended_blocks = << >>
    /\ missing_ancestors = << >>
    /\ missing_blocks = {}
    /\ phase = "idle"
    /\ to_process = {}
    /\ blocks_to_accept = {}
    /\ commit_blocks = {}
    /\ commit_round = 0

\* Faulty variant of AncestorsNotFound: the first round above the GC round is
\* taken to be collected already.
AncestorsNotFound_OffByOne(b) ==
    {a \in Ancestors[b] : (Round[a] = GENESIS_ROUND \/ Round[a] > gc_round + 1) /\ a \notin dag}

\* The ancestors of b that try_accept_one_block looks for and does not find.
AncestorsNotFound(b) ==
    {a \in Ancestors[b] : (Round[a] = GENESIS_ROUND \/ Round[a] > gc_round) /\ a \notin dag}

\* Block b is neither suspended nor accepted, and above the GC round.
NeedsProcessing(b) ==
    /\ b \notin Suspended
    /\ b \notin dag
    /\ Round[b] > gc_round

\* Faulty variant of TrySuspend: the block stays listed as missing.
TrySuspend_StillMissing(b) ==
    /\ phase = "idle"
    /\ NeedsProcessing(b)
    /\ LET absent == AncestorsNotFound(b) IN
       /\ absent # {}
       /\ missing_ancestors' =
            [a \in Missing \cup absent |->
                IF a \in absent THEN Children(a) \cup {b} ELSE missing_ancestors[a]]
       /\ missing_blocks' = missing_blocks \cup (absent \ Suspended)
       /\ suspended_blocks' = Put(suspended_blocks, b, absent)
    /\ UNCHANGED <<dagVars, phase, loopVars, commitVars>>

\* try_accept_blocks with block b: some ancestor is missing.
TrySuspend(b) ==
    /\ phase = "idle"
    /\ NeedsProcessing(b)
    /\ LET absent == AncestorsNotFound(b) IN
       /\ absent # {}
       /\ missing_ancestors' =
            [a \in Missing \cup absent |->
                IF a \in absent THEN Children(a) \cup {b} ELSE missing_ancestors[a]]
       /\ missing_blocks' = (missing_blocks \cup (absent \ Suspended)) \ {b}
       /\ suspended_blocks' = Put(suspended_blocks, b, absent)
    /\ UNCHANGED <<dagVars, phase, loopVars, commitVars>>

\* try_accept_blocks with block b: every ancestor is in the DAG.  The block
\* is accepted together with the blocks that it unsuspends.
TryAccept(b) ==
    /\ phase = "idle"
    /\ NeedsProcessing(b)
    /\ AncestorsNotFound(b) = {}
    /\ missing_blocks' = missing_blocks \ {b}
    /\ phase' = "accept"
    /\ to_process' = {b}
    /\ blocks_to_accept' = {b}
    /\ UNCHANGED <<dagVars, suspended_blocks, missing_ancestors, commitVars>>

\* try_accept_blocks with a block that is Processed or Skipped.
TryIgnore(b) ==
    /\ phase = "idle"
    /\ ~NeedsProcessing(b)
    /\ UNCHANGED vars

\* Core::check_block_refs, with one reference the node has not got.
TryFindBlock(b) ==
    /\ phase = "idle"
    /\ NeedsProcessing(b)
    /\ b \notin missing_blocks
    /\ missing_blocks' = missing_blocks \cup {b}
    /\ missing_ancestors' = Put(missing_ancestors, b, Children(b))
    /\ UNCHANGED <<dagVars, suspended_blocks, phase, loopVars, commitVars>>

-----------------------------------------------------------------------------
\* Faulty variant of UnsuspendChildren: the children of an unsuspended block
\* are not visited.
UnsuspendChildren_NoCascade(r) ==
    LET touched == Children(r)
        freed   == {c \in touched : suspended_blocks[c] = {r}}
    IN
    /\ r \in to_process
    /\ missing_ancestors' = Remove(missing_ancestors, {r})
    /\ suspended_blocks' =
        [c \in Suspended \ freed |->
            IF c \in touched THEN suspended_blocks[c] \ {r} ELSE suspended_blocks[c]]
    /\ to_process' = {}
    /\ dag' = dag \cup blocks_to_accept \cup freed
    /\ blocks_to_accept' = {}
    /\ phase' = IF phase = "accept" THEN "idle" ELSE phase
    /\ UNCHANGED <<last_commit_round, missing_blocks, commitVars>>

\* One iteration of the loop of try_unsuspend_children_blocks, with `r' popped
\* from to_process_blocks.  After the last one the collected blocks are given
\* to DagState::accept_blocks and the enclosing loop goes on.
UnsuspendChildren(r) ==
    LET touched == Children(r)
        freed   == {c \in touched : suspended_blocks[c] = {r}}
        left    == (to_process \ {r}) \cup freed
        accept  == blocks_to_accept \cup freed
    IN
    /\ r \in to_process
    /\ missing_ancestors' = Remove(missing_ancestors, {r})
    /\ suspended_blocks' =
        [c \in Suspended \ freed |->
            IF c \in touched THEN suspended_blocks[c] \ {r} ELSE suspended_blocks[c]]
    /\ to_process' = left
    /\ IF left = {}
       THEN /\ dag' = dag \cup accept
            /\ blocks_to_accept' = {}
            /\ phase' = IF phase = "accept" THEN "idle" ELSE phase
       ELSE /\ blocks_to_accept' = accept
            /\ UNCHANGED <<dag, phase>>
    /\ UNCHANGED <<last_commit_round, missing_blocks, commitVars>>

-----------------------------------------------------------------------------
\* What makes a batch of certified commits acceptable: the blocks of a commit
\* are the uncommitted causal history of its leader above the GC round
\* (Linearizer::linearize_sub_dag run by the committing quorum).
CompleteCommit(C, leader) ==
    /\ leader \in IF C = {} THEN dag ELSE C
    /\ Round[leader] > last_commit_round
    /\ \A b \in C : /\ Round[b] > gc_round
                    /\ Round[b] <= Round[leader]
                    /\ \A a \in Ancestors[b] :
                          Round[a] > calculate_gc_round(Round[leader]) => a \in dag \cup C

\* Core::try_commit with the leader `leader': of a certified commit with the
\* blocks C, or decided locally when C is empty.
StartCommit(C, leader) ==
    /\ phase = "idle"
    /\ CompleteCommit(C, leader)
    /\ phase' = "committed"
    /\ commit_blocks' = C
    /\ commit_round' = Round[leader]
    /\ UNCHANGED <<dagVars, bmVars, loopVars>>

\* Committed blocks are taken in round order.
NextCommitted(b) ==
    /\ phase = "committed"
    /\ to_process = {}
    /\ b \in commit_blocks
    /\ \A c \in commit_blocks : Round[b] <= Round[c]

\* try_accept_one_committed_block: Processed.
CommittedProcessed(b) ==
    /\ NextCommitted(b)
    /\ b \in dag
    /\ commit_blocks' = commit_blocks \ {b}
    /\ UNCHANGED <<dagVars, bmVars, phase, loopVars, commit_round>>

\* Faulty variant of CommittedAccepted: the block leaves suspended_blocks but
\* its missing ancestors keep pointing at it.
CommittedAccepted_StaleIndex(b) ==
    /\ NextCommitted(b)
    /\ b \notin dag
    /\ missing_blocks' = missing_blocks \ {b}
    /\ suspended_blocks' = Remove(suspended_blocks, {b})
    /\ dag' = dag \cup {b}
    /\ to_process' = {b}
    /\ commit_blocks' = commit_blocks \ {b}
    /\ UNCHANGED <<missing_ancestors, last_commit_round, phase, blocks_to_accept,
                   commit_round>>

\* try_accept_one_committed_block: Accepted, with the block taken out of the
\* suspended blocks first.
CommittedAccepted(b) ==
    /\ NextCommitted(b)
    /\ b \notin dag
    /\ missing_blocks' = missing_blocks \ {b}
    /\ suspended_blocks' = Remove(suspended_blocks, {b})
    /\ missing_ancestors' =
        [a \in Missing |->
            IF b \in Suspended /\ a \in suspended_blocks[b]
            THEN missing_ancestors[a] \ {b} ELSE missing_ancestors[a]]
    /\ dag' = dag \cup {b}
    /\ to_process' = {b}
    /\ commit_blocks' = commit_blocks \ {b}
    /\ UNCHANGED <<last_commit_round, phase, blocks_to_accept, commit_round>>

\* Faulty variant of HandleCommit: the core thread does not go on to
\* try_unsuspend_blocks_for_latest_gc_round.
HandleCommit_NoGc ==
    /\ phase = "committed"
    /\ to_process = {}
    /\ commit_blocks = {}
    /\ last_commit_round' = commit_round
    /\ phase' = "idle"
    /\ UNCHANGED <<dag, bmVars, loopVars, commitVars>>

\* CommitObserver::handle_commit: the commit is added to DagState, the GC
\* round moves and Core calls try_unsuspend_blocks_for_latest_gc_round.
HandleCommit ==
    /\ phase = "committed"
    /\ to_process = {}
    /\ commit_blocks = {}
    /\ last_commit_round' = commit_round
    /\ phase' = "gc"
    /\ UNCHANGED <<dag, bmVars, loopVars, commitVars>>

\* One iteration of try_unsuspend_blocks_for_latest_gc_round on `r', a first
\* key of missing_ancestors.
GcMissing(r) ==
    /\ phase = "gc"
    /\ to_process = {}
    /\ r \in Missing
    /\ \A a \in Missing : Round[r] <= Round[a]
    /\ Round[r] <= gc_round
    /\ missing_blocks' = missing_blocks \ {r}
    /\ to_process' = {r}
    /\ UNCHANGED <<dagVars, suspended_blocks, missing_ancestors, phase,
                   blocks_to_accept, commitVars>>

\* The loop ends when every missing block is above the GC round.
GcDone ==
    /\ phase = "gc"
    /\ to_process = {}
    /\ \A a \in Missing : Round[a] > gc_round
    /\ phase' = "idle"
    /\ UNCHANGED <<dagVars, bmVars, loopVars, commitVars>>

Loop ==
    \/ \E b \in Blocks : \/ UnsuspendChildren(b)
                         \/ CommittedProcessed(b)
                         \/ CommittedAccepted(b)
                         \/ GcMissing(b)
    \/ HandleCommit
    \/ GcDone

Commit ==
    \/ \E leader \in Blocks : StartCommit({}, leader)
    \/ \E cc \in CertifiedCommits : StartCommit(cc[1], cc[2])

Next ==
    \/ \E b \in Blocks : TrySuspend(b) \/ TryAccept(b) \/ TryIgnore(b) \/ TryFindBlock(b)
    \/ Commit
    \/ Loop

Spec == Init /\ [][Next]_vars

\* The core thread finishes the operation it is in, and the synchronizer keeps
\* asking peers for missing_blocks() until the block arrives.
FetchMissing(b) == b \in missing_blocks /\ (TrySuspend(b) \/ TryAccept(b))

Fairness ==
    /\ WF_vars(Loop)
    /\ \A b \in Blocks : SF_vars(FetchMissing(b))

FairSpec == Spec /\ Fairness

-----------------------------------------------------------------------------
\* Safety.

\* The expect and the two assertions of try_unsuspend_block and of
\* try_unsuspend_blocks_for_latest_gc_round never fail: whatever is about to
\* be unsuspended is a suspended block that waits for exactly that reference,
\* and a reference that is garbage collected is not itself suspended.
NoPanic ==
    /\ \A r \in to_process : \A c \in Children(r) :
          c \in Suspended /\ r \in suspended_blocks[c]
    /\ \A r \in Missing :
          (phase = "gc" /\ to_process = {} /\ Round[r] <= gc_round
             /\ \A a \in Missing : Round[r] <= Round[a]) => r \notin Suspended

\* The field comment of missing_blocks: it holds the keys of missing_ancestors
\* that are not keys of suspended_blocks, whenever no operation is running.
MissingBlocksExact ==
    phase = "idle" => missing_blocks = Missing \ Suspended

\* Between operations the two maps are inverse to each other, a suspended
\* block waits for something, and it waits only for blocks outside the DAG:
\* no suspended block is forgotten when its last ancestor arrives.
SuspensionIndex ==
    phase = "idle" =>
        /\ \A c \in Suspended :
              /\ suspended_blocks[c] # {}
              /\ \A a \in suspended_blocks[c] : a \in Missing /\ c \in missing_ancestors[a]
        /\ \A a \in Missing :
              /\ a \notin dag
              /\ \A c \in missing_ancestors[a] : c \in Suspended /\ a \in suspended_blocks[c]

\* What the committer and the linearizer rely on when they read the DAG after
\* an operation: every ancestor above the GC round of a block in the DAG is in
\* the DAG, also after certified commits were accepted ahead of their history.
CausallyComplete ==
    phase = "idle" =>
        \A b \in dag : \A a \in Ancestors[b] : Round[a] > gc_round => a \in dag

\* The synchronizer is never asked for a block that try_accept_one_block would
\* skip or ignore.
NoUselessFetch ==
    phase = "idle" =>
        \A b \in missing_blocks : Round[b] > gc_round /\ b \notin dag

\* No step puts a block into the DAG before its ancestors above the GC round,
\* unless a commit vouches for it.
AcceptedAfterAncestors ==
    [][\A b \in dag' \ dag : b \notin commit_blocks =>
          \A a \in Ancestors[b] : Round[a] > gc_round => a \in dag']_vars

-----------------------------------------------------------------------------
\* The inductive invariant behind the safety properties: what they say, in
\* every phase instead of between operations.

\* The two maps are inverse to each other.
Index ==
    /\ \A c \in Suspended :
          /\ suspended_blocks[c] # {}
          /\ \A a \in suspended_blocks[c] :
                a \in Ancestors[c] /\ a \in Missing /\ c \in missing_ancestors[a]
    /\ \A a \in Missing : \A c \in missing_ancestors[a] :
          c \in Suspended /\ a \in suspended_blocks[c]

\* Accepted, suspended, missing and being processed are consistent.
Status ==
    /\ Genesis \subseteq dag
    /\ missing_blocks = (Missing \ Suspended) \ to_process
    /\ Missing \cap (dag \cup blocks_to_accept) \subseteq to_process
    /\ Suspended \cap (dag \cup blocks_to_accept \cup to_process) = {}

\* Which loop variables are in use in which phase.
Phase ==
    /\ to_process = {} => blocks_to_accept = {}
    /\ phase = "idle" => to_process = {}
    /\ phase = "accept" => to_process # {}
    /\ phase # "committed" => commit_blocks = {}
    /\ phase = "committed" => commit_round > last_commit_round

\* The GC round that will be in force when the running operation returns.
gc_round_at_end ==
    IF phase = "committed" THEN calculate_gc_round(commit_round) ELSE gc_round

\* The history of a suspended block is in the DAG, about to be, or waited for;
\* that of an accepted block is in the DAG or about to be.
History ==
    /\ \A r \in to_process : Round[r] > gc_round => r \in dag \cup blocks_to_accept
    /\ \A c \in Suspended : \A a \in Ancestors[c] :
          Round[a] > gc_round => a \in dag \cup blocks_to_accept \cup suspended_blocks[c]
    /\ \A b \in blocks_to_accept : \A a \in Ancestors[b] :
          Round[a] > gc_round => a \in dag \cup blocks_to_accept
    /\ \A b \in dag \cup commit_blocks : \A a \in Ancestors[b] :
          Round[a] > gc_round_at_end => a \in dag \cup blocks_to_accept \cup commit_blocks

\* Nothing at or below the GC round is waited for, except while it is collected.
AboveGc ==
    /\ phase # "gc" => \A a \in Missing : Round[a] > gc_round
    /\ \A b \in commit_blocks : Round[b] > gc_round

IInv == TypeOK /\ Index /\ Status /\ Phase /\ History /\ AboveGc

-----------------------------------------------------------------------------
\* Liveness.

\* A suspended block does not stay suspended for ever: its ancestors arrive, or
\* fall below the GC round, and the block is accepted.
SuspendedAccepted ==
    \A b \in Blocks : (b \in Suspended) ~> (b \in dag)
=============================================================================
