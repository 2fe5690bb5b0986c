--------------------------- MODULE CommitFinalizer ---------------------------
(***************************************************************************)
(* How a validator decides which transactions of a commit are executed:    *)
(* TransactionVoteTracker (core/src/transaction_vote_tracker.rs) collects  *)
(* the reject votes of the blocks that arrive, and CommitFinalizer         *)
(* (core/src/commit_finalizer.rs) finalizes or rejects every transaction   *)
(* of a commit, directly from the tracker or indirectly from the votes in  *)
(* later commits.                                                          *)
(*                                                                         *)
(* One transaction is followed, in block `target'; all other blocks are    *)
(* empty.  One validator is modelled: it makes the commits of the DAG in   *)
(* order, each with its own blocks or through commit sync, and restarts.   *)
(* What the others decide is a function of the DAG (Rejected below), so    *)
(* that two validators agree when each agrees with it.                     *)
(***************************************************************************)
EXTENDS CommittedDag, SequencesExt

CONSTANTS
    Worlds,      \* DAGs with the target, the authorities against it, those that are fast
                 \* to commit, and the blocks of faulty authorities that reject it
    Deliveries,  \* sets of blocks that arrive together, with their history
    MaxInbox,    \* bound: commits in the channel to CommitFinalizer
    MaxCrashes   \* bound: restarts

VARIABLES
    graph, target, rejects,   \* the world,
    leaders, sub_dags,        \*   and what is committed in it
    accepted,                 \* blocks in DagState
    last_commit_index,
    tracked,                  \* VoteTrackerState: blocks received,
    reject_txn_votes,         \*   authorities that reject the transaction of target,
    tracker_gc_round,         \*   gc_round
    inbox,                    \* channel to CommitFinalizer
    pending_commits,
    blocks,                   \* CommitFinalizer::blocks
    outcome,                  \* result sent for each commit: rejected transactions
    stored_blocks, stored_commits, stored_finalized,
    recover_next,             \* next commit to recover, 0 when recovery is over
    panicked,                 \* an expect or an assertion failed
    crashes

world == <<graph, target, rejects, leaders, sub_dags>>
tracker == <<tracked, reject_txn_votes, tracker_gc_round>>
finalizer == <<pending_commits, blocks, outcome>>
store == <<stored_blocks, stored_commits, stored_finalized>>
vars == <<world, accepted, last_commit_index, tracker, inbox, finalizer, store,
          recover_next, panicked, crashes>>

INDIRECT_REJECT_DEPTH == 3
DEFAULT_WAVE_LENGTH == 3

\* Round and GC round of the leader of commit k, 0 for no commit.
LeaderRoundAt(k) == IF k = 0 THEN 0 ELSE Round(leaders[k])
GcRoundAt(k) == calculate_gc_round(LeaderRoundAt(k))

LeaderRoundOf(c) == LeaderRoundAt(c.index)
gc_round == GcRoundAt(last_commit_index)

\* CommitFinalizer::blocks: its keys, and the two sets of each BlockState as relations.
NoBlocks == [keys |-> {}, children |-> {}, origin_descendants |-> {}]

Init ==
    /\ \E w \in Worlds :
          /\ graph = w.graph /\ target = w.target
          /\ leaders = Leaders[graph] /\ sub_dags = SubDags[graph]
          /\ rejects = RejectVotes(graph, target, w.against, w.fast) \cup w.faulty
    /\ accepted = {} /\ last_commit_index = 0
    /\ tracked = {} /\ reject_txn_votes = {} /\ tracker_gc_round = 0
    /\ inbox = <<>> /\ pending_commits = <<>> /\ blocks = NoBlocks
    /\ outcome = <<>>
    /\ stored_blocks = {} /\ stored_commits = 0 /\ stored_finalized = <<>>
    /\ recover_next = 0 /\ panicked = FALSE /\ crashes = 0

-----------------------------------------------------------------------------
(* TransactionVoteTracker.                                                 *)

add_voted_blocks(S) ==
    LET new == {b \in S : Round(b) > tracker_gc_round} \ tracked
    IN  /\ tracked' = tracked \cup new
        /\ reject_txn_votes' = IF Round(target) > tracker_gc_round
                               THEN reject_txn_votes \cup AuthorsOf(new \cap rejects)
                               ELSE reject_txn_votes
        /\ UNCHANGED tracker_gc_round

\* Whether get_reject_votes finds an entry for the block.
HasVoteInfo(b) == b \in tracked \/ (b = target /\ reject_txn_votes # {})

update_gc_round(round) ==
    /\ tracker_gc_round' = round
    /\ tracked' = {b \in tracked : Round(b) > round}
    /\ reject_txn_votes' = IF Round(target) <= round THEN {} ELSE reject_txn_votes

-----------------------------------------------------------------------------
(* Blocks arrive and commits are made.                                     *)

Running == recover_next = 0 /\ ~panicked

\* Blocks F arrive and the missing ancestors above the GC round are fetched.  Verified
\* blocks go to the tracker, and to DagState above the GC round.
ReceiveBlocks(F) ==
    LET history == UNION {Past[graph][b] : b \in F}
        S == (F \cup {b \in history : Round(b) > gc_round}) \ accepted
    IN  /\ Running /\ ~ F \subseteq accepted
        /\ add_voted_blocks(S)
        /\ accepted' = accepted \cup {b \in S : Round(b) > gc_round}
        /\ UNCHANGED <<world, last_commit_index, inbox, finalizer, store, recover_next,
                       panicked, crashes>>

NextCommit == last_commit_index + 1

\* The commit rule decides the next leader, and skips the slots before it, with the
\* blocks of this node.
DecidedWithLocalBlocks ==
    LET decided == try_decide(graph, accepted, Leader)
        round   == LeaderRoundAt(NextCommit)
    IN  /\ decided[round] = leaders[NextCommit]
        /\ \A r \in (LeaderRoundAt(last_commit_index) + 1)..(round - 1) : decided[r] = Skip

CommitOf(k, local) ==
    [index |-> k, decided_with_local_blocks |-> local, recovered |-> FALSE]

LocalCommit ==
    /\ Running /\ NextCommit \in DOMAIN leaders /\ Len(inbox) < MaxInbox /\ DecidedWithLocalBlocks
    /\ last_commit_index' = NextCommit
    /\ inbox' = Append(inbox, CommitOf(NextCommit, TRUE))
    /\ UNCHANGED <<world, accepted, tracker, finalizer, store, recover_next, panicked, crashes>>

\* A certified commit: commit sync gives its blocks to the tracker, Core accepts them.
SyncedCommit ==
    /\ Running /\ NextCommit \in DOMAIN leaders /\ Len(inbox) < MaxInbox
    /\ add_voted_blocks(sub_dags[NextCommit])
    /\ accepted' = accepted \cup sub_dags[NextCommit]
    /\ last_commit_index' = NextCommit
    /\ inbox' = Append(inbox, CommitOf(NextCommit, FALSE))
    /\ UNCHANGED <<world, finalizer, store, recover_next, panicked, crashes>>

-----------------------------------------------------------------------------
(* CommitFinalizer::process_commit, on the state of one pending commit ... *)

BlocksOf(c) == sub_dags[c.index]

CommitState(m) ==
    [index |-> m.index, decided_with_local_blocks |-> m.decided_with_local_blocks,
     pending_blocks |-> BlocksOf(m),
     pending_transactions |-> {}, rejected_transactions |-> {}]

\* A mutant: votes are not expected to be garbage collected.
OutsideVoteGc_Never(c) == {}

\* Blocks with transactions that the blocks certifying the leader may not vote on.
OutsideVoteGc(c) ==
    {b \in c.pending_blocks \cap {target} :
        Round(b) <= calculate_gc_round(LeaderRoundOf(c) + INDIRECT_REJECT_DEPTH)}

try_direct_finalize_commit(c) ==
    LET votedOn == (c.pending_blocks \cap {target}) \ OutsideVoteGc(c)
    IN  [c EXCEPT
          !.pending_blocks = {},
          !.pending_transactions = OutsideVoteGc(c)
              \cup (IF reject_txn_votes # {} /\ ~IsQuorum(reject_txn_votes) THEN votedOn ELSE {}),
          !.rejected_transactions = IF IsQuorum(reject_txn_votes) THEN votedOn ELSE {}]

\* The lookups of try_direct_finalize_commit.
DirectLookups(c) == c.pending_blocks \ OutsideVoteGc(c)

\* A mutant: certified commits are finalized like the ones decided locally.
NotYetCertified_Never(p, c) == FALSE

\* The certificates of a certified commit's leader may not be here yet.
NotYetCertified(p, c) ==
    /\ ~c.decided_with_local_blocks
    /\ LeaderRoundOf(c) + DEFAULT_WAVE_LENGTH > LeaderRoundOf(Last(p))

\* The loop over the pending commits, from commit i, up to the first that is not
\* certified.
RECURSIVE DirectPass(_, _)
DirectPass(p, i) ==
    IF i > Len(p) THEN p
    ELSE IF p[i].pending_blocks = {} THEN DirectPass(p, i + 1)
    ELSE IF NotYetCertified(p, p[i]) THEN p
    ELSE DirectPass([p EXCEPT ![i] = try_direct_finalize_commit(p[i])], i + 1)

IsFinalized(c) == c.pending_blocks = {} /\ c.pending_transactions = {}

\* How many commits pop_finalized_commits takes.
Finalizable(p) ==
    Max({n \in 0..Len(p) : \A i \in 1..n : IsFinalized(p[i])})

(* ... and on the blocks of the pending commits.                           *)

Pairs(R, S) == {e \in R : e[1] \in S}

\* Blocks of the map without those of the first n commits.
CleanedUp(bl, p, n) ==
    LET keys == bl.keys \ UNION {BlocksOf(p[i]) : i \in 1..n}
    IN  [keys |-> keys, children |-> Pairs(bl.children, keys),
         origin_descendants |-> Pairs(bl.origin_descendants, keys)]

\* Blocks of S on the chain of v's own ancestors, up to the first that is not in S.
RECURSIVE OriginAncestors(_, _)
OriginAncestors(S, v) ==
    LET own == {a \in Ancestors[graph][v] \cap S : Author(a) = Author(v)}
    IN  own \cup UNION {OriginAncestors(S, a) : a \in own}

\* link_blocks_in_last_commit and append_origin_descendants_from_last_commit.
LinkLastCommit(bl, c) ==
    LET keys == bl.keys \cup BlocksOf(c)
        Linked(From(_)) == UNION {{<<a, v>> : a \in From(v)} : v \in BlocksOf(c)}
    IN  [keys |-> keys,
         children |-> bl.children \cup Linked(LAMBDA v : Ancestors[graph][v] \cap keys),
         origin_descendants |->
             bl.origin_descendants \cup Linked(LAMBDA v : OriginAncestors(keys, v))]

CommitIndexOf(b) == CHOOSE k \in DOMAIN leaders : b \in sub_dags[k]

\* A mutant: votes are never garbage collected at the voter.
gced_transaction_votes_for_pending_block_Never(voter) == FALSE

\* Whether the proposer of the voter may have garbage collected the target: the GC round
\* of the commit before the one that has the voter.
gced_transaction_votes_for_pending_block(voter) ==
    /\ CommitIndexOf(voter) # CommitIndexOf(target)
    /\ Round(target) <= GcRoundAt(CommitIndexOf(voter) - 1)

Children(bl, b) == {v \in bl.keys : <<b, v>> \in bl.children}
OriginDescendants(bl, b) == {v \in bl.keys : <<b, v>> \in bl.origin_descendants}

\* One iteration of the traversal, which takes the blocks to visit in their order.
Visit(bl, st, b) ==
    LET gced    == gced_transaction_votes_for_pending_block(b)
        further == st.to_visit \cup Children(bl, b)
    IN  IF b \notin st.to_visit THEN st
        ELSE IF b \in st.ignored THEN [st EXCEPT !.to_visit = further]
        ELSE [to_visit |-> IF gced THEN st.to_visit ELSE further,
              ignored  |-> st.ignored \cup {b} \cup OriginDescendants(bl, b),
              counted  |-> IF gced THEN st.counted ELSE st.counted \cup {b}]

RECURSIVE VisitFrom(_, _, _)
VisitFrom(bl, st, b) ==
    IF b \notin Blocks THEN st ELSE VisitFrom(bl, Visit(bl, st, b), b + 1)

\* Blocks whose votes on the target count.
CountedBlocks(bl) ==
    VisitFrom(bl, [to_visit |-> Children(bl, target), ignored |-> {}, counted |-> {}],
              target + 1).counted

\* try_indirect_finalize_pending_transactions_in_block: the votes of the counted blocks
\* that do not reject the transaction reach a quorum.
IndirectlyFinalized(bl) == IsQuorum(AuthorsOf(CountedBlocks(bl) \ rejects))

\* A mutant: pending transactions are rejected one round later.
DeepEnough_Late(p) ==
    LeaderRoundOf(Head(p)) + INDIRECT_REJECT_DEPTH + 1 <= LeaderRoundOf(Last(p))

DeepEnough(p) == LeaderRoundOf(Head(p)) + INDIRECT_REJECT_DEPTH <= LeaderRoundOf(Last(p))

\* try_indirect_finalize_first_commit: rejected by a quorum of votes, else finalized by
\* a quorum, else rejected when the last commit is deep enough.
TryIndirectFinalize(p, bl) ==
    LET c == Head(p)
    IN  IF c.pending_transactions = {} THEN c
        ELSE IF IsQuorum(reject_txn_votes)
        THEN [c EXCEPT !.pending_transactions = {}, !.rejected_transactions = {target}]
        ELSE IF IndirectlyFinalized(bl) THEN [c EXCEPT !.pending_transactions = {}]
        ELSE IF DeepEnough(p)
        THEN [c EXCEPT !.pending_transactions = {}, !.rejected_transactions = {target}]
        ELSE c

\* The loop over the first pending commit; the last one stays.
RECURSIVE IndirectPass(_, _, _)
IndirectPass(p, bl, done) ==
    IF Len(p) <= 1 \/ Head(p).pending_blocks # {} THEN <<p, bl, done>>
    ELSE LET q == <<TryIndirectFinalize(p, bl)>> \o Tail(p)
             n == Finalizable(q)
         IN  IF n = 0 THEN <<q, bl, done>>
             ELSE IndirectPass(SubSeq(q, n + 1, Len(q)), CleanedUp(bl, q, n),
                               done \o SubSeq(q, 1, n))

\* <<pending commits, blocks, finalized commits>> after process_commit.
process_commit(m) ==
    LET p == DirectPass(Append(pending_commits, CommitState(m)), 1)
        n == Finalizable(p)
        q == SubSeq(p, n + 1, Len(p))
        bl == CleanedUp(blocks, p, n)
    IN  IF q = <<>> THEN <<q, bl, p>>
        ELSE IndirectPass(q, LinkLastCommit(bl, Last(q)), SubSeq(p, 1, n))

\* The blocks whose votes process_commit looks up, now or for a transaction that stays
\* pending, and panics without.
Lookups(m) ==
    LET p == Append(pending_commits, CommitState(m))
        q == DirectPass(p, 1)
    IN  UNION {DirectLookups(p[i]) : i \in {j \in DOMAIN p : q[j].pending_blocks = {}}}
        \cup UNION {q[i].pending_transactions : i \in DOMAIN q}

-----------------------------------------------------------------------------
(* CommitFinalizer::run.                                                   *)

Results(done) == [i \in DOMAIN done |-> done[i].rejected_transactions]

\* Finalized commits go to the consumer, who has seen those up to `first - 1`.
Send(first, results) ==
    outcome' = [k \in DOMAIN outcome \cup (first..(first + Len(results) - 1)) |->
                   IF k >= first /\ k < first + Len(results) THEN results[k - first + 1]
                   ELSE outcome[k]]

flush(finalized) ==
    /\ stored_blocks' = stored_blocks \cup accepted
    /\ stored_commits' = last_commit_index
    /\ stored_finalized' = finalized

\* A mutant: the tracker is cleaned up to the GC round of DagState.
try_update_gc_round_Latest(k) == update_gc_round(gc_round)

try_update_gc_round(k) == update_gc_round(GcRoundAt(k))

\* An iteration of the loop: a commit that was finalized before a restart is passed on,
\* another one is processed with the commits that wait before it.
ProcessCommit ==
    LET m      == Head(inbox)
        result == process_commit(m)
        done   == IF m.recovered THEN <<>> ELSE result[3]
        last   == IF m.recovered THEN m.index ELSE Last(done).index
        ok     == m.recovered \/ \A b \in Lookups(m) : HasVoteInfo(b)
        none   == ~m.recovered /\ done = <<>>
    IN  /\ inbox # <<>> /\ ~panicked
        /\ inbox' = Tail(inbox)
        /\ IF m.recovered THEN UNCHANGED <<pending_commits, blocks>>
           ELSE pending_commits' = result[1] /\ blocks' = result[2]
        /\ panicked' = ~(ok /\ (none \/ GcRoundAt(last) <= gc_round))
        /\ IF none THEN UNCHANGED <<tracker, store, outcome>>
           ELSE /\ try_update_gc_round(last)
                /\ flush(stored_finalized \o Results(done))
                /\ IF m.recovered THEN Send(m.index, <<stored_finalized[m.index]>>)
                   ELSE Send(done[1].index, Results(done))
        /\ UNCHANGED <<world, accepted, last_commit_index, recover_next, crashes>>

\* A flush by the proposer.
Flush ==
    /\ Running
    /\ flush(stored_finalized)
    /\ UNCHANGED <<world, accepted, last_commit_index, tracker, inbox, finalizer,
                   recover_next, panicked, crashes>>

-----------------------------------------------------------------------------
(* Restart.                                                                *)

\* The consumer asks for the commits after one it has been sent.
Restart(replay_after_commit_index) ==
    /\ ~panicked /\ crashes < MaxCrashes
    /\ crashes' = crashes + 1
    /\ accepted' = stored_blocks
    /\ last_commit_index' = stored_commits
    /\ tracked' = {} /\ reject_txn_votes' = {} /\ tracker_gc_round' = 0
    /\ inbox' = <<>> /\ pending_commits' = <<>> /\ blocks' = NoBlocks
    /\ recover_next' = replay_after_commit_index + 1
    /\ UNCHANGED <<world, outcome, store, panicked>>

\* A mutant: the blocks of unfinalized commits do not go to the tracker.
RecoverCommit_NoVotes ==
    /\ recover_next # 0 /\ recover_next <= last_commit_index /\ ~panicked
    /\ inbox' = Append(inbox,
          [CommitOf(recover_next, FALSE) EXCEPT
             !.recovered = recover_next <= Len(stored_finalized)])
    /\ recover_next' = recover_next + 1
    /\ UNCHANGED <<world, accepted, last_commit_index, tracker, finalizer, store, panicked, crashes>>

\* A mutant: an unfinalized commit is taken for one decided with local blocks.
RecoverCommit_Local ==
    /\ recover_next # 0 /\ recover_next <= last_commit_index /\ ~panicked
    /\ inbox' = Append(inbox,
          [CommitOf(recover_next, TRUE) EXCEPT
             !.recovered = recover_next <= Len(stored_finalized)])
    /\ IF recover_next <= Len(stored_finalized) THEN UNCHANGED tracker
       ELSE add_voted_blocks(sub_dags[recover_next])
    /\ recover_next' = recover_next + 1
    /\ UNCHANGED <<world, accepted, last_commit_index, finalizer, store, panicked, crashes>>

\* An iteration of recover_and_send_commits.
RecoverCommit ==
    /\ recover_next # 0 /\ recover_next <= last_commit_index /\ ~panicked
    /\ inbox' = Append(inbox,
          [CommitOf(recover_next, FALSE) EXCEPT
             !.recovered = recover_next <= Len(stored_finalized)])
    /\ IF recover_next <= Len(stored_finalized) THEN UNCHANGED tracker
       ELSE add_voted_blocks(sub_dags[recover_next])
    /\ recover_next' = recover_next + 1
    /\ UNCHANGED <<world, accepted, last_commit_index, finalizer, store, panicked, crashes>>

\* recover_blocks_after_round, then the node starts to receive blocks.
RecoverBlocks ==
    /\ recover_next > last_commit_index /\ ~panicked
    /\ add_voted_blocks({b \in stored_blocks : Round(b) > gc_round})
    /\ recover_next' = 0
    /\ UNCHANGED <<world, accepted, last_commit_index, inbox, finalizer, store, panicked, crashes>>

Step ==
    \/ \E S \in Deliveries : ReceiveBlocks(S)
    \/ LocalCommit
    \/ SyncedCommit
    \/ ProcessCommit

Next ==
    \/ Step
    \/ Flush
    \/ \E k \in 0..Cardinality(DOMAIN outcome) : Restart(k)
    \/ RecoverCommit
    \/ RecoverBlocks

Spec == Init /\ [][Next]_vars

-----------------------------------------------------------------------------
(* Properties.                                                             *)

\* The first commit that is a whole wave above commit k.
DecidingCommit(k) ==
    {d \in DOMAIN leaders :
        /\ LeaderRoundAt(d) >= LeaderRoundAt(k) + DEFAULT_WAVE_LENGTH
        /\ \A j \in 1..(d - 1) : LeaderRoundAt(j) < LeaderRoundAt(k) + DEFAULT_WAVE_LENGTH}

\* The blocks up to commit d that vote on the target: the first block of their authority
\* to include it, unless it may be garbage collected by then.
VotingBlocks(k, d) ==
    {v \in UNION {sub_dags[j] : j \in k..d} :
        /\ target \in Past[graph][v]
        /\ \A w \in Past[graph][v] : Author(w) = Author(v) => target \notin Past[graph][w]
        /\ \A j \in (k + 1)..d :
              v \in sub_dags[j] => Round(target) > GcRoundAt(j - 1)}

(* Agreement.  Whatever blocks this validator has when it finalizes a      *)
(* commit, whether it decided the commit itself or got it through commit   *)
(* sync, and whenever it restarts, the transaction is rejected if and only *)
(* if the blocks committed up to the deciding commit do not accept it by a *)
(* quorum, which is the same for all validators.                           *)
OutcomeAgreed ==
    \A k \in {j \in DOMAIN outcome : target \in sub_dags[j]} :
        \A d \in DecidingCommit(k) :
            target \in outcome[k] <=> ~IsQuorum(AuthorsOf(VotingBlocks(k, d) \ rejects))

(* No lookup of votes or blocks fails and the tracker is never cleaned     *)
(* beyond DagState: the panics of CommitFinalizer and of run_gc are not    *)
(* reached, also while the tracker is rebuilt after a restart.             *)
NoPanic ==
    /\ ~panicked
    /\ \A e \in blocks.children \cup blocks.origin_descendants : {e[1], e[2]} \subseteq blocks.keys

(* A commit waits for at most a wave of later commits: after each commit   *)
(* the pending ones are less than INDIRECT_REJECT_DEPTH rounds apart ("at  *)
(* most 4 pending commits" while one is processed).                        *)
PendingBounded ==
    pending_commits # <<>> =>
        /\ LeaderRoundOf(Last(pending_commits))
             < LeaderRoundOf(Head(pending_commits)) + INDIRECT_REJECT_DEPTH
        /\ Len(pending_commits) <= INDIRECT_REJECT_DEPTH
=============================================================================
