--------------------------- MODULE LeaderSchedule ---------------------------
(***************************************************************************)
(* The change of the leader schedule while a validator commits (core/src/  *)
(* core.rs, leader_schedule.rs, leader_scoring.rs, and their state in      *)
(* dag_state.rs).  After every CommitsPerSchedule commits the authorities  *)
(* are scored on the committed blocks, and the worst are replaced by the   *)
(* best where they would lead.  The leaders of the rounds after the last   *)
(* of these commits are then other ones than those they were decided with  *)
(* until then, so try_commit has to stop exactly there, whether it commits *)
(* by its own decisions or by commits that other validators have certified,*)
(* and whether or not it restarts in between.                              *)
(*                                                                         *)
(* One iteration of the loop of try_commit is UpdateLeaderSchedule, if the *)
(* schedule is due, followed by CommitLeaders.  The commit finalizer may   *)
(* flush DagState from another task between any two of these.              *)
(***************************************************************************)
EXTENDS CommittedDag, SequencesExt

CONSTANTS
    CommitsPerSchedule, \* num_commits_per_schedule
    SwapSize,           \* authorities within bad_nodes_stake_threshold
    Shuffle(_, _),      \* Shuffle(k, a): place of a in the order drawn with seed k
    Pick(_, _),         \* Pick(r, n): a number in 1..n drawn with seed r
    Deliveries,         \* sets of blocks that arrive together, with their history
    MaxCrashes          \* bound

VARIABLES
    graph,          \* the DAG the committee builds
    accepted,       \* DagState: accepted blocks
    commits,        \* DagState: the committed leaders
    scoring,        \* DagState: commit indices in scoring_subdag
    commit_infos,   \* DagState: commit_info_to_write
    swap_table,     \* LeaderSchedule
    last_decided_leader,    \* Core: its round
    certified_commits,      \* try_commit: leaders of the certified commits to process
    committing,             \* Core is in the loop of try_commit
    stored,         \* the store: blocks, commits and the last commit info
    panicked,       \* an assertion has failed
    crashes

vars == <<graph, accepted, commits, scoring, commit_infos, swap_table, last_decided_leader,
          certified_commits, committing, stored, panicked, crashes>>

ASSUME LeaderScheduleAssumption ==
    /\ CommitsPerSchedule \in Nat \ {0} /\ MaxCrashes \in Nat
    /\ SwapSize \in Nat /\ 3 * SwapSize <= N
    /\ Deliveries \subseteq SUBSET Blocks

-----------------------------------------------------------------------------
(* Scores and the swap table.                                              *)

NoTable == [good_nodes |-> <<>>, bad_nodes |-> {}, commit_range |-> {}]

\* A vote is a block that refers to a leader of these commits in the round before, and it
\* scores one for every author of a block of these commits that refers to it.
scores_per_authority(g, leaders, range) ==
    LET blocks == UNION {linearize_sub_dag(g, leaders, k) : k \in range}
        Strong(b) == {a \in Ancestors[g][b] : Round(a) = Round(b) - 1}
        votes == {v \in blocks : \E k \in range : leaders[k] \in Strong(v)}
    IN  [a \in Authorities |->
            Cardinality({<<v, w>> \in votes \X blocks : Author(v) = a /\ v \in Strong(w)})]

\* The authorities by score, the best first, and those of equal score in a random order.
authorities_by_score(scores, commit_index) ==
    LET Before(a, b) ==
            IF scores[a] = scores[b] THEN Shuffle(commit_index, a) < Shuffle(commit_index, b)
            ELSE scores[a] > scores[b]
    IN  SetToSortSeq(Authorities, Before)

LeaderSwapTable(g, leaders, range) ==
    LET by_score == authorities_by_score(scores_per_authority(g, leaders, range), Max(range))
    IN  [good_nodes   |-> SubSeq(by_score, 1, SwapSize),
         bad_nodes    |-> {by_score[i] : i \in (N - SwapSize + 1)..N},
         commit_range |-> range]

elect_leader(table, r) ==
    IF Leader[r] \in table.bad_nodes
    THEN table.good_nodes[Pick(r, Len(table.good_nodes))]
    ELSE Leader[r]

Elected(table) == [r \in Rounds |-> elect_leader(table, r)]

-----------------------------------------------------------------------------
(* What the DAG determines: the commits one at a time, from all blocks,    *)
(* with a new schedule after every CommitsPerSchedule of them.             *)

TableAfter(g, leaders, k) ==
    LET upto == k - (k % CommitsPerSchedule)
    IN  IF upto = 0 THEN NoTable
        ELSE LeaderSwapTable(g, leaders, (upto - CommitsPerSchedule + 1)..upto)

LastRound(leaders) == IF leaders = <<>> THEN 0 ELSE Round(Last(leaders))

RECURSIVE AgreedFrom(_, _)
AgreedFrom(g, leaders) ==
    LET decided == try_decide(g, DOMAIN Ancestors[g],
                              Elected(TableAfter(g, leaders, Len(leaders))))
        next    == {r \in (LastRound(leaders) + 1)..MaxRound :
                        /\ decided[r] \in Blocks
                        /\ \A q \in (LastRound(leaders) + 1)..(r - 1) : decided[q] = Skip}
    IN  IF next = {} THEN leaders
        ELSE AgreedFrom(g, Append(leaders, decided[Min(next)]))

AgreedLeaders == [g \in Graphs |-> AgreedFrom(g, <<>>)]

ASSUME AgreedLeadersAssumption == AgreedLeaders \in [Graphs -> Seq(Blocks)]

-----------------------------------------------------------------------------
Init ==
    /\ graph \in Graphs
    /\ accepted = {} /\ commits = <<>> /\ scoring = {} /\ commit_infos = <<>>
    /\ swap_table = NoTable /\ last_decided_leader = 0
    /\ certified_commits = <<>> /\ committing = FALSE
    /\ stored = [blocks |-> {}, commits |-> <<>>, commit_info |-> NoTable]
    /\ panicked = FALSE /\ crashes = 0

gc_round == calculate_gc_round(LastRound(commits))

\* Blocks from peers, with the history that the block manager waits for.
add_blocks(F) ==
    LET blocks == {b \in F \cup UNION {Past[graph][f] : f \in F} : Round(b) > gc_round}
    IN  /\ ~committing /\ ~panicked
        /\ ~(blocks \subseteq accepted)
        /\ accepted' = accepted \cup blocks
        /\ committing' = TRUE
        /\ UNCHANGED <<graph, commits, scoring, commit_infos, swap_table,
                       last_decided_leader, certified_commits, stored, panicked, crashes>>

\* Commits first..last that a quorum has certified; filter_new_commits drops the ones
\* already committed, and refuses commits that leave a gap.  (The blocks that voted for
\* them are accepted like those of add_blocks.)
add_certified_commits(first, last) ==
    /\ ~committing /\ ~panicked
    /\ first <= last /\ first <= Len(commits) + 1
    /\ certified_commits' = SubSeq(AgreedLeaders[graph], Len(commits) + 1, last)
    /\ committing' = TRUE
    /\ UNCHANGED <<graph, accepted, commits, scoring, commit_infos, swap_table,
                   last_decided_leader, stored, panicked, crashes>>

commits_until_update == CommitsPerSchedule - Cardinality(scoring)

is_next_range(old, new) ==
    old # {} => /\ Min(new) = Max(old) + 1
                /\ Cardinality(new) = Cardinality(old)

\* A mutant: the scores are not kept for the store.
UpdateLeaderSchedule_NoCommitInfo ==
    /\ committing /\ ~panicked /\ commits_until_update = 0
    /\ swap_table' = LeaderSwapTable(graph, commits, scoring)
    /\ scoring' = {}
    /\ panicked' = ~is_next_range(swap_table.commit_range, scoring)
    /\ UNCHANGED <<graph, accepted, commits, commit_infos, last_decided_leader,
                   certified_commits, committing, stored, crashes>>

UpdateLeaderSchedule ==
    /\ committing /\ ~panicked /\ commits_until_update = 0
    /\ swap_table' = LeaderSwapTable(graph, commits, scoring)
    /\ scoring' = {}
    /\ commit_infos' = Append(commit_infos, swap_table')
    /\ panicked' = ~is_next_range(swap_table.commit_range, scoring)
    /\ UNCHANGED <<graph, accepted, commits, last_decided_leader,
                   certified_commits, committing, stored, crashes>>

\* A mutant: decides again in the round of the last commit when its leader has changed.
DecidedLeaders_SameRound ==
    LET decided == try_decide(graph, accepted, Elected(swap_table))
        last    == last_decided_leader
        first   == IF /\ commits # <<>> /\ last = LastRound(commits)
                      /\ elect_leader(swap_table, last) # Author(Last(commits))
                   THEN last ELSE last + 1
        rounds  == {r \in first..MaxRound : \A q \in first..r : decided[q] # Undecided}
    IN  SubSeq(decided, first, first + Cardinality(rounds) - 1)

\* The leaders that the commit rule decides after the last decided one.
DecidedLeaders ==
    LET decided == try_decide(graph, accepted, Elected(swap_table))
        rounds  == {r \in (last_decided_leader + 1)..MaxRound :
                       \A q \in (last_decided_leader + 1)..r : decided[q] # Undecided}
    IN  SubSeq(decided, last_decided_leader + 1, last_decided_leader + Cardinality(rounds))

Truncated(s, limit) == SubSeq(s, 1, IF Len(s) >= limit THEN limit ELSE Len(s))

SelectedCertified == Truncated(certified_commits, commits_until_update)

\* handle_commit: the leaders are committed and their sub-dags added to the scoring ones.
\* (A flush between two commits of one batch leaves what a smaller batch leaves.)
HandleCommit(leaders) ==
    /\ commits' = commits \o leaders
    /\ scoring' = scoring \cup ((Len(commits) + 1)..Len(commits'))

CommitCertified ==
    /\ committing /\ ~panicked /\ commits_until_update > 0
    /\ certified_commits # <<>>
    /\ LET leaders == SelectedCertified
       IN  /\ HandleCommit(leaders)
           /\ accepted' = accepted \cup
                UNION {linearize_sub_dag(graph, commits', k) :
                           k \in (Len(commits) + 1)..Len(commits')}
           /\ last_decided_leader' = Round(Last(leaders))
           /\ certified_commits' =
                SubSeq(certified_commits, Len(leaders) + 1, Len(certified_commits))
    /\ UNCHANGED <<graph, commit_infos, swap_table, committing, stored, panicked, crashes>>

\* The loop ends when nothing is decided, or only skipped leaders.
CommitDecided ==
    /\ committing /\ ~panicked /\ commits_until_update > 0
    /\ certified_commits = <<>>
    /\ LET decided   == Truncated(DecidedLeaders, commits_until_update)
           sequenced == SelectSeq(decided, LAMBDA d : d # Skip)
       IN  /\ last_decided_leader' = last_decided_leader + Len(decided)
           /\ HandleCommit(sequenced)
           /\ committing' = (sequenced # <<>>)
    /\ UNCHANGED <<graph, accepted, commit_infos, swap_table, certified_commits, stored,
                   panicked, crashes>>

\* DagState::flush, after a commit (all of this is one write to the store).
flush ==
    /\ stored' = [blocks |-> accepted, commits |-> commits,
                  commit_info |-> IF commit_infos = <<>> THEN stored.commit_info
                                  ELSE Last(commit_infos)]
    /\ commit_infos' = <<>>
    /\ stored' # stored
    /\ UNCHANGED <<graph, accepted, commits, scoring, swap_table, last_decided_leader,
                   certified_commits, committing, panicked, crashes>>

\* A mutant: a schedule without the stored scores.
Restart_DefaultTable ==
    /\ crashes < MaxCrashes /\ ~panicked
    /\ crashes' = crashes + 1
    /\ accepted' = stored.blocks /\ commits' = stored.commits
    /\ swap_table' = NoTable
    /\ scoring' = (Max({0} \cup stored.commit_info.commit_range) + 1)..Len(stored.commits)
    /\ commit_infos' = <<>>
    /\ last_decided_leader' = LastRound(stored.commits)
    /\ certified_commits' = <<>> /\ committing' = TRUE
    /\ panicked' = (Cardinality(scoring') > CommitsPerSchedule)
    /\ UNCHANGED <<graph, stored>>

\* LeaderSchedule::from_store, DagState::new and Core::new_validator; its recovery runs
\* try_commit without certified commits.
Restart ==
    /\ crashes < MaxCrashes /\ ~panicked
    /\ crashes' = crashes + 1
    /\ accepted' = stored.blocks /\ commits' = stored.commits
    /\ swap_table' = stored.commit_info
    /\ scoring' = (Max({0} \cup stored.commit_info.commit_range) + 1)..Len(stored.commits)
    /\ commit_infos' = <<>>
    /\ last_decided_leader' = LastRound(stored.commits)
    /\ certified_commits' = <<>> /\ committing' = TRUE
    /\ panicked' = (Cardinality(scoring') > CommitsPerSchedule)
    /\ UNCHANGED <<graph, stored>>

Next ==
    \/ \E F \in Deliveries : add_blocks(F)
    \/ \E first, last \in DOMAIN AgreedLeaders[graph] : add_certified_commits(first, last)
    \/ UpdateLeaderSchedule \/ CommitCertified \/ CommitDecided
    \/ flush \/ Restart

Spec == Init /\ [][Next]_vars

-----------------------------------------------------------------------------
(* Whatever blocks it has seen, in whatever batches it commits, from its   *)
(* own decisions or from certified commits, and after any restart: a       *)
(* validator commits the leaders that the DAG and the schedule determine   *)
(* (try_commit), so that all validators commit the same.                   *)
LeadersAgreed == IsPrefix(commits, AgreedLeaders[graph])

(* The swap table in use is the one scored on the last full window of      *)
(* commits, except between the last commit of a window and the update that *)
(* follows it in the loop; a restart finds the same one                    *)
(* (update_leader_schedule_v2, from_store, DagState::new).                 *)
TableAgreed ==
    /\ swap_table = TableAfter(graph, commits, Len(commits) - Cardinality(scoring))
    /\ scoring = (Len(commits) - Cardinality(scoring) + 1)..Len(commits)
    /\ ~committing => commits_until_update > 0

(* None of the assertions about commit ranges and the number of scored     *)
(* commits fails, before or after a restart.                               *)
NoPanic == ~panicked /\ commits_until_update >= 0
=============================================================================
