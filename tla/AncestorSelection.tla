------------------------- MODULE AncestorSelection -------------------------
(***************************************************************************)
(* Which blocks an own block takes as ancestors: AncestorStateManager      *)
(* (core/src/ancestor.rs), which excludes authorities that propagate their *)
(* blocks badly, and smart_ancestors_to_propose (core/src/proposer.rs),    *)
(* which includes the blocks of an excluded authority only when it needs   *)
(* them for the parent quorum or when a quorum has accepted them.          *)
(*                                                                         *)
(* When the node may propose is the subject of Proposer; here it may try   *)
(* whenever the clock is ahead of its last block.  The quorum rounds that  *)
(* RoundTracker computes are an input: failed probes, late reports and     *)
(* faulty peers can yield any.  Eviction of cached blocks is left out, and *)
(* a restart finds all of them in the store.                               *)
(***************************************************************************)
EXTENDS Committee, SequencesExt

CONSTANTS
    Stakes,             \* stake of each authority
    Own,
    PeerBlocks,         \* bound: blocks that peers make
    ScoreUpdates,       \* propagation scores that the leader schedule may hand out
    QuorumRounds,       \* accepted quorum rounds that RoundTracker may compute
    BadNodesStakeThreshold, \* percent, of the protocol config
    LockRounds,         \* STATE_LOCK_CLOCK_ROUNDS
    MaxRound,           \* bound: rounds of own blocks
    MaxRestarts         \* bound: restarts

Block == [author : Authorities, round : 0..MaxRound, id : 0..1]

ASSUME AncestorAssumption ==
    /\ Stakes \in [Authorities -> Nat \ {0}]
    /\ Own \in Authorities
    /\ PeerBlocks \subseteq {b \in Block : b.author # Own /\ b.round > 0}
    /\ \A s \in ScoreUpdates : s \in [Authorities -> Nat]
    /\ \A q \in QuorumRounds :
        /\ q \in [Authorities -> [low : Nat, high : Nat]]
        /\ \A a \in Authorities : q[a].low <= q[a].high
    /\ BadNodesStakeThreshold \in 0..33
    /\ LockRounds \in Nat /\ MaxRound \in Nat /\ MaxRestarts \in Nat

Peers == Authorities \ {Own}
ExcludedThreshold == (((2 * BadNodesStakeThreshold) \div 3) * TotalStake(Stakes)) \div 100
QuorumSets == {S \in SUBSET Authorities : reached_quorum(Stakes, S)}

VARIABLES
    blocks,                 \* DagState: the accepted blocks
    propagation_scores,     \* << >> before the first ones
    quorum_rounds,          \* RoundTracker::compute_accepted_quorum_rounds
    state_map,              \* AncestorStateManager: state and lock of each authority
    total_excluded_stake,
    last_included,          \* round of the last included ancestor of each author, -1 for none
    proposal,               \* the last own block
    panicked,               \* an assertion or a checked subtraction failed
    restarts

managed == <<state_map, total_excluded_stake>>
vars == <<blocks, propagation_scores, quorum_rounds, managed, last_included, proposal,
          panicked, restarts>>

InitialRounds == {q \in QuorumRounds : \A a \in Authorities : q[a].low = 0}
AllIncluded == [a \in Authorities |-> [excluded |-> FALSE, score |-> 0, lock_until_round |-> 0]]

Init ==
    /\ blocks = {}
    /\ propagation_scores = << >>
    /\ quorum_rounds \in InitialRounds
    /\ state_map = AllIncluded /\ total_excluded_stake = 0
    /\ last_included = [a \in Authorities |-> -1]
    /\ proposal = [round |-> 0, ancestors |-> {}, excluded |-> {}]
    /\ panicked = FALSE
    /\ restarts = 0

-----------------------------------------------------------------------------
(* DagState.                                                               *)

Genesis(a) == [author |-> a, round |-> 0, id |-> 0]
AuthorsAt(r) == {b.author : b \in {c \in blocks : c.round = r}}
HasQuorumAt(r) == r = 0 \/ AuthorsAt(r) \in QuorumSets

threshold_clock_round == Max({r \in 1..MaxRound + 1 : HasQuorumAt(r - 1)})

\* The order of the blocks of one author.
Later(b, c) == b.round > c.round \/ (b.round = c.round /\ b.id >= c.id)

LastOf(S) == CHOOSE b \in S : \A c \in S : Later(b, c)

\* get_last_cached_block_per_authority: the last block before the round, and the blocks
\* of the same author and round.
LastBlock(a, end_round) ==
    LET S == {b \in blocks : b.author = a /\ b.round < end_round}
    IN  IF S = {} THEN Genesis(a) ELSE LastOf(S)

Equivocating(b) == {c \in blocks : c.author = b.author /\ c.round = b.round} \ {b}

LastProposed == LastBlock(Own, MaxRound + 1)

-----------------------------------------------------------------------------
(* AncestorStateManager::update_all_ancestors_state.                       *)

calculate_network_high_quorum_round(rounds) ==
    LET high == [a \in Authorities |-> rounds[a].high]
    IN  ScanTo(Ascending(high, Stakes), high, Stakes, QuorumThreshold(TotalStake(Stakes)))

NetworkHigh == [q \in QuorumRounds |-> calculate_network_high_quorum_round(q)] @@ << >>

low_score_threshold ==
    (Max({0} \cup {propagation_scores[a] : a \in DOMAIN propagation_scores}) * 20) \div 100

is_locked(a, round) == state_map[a].lock_until_round >= round

\* The excluded authorities whose score or propagation has become good enough.
ToInclude(round) ==
    {a \in DOMAIN propagation_scores :
        /\ ~is_locked(a, round) /\ state_map[a].excluded
        /\ \/ propagation_scores[a] > low_score_threshold
           \/ quorum_rounds[a].high >= NetworkHigh[quorum_rounds]}

ToExclude(round) ==
    {a \in DOMAIN propagation_scores :
        /\ ~is_locked(a, round) /\ ~state_map[a].excluded
        /\ propagation_scores[a] <= low_score_threshold}

\* A mutant: every low score is excluded.
WorstFirst_NoLimit(S, stake) == S

\* A mutant: each is compared with the stake before the batch.
WorstFirst_StaleTotal(S, stake) == {a \in S : stake + Stakes[a] <= ExcludedThreshold}

\* Those of S that are excluded: the worst scores first, as long as the threshold allows.
WorstFirst(S, stake) ==
    LET order == SetToSortSeq(S, LAMBDA a, b :
                    \/ propagation_scores[a] < propagation_scores[b]
                    \/ propagation_scores[a] = propagation_scores[b] /\ a < b)
        Take(acc, a) == IF acc.stake + Stakes[a] <= ExcludedThreshold
                        THEN [stake |-> acc.stake + Stakes[a], out |-> acc.out \cup {a}]
                        ELSE acc
    IN  FoldLeft(Take, [stake |-> stake, out |-> {}], order).out

\* apply_state_change, for each authority of both lists.
Changed(include, exclude, round) ==
    [a \in Authorities |->
        IF a \in include \cup exclude
        THEN [excluded |-> a \in exclude,
              score |-> IF a \in exclude THEN propagation_scores[a] ELSE 0,
              lock_until_round |-> round + LockRounds]
        ELSE state_map[a]]

update_all_ancestors_state(round) ==
    LET include == ToInclude(round)
        freed   == total_excluded_stake - StakeOf(Stakes, include)
        exclude == WorstFirst(ToExclude(round), freed)
    IN  [map |-> Changed(include, exclude, round),
         stake |-> freed + StakeOf(Stakes, exclude),
         underflow |-> freed < 0]

-----------------------------------------------------------------------------
(* smart_ancestors_to_propose, for the updated states.                     *)

LargerOf(m, n) == IF m >= n THEN m ELSE n
SmallerOf(m, n) == IF m <= n THEN m ELSE n

\* The last blocks of the peers that are newer than what was included.
Candidates(round) ==
    {b \in {LastBlock(a, round) : a \in Peers} : last_included[b.author] < b.round}

Parents(S, round) == {b.author : b \in {c \in S : c.round = round - 1}}

\* The excluded blocks that are needed for the parent quorum, the best scores first.
ForQuorum(good, pending, states, round) ==
    LET order == SetToSortSeq(pending, LAMBDA b, c :
                    \/ states[b.author].score > states[c.author].score
                    \/ states[b.author].score = states[c.author].score /\ b.author < c.author)
        Take(acc, b) == IF Parents(good \cup acc, round) \notin QuorumSets /\ b.round = round - 1
                        THEN acc \cup {b} ELSE acc
    IN  FoldLeft(Take, {}, order)

\* What is included for the excluded block b when a quorum has accepted the blocks of its
\* author up to round low: b itself, or an earlier block that is new.
Propagated(b, low) ==
    LET last == LargerOf(last_included[b.author], 0)
        earlier == {c \in blocks : c.author = b.author /\ c.round \in last + 1..low}
    IN  IF b.round <= last \/ last >= low THEN {}
        ELSE IF b.round <= low THEN {b}
        ELSE IF earlier = {} THEN {} ELSE {LastOf(earlier)}

\* A mutant: the block is listed even when it is included.
Unpropagated_Always(b, low) == {b}


\* Whether the excluded block b is sent along as an excluded ancestor.
Unpropagated(b, low) ==
    IF b.round > LargerOf(last_included[b.author], 0) /\ b \notin Propagated(b, low)
    THEN {b} ELSE {}

\* excluded_and_equivocating_ancestors, cut to its limit in the order of BlockRef.
Cut(S) ==
    LET Before(b, c) == \/ b.round < c.round
                        \/ b.round = c.round /\ b.author < c.author
                        \/ b.round = c.round /\ b.author = c.author /\ b.id < c.id
    IN  {b \in S : Cardinality({c \in S : Before(c, b)}) < 2 * N}

\* The ancestors and the excluded ancestors of a block of this round.
Selection(states, round) ==
    LET candidates == Candidates(round)
        pending    == {b \in candidates : states[b.author].excluded}
        good       == {LastProposed} \cup (candidates \ pending)
        needed     == ForQuorum(good, pending, states, round)
        low(b)     == SmallerOf(quorum_rounds[b.author].low, round - 1)
        rest       == pending \ needed
    IN  [good      |-> good,
         parents   |-> Parents(good \cup needed, round),
         ancestors |-> good \cup needed \cup UNION {Propagated(b, low(b)) : b \in rest},
         excluded  |-> Cut(UNION {Equivocating(b) : b \in candidates}
                           \cup UNION {Unpropagated(b, low(b)) : b \in rest})]

-----------------------------------------------------------------------------
(* Actions.                                                                *)

\* Core::add_blocks: a peer's block is accepted, with its parents in the DAG.
AcceptBlock(b) ==
    /\ ~panicked
    /\ b \in PeerBlocks \ blocks
    /\ HasQuorumAt(b.round - 1)
    /\ blocks' = blocks \cup {b}
    /\ UNCHANGED <<propagation_scores, quorum_rounds, managed, last_included, proposal,
                   panicked, restarts>>

\* set_propagation_scores, after a change of the leader schedule.
SetScores(scores) ==
    /\ ~panicked
    /\ scores # propagation_scores
    /\ propagation_scores' = scores
    /\ UNCHANGED <<blocks, quorum_rounds, managed, last_included, proposal, panicked, restarts>>

\* RoundTracker computes other quorum rounds.
Probed(q) ==
    /\ ~panicked
    /\ q # quorum_rounds
    /\ quorum_rounds' = q
    /\ UNCHANGED <<blocks, propagation_scores, managed, last_included, proposal, panicked,
                   restarts>>

\* The block is made of the selected ancestors and accepted into the DAG.
Make(round, chosen) ==
    /\ proposal' = [round |-> round, ancestors |-> chosen.ancestors, excluded |-> chosen.excluded]
    /\ last_included' = [a \in Authorities |->
            LET of == {b \in chosen.ancestors : b.author = a}
            IN  IF of = {} THEN last_included[a] ELSE LastOf(of).round]
    /\ blocks' = blocks \cup {[author |-> Own, round |-> round, id |-> 0]}

\* try_new_block, when all its other conditions hold: an attempt that is not forced waits
\* when the good authorities alone are no quorum of parents.
TryNewBlock(force) ==
    LET round  == threshold_clock_round
        update == update_all_ancestors_state(round)
        chosen == Selection(update.map, round)
        enough == force \/ Parents(chosen.good, round) \in QuorumSets
    IN  /\ ~panicked
        /\ round \in LastProposed.round + 1..MaxRound
        /\ state_map' = update.map /\ total_excluded_stake' = update.stake
        /\ panicked' = (update.underflow \/ (enough /\ chosen.parents \notin QuorumSets))
        /\ \/ enough /\ Make(round, chosen)
           \/ ~enough /\ UNCHANGED <<blocks, last_included, proposal>>
        /\ UNCHANGED <<propagation_scores, quorum_rounds, restarts>>

\* Core::new and ValidatorProposer::new: the DAG, the last own block and the scores are
\* recovered from the store.
Restart ==
    /\ restarts < MaxRestarts
    /\ restarts' = restarts + 1
    /\ state_map' = AllIncluded /\ total_excluded_stake' = 0
    /\ last_included' = [a \in Authorities |-> -1]
    /\ quorum_rounds' \in InitialRounds
    /\ UNCHANGED <<blocks, propagation_scores, proposal, panicked>>

Next ==
    \/ \E b \in PeerBlocks : AcceptBlock(b)
    \/ \E scores \in ScoreUpdates : SetScores(scores)
    \/ \E q \in QuorumRounds : Probed(q)
    \/ \E force \in BOOLEAN : TryNewBlock(force)
    \/ Restart

Spec == Init /\ [][Next]_vars

-----------------------------------------------------------------------------
(* Properties.                                                             *)

(* "This cannot exceed the excluded_nodes_stake_threshold" (ancestor.rs):  *)
(* the running total is the stake of the excluded authorities, and stays   *)
(* within the threshold however batches of exclusions and inclusions,      *)
(* locks and restarts follow each other.                                   *)
ExcludedStakeBounded ==
    /\ total_excluded_stake = StakeOf(Stakes, {a \in Authorities : state_map[a].excluded})
    /\ total_excluded_stake <= ExcludedThreshold

(* Exclusion alone never holds back a proposal: when every authority has a *)
(* block in the parent round, the good ones are a quorum, so an attempt    *)
(* that is not forced goes through, whatever the scores and the quorum     *)
(* rounds are.                                                             *)
ExclusionNeverBlocks ==
    LET round == threshold_clock_round
    IN  (/\ ~panicked
         /\ LastProposed.round = round - 1
         /\ AuthorsAt(round - 1) = Authorities)
        => Parents(Selection(update_all_ancestors_state(round).map, round).good, round)
               \in QuorumSets

(* No assertion of smart_ancestors_to_propose fails, and a block of the    *)
(* node is one that its peers accept: whatever authorities are excluded,   *)
(* it has a quorum of parents, at most one ancestor of each author, its    *)
(* own last block among them, and no block as both an ancestor and an      *)
(* excluded ancestor.                                                      *)
ProposalValid ==
    LET S == proposal.ancestors
    IN  ~panicked /\ (proposal.round > 0 =>
        /\ Parents(S, proposal.round) \in QuorumSets
        /\ \A b, c \in S : b.author = c.author => b = c
        /\ \A b \in S : b.round < proposal.round
        /\ \E b \in S : b.author = Own
        /\ S \cap proposal.excluded = {})

=============================================================================
