----------------------------- MODULE MCProposer -----------------------------
(***************************************************************************)
(* Proposer with the stakes 2, 1, 1 of "a", "b", "c": stake 3 is a quorum, *)
(* stake 2 reaches validity.  The node is "b", and "c" is faulty.          *)
(***************************************************************************)
EXTENDS Proposer, FiniteSets

LOCAL INSTANCE SequencesExt

mcAuthorities == {"a", "b", "c"}
mcQuorums == {{"a", "b"}, {"a", "c"}, {"a", "b", "c"}}
mcValiditySets == {V \in SUBSET mcAuthorities : "a" \in V \/ Cardinality(V) >= 2}

\* Timers and the propagation delay only decide when a proposal is attempted or refused.
\* Without forced proposals every unforced one remains possible, so the safety run leaves
\* the timers unused and the delay low; the liveness run uses them.
QuietNext ==
    \/ Broadcast \/ Flush
    \/ \E b \in Receivable : AddBlock(b)
    \/ SetLastKnownProposedRound
    \/ \E p \in Peers : \E b \in published : Deliver(p, b)
    \/ \E p \in Peers : Reply(p)
    \/ FinishFetch \/ RetryFetch
    \/ CrashAndRestart \/ LoseStoreAndRestart

QuietSpec == Init /\ [][QuietNext]_vars

\* DagState::new: the recovered blocks are sorted, and update_block_metadata adds them to a
\* new clock one by one.
ReplayedClock(S) ==
    FoldLeft(add_block, NewClock, SetToSortSeq(S, LAMBDA b, c : b.round < c.round))

\* Sorting and adding the blocks gives the clock of RecoveredClock, for every set of blocks
\* that a node can have accepted: a round that is passed leaves nothing behind in the count.
ReplayAgrees == ReplayedClock(accepted) = RecoveredClock(accepted)
=============================================================================
