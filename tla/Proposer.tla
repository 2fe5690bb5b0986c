------------------------------ MODULE Proposer ------------------------------
(***************************************************************************)
(* How a validator proposes its own blocks: ValidatorProposer              *)
(* (core/src/proposer.rs) on the core thread (core.rs, core_thread.rs), the *)
(* ThresholdClock that gives it its round, LeaderTimeoutTask, DagState with *)
(* its flushes, and the task of the synchronizer that asks the peers for   *)
(* the last own block after a start.  The node crashes and restarts, and   *)
(* may lose its store.                                                     *)
(*                                                                         *)
(* A block is known by its author, its round and, for own blocks, by the   *)
(* order of creation.  The leader check, the minimum round delay and the   *)
(* selection of good ancestors only decide whether an unforced proposal is *)
(* made, which is left open.  Other authorities have one block per round.  *)
(* Garbage collection and commit sync are left out: every accepted block   *)
(* has its parents.                                                        *)
(***************************************************************************)
EXTENDS Naturals

CONSTANTS
    Authorities, Own,
    Byzantine,      \* peers that do not answer truthfully
    Quorums,        \* sets of authorities with the stake of quorum_threshold()
    ValiditySets,   \* sets of authorities with the stake of validity_threshold()
    Unknown,        \* last_known_proposed_round that is None
    MaxRound,       \* bound: rounds of blocks
    MaxCrashes      \* bound: restarts of the node

Peers == Authorities \ {Own}

ASSUME ProposerAssumption ==
    /\ Own \in Authorities /\ Byzantine \subseteq Peers
    /\ Quorums \subseteq SUBSET Authorities
    /\ ValiditySets \subseteq SUBSET Authorities
    /\ \A P \in Quorums : \A Q \in SUBSET Authorities : P \subseteq Q => Q \in Quorums
    /\ \A V \in ValiditySets : ~(V \subseteq Byzantine)
    /\ \A x \in Authorities : {x} \notin Quorums    \* no authority is a quorum
    /\ Unknown \notin Nat
    /\ MaxRound \in Nat \ {0} /\ MaxCrashes \in Nat

VARIABLES
    accepted,                   \* blocks in DagState
    clock,                      \* ThresholdClock: round, and authors seen in it
    proposing,                  \* own block being persisted and broadcast by Core
    last_known_proposed_round,
    propagation_high,           \* propagation_delay exceeds its threshold
    last_signaled_round,        \* of Core
    new_round,                  \* value of the watch channel to LeaderTimeoutTask
    leader_round,               \* round of the running timers of LeaderTimeoutTask
    min_timed_out, max_timed_out,
    stored,                     \* blocks in the store
    sync,                       \* fetch_own_last_block_task: "ask", "set" or "done"
    replied, highest_round,     \* its answers so far
    published,                  \* own blocks that were ever broadcast
    held,                       \* held[p]: own blocks that peer p has accepted
    created,                    \* number of own blocks ever created
    lost,                       \* history: blocks that too few peers had when the store was lost
    crashes

coreVars == <<accepted, clock, proposing, last_known_proposed_round, propagation_high,
              last_signaled_round, new_round, created>>
timerVars == <<leader_round, min_timed_out, max_timed_out>>
syncVars == <<sync, replied, highest_round>>
netVars == <<published, held>>
faultVars == <<lost, crashes>>
vars == <<coreVars, timerVars, stored, syncVars, netVars, faultVars>>

Block == [author : Authorities, round : 1 .. MaxRound, id : Nat]

TypeOK ==
    /\ accepted \in SUBSET Block /\ stored \in SUBSET accepted
    /\ clock \in [round : 1 .. MaxRound + 1, authors : SUBSET Authorities]
    /\ proposing \in SUBSET accepted
    /\ last_known_proposed_round \in 0 .. MaxRound \cup {Unknown}
    /\ propagation_high \in BOOLEAN
    /\ last_signaled_round \in 0 .. MaxRound + 1 /\ new_round \in 0 .. MaxRound + 1
    /\ leader_round \in 0 .. MaxRound + 1
    /\ min_timed_out \in BOOLEAN /\ max_timed_out \in BOOLEAN
    /\ sync \in {"ask", "set", "done"}
    /\ replied \in SUBSET Peers /\ highest_round \in 0 .. MaxRound
    /\ published \in SUBSET Block
    /\ held \in [Peers -> SUBSET published]
    /\ created \in Nat /\ crashes \in 0 .. MaxCrashes
    /\ lost \in SUBSET published

\* The highest round of the blocks in S, the genesis round when there are none.
HighestRound(S) ==
    IF S = {} THEN 0 ELSE CHOOSE r \in {b.round : b \in S} : \A b \in S : b.round <= r

OwnBlocks(S) == {b \in S : b.author = Own}
AuthorsAt(S, r) == {b.author : b \in {c \in S : c.round = r}}

-----------------------------------------------------------------------------
\* ThresholdClock.

NewClock == [round |-> 1, authors |-> {}]

\* Faulty variant of add_block: the authors are not reset with the round.
add_block_NoClear(c, b) ==
    LET authors == c.authors \cup {b.author} IN
    IF b.round < c.round THEN c
    ELSE IF authors \in Quorums THEN [round |-> b.round + 1, authors |-> authors]
    ELSE [round |-> b.round, authors |-> authors]

add_block(c, b) ==
    LET authors == (IF b.round = c.round THEN c.authors ELSE {}) \cup {b.author} IN
    IF b.round < c.round THEN c
    ELSE IF authors \in Quorums THEN [round |-> b.round + 1, authors |-> {}]
    ELSE [round |-> b.round, authors |-> authors]

\* Faulty variant of RecoveredClock: a quorum of the highest round is not looked for.
RecoveredClock_NoQuorum(S) ==
    LET highest == HighestRound(S) IN
    IF S = {} THEN NewClock ELSE [round |-> highest, authors |-> AuthorsAt(S, highest)]

\* The clock after DagState::new has added the recovered blocks S from the lowest round to
\* the highest: the authors of a round count only until a block of a higher round is added.
RecoveredClock(S) ==
    LET highest == HighestRound(S) IN
    IF S = {} THEN NewClock
    ELSE IF AuthorsAt(S, highest) \in Quorums THEN [round |-> highest + 1, authors |-> {}]
    ELSE [round |-> highest, authors |-> AuthorsAt(S, highest)]

-----------------------------------------------------------------------------
\* Core: proposals and the signals that follow them.

\* Faulty variant of Ready: the last known proposed round may be used again.
Ready_SameRound(S, c, known, high) ==
    /\ ~high
    /\ known # Unknown /\ c.round >= known
    /\ c.round > HighestRound(OwnBlocks(S))
    /\ c.round <= MaxRound

\* The conditions of try_new_block that a forced proposal meets too: should_propose,
\* and a clock round above the last proposed block.  MaxRound bounds the model.
Ready(S, c, known, high) ==
    /\ ~high
    /\ known # Unknown /\ c.round > known
    /\ c.round > HighestRound(OwnBlocks(S))
    /\ c.round <= MaxRound

try_signal_new_round(c) ==
    IF c.round > last_signaled_round
    THEN new_round' = c.round /\ last_signaled_round' = c.round
    ELSE UNCHANGED <<new_round, last_signaled_round>>

\* try_new_block up to accept_block: the new block is in DagState, but it is
\* neither flushed nor broadcast yet.
NewOwnBlock(S, c) ==
    LET b == [author |-> Own, round |-> c.round, id |-> created + 1] IN
    /\ accepted' = S \cup {b} /\ proposing' = {b}
    /\ clock' = add_block(c, b)
    /\ created' = created + 1
    /\ UNCHANGED <<last_signaled_round, new_round>>

NoProposal(S, c) ==
    /\ accepted' = S /\ clock' = c
    /\ try_signal_new_round(c)
    /\ UNCHANGED <<proposing, created>>

\* try_propose(force) and try_signal_new_round, once DagState holds S and the clock is c.
try_propose(S, c, known, high, force) ==
    \/ Ready(S, c, known, high) /\ NewOwnBlock(S, c)
    \/ ~(force /\ Ready(S, c, known, high)) /\ NoProposal(S, c)

\* Core::new_block(round, force).
new_block(round, known, high, force) ==
    IF HighestRound(OwnBlocks(accepted)) < round
    THEN try_propose(accepted, clock, known, high, force)
    ELSE UNCHANGED <<accepted, clock, proposing, created, last_signaled_round, new_round>>

CoreIdle == proposing = {}

\* Faulty variant of Broadcast: the block is broadcast before DagState is flushed.
Broadcast_NoFlush ==
    /\ ~CoreIdle
    /\ published' = published \cup proposing
    /\ proposing' = {}
    /\ try_signal_new_round(clock)
    /\ UNCHANGED <<accepted, clock, created, last_known_proposed_round, propagation_high,
                   timerVars, stored, syncVars, held, faultVars>>

\* The rest of try_new_block and of try_propose: flush, then broadcast.
Broadcast ==
    /\ ~CoreIdle
    /\ stored' = accepted
    /\ published' = published \cup proposing
    /\ proposing' = {}
    /\ try_signal_new_round(clock)
    /\ UNCHANGED <<accepted, clock, created, last_known_proposed_round, propagation_high,
                   timerVars, syncVars, held, faultVars>>

\* DagState::flush by the commit observer and its finalizer, at any time.
Flush ==
    /\ stored # accepted
    /\ stored' = accepted
    /\ UNCHANGED <<coreVars, timerVars, syncVars, netVars, faultVars>>

\* Blocks that the core thread may be given: those of the peers, and the own blocks
\* that a peer has and sends back.
Receivable ==
    [author : Peers, round : 1 .. MaxRound, id : {0}] \cup UNION {held[p] : p \in Peers}

\* BlockManager accepts a block once its ancestors are accepted: among them is a quorum
\* of the previous round.
ParentsAccepted(b) == b.round = 1 \/ AuthorsAt(accepted, b.round - 1) \in Quorums

\* Core::add_blocks with one block that can be accepted.  accept_block panics on a
\* second block in an own slot: the node stops, which CrashAndRestart covers.
AddBlock(b) ==
    /\ CoreIdle
    /\ b \in Receivable \ accepted /\ ParentsAccepted(b)
    /\ b.author = Own => \A c \in OwnBlocks(accepted) : c.round # b.round
    /\ try_propose(accepted \cup {b}, add_block(clock, b),
                   last_known_proposed_round, propagation_high, FALSE)
    /\ UNCHANGED <<last_known_proposed_round, propagation_high, timerVars, stored,
                   syncVars, netVars, faultVars>>

\* CoreThread on rx_last_known_proposed_round: set it and force a proposal.  (Round::MAX
\* is above every round.)
SetLastKnownProposedRound ==
    /\ CoreIdle
    /\ sync = "set" /\ sync' = "done"
    /\ last_known_proposed_round' = highest_round
    /\ new_block(MaxRound + 1, highest_round, propagation_high, TRUE)
    /\ UNCHANGED <<propagation_high, timerVars, stored, replied, highest_round, netVars, faultVars>>

\* Faulty variant of SetPropagationDelay: proposals are resumed without one.
SetPropagationDelay_NoPropose(high) ==
    /\ CoreIdle
    /\ propagation_high # high /\ propagation_high' = high
    /\ UNCHANGED <<accepted, clock, proposing, created, last_signaled_round, new_round,
                   last_known_proposed_round, timerVars, stored, syncVars, netVars, faultVars>>

\* CoreThread on rx_propagation_delay: when the node may propose again, it does so at once.
SetPropagationDelay(high) ==
    LET should_propose == last_known_proposed_round # Unknown
                          /\ clock.round > last_known_proposed_round IN
    /\ CoreIdle
    /\ propagation_high # high /\ propagation_high' = high
    /\ IF ~high /\ should_propose
       THEN new_block(MaxRound + 1, last_known_proposed_round, high, TRUE)
       ELSE UNCHANGED <<accepted, clock, proposing, created, last_signaled_round, new_round>>
    /\ UNCHANGED <<last_known_proposed_round, timerVars, stored, syncVars, netVars, faultVars>>

-----------------------------------------------------------------------------
\* LeaderTimeoutTask.

NewRound ==
    /\ new_round # leader_round
    /\ leader_round' = new_round
    /\ min_timed_out' = FALSE /\ max_timed_out' = FALSE
    /\ UNCHANGED <<coreVars, stored, syncVars, netVars, faultVars>>

\* The task waits for the core thread to handle the call, so both are one step.
MinTimeout ==
    /\ CoreIdle
    /\ ~min_timed_out /\ min_timed_out' = TRUE
    /\ new_block(leader_round, last_known_proposed_round, propagation_high, FALSE)
    /\ UNCHANGED <<last_known_proposed_round, propagation_high, leader_round, max_timed_out,
                   stored, syncVars, netVars, faultVars>>

MaxTimeout ==
    /\ CoreIdle
    /\ ~max_timed_out /\ max_timed_out' = TRUE
    /\ new_block(leader_round, last_known_proposed_round, propagation_high, TRUE)
    /\ UNCHANGED <<last_known_proposed_round, propagation_high, leader_round, min_timed_out,
                   stored, syncVars, netVars, faultVars>>

-----------------------------------------------------------------------------
\* start_fetch_own_last_block_task, and the peers.

\* Peer p receives and accepts an own block.
Deliver(p, b) ==
    /\ b \in published \ held[p]
    /\ held' = [held EXCEPT ![p] = @ \cup {b}]
    /\ UNCHANGED <<coreVars, timerVars, stored, syncVars, published, faultVars>>

\* The answer of peer p to fetch_latest_blocks is counted.  A correct peer sends its last
\* block of this authority, a faulty one any block this authority has signed, or none.
Reply(p) ==
    /\ sync = "ask" /\ p \notin replied
    /\ replied' = replied \cup {p}
    /\ \E r \in IF p \in Byzantine THEN {0} \cup {b.round : b \in published}
                ELSE {HighestRound(held[p])} :
         highest_round' = IF r > highest_round THEN r ELSE highest_round
    /\ UNCHANGED <<coreVars, timerVars, stored, sync, netVars, faultVars>>

\* All peers have answered or the timer has fired, and the answers reach f+1.
FinishFetch ==
    /\ sync = "ask" /\ replied \in ValiditySets
    /\ sync' = "set"
    /\ UNCHANGED <<coreVars, timerVars, stored, replied, highest_round, netVars, faultVars>>

\* The timer has fired with fewer answers: ask all peers again.
RetryFetch ==
    /\ sync = "ask" /\ replied # {} /\ replied \notin ValiditySets
    /\ replied' = {} /\ highest_round' = 0
    /\ UNCHANGED <<coreVars, timerVars, stored, sync, netVars, faultVars>>

-----------------------------------------------------------------------------
\* Stops and starts.

\* Every set of peers whose answers would be enough has a correct peer with b.
Propagated(b) ==
    \A V \in ValiditySets : V \subseteq Peers => \E p \in V \ Byzantine : b \in held[p]

\* The node stops at any point and starts again from store S.  A process starts with
\* boot_counter 0, so the last own block is asked for.  recover_validator cannot propose
\* yet: it broadcasts the last own block again.
RestartFrom(S) ==
    LET last == {b \in OwnBlocks(S) : b.round = HighestRound(OwnBlocks(S))}
        c    == RecoveredClock(S)
        own  == HighestRound(OwnBlocks(S))
    IN /\ accepted' = S /\ stored' = S /\ clock' = c
       /\ proposing' = {} /\ propagation_high' = FALSE
       /\ published' = published \cup last
       /\ last_signaled_round' = IF c.round > own THEN c.round ELSE own
       /\ new_round' = IF c.round > own THEN c.round ELSE 0
       /\ leader_round' = new_round' /\ min_timed_out' = FALSE /\ max_timed_out' = FALSE
       /\ last_known_proposed_round' = Unknown
       /\ sync' = "ask" /\ replied' = {} /\ highest_round' = 0

\* The store survives.
CrashAndRestart ==
    /\ crashes < MaxCrashes /\ crashes' = crashes + 1
    /\ RestartFrom(stored)
    /\ UNCHANGED <<created, held, lost>>

\* The store is gone (the data directory was lost or restored from an empty one).
LoseStoreAndRestart ==
    /\ crashes < MaxCrashes /\ crashes' = crashes + 1
    /\ RestartFrom({})
    /\ lost' = lost \cup {b \in published : ~Propagated(b)}
    /\ UNCHANGED <<created, held>>

-----------------------------------------------------------------------------
\* The first start of the process, and the start at an epoch change (boot_counter > 0),
\* where recover_validator proposes the block of round 1.
Init ==
    /\ stored = {} /\ published = {} /\ held = [p \in Peers |-> {}]
    /\ propagation_high = FALSE
    /\ replied = {} /\ highest_round = 0
    /\ min_timed_out = FALSE /\ max_timed_out = FALSE
    /\ lost = {} /\ crashes = 0
    /\ \/ /\ accepted = {} /\ proposing = {} /\ created = 0
          /\ clock = NewClock
          /\ last_known_proposed_round = Unknown /\ sync = "ask"
          /\ last_signaled_round = 1 /\ new_round = 1 /\ leader_round = 1
       \/ LET b == [author |-> Own, round |-> 1, id |-> 1] IN
          /\ accepted = {b} /\ proposing = {b} /\ created = 1
          /\ clock = add_block(NewClock, b)
          /\ last_known_proposed_round = 0 /\ sync = "done"
          /\ last_signaled_round = 0 /\ new_round = 0 /\ leader_round = 0

Next ==
    \/ Broadcast \/ Flush
    \/ \E b \in Receivable : AddBlock(b)
    \/ SetLastKnownProposedRound
    \/ \E high \in BOOLEAN : SetPropagationDelay(high)
    \/ NewRound \/ MinTimeout \/ MaxTimeout
    \/ \E p \in Peers : \E b \in published : Deliver(p, b)
    \/ \E p \in Peers : Reply(p)
    \/ FinishFetch \/ RetryFetch
    \/ CrashAndRestart \/ LoseStoreAndRestart

Spec == Init /\ [][Next]_vars

\* The core thread finishes what it does and takes the values set on its channels, timers
\* fire, and the fetch task takes its decision.
FairSpec ==
    /\ Spec
    /\ WF_vars(Broadcast) /\ WF_vars(SetLastKnownProposedRound)
    /\ WF_vars(NewRound) /\ WF_vars(MaxTimeout)

-----------------------------------------------------------------------------
\* Two different own blocks of one round are never both signed and seen: neither broadcast
\* nor in DagState.  After the loss of the store this needs that the earlier block had
\* reached a correct peer in every f+1 of the peers; the blocks for which this does not
\* hold are in lost.  (The purpose of start_fetch_own_last_block_task, and the assertion of
\* DagState::accept_block on own slots.)
NoEquivocation ==
    \A b, c \in OwnBlocks(accepted) \cup published :
        b.round = c.round /\ b # c => b \in lost \/ c \in lost

\* The clock stands at the first round or above a quorum of accepted blocks: the assertion
\* of smart_ancestors_to_propose ("quorum not reached for parent round") cannot fail.
ParentQuorum ==
    clock.round > 1 => AuthorsAt(accepted, clock.round - 1) \in Quorums

\* The clock is the one that a restart would rebuild from the same blocks, whatever the
\* order in which they were accepted: DagState::new does not fall behind or run ahead.
ClockRecovers == clock = RecoveredClock(accepted)

-----------------------------------------------------------------------------
\* The inductive invariant.

\* Accepted blocks have their parents.
Causal(S) == \A b \in S : b.round > 1 => AuthorsAt(S, b.round - 1) \in Quorums

\* The own blocks that a restart may have forgotten.
Forgotten == published \ (stored \cup lost)

\* A forgotten block is not above what the peers have told, or will tell: while answers
\* come in, every f+1 of the peers has a correct one that holds it and has not answered.
WillBeTold(b) ==
    /\ Propagated(b)
    /\ sync = "ask" =>
          \/ b.round <= highest_round
          \/ \A V \in ValiditySets : V \subseteq Peers =>
                \E p \in V \ (Byzantine \cup replied) : b \in held[p]
    /\ sync = "set" => b.round <= highest_round
    /\ sync = "done" => b.round <= last_known_proposed_round

IInv ==
    /\ TypeOK /\ NoEquivocation /\ ClockRecovers
    /\ Causal(accepted) /\ Causal(stored)
    /\ \A b \in published \cup proposing : b.author = Own
    /\ last_known_proposed_round = Unknown <=> sync # "done"
    /\ \A b \in Forgotten : WillBeTold(b)

-----------------------------------------------------------------------------
\* Liveness.

CanPropose ==
    CoreIdle /\ Ready(accepted, clock, last_known_proposed_round, propagation_high)

\* A node that may propose does so, or loses the right to (a crash, a high propagation
\* delay): no combination of spent timers, a late answer of the peers and a delay that
\* falls again leaves it waiting for ever.
ProposesEventually == CanPropose ~> ~CanPropose
=============================================================================
