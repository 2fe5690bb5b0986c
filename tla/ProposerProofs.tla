--------------------------- MODULE ProposerProofs ---------------------------
(***************************************************************************)
(* Proofs about Proposer, for every committee, every set of faulty peers   *)
(* that holds no f+1, any number of rounds and of restarts: a validator    *)
(* does not equivocate, and its clock is the one a restart would rebuild.  *)
(***************************************************************************)
EXTENDS Proposer, WellFoundedInduction, TLAPS

-----------------------------------------------------------------------------
\* Rounds and authors of sets of blocks.

\* A non-empty set of naturals has a least element.
LEMMA LeastNatural ==
    ASSUME NEW S \in SUBSET Nat, S # {}
    PROVE  \E m \in S : \A n \in S : m <= n
  <1> DEFINE R == OpToRel(<, Nat)
  <1>1. IsWellFoundedOn(R, Nat)
    BY NatLessThanWellFounded
  <1>2. \A x, y \in Nat : <<x, y>> \in R <=> x < y
    BY DEF OpToRel
  <1> HIDE DEF R
  <1>3. PICK m \in S : \A n \in S : ~ (<<n, m>> \in R)
    BY <1>1, WFMin
  <1>4. \A n \in S : ~(n < m)
    BY <1>2, <1>3, Zenon
  <1>5. \A n \in S : m <= n
    BY <1>4
  <1> QED
    BY <1>3, <1>5

\* The fields of blocks.
LEMMA BlockFacts ==
    ASSUME NEW S \in SUBSET Block
    PROVE  /\ \A b \in S : b.author \in Authorities /\ b.round \in 1 .. MaxRound
           /\ \A b \in S : b.round \in Nat /\ 1 <= b.round /\ b.round <= MaxRound
           /\ MaxRound \in Nat /\ 1 <= MaxRound
  <1>1. MaxRound \in Nat /\ 1 <= MaxRound
    BY ProposerAssumption
  <1>2. \A b \in S : b.author \in Authorities /\ b.round \in 1 .. MaxRound
    BY DEF Block
  <1> QED
    BY <1>1, <1>2

\* The highest round of a set of blocks is the round of one of them, and of none is higher.
LEMMA HighestRoundFacts ==
    ASSUME NEW S \in SUBSET Block
    PROVE  /\ HighestRound(S) \in 0 .. MaxRound
           /\ \A b \in S : b.round <= HighestRound(S)
           /\ S # {} => 1 <= HighestRound(S) /\ \E b \in S : b.round = HighestRound(S)
  <1> DEFINE T == {MaxRound - b.round : b \in S}
  <1>1. CASE S = {}
    BY <1>1, BlockFacts DEF HighestRound
  <1>2. CASE S # {}
    <2>1. T \in SUBSET Nat /\ T # {}
      BY <1>2, BlockFacts
    <2> HIDE DEF T
    <2>2. PICK m \in T : \A n \in T : m <= n
      BY <2>1, LeastNatural
    <2> USE DEF T
    <2>3. PICK b \in S : m = MaxRound - b.round
      BY <2>2
    <2>4. \A c \in S : c.round <= b.round
      <3> SUFFICES ASSUME NEW c \in S PROVE c.round <= b.round
        OBVIOUS
      <3>1. m <= MaxRound - c.round
        BY <2>2
      <3> QED
        BY <2>3, <3>1, BlockFacts
    <2>5. \E r \in {c.round : c \in S} : \A c \in S : c.round <= r
      BY <2>4
    <2> DEFINE h == CHOOSE r \in {c.round : c \in S} : \A c \in S : c.round <= r
    <2>6. h \in {c.round : c \in S} /\ \A c \in S : c.round <= h
      BY <2>5
    <2>7. HighestRound(S) = h
      BY <1>2 DEF HighestRound
    <2> HIDE DEF h
    <2> QED
      BY <2>6, <2>7, BlockFacts
  <1> QED
    BY <1>1, <1>2

\* A round of a block that none exceeds is the highest.
LEMMA HighestRoundIs ==
    ASSUME NEW S \in SUBSET Block, NEW b \in S, \A c \in S : c.round <= b.round
    PROVE  HighestRound(S) = b.round
  <1>1. b.round <= HighestRound(S) /\ HighestRound(S) <= b.round
    BY HighestRoundFacts
  <1>2. HighestRound(S) \in Nat /\ b.round \in Nat
    BY HighestRoundFacts, BlockFacts
  <1> QED
    BY <1>1, <1>2

\* Quorums are closed under more authors.
LEMMA MoreAuthors ==
    ASSUME NEW S \in SUBSET Block, NEW T \in SUBSET Block, S \subseteq T, NEW r,
           AuthorsAt(S, r) \in Quorums
    PROVE  AuthorsAt(T, r) \in Quorums
  <1>1. AuthorsAt(S, r) \subseteq AuthorsAt(T, r)
    BY DEF AuthorsAt
  <1>2. AuthorsAt(T, r) \in SUBSET Authorities
    BY BlockFacts DEF AuthorsAt
  <1> QED
    BY <1>1, <1>2, ProposerAssumption

-----------------------------------------------------------------------------
\* The threshold clock.

\* A recovered clock has a round and authors.
LEMMA ClockType ==
    ASSUME NEW S \in SUBSET Block
    PROVE  RecoveredClock(S) \in [round : 1 .. MaxRound + 1, authors : SUBSET Authorities]
  <1>1. \A r : AuthorsAt(S, r) \in SUBSET Authorities
    BY BlockFacts DEF AuthorsAt
  <1>2. MaxRound \in Nat /\ 1 <= MaxRound /\ 1 \in 1 .. MaxRound + 1
    BY BlockFacts
  <1>3. S # {} => /\ HighestRound(S) \in 1 .. MaxRound + 1
                  /\ HighestRound(S) + 1 \in 1 .. MaxRound + 1
    BY <1>2, HighestRoundFacts
  <1> QED
    BY <1>1, <1>2, <1>3 DEF RecoveredClock, NewClock

\* Adding a block to the clock of S gives the clock of S and the block, in whatever order
\* the blocks come: add_block and the recovery of DagState count the same.
LEMMA AddBlockRecovers ==
    ASSUME NEW S \in SUBSET Block, NEW b \in Block
    PROVE  add_block(RecoveredClock(S), b) = RecoveredClock(S \cup {b})
  <1> DEFINE T == S \cup {b}
             h == HighestRound(S)
  <1>1. T \in SUBSET Block /\ T # {} /\ b \in T /\ S \subseteq T
    OBVIOUS
  <1>2. b.round \in Nat /\ 1 <= b.round /\ h \in Nat
    BY <1>1, BlockFacts, HighestRoundFacts
  <1>3. \A c \in S : c.round <= h /\ c.round \in Nat
    BY HighestRoundFacts, BlockFacts
  <1>4. CASE S = {} \/ b.round > h
    <2>1. \A c \in S : c.round < b.round
      BY <1>2, <1>3, <1>4
    <2>2. HighestRound(T) = b.round
      BY <1>1, <1>2, <1>3, <2>1, HighestRoundIs
    <2>3. AuthorsAt(T, b.round) = {b.author}
      <3>1. \A c \in S : c.round # b.round
        BY <1>2, <1>3, <2>1
      <3> QED
        BY <3>1 DEF AuthorsAt
    <2> DEFINE k == RecoveredClock(S)
    <2>4. /\ k.round \in Nat /\ k.round <= b.round
          /\ b.round = k.round => k.authors = {}
      <3>1. CASE S = {}
        BY <1>2, <3>1 DEF RecoveredClock, NewClock
      <3>2. CASE S # {}
        BY <1>2, <1>4, <3>2 DEF RecoveredClock
      <3> QED
        BY <3>1, <3>2
    <2>5. RecoveredClock(T) = IF {b.author} \in Quorums
                              THEN [round |-> b.round + 1, authors |-> {}]
                              ELSE [round |-> b.round, authors |-> {b.author}]
      BY <1>1, <2>2, <2>3 DEF RecoveredClock
    <2> HIDE DEF k
    <2>6. add_block(k, b) = IF {b.author} \in Quorums
                            THEN [round |-> b.round + 1, authors |-> {}]
                            ELSE [round |-> b.round, authors |-> {b.author}]
      <3>1. ~(b.round < k.round)
        BY <1>2, <2>4
      <3>2. (IF b.round = k.round THEN k.authors ELSE {}) \cup {b.author} = {b.author}
        BY <2>4
      <3> QED
        BY <3>1, <3>2 DEF add_block
    <2> QED
      BY <2>5, <2>6 DEF k
  <1>5. CASE S # {} /\ b.round <= h
    <2>1. PICK c \in S : c.round = h
      BY <1>5, HighestRoundFacts
    <2>2. HighestRound(T) = h
      BY <1>1, <1>3, <1>5, <2>1, HighestRoundIs
    <2>3. CASE AuthorsAt(S, h) \in Quorums
      <3>1. AuthorsAt(T, h) \in Quorums
        BY <1>1, <2>3, MoreAuthors
      <3>2. RecoveredClock(S) = [round |-> h + 1, authors |-> {}]
            /\ RecoveredClock(T) = [round |-> h + 1, authors |-> {}]
        BY <1>1, <1>5, <2>2, <2>3, <3>1 DEF RecoveredClock
      <3>3. b.round < h + 1
        BY <1>2, <1>5
      <3> QED
        BY <3>2, <3>3 DEF add_block
    <2>4. CASE AuthorsAt(S, h) \notin Quorums
      <3>1. RecoveredClock(S) = [round |-> h, authors |-> AuthorsAt(S, h)]
        BY <1>5, <2>4 DEF RecoveredClock
      <3>2. CASE b.round = h
        <4>1. AuthorsAt(T, h) = AuthorsAt(S, h) \cup {b.author}
          BY <3>2 DEF AuthorsAt
        <4>2. RecoveredClock(T) = IF AuthorsAt(S, h) \cup {b.author} \in Quorums
                                  THEN [round |-> h + 1, authors |-> {}]
                                  ELSE [round |-> h, authors |-> AuthorsAt(S, h) \cup {b.author}]
          BY <1>1, <2>2, <4>1 DEF RecoveredClock
        <4> HIDE DEF h
        <4> QED
          BY <1>2, <3>1, <3>2, <4>2 DEF add_block
      <3>3. CASE b.round # h
        <4>1. b.round < h /\ AuthorsAt(T, h) = AuthorsAt(S, h)
          BY <1>2, <1>5, <3>3 DEF AuthorsAt
        <4> QED
          BY <1>1, <2>2, <2>4, <3>1, <4>1 DEF add_block, RecoveredClock
      <3> QED
        BY <3>2, <3>3
    <2> QED
      BY <2>3, <2>4
  <1> QED
    BY <1>2, <1>4, <1>5

\* Under a recovered clock there is a quorum, if the blocks have their parents.
LEMMA ClockParents ==
    ASSUME NEW S \in SUBSET Block, Causal(S), RecoveredClock(S).round > 1
    PROVE  AuthorsAt(S, RecoveredClock(S).round - 1) \in Quorums
  <1> DEFINE h == HighestRound(S)
  <1>1. S # {}
    BY DEF RecoveredClock, NewClock
  <1>2. h \in Nat
    BY HighestRoundFacts
  <1>3. CASE AuthorsAt(S, h) \in Quorums
    <2>1. RecoveredClock(S).round = h + 1
      BY <1>1, <1>3 DEF RecoveredClock
    <2> QED
      BY <1>2, <1>3, <2>1
  <1>4. CASE AuthorsAt(S, h) \notin Quorums
    <2>1. RecoveredClock(S).round = h
      BY <1>1, <1>4 DEF RecoveredClock
    <2>2. PICK b \in S : b.round = h
      BY <1>1, HighestRoundFacts
    <2> QED
      BY <2>1, <2>2 DEF Causal
  <1> QED
    BY <1>3, <1>4

-----------------------------------------------------------------------------
\* Proposals.

\* What try_propose does once DagState holds S: at most one block is added, above the last
\* known proposed round and above every own block.
Proposes(S, known) ==
    /\ \/ accepted' = S
       \/ known # Unknown /\ \E b \in Block :
             /\ b.author = Own /\ b.round = RecoveredClock(S).round /\ b.round > known
             /\ \A c \in OwnBlocks(S) : c.round < b.round
             /\ accepted' = S \cup {b}
    /\ clock' = RecoveredClock(accepted')
    /\ proposing' \subseteq OwnBlocks(accepted') /\ created' \in Nat
    /\ last_signaled_round' \in 0 .. MaxRound + 1 /\ new_round' \in 0 .. MaxRound + 1

LEMMA TryProposes ==
    ASSUME TypeOK, CoreIdle, NEW S \in SUBSET Block, NEW known \in 0 .. MaxRound \cup {Unknown},
           NEW high, NEW force, try_propose(S, RecoveredClock(S), known, high, force)
    PROVE  Proposes(S, known)
  <1> DEFINE c == RecoveredClock(S)
  <1>1. c.round \in 1 .. MaxRound + 1 /\ MaxRound \in Nat
    BY ClockType, BlockFacts
  <1>2. CASE Ready(S, c, known, high) /\ NewOwnBlock(S, c)
    <2> DEFINE b == [author |-> Own, round |-> c.round, id |-> created + 1]
    <2>1. b \in Block /\ created + 1 \in Nat
      BY <1>1, <1>2, ProposerAssumption DEF Ready, Block, TypeOK
    <2>2. accepted' = S \cup {b} /\ proposing' = {b} /\ created' = created + 1
          /\ clock' = add_block(c, b) /\ UNCHANGED <<last_signaled_round, new_round>>
      BY <1>2 DEF NewOwnBlock
    <2>3. clock' = RecoveredClock(S \cup {b})
      BY <2>1, <2>2, AddBlockRecovers
    <2>4. \A d \in OwnBlocks(S) : d.round < b.round
      <3>1. OwnBlocks(S) \in SUBSET Block
        BY DEF OwnBlocks
      <3>2. c.round > HighestRound(OwnBlocks(S))
        BY <1>2 DEF Ready
      <3> QED
        BY <1>1, <3>1, <3>2, HighestRoundFacts, BlockFacts
    <2>5. known # Unknown /\ b.round > known /\ b.author = Own /\ b.round = c.round
      BY <1>2 DEF Ready
    <2> HIDE DEF b
    <2> QED
      BY <2>1, <2>2, <2>3, <2>4, <2>5 DEF Proposes, TypeOK, OwnBlocks
  <1>3. CASE NoProposal(S, c)
    BY <1>1, <1>3 DEF NoProposal, try_signal_new_round, Proposes, TypeOK, CoreIdle
  <1> QED
    BY <1>2, <1>3 DEF try_propose

LEMMA NewBlockProposes ==
    ASSUME TypeOK, ClockRecovers, CoreIdle, NEW known \in 0 .. MaxRound \cup {Unknown},
           NEW round, NEW high, NEW force, new_block(round, known, high, force)
    PROVE  Proposes(accepted, known)
  <1>1. accepted \in SUBSET Block
    BY DEF TypeOK
  <1>2. CASE try_propose(accepted, clock, known, high, force)
    BY <1>1, <1>2, TryProposes DEF ClockRecovers
  <1>3. CASE UNCHANGED <<accepted, clock, proposing, created, last_signaled_round, new_round>>
    BY <1>3 DEF Proposes, ClockRecovers, TypeOK, CoreIdle
  <1> QED
    BY <1>2, <1>3 DEF new_block

\* A proposal does not equivocate, has its parents, and moves the clock as a restart would.
LEMMA ProposesCore ==
    ASSUME IInv, NEW S \in SUBSET Block, accepted \subseteq S, Causal(S),
           OwnBlocks(S) \subseteq OwnBlocks(accepted) \cup published,
           NEW known \in 0 .. MaxRound \cup {Unknown},
           known # Unknown => \A b \in Forgotten : b.round <= known,
           Proposes(S, known), UNCHANGED <<published, lost>>
    PROVE  /\ accepted' \in SUBSET Block /\ accepted \subseteq accepted'
           /\ NoEquivocation' /\ ClockRecovers' /\ Causal(accepted)'
  <1>1. ClockRecovers'
    BY DEF Proposes, ClockRecovers
  <1>2. CASE accepted' = S
    BY <1>1, <1>2 DEF NoEquivocation, IInv
  <1>3. ASSUME NEW n \in Block, known # Unknown, n.author = Own,
               n.round = RecoveredClock(S).round, n.round > known,
               \A c \in OwnBlocks(S) : c.round < n.round, accepted' = S \cup {n}
        PROVE  NoEquivocation' /\ Causal(accepted)' /\ accepted' \in SUBSET Block
    <2>1. n.round \in Nat /\ known \in Nat /\ \A b \in S \cup published : b.round \in Nat
      BY <1>3, BlockFacts, ProposerAssumption DEF IInv, TypeOK
    <2>2. ASSUME NEW b \in OwnBlocks(accepted') \cup published, b # n, b.round = n.round
          PROVE  b \in lost
      <3>1. b \notin OwnBlocks(S)
        BY <1>3, <2>1, <2>2 DEF OwnBlocks
      <3>2. b \in published /\ b.author = Own
        BY <1>3, <2>2, <3>1 DEF OwnBlocks, IInv
      <3>3. b \notin stored
        BY <3>1, <3>2 DEF OwnBlocks, IInv, TypeOK
      <3>4. b \notin Forgotten
        BY <1>3, <2>1, <2>2, <3>2
      <3> QED
        BY <3>2, <3>3, <3>4 DEF Forgotten
    <2>3. NoEquivocation'
      <3> SUFFICES ASSUME NEW b \in OwnBlocks(accepted') \cup published,
                          NEW c \in OwnBlocks(accepted') \cup published,
                          b.round = c.round, b # c
                   PROVE  b \in lost \/ c \in lost
        BY DEF NoEquivocation
      <3>1. CASE b = n \/ c = n
        BY <2>2, <3>1
      <3>2. CASE b # n /\ c # n
        <4>1. b \in OwnBlocks(accepted) \cup published /\ c \in OwnBlocks(accepted) \cup published
          BY <1>3, <3>2 DEF OwnBlocks
        <4> QED
          BY <4>1 DEF NoEquivocation, IInv
      <3> QED
        BY <3>1, <3>2
    <2>4. accepted' \in SUBSET Block /\ S \subseteq accepted'
      BY <1>3
    <2>5. ASSUME NEW b \in accepted', b.round > 1
          PROVE  AuthorsAt(accepted', b.round - 1) \in Quorums
      <3>1. AuthorsAt(S, b.round - 1) \in Quorums
        <4>1. CASE b \in S
          BY <2>5, <4>1 DEF Causal
        <4>2. CASE b = n
          BY <1>3, <2>5, <4>2, ClockParents
        <4> QED
          BY <1>3, <4>1, <4>2
      <3> QED
        BY <2>4, <3>1, MoreAuthors
    <2> QED
      BY <2>3, <2>4, <2>5 DEF Causal
  <1> QED
    BY <1>1, <1>2, <1>3 DEF Proposes

\* A step of the core thread that may propose preserves the invariant when the blocks it adds
\* first have their parents, and when the last known proposed round it sets covers every
\* forgotten block.
LEMMA ProposesInv ==
    ASSUME IInv, NEW S \in SUBSET Block, accepted \subseteq S, Causal(S),
           OwnBlocks(S) \subseteq OwnBlocks(accepted) \cup published,
           last_known_proposed_round' \in 0 .. MaxRound \cup {Unknown},
           Proposes(S, last_known_proposed_round'),
           propagation_high' \in BOOLEAN, sync' \in {"ask", "set", "done"},
           min_timed_out' \in BOOLEAN, max_timed_out' \in BOOLEAN,
           last_known_proposed_round' = Unknown <=> sync' # "done",
           \A b \in Forgotten : WillBeTold(b)',
           UNCHANGED <<leader_round, stored, replied, highest_round, netVars, faultVars>>
    PROVE  IInv'
  <1>1. UNCHANGED <<leader_round, stored, replied, highest_round, published, held, lost, crashes>>
    BY DEF netVars, faultVars
  <1>2. Forgotten' = Forgotten
    BY <1>1 DEF Forgotten
  <1>3. last_known_proposed_round' # Unknown =>
            \A b \in Forgotten : b.round <= last_known_proposed_round'
    BY DEF WillBeTold
  <1>4. /\ accepted' \in SUBSET Block /\ accepted \subseteq accepted'
        /\ NoEquivocation' /\ ClockRecovers' /\ Causal(accepted)'
    BY <1>1, <1>3, ProposesCore
  <1>5. clock' \in [round : 1 .. MaxRound + 1, authors : SUBSET Authorities]
    BY <1>4, ClockType DEF ClockRecovers
  <1>6. proposing' \in SUBSET accepted' /\ \A b \in proposing' : b.author = Own
    BY DEF Proposes, OwnBlocks
  <1>7. TypeOK'
    BY <1>1, <1>4, <1>5, <1>6 DEF TypeOK, IInv, Proposes
  <1>8. Causal(stored)' /\ \A b \in published' \cup proposing' : b.author = Own
    BY <1>1, <1>6 DEF Causal, IInv
  <1> QED
    BY <1>2, <1>4, <1>7, <1>8 DEF IInv

\* What was told stays told while the fetch task and the peers do not move.
LEMMA ToldStays ==
    ASSUME NEW b, WillBeTold(b), UNCHANGED <<syncVars, last_known_proposed_round, held>>
    PROVE  WillBeTold(b)'
  BY DEF WillBeTold, Propagated, syncVars

LEMMA AddBlockInv ==
    ASSUME IInv, NEW b, AddBlock(b)
    PROVE  IInv'
  <1> DEFINE S == accepted \cup {b}
  <1>1. b \in Block /\ (b.author = Own => b \in published)
    <2>1. CASE b \in [author : Peers, round : 1 .. MaxRound, id : {0}]
      BY <2>1 DEF Block, Peers
    <2>2. CASE b \in UNION {held[p] : p \in Peers}
      BY <2>2 DEF IInv, TypeOK
    <2> QED
      BY <2>1, <2>2 DEF AddBlock, Receivable
  <1>2. S \in SUBSET Block /\ accepted \in SUBSET Block /\ accepted \subseteq S
    BY <1>1 DEF IInv, TypeOK
  <1>3. OwnBlocks(S) \subseteq OwnBlocks(accepted) \cup published
    BY <1>1 DEF OwnBlocks
  <1>4. Causal(S)
    <2> SUFFICES ASSUME NEW c \in S, c.round > 1
                 PROVE  AuthorsAt(S, c.round - 1) \in Quorums
      BY DEF Causal
    <2>1. AuthorsAt(accepted, c.round - 1) \in Quorums
      BY DEF IInv, Causal, AddBlock, ParentsAccepted
    <2> QED
      BY <1>2, <2>1, MoreAuthors
  <1>5. add_block(clock, b) = RecoveredClock(S)
    BY <1>1, <1>2, AddBlockRecovers DEF IInv, ClockRecovers
  <1>6. try_propose(S, RecoveredClock(S), last_known_proposed_round, propagation_high, FALSE)
    BY <1>5 DEF AddBlock
  <1> HIDE DEF S
  <1>7. Proposes(S, last_known_proposed_round)
    BY <1>2, <1>6, TryProposes DEF AddBlock, IInv, TypeOK
  <1>8. \A c \in Forgotten : WillBeTold(c)'
    BY ToldStays DEF IInv, AddBlock, netVars
  <1> QED
    BY <1>2, <1>3, <1>4, <1>7, <1>8, ProposesInv
       DEF AddBlock, IInv, TypeOK, timerVars, syncVars

\* The steps that leave the accepted blocks as they are before they propose.
LEMMA NewBlockInv ==
    ASSUME IInv, Proposes(accepted, last_known_proposed_round'),
           last_known_proposed_round' \in 0 .. MaxRound \cup {Unknown},
           propagation_high' \in BOOLEAN, sync' \in {"ask", "set", "done"},
           min_timed_out' \in BOOLEAN, max_timed_out' \in BOOLEAN,
           last_known_proposed_round' = Unknown <=> sync' # "done",
           \A b \in Forgotten : WillBeTold(b)',
           UNCHANGED <<leader_round, stored, replied, highest_round, netVars, faultVars>>
    PROVE  IInv'
  <1>1. accepted \in SUBSET Block /\ Causal(accepted)
    BY DEF IInv, TypeOK
  <1> QED
    BY <1>1, ProposesInv

LEMMA SetLastKnownProposedRoundInv ==
    ASSUME IInv, SetLastKnownProposedRound
    PROVE  IInv'
  <1>1. highest_round \in 0 .. MaxRound
    BY DEF IInv, TypeOK
  <1>2. Proposes(accepted, highest_round)
    BY <1>1, NewBlockProposes DEF SetLastKnownProposedRound, IInv
  <1>3. \A b \in Forgotten : WillBeTold(b)'
    BY DEF IInv, WillBeTold, Propagated, SetLastKnownProposedRound, netVars
  <1>4. highest_round # Unknown
    BY <1>1, ProposerAssumption
  <1> QED
    BY <1>1, <1>2, <1>3, <1>4, NewBlockInv
       DEF SetLastKnownProposedRound, IInv, TypeOK, timerVars

LEMMA SetPropagationDelayInv ==
    ASSUME IInv, NEW high \in BOOLEAN, SetPropagationDelay(high)
    PROVE  IInv'
  <1>1. Proposes(accepted, last_known_proposed_round)
    <2>1. CASE new_block(MaxRound + 1, last_known_proposed_round, high, TRUE)
      BY <2>1, NewBlockProposes DEF SetPropagationDelay, IInv, TypeOK
    <2>2. CASE UNCHANGED <<accepted, clock, proposing, created, last_signaled_round, new_round>>
      BY <2>2 DEF Proposes, IInv, TypeOK, ClockRecovers, SetPropagationDelay, CoreIdle
    <2> QED
      BY <2>1, <2>2 DEF SetPropagationDelay
  <1>2. \A b \in Forgotten : WillBeTold(b)'
    BY ToldStays DEF IInv, SetPropagationDelay, netVars
  <1>3. propagation_high' \in BOOLEAN
    BY DEF SetPropagationDelay
  <1> QED
    BY <1>1, <1>2, <1>3, NewBlockInv
       DEF SetPropagationDelay, IInv, TypeOK, timerVars, syncVars

LEMMA TimeoutInv ==
    ASSUME IInv, MinTimeout \/ MaxTimeout
    PROVE  IInv'
  <1>1. Proposes(accepted, last_known_proposed_round)
    BY NewBlockProposes DEF MinTimeout, MaxTimeout, IInv, TypeOK
  <1>2. \A b \in Forgotten : WillBeTold(b)'
    BY ToldStays DEF IInv, MinTimeout, MaxTimeout, netVars
  <1> QED
    BY <1>1, <1>2, NewBlockInv DEF MinTimeout, MaxTimeout, IInv, TypeOK, syncVars

-----------------------------------------------------------------------------
\* Steps that leave the accepted blocks and the clock alone.

\* Such a step preserves what does not depend on the fetch task.
LEMMA QuietInv ==
    ASSUME IInv, TypeOK', UNCHANGED <<accepted, clock, lost>>,
           Causal(stored)', proposing' \subseteq proposing,
           published' \subseteq published \cup OwnBlocks(accepted),
           last_known_proposed_round' = Unknown <=> sync' # "done",
           \A b \in Forgotten' : WillBeTold(b)'
    PROVE  IInv'
  <1>1. OwnBlocks(accepted') \cup published' \subseteq OwnBlocks(accepted) \cup published
    BY DEF OwnBlocks
  <1>2. NoEquivocation'
    BY <1>1 DEF NoEquivocation, IInv
  <1>3. ClockRecovers' /\ Causal(accepted)'
    BY DEF ClockRecovers, IInv
  <1>4. \A b \in published' \cup proposing' : b.author = Own
    BY DEF IInv, OwnBlocks
  <1> QED
    BY <1>2, <1>3, <1>4 DEF IInv

LEMMA BroadcastInv ==
    ASSUME IInv, Broadcast
    PROVE  IInv'
  <1>1. clock.round \in 0 .. MaxRound + 1
    BY BlockFacts DEF IInv, TypeOK
  <1>2. new_round' \in 0 .. MaxRound + 1 /\ last_signaled_round' \in 0 .. MaxRound + 1
    BY <1>1 DEF Broadcast, try_signal_new_round, IInv, TypeOK
  <1>3. held \in [Peers -> SUBSET published'] /\ published' \in SUBSET Block
        /\ lost \in SUBSET published'
    BY DEF Broadcast, IInv, TypeOK
  <1>4. TypeOK'
    BY <1>2, <1>3 DEF Broadcast, IInv, TypeOK, timerVars, syncVars, faultVars
  <1>5. published' \subseteq published \cup OwnBlocks(accepted) /\ Causal(stored)'
    BY DEF Broadcast, IInv, TypeOK, OwnBlocks, Causal
  <1>6. Forgotten' \subseteq Forgotten
    BY DEF Forgotten, Broadcast, IInv, TypeOK, faultVars
  <1>7. \A b \in Forgotten' : WillBeTold(b)'
    BY <1>6, ToldStays DEF IInv, Broadcast
  <1> QED
    BY <1>4, <1>5, <1>7, QuietInv DEF Broadcast, IInv, syncVars, faultVars

LEMMA FlushInv ==
    ASSUME IInv, Flush
    PROVE  IInv'
  <1>1. TypeOK'
    BY DEF Flush, IInv, TypeOK, coreVars, timerVars, syncVars, netVars, faultVars
  <1>2. Causal(stored)'
    BY DEF Flush, IInv, Causal
  <1>3. Forgotten' \subseteq Forgotten
    BY DEF Forgotten, Flush, IInv, TypeOK, netVars, faultVars
  <1>4. \A b \in Forgotten' : WillBeTold(b)'
    BY <1>3, ToldStays DEF IInv, Flush, coreVars, netVars
  <1> QED
    BY <1>1, <1>2, <1>4, QuietInv DEF Flush, IInv, coreVars, syncVars, netVars, faultVars

LEMMA NewRoundInv ==
    ASSUME IInv, NewRound
    PROVE  IInv'
  <1>1. TypeOK'
    BY DEF NewRound, IInv, TypeOK, coreVars, syncVars, netVars, faultVars
  <1>2. Causal(stored)' /\ Forgotten' = Forgotten
    BY DEF NewRound, IInv, Causal, Forgotten, netVars, faultVars
  <1>3. \A b \in Forgotten' : WillBeTold(b)'
    BY <1>2, ToldStays DEF IInv, NewRound, coreVars, netVars
  <1> QED
    BY <1>1, <1>2, <1>3, QuietInv DEF NewRound, IInv, coreVars, syncVars, netVars, faultVars

\* A peer that accepts one more block still holds the others.
LEMMA DeliverInv ==
    ASSUME IInv, NEW p \in Peers, NEW b \in published, Deliver(p, b)
    PROVE  IInv'
  <1>1. held' \in [Peers -> SUBSET published]
        /\ \A q \in Peers : held[q] \subseteq held'[q]
    BY DEF Deliver, IInv, TypeOK
  <1>2. TypeOK'
    BY <1>1 DEF Deliver, IInv, TypeOK, coreVars, timerVars, syncVars, faultVars
  <1>3. Causal(stored)' /\ Forgotten' = Forgotten
    BY DEF Deliver, IInv, Causal, Forgotten, faultVars
  <1>4. \A c \in Forgotten' : WillBeTold(c)'
    <2> SUFFICES ASSUME NEW c \in Forgotten PROVE WillBeTold(c)'
      BY <1>3
    <2>1. WillBeTold(c) /\ UNCHANGED <<sync, replied, highest_round, last_known_proposed_round>>
      BY DEF IInv, Deliver, syncVars, coreVars
    <2>2. Propagated(c)'
      BY <1>1, <2>1 DEF WillBeTold, Propagated
    <2>3. (\A V \in ValiditySets : V \subseteq Peers =>
              \E q \in V \ (Byzantine \cup replied) : c \in held[q]) =>
          (\A V \in ValiditySets : V \subseteq Peers =>
              \E q \in V \ (Byzantine \cup replied) : c \in held'[q])
      BY <1>1
    <2> QED
      BY <2>1, <2>2, <2>3 DEF WillBeTold
  <1> QED
    BY <1>2, <1>3, <1>4, QuietInv DEF Deliver, IInv, coreVars, syncVars, faultVars

-----------------------------------------------------------------------------
\* The task that asks for the last own block.

\* The steps of the task change only what it has been told.
LEMMA FetchInv ==
    ASSUME IInv, UNCHANGED <<coreVars, timerVars, stored, netVars, faultVars>>,
           sync = "ask", sync' \in {"ask", "set"}, replied' \in SUBSET Peers,
           highest_round' \in 0 .. MaxRound, \A b \in Forgotten : WillBeTold(b)'
    PROVE  IInv'
  <1>1. TypeOK'
    BY DEF IInv, TypeOK, coreVars, timerVars, netVars, faultVars
  <1>2. Causal(stored)' /\ Forgotten' = Forgotten
    BY DEF IInv, Causal, Forgotten, netVars, faultVars
  <1> QED
    BY <1>1, <1>2, QuietInv DEF IInv, coreVars, netVars, faultVars

\* A correct peer tells every block it holds: the one that answers is no longer needed.
LEMMA ReplyInv ==
    ASSUME IInv, NEW p \in Peers, Reply(p)
    PROVE  IInv'
  <1>1. held[p] \in SUBSET Block /\ highest_round \in 0 .. MaxRound /\ MaxRound \in Nat
    BY ProposerAssumption DEF IInv, TypeOK
  <1>2. PICK r \in IF p \in Byzantine THEN {0} \cup {b.round : b \in published}
                   ELSE {HighestRound(held[p])} :
            highest_round' = IF r > highest_round THEN r ELSE highest_round
    BY DEF Reply
  <1>3. r \in 0 .. MaxRound
    <2>1. published \in SUBSET Block
      BY DEF IInv, TypeOK
    <2> QED
      BY <1>1, <1>2, <2>1, BlockFacts, HighestRoundFacts
  <1>4. highest_round' \in 0 .. MaxRound /\ highest_round <= highest_round'
    BY <1>1, <1>2, <1>3
  <1>5. ASSUME NEW b \in held[p], p \notin Byzantine
        PROVE  b.round <= highest_round'
    <2>1. r = HighestRound(held[p]) /\ b.round \in Nat
      BY <1>1, <1>2, <1>5, BlockFacts
    <2>2. b.round <= r
      BY <1>1, <1>5, <2>1, HighestRoundFacts
    <2> QED
      BY <1>1, <1>2, <1>3, <2>1, <2>2
  <1>6. \A b \in Forgotten : WillBeTold(b)'
    <2> SUFFICES ASSUME NEW b \in Forgotten PROVE WillBeTold(b)'
      OBVIOUS
    <2>1. WillBeTold(b) /\ sync = "ask" /\ sync' = "ask" /\ held' = held
          /\ replied' = replied \cup {p}
      BY DEF IInv, Reply, netVars
    <2>2. Propagated(b)'
      BY <2>1 DEF WillBeTold, Propagated
    <2>3. b.round \in Nat
      BY BlockFacts DEF Forgotten, IInv, TypeOK
    <2>4. CASE b.round <= highest_round
      BY <1>1, <1>4, <2>1, <2>2, <2>3, <2>4 DEF WillBeTold
    <2>5. CASE b \in held[p] /\ p \notin Byzantine
      BY <1>5, <2>1, <2>2, <2>5 DEF WillBeTold
    <2>6. CASE /\ ~(b \in held[p] /\ p \notin Byzantine)
               /\ \A V \in ValiditySets : V \subseteq Peers =>
                     \E q \in V \ (Byzantine \cup replied) : b \in held[q]
      <3>1. \A V \in ValiditySets : V \subseteq Peers =>
               \E q \in V \ (Byzantine \cup replied') : b \in held'[q]
        BY <2>1, <2>6
      <3> QED
        BY <2>1, <2>2, <3>1 DEF WillBeTold
    <2> QED
      BY <2>1, <2>4, <2>5, <2>6 DEF WillBeTold
  <1>7. replied' \in SUBSET Peers /\ sync = "ask" /\ sync' \in {"ask", "set"}
    BY DEF Reply, IInv, TypeOK
  <1> QED
    BY <1>4, <1>6, <1>7, FetchInv DEF Reply

\* With the answers of f+1 peers no forgotten block is still untold.
LEMMA FinishFetchInv ==
    ASSUME IInv, FinishFetch
    PROVE  IInv'
  <1>1. \A b \in Forgotten : WillBeTold(b)'
    <2> SUFFICES ASSUME NEW b \in Forgotten PROVE WillBeTold(b)'
      OBVIOUS
    <2>1. WillBeTold(b) /\ sync = "ask" /\ sync' = "set" /\ UNCHANGED <<held, highest_round>>
      BY DEF IInv, FinishFetch, netVars
    <2>2. replied \in ValiditySets /\ replied \subseteq Peers
      BY DEF FinishFetch, IInv, TypeOK
    <2>3. b.round <= highest_round
      BY <2>1, <2>2 DEF WillBeTold
    <2> QED
      BY <2>1, <2>3 DEF WillBeTold, Propagated
  <1> QED
    BY <1>1, FetchInv DEF FinishFetch, IInv, TypeOK

LEMMA RetryFetchInv ==
    ASSUME IInv, RetryFetch
    PROVE  IInv'
  <1>1. \A b \in Forgotten : WillBeTold(b)'
    BY DEF IInv, WillBeTold, Propagated, RetryFetch, netVars
  <1>2. 0 \in 0 .. MaxRound
    BY ProposerAssumption
  <1> QED
    BY <1>1, <1>2, FetchInv DEF RetryFetch, IInv, TypeOK

-----------------------------------------------------------------------------
\* Stops and starts.

\* A restart from a set of stored blocks that has its parents, when every block that is then
\* forgotten is held where f+1 peers cannot hide it.
LEMMA RestartInv ==
    ASSUME IInv, NEW S \in SUBSET stored, Causal(S), RestartFrom(S),
           crashes' \in 0 .. MaxCrashes, UNCHANGED <<created, held>>,
           lost \subseteq lost', lost' \subseteq published,
           \A b \in Forgotten' : Propagated(b)
    PROVE  IInv'
  <1>1. S \in SUBSET Block /\ OwnBlocks(S) \in SUBSET Block
    BY DEF IInv, TypeOK, OwnBlocks
  <1>2. PICK last : last \subseteq OwnBlocks(S) /\ published' = published \cup last
    BY DEF RestartFrom
  <1>3. accepted' = S /\ stored' = S /\ clock' = RecoveredClock(S) /\ proposing' = {}
        /\ propagation_high' = FALSE /\ min_timed_out' = FALSE /\ max_timed_out' = FALSE
        /\ last_known_proposed_round' = Unknown /\ sync' = "ask" /\ replied' = {}
        /\ highest_round' = 0
    BY DEF RestartFrom
  <1>4. /\ last_signaled_round' \in 0 .. MaxRound + 1 /\ new_round' \in 0 .. MaxRound + 1
        /\ leader_round' \in 0 .. MaxRound + 1
    <2>1. RecoveredClock(S).round \in 1 .. MaxRound + 1 /\ MaxRound \in Nat
      BY <1>1, ClockType, BlockFacts
    <2>2. HighestRound(OwnBlocks(S)) \in 0 .. MaxRound
      BY <1>1, HighestRoundFacts
    <2> QED
      BY <2>1, <2>2 DEF RestartFrom
  <1>5. TypeOK'
    <2>1. clock' \in [round : 1 .. MaxRound + 1, authors : SUBSET Authorities]
      BY <1>1, <1>3, ClockType
    <2>2. published' \in SUBSET Block /\ lost' \in SUBSET published'
          /\ held' \in [Peers -> SUBSET published']
      BY <1>1, <1>2 DEF OwnBlocks, IInv, TypeOK
    <2>3. created' \in Nat /\ 0 \in 0 .. MaxRound
      BY ProposerAssumption DEF IInv, TypeOK
    <2> QED
      BY <1>1, <1>3, <1>4, <2>1, <2>2, <2>3 DEF TypeOK
  <1>6. NoEquivocation'
    <2>1. OwnBlocks(accepted') \cup published' \subseteq OwnBlocks(accepted) \cup published
      BY <1>2, <1>3 DEF OwnBlocks, IInv, TypeOK
    <2> QED
      BY <2>1 DEF NoEquivocation, IInv
  <1>7. ClockRecovers' /\ Causal(accepted)' /\ Causal(stored)'
    BY <1>3 DEF ClockRecovers, Causal
  <1>8. \A b \in published' \cup proposing' : b.author = Own
    BY <1>2, <1>3 DEF IInv, OwnBlocks
  <1>9. \A b \in Forgotten' : WillBeTold(b)'
    BY <1>3 DEF WillBeTold, Propagated
  <1> QED
    BY <1>3, <1>5, <1>6, <1>7, <1>8, <1>9 DEF IInv

LEMMA CrashAndRestartInv ==
    ASSUME IInv, CrashAndRestart
    PROVE  IInv'
  <1>1. crashes' \in 0 .. MaxCrashes
    BY ProposerAssumption DEF CrashAndRestart, IInv, TypeOK
  <1>2. Forgotten' \subseteq Forgotten
    BY DEF Forgotten, CrashAndRestart, RestartFrom, OwnBlocks
  <1>3. \A b \in Forgotten' : Propagated(b)
    BY <1>2 DEF IInv, WillBeTold
  <1> QED
    BY <1>1, <1>3, RestartInv DEF CrashAndRestart, IInv, TypeOK

LEMMA LoseStoreAndRestartInv ==
    ASSUME IInv, LoseStoreAndRestart
    PROVE  IInv'
  <1>1. crashes' \in 0 .. MaxCrashes
    BY ProposerAssumption DEF LoseStoreAndRestart, IInv, TypeOK
  <1>2. published' = published
    BY DEF LoseStoreAndRestart, RestartFrom, OwnBlocks
  <1>3. \A b \in Forgotten' : Propagated(b)
    BY <1>2 DEF Forgotten, LoseStoreAndRestart
  <1>4. Causal({}) /\ {} \in SUBSET stored
    BY DEF Causal
  <1> QED
    BY <1>1, <1>3, <1>4, RestartInv DEF LoseStoreAndRestart, IInv, TypeOK

-----------------------------------------------------------------------------
\* The invariant.

LEMMA InitIInv == Init => IInv
  <1> SUFFICES ASSUME Init PROVE IInv
    OBVIOUS
  <1>1. MaxRound \in Nat /\ 1 <= MaxRound /\ MaxCrashes \in Nat
    BY ProposerAssumption
  <1>2. RecoveredClock({}) = NewClock
    BY DEF RecoveredClock
  <1>3. published = {} /\ stored = {} /\ Forgotten = {} /\ Causal(stored)
    BY DEF Init, Forgotten, Causal
  <1>4. /\ stored \in SUBSET accepted /\ lost \in SUBSET published
        /\ held \in [Peers -> SUBSET published] /\ published \in SUBSET Block
        /\ replied \in SUBSET Peers /\ highest_round \in 0 .. MaxRound
        /\ crashes \in 0 .. MaxCrashes /\ propagation_high \in BOOLEAN
        /\ min_timed_out \in BOOLEAN /\ max_timed_out \in BOOLEAN
    <2>1. /\ held = [p \in Peers |-> {}] /\ replied = {} /\ highest_round = 0
          /\ crashes = 0 /\ lost = {} /\ propagation_high = FALSE
          /\ min_timed_out = FALSE /\ max_timed_out = FALSE
      BY DEF Init
    <2>2. propagation_high \in BOOLEAN /\ min_timed_out \in BOOLEAN /\ max_timed_out \in BOOLEAN
      BY <2>1, Zenon
    <2>3. highest_round \in 0 .. MaxRound /\ crashes \in 0 .. MaxCrashes
      BY <1>1, <2>1
    <2> QED
      BY <1>3, <2>1, <2>2, <2>3
  <1>5. CASE /\ accepted = {} /\ proposing = {} /\ created = 0
             /\ clock = NewClock
             /\ last_known_proposed_round = Unknown /\ sync = "ask"
             /\ last_signaled_round = 1 /\ new_round = 1 /\ leader_round = 1
    <2>1. clock \in [round : 1 .. MaxRound + 1, authors : SUBSET Authorities]
      BY <1>1, <1>5 DEF NewClock
    <2>2. TypeOK
      BY <1>1, <1>4, <1>5, <2>1 DEF TypeOK
    <2>3. NoEquivocation /\ ClockRecovers /\ Causal(accepted)
      BY <1>2, <1>3, <1>5 DEF NoEquivocation, ClockRecovers, Causal, OwnBlocks
    <2> QED
      BY <1>3, <1>5, <2>2, <2>3 DEF IInv
  <1>6. CASE LET b == [author |-> Own, round |-> 1, id |-> 1] IN
             /\ accepted = {b} /\ proposing = {b} /\ created = 1
             /\ clock = add_block(NewClock, b)
             /\ last_known_proposed_round = 0 /\ sync = "done"
             /\ last_signaled_round = 0 /\ new_round = 0 /\ leader_round = 0
    <2> DEFINE b == [author |-> Own, round |-> 1, id |-> 1]
    <2>1. b \in Block /\ b.author = Own /\ b.round = 1
      BY <1>1, ProposerAssumption DEF Block
    <2>2. /\ accepted = {b} /\ proposing = {b} /\ created = 1
          /\ clock = add_block(NewClock, b)
          /\ last_known_proposed_round = 0 /\ sync = "done"
          /\ last_signaled_round = 0 /\ new_round = 0 /\ leader_round = 0
      BY <1>6
    <2> HIDE DEF b
    <2>3. clock = RecoveredClock({} \cup {b})
      BY <1>2, <2>1, <2>2, AddBlockRecovers
    <2>4. ClockRecovers /\ accepted \in SUBSET Block
      BY <2>1, <2>2, <2>3 DEF ClockRecovers
    <2>5. clock \in [round : 1 .. MaxRound + 1, authors : SUBSET Authorities]
      BY <2>4, ClockType DEF ClockRecovers
    <2>6. TypeOK
      BY <1>1, <1>4, <2>2, <2>4, <2>5 DEF TypeOK
    <2>7. NoEquivocation /\ Causal(accepted)
      BY <1>3, <2>1, <2>2 DEF NoEquivocation, Causal, OwnBlocks
    <2>8. 0 # Unknown
      BY ProposerAssumption
    <2> QED
      BY <1>3, <2>1, <2>2, <2>4, <2>6, <2>7, <2>8 DEF IInv
  <1> QED
    BY <1>5, <1>6 DEF Init

LEMMA NextIInv == IInv /\ [Next]_vars => IInv'
  <1> SUFFICES ASSUME IInv, [Next]_vars PROVE IInv'
    OBVIOUS
  <1>1. CASE Broadcast
    BY <1>1, BroadcastInv
  <1>2. CASE Flush
    BY <1>2, FlushInv
  <1>3. CASE \E b \in Receivable : AddBlock(b)
    BY <1>3, AddBlockInv
  <1>4. CASE SetLastKnownProposedRound
    BY <1>4, SetLastKnownProposedRoundInv
  <1>5. CASE \E high \in BOOLEAN : SetPropagationDelay(high)
    BY <1>5, SetPropagationDelayInv
  <1>6. CASE NewRound
    BY <1>6, NewRoundInv
  <1>7. CASE MinTimeout \/ MaxTimeout
    BY <1>7, TimeoutInv
  <1>8. CASE \E p \in Peers : \E b \in published : Deliver(p, b)
    BY <1>8, DeliverInv
  <1>9. CASE \E p \in Peers : Reply(p)
    BY <1>9, ReplyInv
  <1>10. CASE FinishFetch
    BY <1>10, FinishFetchInv
  <1>11. CASE RetryFetch
    BY <1>11, RetryFetchInv
  <1>12. CASE CrashAndRestart
    BY <1>12, CrashAndRestartInv
  <1>13. CASE LoseStoreAndRestart
    BY <1>13, LoseStoreAndRestartInv
  <1>14. CASE UNCHANGED vars
    <2>1. UNCHANGED <<accepted, clock, proposing, last_known_proposed_round, propagation_high,
                      last_signaled_round, new_round, created, leader_round, min_timed_out,
                      max_timed_out, stored, sync, replied, highest_round, published, held,
                      lost, crashes>>
      BY <1>14 DEF vars, coreVars, timerVars, syncVars, netVars, faultVars
    <2>2. TypeOK' /\ Causal(stored)' /\ Forgotten' = Forgotten
      BY <2>1 DEF IInv, TypeOK, Causal, Forgotten
    <2>3. \A b \in Forgotten' : WillBeTold(b)'
      BY <2>1, <2>2, ToldStays DEF IInv, syncVars
    <2> QED
      BY <2>1, <2>2, <2>3, QuietInv DEF IInv
  <1> QED
    BY <1>1, <1>2, <1>3, <1>4, <1>5, <1>6, <1>7, <1>8, <1>9, <1>10, <1>11, <1>12, <1>13, <1>14
       DEF Next

\* The invariant holds in every reachable state: own blocks do not clash, the clock is the
\* recovered one, and every own block that a restart forgot is told by the peers in time.
THEOREM Invariance == Spec => []IInv
  BY InitIInv, NextIInv, PTL DEF Spec

\* The state keeps its type; in particular what is stored is in DagState, and what peers
\* hold was broadcast.
THEOREM TypeCorrect == Spec => []TypeOK
  <1>1. IInv => TypeOK
    BY DEF IInv
  <1> QED
    BY <1>1, Invariance, PTL

\* A validator signs one block per round, whatever its crashes, restarts and the answers of
\* faulty peers, as long as a lost store's blocks had reached a correct peer in every f+1:
\* the reason of start_fetch_own_last_block_task and of the flush before the broadcast.
THEOREM OneBlockPerRound == Spec => []NoEquivocation
  <1>1. IInv => NoEquivocation
    BY DEF IInv
  <1> QED
    BY <1>1, Invariance, PTL

\* DagState::new rebuilds the ThresholdClock that the node had with the same blocks, in
\* whatever order they were accepted.
THEOREM ClockIsRecovered == Spec => []ClockRecovers
  <1>1. IInv => ClockRecovers
    BY DEF IInv
  <1> QED
    BY <1>1, Invariance, PTL

\* The clock never runs ahead of its parents: smart_ancestors_to_propose finds a quorum of
\* the previous round.
THEOREM ParentsReady == Spec => []ParentQuorum
  <1>1. IInv => ParentQuorum
    <2> SUFFICES ASSUME IInv, clock.round > 1
                 PROVE  AuthorsAt(accepted, clock.round - 1) \in Quorums
      BY DEF ParentQuorum
    <2>1. accepted \in SUBSET Block /\ Causal(accepted) /\ clock = RecoveredClock(accepted)
      BY DEF IInv, TypeOK, ClockRecovers
    <2> QED
      BY <2>1, ClockParents
  <1> QED
    BY <1>1, Invariance, PTL
=============================================================================
