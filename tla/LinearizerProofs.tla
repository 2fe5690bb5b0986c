-------------------------- MODULE LinearizerProofs --------------------------
(***************************************************************************)
(* IInv is an inductive invariant of the linearizer, for every DAG, every  *)
(* sequence of leaders of increasing rounds, every GC depth and size of    *)
(* the cache, and implies that the commits are exact, that the committed   *)
(* flags are, and that no assertion fails.                                 *)
(***************************************************************************)
EXTENDS Linearizer, WellFoundedInduction, TLAPS

-----------------------------------------------------------------------------
\* Facts about the DAG and about the GC round.

\* Some block of a non-empty set is of the lowest round.
LEMMA LowestBlock ==
    ASSUME NEW S \in SUBSET Blocks, S # {}
    PROVE  \E b \in S : \A c \in S : Round[b] <= Round[c]
  <1> DEFINE Rel == OpToRel(<, Nat)
             Rounds == {Round[b] : b \in S}
  <1>1. IsWellFoundedOn(Rel, Nat)
    BY NatLessThanWellFounded
  <1>2. \A m, n \in Nat : <<m, n>> \in Rel <=> m < n
    BY DEF OpToRel
  <1>3. \A b \in S : Round[b] \in Nat
    BY LinearizerAssumption
  <1>4. Rounds \subseteq Nat /\ Rounds # {}
    BY <1>3
  <1>5. \A b \in S : Round[b] \in Rounds
    OBVIOUS
  <1>6. \A m \in Rounds : \E b \in S : Round[b] = m
    OBVIOUS
  <1> HIDE DEF Rel, Rounds
  <1>7. PICK m \in Rounds : \A n \in Rounds : ~ (<<n, m>> \in Rel)
    BY <1>1, <1>4, WFMin
  <1>8. PICK b \in S : Round[b] = m
    BY <1>6
  <1>9. \A c \in S : ~(Round[c] < Round[b])
    BY <1>2, <1>3, <1>5, <1>7, <1>8, Zenon
  <1>10. \A c \in S : Round[b] <= Round[c]
    BY <1>3, <1>9
  <1> QED
    BY <1>10

\* The history of a block is of lower rounds.
LEMMA PastBelow ==
    \A b \in Blocks : \A p \in Past[b] : Round[p] < Round[b]
  <1> DEFINE Bad == {b \in Blocks : \E p \in Past[b] : ~(Round[p] < Round[b])}
  <1> SUFFICES ASSUME Bad # {} PROVE FALSE
    OBVIOUS
  <1>1. PICK b \in Bad : \A c \in Bad : Round[b] <= Round[c]
    <2>1. Bad \in SUBSET Blocks
      OBVIOUS
    <2> HIDE DEF Bad
    <2> QED
      BY <2>1, LowestBlock
  <1>2. PICK p \in Past[b] : ~(Round[p] < Round[b])
    BY <1>1
  <1>3. b \in Blocks /\ p \in Blocks
    BY <1>1, <1>2, LinearizerAssumption
  <1>4. p \notin Ancestors[b]
    BY <1>2, <1>3, LinearizerAssumption
  <1>5. PICK a \in Ancestors[b] : p \in Past[a]
    BY <1>2, <1>3, <1>4, LinearizerAssumption
  <1>6. a \in Blocks /\ Round[a] < Round[b] /\ Round[a] \in Nat /\ Round[b] \in Nat /\ Round[p] \in Nat
    BY <1>3, <1>5, LinearizerAssumption
  <1>7. a \notin Bad
    BY <1>1, <1>6
  <1> QED
    BY <1>2, <1>5, <1>6, <1>7

\* The history of a block has the ancestors of its blocks.
LEMMA PastClosed ==
    \A b \in Blocks : \A x \in Past[b] : Ancestors[x] \subseteq Past[b]
  <1> DEFINE Bad == {b \in Blocks : \E x \in Past[b] : ~(Ancestors[x] \subseteq Past[b])}
  <1> SUFFICES ASSUME Bad # {} PROVE FALSE
    OBVIOUS
  <1>1. PICK b \in Bad : \A c \in Bad : Round[b] <= Round[c]
    <2>1. Bad \in SUBSET Blocks
      OBVIOUS
    <2> HIDE DEF Bad
    <2> QED
      BY <2>1, LowestBlock
  <1>2. PICK x \in Past[b] : ~(Ancestors[x] \subseteq Past[b])
    BY <1>1
  <1>3. b \in Blocks /\ x \in Blocks
    BY <1>1, <1>2, LinearizerAssumption
  <1>4. \A a \in Ancestors[b] : Past[a] \subseteq Past[b]
    BY <1>3, LinearizerAssumption
  <1>5. Ancestors[x] \subseteq Past[x]
    BY <1>3, LinearizerAssumption
  <1>6. x \notin Ancestors[b]
    BY <1>2, <1>4, <1>5
  <1>7. PICK a \in Ancestors[b] : x \in Past[a]
    BY <1>2, <1>3, <1>6, LinearizerAssumption
  <1>8. a \in Blocks /\ Round[a] < Round[b] /\ Round[a] \in Nat /\ Round[b] \in Nat
    BY <1>3, <1>7, LinearizerAssumption
  <1>9. a \notin Bad
    BY <1>1, <1>8
  <1> QED
    BY <1>2, <1>4, <1>7, <1>8, <1>9

\* A set that has the ancestors above round g of its blocks has their history above g.
LEMMA ClosedHasPast ==
    ASSUME NEW S \in SUBSET Blocks, NEW g \in Nat,
           \A x \in S : \A a \in Ancestors[x] : Round[a] > g => a \in S
    PROVE  \A x \in S : \A b \in Past[x] : Round[b] > g => b \in S
  <1> DEFINE Bad == {x \in S : \E b \in Past[x] : Round[b] > g /\ b \notin S}
  <1> SUFFICES ASSUME Bad # {} PROVE FALSE
    OBVIOUS
  <1>1. PICK x \in Bad : \A c \in Bad : Round[x] <= Round[c]
    <2>1. Bad \in SUBSET Blocks
      OBVIOUS
    <2> HIDE DEF Bad
    <2> QED
      BY <2>1, LowestBlock
  <1>2. PICK b \in Past[x] : Round[b] > g /\ b \notin S
    BY <1>1
  <1>3. x \in S /\ x \in Blocks /\ b \in Blocks
    BY <1>1, <1>2, LinearizerAssumption
  <1>4. b \notin Ancestors[x]
    BY <1>2, <1>3
  <1>5. PICK a \in Ancestors[x] : b \in Past[a]
    BY <1>2, <1>3, <1>4, LinearizerAssumption
  <1>6. /\ a \in Blocks /\ Round[a] < Round[x]
        /\ Round[a] \in Nat /\ Round[b] \in Nat /\ Round[x] \in Nat
    BY <1>3, <1>5, LinearizerAssumption
  <1>7. Round[b] < Round[a]
    BY <1>5, <1>6, PastBelow
  <1>8. a \in S
    BY <1>2, <1>3, <1>5, <1>6, <1>7
  <1>9. a \in Bad
    BY <1>2, <1>5, <1>8
  <1> QED
    BY <1>1, <1>6, <1>9

\* The GC round grows with the commits and stays below the next leader.
LEMMA GcRoundFacts ==
    /\ \A n \in 0 .. Len(Leaders) : GcRoundAfter(n) \in Nat
    /\ \A n \in 0 .. Len(Leaders) : \A m \in 0 .. n : GcRoundAfter(m) <= GcRoundAfter(n)
    /\ \A n \in 1 .. Len(Leaders) : GcRoundAfter(n - 1) < Round[Leaders[n]]
  <1>1. \A n \in 1 .. Len(Leaders) : Leaders[n] \in Blocks /\ Round[Leaders[n]] \in Nat \ {0}
    BY LinearizerAssumption
  <1>2. \A r \in Nat : calculate_gc_round(r) \in Nat /\ calculate_gc_round(r) <= r
    BY LinearizerAssumption DEF calculate_gc_round
  <1>3. \A r, s \in Nat : r <= s => calculate_gc_round(r) <= calculate_gc_round(s)
    BY LinearizerAssumption DEF calculate_gc_round
  <1>4. Len(Leaders) \in Nat
    BY LinearizerAssumption
  <1>5. \A n \in 0 .. Len(Leaders) : GcRoundAfter(n) \in Nat
    BY <1>1, <1>2, <1>4 DEF GcRoundAfter
  <1>6. \A m, n \in 1 .. Len(Leaders) : m < n => Round[Leaders[m]] < Round[Leaders[n]]
    BY LinearizerAssumption
  <1>7. ASSUME NEW n \in 0 .. Len(Leaders), NEW m \in 0 .. n
        PROVE  GcRoundAfter(m) <= GcRoundAfter(n)
    <2>1. CASE m = 0
      BY <2>1, <1>5, <1>4 DEF GcRoundAfter
    <2>2. CASE m = n
      BY <2>2, <1>5
    <2>3. CASE m # 0 /\ m # n
      <3>1. m \in 1 .. Len(Leaders) /\ n \in 1 .. Len(Leaders) /\ m < n
        BY <2>3, <1>4
      <3>2. Round[Leaders[m]] \in Nat /\ Round[Leaders[n]] \in Nat /\ Round[Leaders[m]] <= Round[Leaders[n]]
        BY <3>1, <1>1, <1>6
      <3> QED
        BY <3>1, <3>2, <1>3 DEF GcRoundAfter
    <2> QED
      BY <2>1, <2>2, <2>3
  <1>8. ASSUME NEW n \in 1 .. Len(Leaders)
        PROVE  GcRoundAfter(n - 1) < Round[Leaders[n]]
    <2>1. CASE n = 1
      BY <2>1, <1>1, <1>4 DEF GcRoundAfter
    <2>2. CASE n # 1
      <3>1. n - 1 \in 1 .. Len(Leaders) /\ n - 1 < n /\ n - 1 # 0
        BY <2>2, <1>4
      <3>2. Round[Leaders[n - 1]] \in Nat /\ Round[Leaders[n]] \in Nat
            /\ Round[Leaders[n - 1]] < Round[Leaders[n]]
        BY <3>1, <1>1, <1>6
      <3>3. GcRoundAfter(n - 1) = calculate_gc_round(Round[Leaders[n - 1]])
        BY <3>1 DEF GcRoundAfter
      <3>4. GcRoundAfter(n - 1) \in Nat /\ GcRoundAfter(n - 1) <= Round[Leaders[n - 1]]
        BY <3>2, <3>3, <1>2
      <3> QED
        BY <3>2, <3>4
    <2> QED
      BY <2>1, <2>2
  <1> QED
    BY <1>5, <1>7, <1>8

-----------------------------------------------------------------------------
\* Facts about exact commits.

\* The blocks of a commit are in the history of its leader, so not above it.
LEMMA ExactBelowLeader ==
    ASSUME NEW C \in Seq(SUBSET Blocks), Len(C) <= Len(Leaders), Exact(C)
    PROVE  \A i \in 1 .. Len(C) : \A x \in C[i] :
              x \in Past[Leaders[i]] \cup {Leaders[i]} /\ Round[x] <= Round[Leaders[i]]
  <1> SUFFICES ASSUME NEW i \in 1 .. Len(C), NEW x \in C[i]
               PROVE  x \in Past[Leaders[i]] \cup {Leaders[i]} /\ Round[x] <= Round[Leaders[i]]
    OBVIOUS
  <1>1. Leaders[i] \in Blocks
    BY LinearizerAssumption
  <1>2. x \in Past[Leaders[i]] \cup {Leaders[i]}
    BY DEF Exact
  <1>3. x \in Blocks /\ Round[x] \in Nat /\ Round[Leaders[i]] \in Nat
    BY <1>1, <1>2, LinearizerAssumption
  <1>4. x \in Past[Leaders[i]] => Round[x] < Round[Leaders[i]]
    BY <1>1, PastBelow
  <1> QED
    BY <1>2, <1>3, <1>4

\* The next leader is in no commit so far.
LEMMA ExactNextLeader ==
    ASSUME NEW C \in Seq(SUBSET Blocks), Len(C) < Len(Leaders), Exact(C)
    PROVE  Leaders[Len(C) + 1] \notin CommittedBefore(C, Len(C))
  <1> SUFFICES ASSUME NEW i \in 1 .. Len(C), Leaders[Len(C) + 1] \in C[i]
               PROVE  FALSE
    BY DEF CommittedBefore
  <1>1. Round[Leaders[Len(C) + 1]] <= Round[Leaders[i]]
    BY ExactBelowLeader
  <1>2. Len(C) \in Nat /\ Len(Leaders) \in Nat
    BY LinearizerAssumption
  <1>3. i \in 1 .. Len(Leaders) /\ Len(C) + 1 \in 1 .. Len(Leaders) /\ i < Len(C) + 1
    BY <1>2
  <1>4. Round[Leaders[i]] < Round[Leaders[Len(C) + 1]]
    BY <1>3, LinearizerAssumption
  <1>5. Round[Leaders[i]] \in Nat /\ Round[Leaders[Len(C) + 1]] \in Nat
    BY <1>3, LinearizerAssumption
  <1> QED
    BY <1>1, <1>4, <1>5

\* What is committed has its ancestors above the GC round committed.
LEMMA ExactClosed ==
    ASSUME NEW C \in Seq(SUBSET Blocks), Len(C) <= Len(Leaders), Exact(C),
           NEW x \in CommittedBefore(C, Len(C)), NEW a \in Ancestors[x],
           Round[a] > GcRoundAfter(Len(C))
    PROVE  a \in CommittedBefore(C, Len(C))
  <1>0. Len(C) \in Nat /\ Len(Leaders) \in Nat
    BY LinearizerAssumption
  <1>1. PICK i \in 1 .. Len(C) : x \in C[i]
    BY DEF CommittedBefore
  <1>2. i - 1 \in 0 .. Len(C) /\ Len(C) \in 0 .. Len(Leaders) /\ i \in 1 .. Len(Leaders)
    BY <1>0
  <1>3. /\ GcRoundAfter(i - 1) \in Nat /\ GcRoundAfter(Len(C)) \in Nat
        /\ GcRoundAfter(i - 1) <= GcRoundAfter(Len(C))
    <2>1. i - 1 \in 0 .. Len(Leaders)
      BY <1>0, <1>2
    <2> QED
      BY <1>2, <2>1, GcRoundFacts
  <1>4. Leaders[i] \in Blocks
    BY <1>2, LinearizerAssumption
  <1>5. x \in Past[Leaders[i]] \cup {Leaders[i]}
    BY <1>1, ExactBelowLeader
  <1>6. a \in Past[Leaders[i]]
    <2>1. CASE x = Leaders[i]
      BY <2>1, <1>4, LinearizerAssumption
    <2>2. CASE x \in Past[Leaders[i]]
      BY <2>2, <1>4, PastClosed
    <2> QED
      BY <1>5, <2>1, <2>2
  <1>7. a \in Blocks /\ Round[a] \in Nat
    BY <1>4, <1>6, LinearizerAssumption
  <1>8. Round[a] > GcRoundAfter(i - 1)
    BY <1>3, <1>7
  <1>9. a \in C[i] \/ a \in CommittedBefore(C, i - 1)
    BY <1>6, <1>8 DEF Exact
  <1>10. CommittedBefore(C, i - 1) \subseteq CommittedBefore(C, Len(C))
    BY <1>0, <1>2 DEF CommittedBefore
  <1> QED
    BY <1>1, <1>9, <1>10 DEF CommittedBefore

\* One more exact commit keeps the sequence exact.
LEMMA ExactAppend ==
    ASSUME NEW C \in Seq(SUBSET Blocks), Len(C) < Len(Leaders), Exact(C), NEW T \in SUBSET Blocks,
           T = {b \in Past[Leaders[Len(C) + 1]] \cup {Leaders[Len(C) + 1]} :
                   Round[b] > GcRoundAfter(Len(C)) /\ b \notin CommittedBefore(C, Len(C))}
    PROVE  /\ Exact(Append(C, T))
           /\ CommittedBefore(Append(C, T), Len(C) + 1) = CommittedBefore(C, Len(C)) \cup T
  <1> DEFINE D == Append(C, T)
  <1>1. /\ Len(C) \in Nat /\ D \in Seq(SUBSET Blocks) /\ Len(D) = Len(C) + 1 /\ D[Len(C) + 1] = T
        /\ \A i \in 1 .. Len(C) : D[i] = C[i]
    OBVIOUS
  <1> HIDE DEF D
  <1>2. \A n \in 0 .. Len(C) : CommittedBefore(D, n) = CommittedBefore(C, n)
    BY <1>1 DEF CommittedBefore
  <1>3. CommittedBefore(D, Len(C) + 1) = CommittedBefore(C, Len(C)) \cup T
    <2>1. \A i \in 1 .. Len(C) + 1 : i \in 1 .. Len(C) \/ i = Len(C) + 1
      BY <1>1
    <2>2. CommittedBefore(D, Len(C) + 1) \subseteq CommittedBefore(C, Len(C)) \cup T
      BY <1>1, <2>1 DEF CommittedBefore
    <2>3. CommittedBefore(C, Len(C)) \subseteq CommittedBefore(D, Len(C) + 1)
      BY <1>1 DEF CommittedBefore
    <2>4. T \subseteq CommittedBefore(D, Len(C) + 1)
      <3>1. Len(C) + 1 \in 1 .. Len(C) + 1
        BY <1>1
      <3> QED
        BY <1>1, <3>1 DEF CommittedBefore
    <2> QED
      BY <2>2, <2>3, <2>4
  <1>4. ASSUME NEW i \in 1 .. Len(D)
        PROVE  D[i] = {b \in Past[Leaders[i]] \cup {Leaders[i]} :
                   Round[b] > GcRoundAfter(i - 1) /\ b \notin CommittedBefore(D, i - 1)}
    <2>1. CASE i = Len(C) + 1
      <3>1. i - 1 = Len(C) /\ Len(C) \in 0 .. Len(C)
        BY <2>1, <1>1
      <3> QED
        BY <2>1, <3>1, <1>1, <1>2
    <2>2. CASE i \in 1 .. Len(C)
      <3>1. i - 1 \in 0 .. Len(C)
        BY <2>2, <1>1
      <3> QED
        BY <2>2, <3>1, <1>1, <1>2 DEF Exact
    <2> QED
      BY <1>1, <2>1, <2>2
  <1>5. Exact(D)
    BY <1>4 DEF Exact
  <1> QED
    BY <1>3, <1>5 DEF D

-----------------------------------------------------------------------------
\* The steps.

\* What the types say about the GC round and the next leader.
LEMMA StateFacts ==
    ASSUME TypeOK
    PROVE  /\ Len(commits) \in Nat /\ Len(Leaders) \in Nat /\ gc_round \in Nat
           /\ \A b \in Blocks : Round[b] \in Nat /\ Ancestors[b] \subseteq Blocks /\ Past[b] \subseteq Blocks
           /\ Len(commits) < Len(Leaders) =>
                NextLeader \in Blocks /\ Round[NextLeader] > gc_round
  <1>1. Len(commits) \in Nat /\ Len(Leaders) \in Nat /\ Len(commits) <= Len(Leaders)
    BY LinearizerAssumption DEF TypeOK
  <1>2. gc_round \in Nat
    BY <1>1, GcRoundFacts DEF gc_round
  <1>3. \A b \in Blocks : Round[b] \in Nat /\ Ancestors[b] \subseteq Blocks /\ Past[b] \subseteq Blocks
    BY LinearizerAssumption
  <1>4. ASSUME Len(commits) < Len(Leaders)
        PROVE  NextLeader \in Blocks /\ Round[NextLeader] > gc_round
    <2>1. Len(commits) + 1 \in 1 .. Len(Leaders) /\ (Len(commits) + 1) - 1 = Len(commits)
      BY <1>1, <1>4
    <2>2. Leaders[Len(commits) + 1] \in Blocks
      BY <2>1, LinearizerAssumption
    <2>3. GcRoundAfter((Len(commits) + 1) - 1) < Round[Leaders[Len(commits) + 1]]
      BY <2>1, GcRoundFacts
    <2> QED
      BY <2>1, <2>2, <2>3, <1>2, <1>3 DEF NextLeader, gc_round
  <1> QED
    BY <1>1, <1>2, <1>3, <1>4

\* A block is accepted with its ancestors above the GC round.
LEMMA AcceptBlockPreserves ==
    ASSUME IInv, NEW b \in Blocks, AcceptBlock(b)
    PROVE  IInv'
  <1>a. /\ ~linearizing /\ b \in AboveGc(Blocks) /\ AboveGc(Ancestors[b]) \subseteq accepted
        /\ accepted' = accepted \cup {b} /\ recent_blocks' = recent_blocks \cup {b}
        /\ UNCHANGED <<committed, commits, linearizing, buffer, to_commit,
                       stored_blocks, stored_commits, restarts>>
        /\ gc_round' = gc_round
    BY DEF AcceptBlock, loopVars, storeVars, gc_round
  <1>1. TypeOK'
    BY <1>a DEF IInv, TypeOK
  <1>2. DagOf(accepted, commits)'
    BY <1>a DEF IInv, DagOf, AboveGc, gc_round
  <1>3. DagOf(stored_blocks, stored_commits)' /\ CommitsExact'
    BY <1>a DEF IInv, CommitsExact
  <1>4. FlagsExact'
    BY <1>a DEF IInv, FlagsExact, AboveGc
  <1> QED
    BY <1>a, <1>1, <1>2, <1>3, <1>4 DEF IInv

\* The leader is taken first.
LEMMA StartLinearizePreserves ==
    ASSUME IInv, StartLinearize
    PROVE  IInv'
  <1>a. /\ ~linearizing /\ linearizing' = TRUE
        /\ Len(commits) < Len(Leaders) /\ NextLeader \in accepted
        /\ committed' = committed \cup {NextLeader}
        /\ buffer' = {NextLeader} /\ to_commit' = {}
        /\ UNCHANGED <<accepted, recent_blocks, commits, stored_blocks, stored_commits, restarts>>
        /\ gc_round' = gc_round /\ NextLeader' = NextLeader
    BY DEF StartLinearize, dagVars, storeVars, gc_round, NextLeader
  <1>b. /\ TypeOK /\ FlagsExact /\ Exact(commits)
    BY DEF IInv, CommitsExact
  <1>c. NextLeader \in Blocks /\ Round[NextLeader] > gc_round
    BY <1>a, <1>b, StateFacts
  <1>d. NextLeader \in AboveGc(accepted) /\ NextLeader \in recent_blocks
    BY <1>a, <1>b, <1>c DEF AboveGc, FlagsExact
  <1>e. NextLeader \notin CommittedBefore(commits, Len(commits))
    BY <1>a, <1>b, ExactNextLeader DEF TypeOK, NextLeader
  <1>1. TypeOK'
    BY <1>a, <1>b, <1>d DEF TypeOK
  <1>2. (DagOf(accepted, commits) /\ DagOf(stored_blocks, stored_commits) /\ CommitsExact)'
    BY <1>a DEF IInv, CommitsExact
  <1>3. LoopInv'
    <2> DEFINE Done == CommittedBefore(commits, Len(commits))
    <2>1. Done' = Done
      BY <1>a
    <2>2. AboveGc(accepted) \subseteq recent_blocks /\ AboveGc(committed) = AboveGc(Done)
      BY <1>a, <1>b DEF FlagsExact
    <2>3. (AboveGc(accepted) \subseteq recent_blocks)'
      BY <1>a, <2>2 DEF AboveGc
    <2>4. AboveGc(committed)' = AboveGc(Done)' \cup {NextLeader}
      BY <1>a, <1>c, <2>2 DEF AboveGc
    <2>5. {NextLeader} \subseteq AboveGc(Past[NextLeader] \cup {NextLeader})'
      BY <1>a, <1>c DEF AboveGc
    <2> QED
      BY <1>a, <1>e, <2>1, <2>3, <2>4, <2>5 DEF LoopInv
  <1> QED
    BY <1>a, <1>1, <1>2, <1>3 DEF IInv, FlagsExact

\* A block is moved from the buffer to the sub-dag, and its ancestors into the buffer.
LEMMA LinearizeBlockPreserves ==
    ASSUME IInv, NEW x \in buffer, LinearizeBlock(x)
    PROVE  IInv'
  <1> DEFINE U == UncommittedAncestors(x)
             Done == CommittedBefore(commits, Len(commits))
             Taken == to_commit \cup buffer
  <1>a. /\ linearizing /\ linearizing' = linearizing
        /\ to_commit' = to_commit \cup {x}
        /\ committed' = committed \cup U
        /\ buffer' = (buffer \ {x}) \cup U
        /\ UNCHANGED <<accepted, recent_blocks, commits, stored_blocks, stored_commits, restarts>>
        /\ gc_round' = gc_round /\ NextLeader' = NextLeader
    BY DEF LinearizeBlock, dagVars, storeVars, gc_round, NextLeader
  <1>b. TypeOK /\ LoopInv /\ DagOf(accepted, commits)
    BY <1>a DEF IInv
  <1>c. /\ AboveGc(accepted) \subseteq recent_blocks
        /\ AboveGc(committed) = AboveGc(Done) \cup Taken
        /\ Taken \subseteq AboveGc(Past[NextLeader] \cup {NextLeader})
        /\ Taken \cap Done = {} /\ NextLeader \in Taken
        /\ \A y \in to_commit : AboveGc(Ancestors[y]) \subseteq Taken \cup Done
    BY <1>b DEF LoopInv
  <1>d. x \in accepted /\ x \in Blocks
    BY <1>b DEF TypeOK
  <1>e. /\ U = {a \in Ancestors[x] : Round[a] > gc_round /\ a \notin committed}
        /\ U \subseteq Ancestors[x]
    BY DEF UncommittedAncestors, AboveGc
  <1>f. U \subseteq AboveGc(accepted) /\ U \subseteq recent_blocks
    BY <1>b, <1>c, <1>d, <1>e DEF DagOf, AboveGc, gc_round
  <1>g. U \subseteq Past[NextLeader]
    <2>1. NextLeader \in Blocks
      BY <1>a, <1>b, StateFacts DEF TypeOK
    <2>2. x \in Past[NextLeader] \cup {NextLeader}
      BY <1>c DEF AboveGc
    <2>3. Ancestors[x] \subseteq Past[NextLeader]
      BY <2>1, <2>2, PastClosed, LinearizerAssumption
    <2> QED
      BY <1>e, <2>3
  <1>h. U \cap Done = {}
    BY <1>c, <1>e DEF AboveGc
  <1> HIDE DEF U
  <1>i. Done' = Done /\ Taken' = Taken \cup U
    BY <1>a
  <1>1. TypeOK'
    BY <1>a, <1>b, <1>d, <1>f DEF TypeOK, AboveGc
  <1>2. (DagOf(accepted, commits) /\ DagOf(stored_blocks, stored_commits) /\ CommitsExact)'
    BY <1>a DEF IInv, CommitsExact
  <1>3. LoopInv'
    <2>1. (AboveGc(accepted) \subseteq recent_blocks)'
      BY <1>a, <1>c DEF AboveGc
    <2>2. AboveGc(committed)' = AboveGc(Done)' \cup Taken'
      BY <1>a, <1>c, <1>f, <1>i DEF AboveGc
    <2>3. Taken' \subseteq AboveGc(Past[NextLeader] \cup {NextLeader})'
      BY <1>a, <1>c, <1>f, <1>g, <1>i DEF AboveGc
    <2>4. Taken' \cap Done' = {} /\ NextLeader' \in Taken'
      BY <1>a, <1>c, <1>h, <1>i
    <2>5. AboveGc(Ancestors[x]) \subseteq Taken' \cup Done'
      BY <1>c, <1>e, <1>i DEF AboveGc
    <2>6. ASSUME NEW y \in to_commit'
          PROVE  AboveGc(Ancestors[y])' \subseteq Taken' \cup Done'
      <3>1. AboveGc(Ancestors[y])' = AboveGc(Ancestors[y])
        BY <1>a DEF AboveGc
      <3>2. y \in to_commit \/ y = x
        BY <1>a
      <3> QED
        BY <1>c, <1>i, <2>5, <3>1, <3>2
    <2> QED
      BY <2>1, <2>2, <2>3, <2>4, <2>6 DEF LoopInv
  <1> QED
    BY <1>a, <1>1, <1>2, <1>3 DEF IInv, FlagsExact

\* When the buffer is empty the loop has collected the whole history of the leader above
\* the GC round that is in no commit: the commit that is added is as promised.
LEMMA AddCommitPreserves ==
    ASSUME IInv, AddCommit
    PROVE  IInv'
  <1> DEFINE Done == CommittedBefore(commits, Len(commits))
             n == Len(commits)
  <1>a. /\ linearizing /\ buffer = {} /\ linearizing' = FALSE
        /\ commits' = Append(commits, to_commit) /\ to_commit' = {}
        /\ UNCHANGED <<accepted, recent_blocks, committed, buffer,
                       stored_blocks, stored_commits, restarts>>
    BY DEF AddCommit, storeVars
  <1>b. TypeOK /\ LoopInv /\ DagOf(accepted, commits) /\ Exact(commits) /\ Exact(stored_commits)
    BY <1>a DEF IInv, CommitsExact
  <1>c. /\ AboveGc(accepted) \subseteq recent_blocks
        /\ AboveGc(committed) = AboveGc(Done) \cup to_commit
        /\ to_commit \subseteq AboveGc(Past[NextLeader] \cup {NextLeader})
        /\ to_commit \cap Done = {} /\ NextLeader \in to_commit
        /\ \A y \in to_commit : AboveGc(Ancestors[y]) \subseteq to_commit \cup Done
    BY <1>a, <1>b DEF LoopInv
  <1>d. /\ n \in Nat /\ Len(Leaders) \in Nat /\ n < Len(Leaders) /\ gc_round \in Nat
        /\ NextLeader \in Blocks
        /\ commits \in Seq(SUBSET Blocks) /\ to_commit \in SUBSET Blocks /\ accepted \subseteq Blocks
    BY <1>a, <1>b, StateFacts DEF TypeOK
  <1>e. /\ commits' \in Seq(SUBSET Blocks) /\ Len(commits') = n + 1
        /\ \A i \in 1 .. n : commits'[i] = commits[i]
        /\ commits'[n + 1] = to_commit
    BY <1>a, <1>d
  <1>f. CommittedBefore(commits', Len(commits')) = Done \cup to_commit
    BY <1>d, <1>e DEF CommittedBefore
  <1>g. gc_round \in Nat /\ gc_round' \in Nat /\ gc_round <= gc_round'
    <2>1. n + 1 \in 0 .. Len(Leaders) /\ n \in 0 .. n + 1
      BY <1>d
    <2>2. GcRoundAfter(n + 1) \in Nat /\ GcRoundAfter(n) <= GcRoundAfter(n + 1)
      BY <2>1, GcRoundFacts
    <2> QED
      BY <1>d, <1>e, <2>2 DEF gc_round
  <1>h. \A b \in Blocks : Round[b] \in Nat /\ Ancestors[b] \subseteq Blocks /\ Past[b] \subseteq Blocks
    BY <1>b, StateFacts
  <1>i. Done \subseteq accepted
    BY <1>b DEF DagOf
  <1>j. to_commit = {b \in Past[NextLeader] \cup {NextLeader} : Round[b] > gc_round /\ b \notin Done}
    <2> DEFINE S == to_commit \cup Done
    <2>1. S \in SUBSET Blocks
      BY <1>d, <1>i
    <2>2. \A x \in to_commit : \A a \in Ancestors[x] : Round[a] > gc_round => a \in S
      BY <1>c DEF AboveGc
    <2>3. \A x \in Done : \A a \in Ancestors[x] : Round[a] > gc_round => a \in S
      <3>1. n <= Len(Leaders)
        BY <1>d
      <3> QED
        BY <1>b, <1>d, <3>1, ExactClosed DEF gc_round
    <2>4. \A x \in S : \A a \in Ancestors[x] : Round[a] > gc_round => a \in S
      BY <2>2, <2>3
    <2>5. NextLeader \in S
      BY <1>c
    <2> HIDE DEF S
    <2>6. \A b \in Past[NextLeader] : Round[b] > gc_round => b \in S
      BY <1>d, <2>1, <2>4, <2>5, ClosedHasPast
    <2> QED
      BY <1>c, <2>6 DEF S, AboveGc
  <1>1. TypeOK'
    <2>1. Len(stored_commits) \in Nat /\ Len(stored_commits) <= n
      BY <1>b DEF TypeOK
    <2>2. Len(commits') <= Len(Leaders) /\ Len(stored_commits) <= Len(commits')
      BY <1>d, <1>e, <2>1
    <2>3. linearizing' = FALSE /\ linearizing' \in BOOLEAN
      BY <1>a
    <2> QED
      BY <1>a, <1>b, <1>e, <2>2, <2>3 DEF TypeOK
  <1>2. DagOf(accepted, commits)'
    <2>1. to_commit \subseteq accepted
      BY <1>b DEF TypeOK
    <2>2. CommittedBefore(commits', Len(commits')) \subseteq accepted'
      BY <1>a, <1>f, <1>i, <2>1
    <2>3. ASSUME NEW b \in accepted, NEW a \in Ancestors[b], Round[a] > gc_round'
          PROVE  a \in accepted
      <3>1. a \in Blocks /\ Round[a] \in Nat
        BY <1>d, <1>h
      <3>2. Round[a] > gc_round
        BY <1>g, <2>3, <3>1
      <3> QED
        BY <1>b, <3>2 DEF DagOf, gc_round
    <2> QED
      BY <1>a, <2>2, <2>3 DEF DagOf, gc_round
  <1>3. CommitsExact'
    <2>1. Exact(Append(commits, to_commit))
      BY <1>b, <1>d, <1>j, ExactAppend DEF NextLeader, gc_round
    <2> QED
      BY <1>a, <1>b, <2>1 DEF CommitsExact
  <1>4. FlagsExact'
    <2>1. \A b \in Blocks : Round[b] > gc_round' => Round[b] > gc_round
      BY <1>g, <1>h
    <2>2. \A b \in accepted' : Round[b] > gc_round' => b \in recent_blocks'
      BY <1>a, <1>c, <1>d, <2>1 DEF AboveGc
    <2>3. committed \subseteq Blocks /\ Done \subseteq Blocks
      BY <1>b, <1>i DEF TypeOK
    <2>4. \A b \in Blocks : Round[b] > gc_round' =>
              (b \in committed <=> b \in Done \cup to_commit)
      BY <1>c, <2>1 DEF AboveGc
    <2>5. AboveGc(committed)' = AboveGc(CommittedBefore(commits, Len(commits)))'
      <3>1. AboveGc(committed)' = {b \in committed : Round[b] > gc_round'}
        BY <1>a DEF AboveGc
      <3>2. AboveGc(CommittedBefore(commits, Len(commits)))' = {b \in Done \cup to_commit : Round[b] > gc_round'}
        BY <1>f DEF AboveGc
      <3> QED
        BY <3>1, <3>2, <2>3, <2>4, <1>d
    <2> QED
      BY <2>2, <2>5 DEF FlagsExact, AboveGc
  <1> QED
    BY <1>a, <1>1, <1>2, <1>3, <1>4 DEF IInv

\* flush only drops blocks at or below the GC round from the cache.
LEMMA FlushPreserves ==
    ASSUME IInv, Flush
    PROVE  IInv'
  <1>a. /\ buffer = {}
        /\ stored_blocks' = accepted /\ stored_commits' = commits
        /\ recent_blocks' = Cached(recent_blocks, gc_round)
        /\ committed' = committed \cap recent_blocks'
        /\ UNCHANGED <<accepted, commits, linearizing, buffer, to_commit, restarts>>
        /\ gc_round' = gc_round /\ NextLeader' = NextLeader
    BY DEF Flush, loopVars, gc_round, NextLeader
  <1>b. TypeOK /\ gc_round \in Nat /\ \A b \in Blocks : Round[b] \in Nat
    BY StateFacts DEF IInv
  <1>c. /\ recent_blocks' \subseteq recent_blocks
        /\ \A b \in recent_blocks : Round[b] > gc_round => b \in recent_blocks'
    BY <1>a, <1>b DEF Cached, Evicted, TypeOK
  <1>d. AboveGc(committed)' = AboveGc(committed)
    BY <1>a, <1>b, <1>c DEF AboveGc, TypeOK
  <1>e. AboveGc(accepted) \subseteq recent_blocks => (AboveGc(accepted) \subseteq recent_blocks)'
    BY <1>a, <1>c DEF AboveGc
  <1>1. TypeOK'
    <2>1. Len(commits) \in Nat /\ commits \in Seq(SUBSET Blocks)
      BY <1>b DEF TypeOK
    <2>2. Len(stored_commits') <= Len(commits')
      BY <1>a, <2>1
    <2> QED
      BY <1>a, <1>b, <1>c, <2>2 DEF TypeOK
  <1>2. (DagOf(accepted, commits) /\ DagOf(stored_blocks, stored_commits) /\ CommitsExact)'
    BY <1>a DEF IInv, CommitsExact
  <1>3. FlagsExact'
    <2>1. AboveGc(CommittedBefore(commits, Len(commits)))' = AboveGc(CommittedBefore(commits, Len(commits)))
      BY <1>a DEF AboveGc
    <2> QED
      BY <1>a, <1>d, <1>e, <2>1 DEF IInv, FlagsExact
  <1>4. (linearizing => LoopInv)'
    <2> SUFFICES ASSUME linearizing PROVE LoopInv'
      BY <1>a
    <2> DEFINE Done == CommittedBefore(commits, Len(commits))
    <2>1. /\ AboveGc(accepted) \subseteq recent_blocks
          /\ AboveGc(committed) = AboveGc(Done) \cup (to_commit \cup buffer)
          /\ to_commit \cup buffer \subseteq AboveGc(Past[NextLeader] \cup {NextLeader})
          /\ (to_commit \cup buffer) \cap Done = {} /\ NextLeader \in to_commit \cup buffer
          /\ \A x \in to_commit : AboveGc(Ancestors[x]) \subseteq (to_commit \cup buffer) \cup Done
      BY DEF IInv, LoopInv
    <2>2. Done' = Done /\ AboveGc(Done)' = AboveGc(Done)
      BY <1>a DEF AboveGc
    <2>3. AboveGc(Past[NextLeader] \cup {NextLeader})' = AboveGc(Past[NextLeader] \cup {NextLeader})
      BY <1>a DEF AboveGc
    <2>4. ASSUME NEW x \in to_commit'
          PROVE  AboveGc(Ancestors[x])' \subseteq (to_commit \cup buffer)' \cup Done'
      <3>1. AboveGc(Ancestors[x])' = AboveGc(Ancestors[x])
        BY <1>a DEF AboveGc
      <3> QED
        BY <1>a, <2>1, <2>2, <3>1
    <2>5. AboveGc(committed)' = AboveGc(Done)' \cup (to_commit \cup buffer)'
      BY <1>a, <1>d, <2>1, <2>2
    <2>6. /\ (AboveGc(accepted) \subseteq recent_blocks)'
          /\ (to_commit \cup buffer)' \subseteq AboveGc(Past[NextLeader] \cup {NextLeader})'
          /\ (to_commit \cup buffer)' \cap Done' = {} /\ NextLeader' \in (to_commit \cup buffer)'
      BY <1>a, <1>e, <2>1, <2>2, <2>3
    <2> QED
      BY <2>4, <2>5, <2>6 DEF LoopInv
  <1> QED
    BY <1>a, <1>1, <1>2, <1>3, <1>4 DEF IInv

\* The flags that DagState::new sets are those of all blocks above the GC round that are in
\* a commit of the store, although only the last commits are read: a commit that is not read
\* comes before a leader at or below the GC round, and so are all its blocks.
LEMMA RecoveredFlagsExact ==
    ASSUME stored_commits \in Seq(SUBSET Blocks), Len(stored_commits) <= Len(Leaders),
           Exact(stored_commits), NEW gc \in Nat
    PROVE  RecoveredFlags(gc) =
             {b \in CommittedBefore(stored_commits, Len(stored_commits)) : Round[b] > gc}
  <1> DEFINE N == Len(stored_commits)
  <1>0. N \in Nat /\ Len(Leaders) \in Nat
    BY LinearizerAssumption
  <1>1. RecoveredFlags(gc) \subseteq {b \in CommittedBefore(stored_commits, N) : Round[b] > gc}
    BY DEF RecoveredFlags, RecoveredCommits, CommittedBefore
  <1>2. ASSUME NEW b \in CommittedBefore(stored_commits, N), Round[b] > gc
        PROVE  b \in RecoveredFlags(gc)
    <2>1. PICK i \in 1 .. N : b \in stored_commits[i]
      BY DEF CommittedBefore
    <2>2. Round[b] <= Round[Leaders[i]]
      BY <2>1, ExactBelowLeader
    <2>3. ASSUME NEW j \in i .. N
          PROVE  Round[Leaders[j]] > gc
      <3>1. i \in 1 .. Len(Leaders) /\ j \in 1 .. Len(Leaders) /\ i <= j
        BY <1>0, <2>1
      <3>2. Leaders[i] \in Blocks /\ Leaders[j] \in Blocks /\ b \in Blocks
        BY <2>1, <3>1, LinearizerAssumption
      <3>3. Round[Leaders[i]] \in Nat /\ Round[Leaders[j]] \in Nat /\ Round[b] \in Nat
        BY <3>2, LinearizerAssumption
      <3>4. i < j => Round[Leaders[i]] < Round[Leaders[j]]
        BY <3>1, LinearizerAssumption
      <3>5. i < j \/ i = j
        BY <3>1
      <3> QED
        BY <1>2, <2>2, <3>3, <3>4, <3>5
    <2>4. i \in RecoveredCommits(gc)
      BY <2>1, <2>3 DEF RecoveredCommits
    <2> QED
      BY <1>2, <2>1, <2>4 DEF RecoveredFlags
  <1> QED
    BY <1>1, <1>2

\* After a restart cache and flags are rebuilt from the store.
LEMMA RestartPreserves ==
    ASSUME IInv, Restart
    PROVE  IInv'
  <1> DEFINE gc == GcRoundAfter(Len(stored_commits))
             Done == CommittedBefore(stored_commits, Len(stored_commits))
  <1>a. /\ restarts < MaxRestarts /\ restarts' = restarts + 1
        /\ accepted' = stored_blocks /\ commits' = stored_commits
        /\ recent_blocks' = Cached(stored_blocks, gc)
        /\ committed' = RecoveredFlags(gc)
        /\ linearizing' = FALSE /\ buffer' = {} /\ to_commit' = {}
        /\ UNCHANGED <<stored_blocks, stored_commits>>
        /\ gc_round' = gc
    BY DEF Restart, gc_round
  <1>b. TypeOK /\ DagOf(stored_blocks, stored_commits) /\ Exact(stored_commits)
    BY DEF IInv, CommitsExact
  <1>c. /\ stored_commits \in Seq(SUBSET Blocks) /\ Len(stored_commits) \in Nat
        /\ Len(stored_commits) <= Len(Leaders) /\ Len(Leaders) \in Nat
        /\ stored_blocks \subseteq Blocks
    BY <1>b, LinearizerAssumption DEF TypeOK
  <1>d. gc \in Nat /\ \A b \in Blocks : Round[b] \in Nat
    BY <1>c, GcRoundFacts, LinearizerAssumption
  <1>e. RecoveredFlags(gc) = {b \in Done : Round[b] > gc}
    BY <1>b, <1>c, <1>d, RecoveredFlagsExact
  <1>f. Done \subseteq stored_blocks
    BY <1>b DEF DagOf
  <1>g. /\ recent_blocks' \subseteq stored_blocks
        /\ \A b \in stored_blocks : Round[b] > gc => b \in recent_blocks'
    BY <1>a, <1>c, <1>d DEF Cached, Evicted
  <1>h. committed' \subseteq recent_blocks'
    BY <1>a, <1>e, <1>f, <1>g
  <1>1. TypeOK'
    <2>1. restarts' \in 0 .. MaxRestarts
      BY <1>a, <1>b, LinearizerAssumption DEF TypeOK
    <2>2. Len(stored_commits') <= Len(commits') /\ Len(commits') <= Len(Leaders)
      BY <1>a, <1>c
    <2>3. linearizing' = FALSE /\ linearizing' \in BOOLEAN
      BY <1>a
    <2> QED
      BY <1>a, <1>c, <1>g, <1>h, <2>1, <2>2, <2>3 DEF TypeOK
  <1>2. (DagOf(accepted, commits) /\ DagOf(stored_blocks, stored_commits) /\ CommitsExact)'
    BY <1>a, <1>b DEF CommitsExact
  <1>3. FlagsExact'
    <2>1. AboveGc(accepted)' \subseteq recent_blocks'
      BY <1>a, <1>g DEF AboveGc
    <2>2. AboveGc(committed)' = {b \in Done : Round[b] > gc}
      BY <1>a, <1>e DEF AboveGc
    <2>3. AboveGc(CommittedBefore(commits, Len(commits)))' = {b \in Done : Round[b] > gc}
      BY <1>a DEF AboveGc
    <2> QED
      BY <2>1, <2>2, <2>3 DEF FlagsExact
  <1> QED
    BY <1>a, <1>1, <1>2, <1>3 DEF IInv

-----------------------------------------------------------------------------
LEMMA InitEstablishes ==
    ASSUME Init
    PROVE  IInv
  <1>a. /\ accepted = {} /\ recent_blocks = {} /\ committed = {} /\ commits = <<>>
        /\ linearizing = FALSE /\ buffer = {} /\ to_commit = {}
        /\ stored_blocks = {} /\ stored_commits = <<>> /\ restarts = 0
    BY DEF Init
  <1>b. Len(commits) = 0 /\ Len(stored_commits) = 0 /\ Len(Leaders) \in Nat
    BY <1>a, LinearizerAssumption
  <1>c. CommittedBefore(commits, 0) = {} /\ CommittedBefore(stored_commits, 0) = {}
    BY DEF CommittedBefore
  <1>1. TypeOK
    <2>1. commits \in Seq(SUBSET Blocks) /\ stored_commits \in Seq(SUBSET Blocks)
      BY <1>a
    <2>2. restarts \in 0 .. MaxRestarts
      BY <1>a, LinearizerAssumption
    <2> QED
      <3>1. linearizing \in BOOLEAN
        BY <1>a
      <3>2. Len(commits) <= Len(Leaders) /\ Len(stored_commits) <= Len(commits)
        BY <1>b
      <3> QED
        BY <1>a, <2>1, <2>2, <3>1, <3>2 DEF TypeOK
  <1>2. DagOf(accepted, commits) /\ DagOf(stored_blocks, stored_commits)
    BY <1>a, <1>b, <1>c DEF DagOf
  <1>3. CommitsExact
    BY <1>b DEF CommitsExact, Exact
  <1>4. FlagsExact
    BY <1>a, <1>b, <1>c DEF FlagsExact, AboveGc
  <1> QED
    BY <1>a, <1>1, <1>2, <1>3, <1>4 DEF IInv

\* The inductive invariant holds in every reachable state, for every DAG, sequence of
\* leaders, GC depth, cache size and number of restarts.
THEOREM Invariance == Spec => []IInv
  <1>1. Init => IInv
    BY InitEstablishes
  <1>2. IInv /\ [Next]_vars => IInv'
    <2> SUFFICES ASSUME IInv, [Next]_vars PROVE IInv'
      OBVIOUS
    <2>1. ASSUME NEW b \in Blocks, AcceptBlock(b) PROVE IInv'
      BY <2>1, AcceptBlockPreserves
    <2>2. CASE StartLinearize
      BY <2>2, StartLinearizePreserves
    <2>3. ASSUME NEW x \in buffer, LinearizeBlock(x) PROVE IInv'
      BY <2>3, LinearizeBlockPreserves
    <2>4. CASE AddCommit
      BY <2>4, AddCommitPreserves
    <2>5. CASE Flush
      BY <2>5, FlushPreserves
    <2>6. CASE Restart
      BY <2>6, RestartPreserves
    <2>7. CASE UNCHANGED vars
      <3>1. UNCHANGED <<accepted, recent_blocks, committed, commits, linearizing, buffer,
                        to_commit, stored_blocks, stored_commits, restarts>>
        BY <2>7 DEF vars, dagVars, loopVars, storeVars
      <3> QED
        BY <3>1 DEF IInv, TypeOK, DagOf, CommitsExact, FlagsExact, LoopInv, AboveGc, gc_round,
                    NextLeader, CommittedBefore
    <2> QED
      BY <2>1, <2>2, <2>3, <2>4, <2>5, <2>6, <2>7 DEF Next
  <1> QED
    BY <1>1, <1>2, PTL DEF Spec

\* The state is always well typed; in particular a flagged block is in the cache.
THEOREM TypeCorrect == Spec => []TypeOK
  <1>1. IInv => TypeOK
    BY DEF IInv
  <1> QED
    BY <1>1, Invariance, PTL

\* Every commit that linearize_sub_dag builds, in memory and in the store, has exactly the
\* blocks of the leader's history above the GC round that are in no earlier commit.
THEOREM CommitsAreExact == Spec => []CommitsExact
  <1>1. IInv => CommitsExact
    BY DEF IInv
  <1> QED
    BY <1>1, Invariance, PTL

\* Between commits the committed flags of DagState are exact above the GC round.
THEOREM FlagsAreExact == Spec => []FlagsExact
  <1>1. IInv => FlagsExact
    BY DEF IInv
  <1> QED
    BY <1>1, Invariance, PTL

\* None of the expects and assertions of linearize_sub_dag, set_committed and is_committed
\* fails.
THEOREM PanicFree == Spec => []NoPanic
  <1>1. IInv => NoPanic
    <2> SUFFICES ASSUME IInv PROVE NoPanic
      OBVIOUS
    <2>a. TypeOK /\ DagOf(accepted, commits) /\ Exact(commits) /\ FlagsExact
      BY DEF IInv, CommitsExact
    <2>1. ASSUME linearizing, NEW x \in buffer
          PROVE  AboveGc(Ancestors[x]) \subseteq recent_blocks /\ Round[x] > gc_round
      <3>1. LoopInv
        BY <2>1 DEF IInv
      <3>2. Round[x] > gc_round /\ AboveGc(accepted) \subseteq recent_blocks
        BY <3>1 DEF LoopInv, AboveGc
      <3>3. AboveGc(Ancestors[x]) \subseteq AboveGc(accepted)
        BY <2>a DEF DagOf, AboveGc, gc_round, TypeOK
      <3> QED
        BY <3>2, <3>3
    <2>2. ASSUME ~linearizing, Len(commits) < Len(Leaders), NextLeader \in accepted
          PROVE  NextLeader \in recent_blocks \ committed
      <3>1. Round[NextLeader] > gc_round
        BY <2>2, <2>a, StateFacts
      <3>2. NextLeader \notin CommittedBefore(commits, Len(commits))
        BY <2>2, <2>a, ExactNextLeader DEF TypeOK, NextLeader
      <3> QED
        BY <2>2, <2>a, <3>1, <3>2 DEF FlagsExact, AboveGc
    <2> QED
      BY <2>1, <2>2 DEF NoPanic
  <1> QED
    BY <1>1, Invariance, PTL
=============================================================================
