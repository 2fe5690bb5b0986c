------------------------- MODULE BlockManagerProofs -------------------------
(***************************************************************************)
(* IInv is an inductive invariant of the block manager, for every DAG, GC  *)
(* depth and set of certified commits, and implies its safety properties.  *)
(***************************************************************************)
EXTENDS BlockManager, TLAPS

\* The GC round never moves backwards when the last committed round grows.
LEMMA GcRoundMonotone ==
    /\ \A r \in Nat : calculate_gc_round(r) \in Nat /\ calculate_gc_round(r) <= r
    /\ \A r, s \in Nat : r <= s => calculate_gc_round(r) <= calculate_gc_round(s)
  BY BlocksAssumption, SMT DEF calculate_gc_round

\* The invariant holds when the block manager is created on a DAG that holds
\* the genesis blocks only.
LEMMA InitInvariant == Init => IInv
  <1> SUFFICES ASSUME Init PROVE IInv
    OBVIOUS
  <1> USE DEF Init
  <1>0. gc_round \in Nat
    BY GcRoundMonotone DEF gc_round
  <1>1. TypeOK
    BY <1>0, BlocksAssumption DEF TypeOK, Phases, Genesis
  <1>2. Index
    BY DEF Index, Suspended, Missing
  <1>3. Status
    BY DEF Status, Suspended, Missing
  <1>4. Phase
    BY DEF Phase
  <1>5. History
    BY BlocksAssumption DEF History, Suspended, Genesis, GENESIS_ROUND
  <1>6. AboveGc
    BY DEF AboveGc, Missing
  <1> QED
    BY <1>1, <1>2, <1>3, <1>4, <1>5, <1>6 DEF IInv

\* try_accept_blocks: a block is suspended on the ancestors it lacks.
LEMMA TrySuspendInvariant ==
    ASSUME IInv, NEW b \in Blocks, TrySuspend(b)
    PROVE  IInv'
  <1> DEFINE absent == AncestorsNotFound(b)
  <1> USE DEF IInv
  <1>a. /\ UNCHANGED <<dag, last_commit_round, phase, to_process, blocks_to_accept,
                       commit_blocks, commit_round>>
        /\ phase = "idle" /\ b \notin Suspended /\ b \notin dag /\ Round[b] > gc_round
        /\ absent # {}
        /\ missing_ancestors' =
             [a \in Missing \cup absent |->
                 IF a \in absent THEN Children(a) \cup {b} ELSE missing_ancestors[a]]
        /\ missing_blocks' = (missing_blocks \cup (absent \ Suspended)) \ {b}
        /\ suspended_blocks' = Put(suspended_blocks, b, absent)
    BY DEF TrySuspend, NeedsProcessing, dagVars, loopVars, commitVars
  <1>b. gc_round' = gc_round
    BY <1>a DEF gc_round
  <1>c. /\ absent \in SUBSET Blocks /\ absent \subseteq Ancestors[b] /\ absent \cap dag = {}
        /\ b \notin absent
        /\ \A a \in absent : Round[a] > gc_round
        /\ \A a \in Ancestors[b] : Round[a] > gc_round => a \in dag \cup absent
    BY BlocksAssumption DEF AncestorsNotFound, Status, TypeOK, Genesis
  <1>d. to_process = {} /\ blocks_to_accept = {} /\ commit_blocks = {}
    BY <1>a DEF Phase
  <1>e. /\ Suspended' = Suspended \cup {b}
        /\ suspended_blocks'[b] = absent
        /\ \A c \in Suspended : suspended_blocks'[c] = suspended_blocks[c]
    BY <1>a DEF Put, Suspended
  <1>f. /\ Missing' = Missing \cup absent
        /\ \A a \in Missing \ absent : missing_ancestors'[a] = missing_ancestors[a]
        /\ \A a \in absent : missing_ancestors'[a] = Children(a) \cup {b}
    BY <1>a DEF Missing
  <1> HIDE DEF absent
  <1>1. TypeOK'
    <2>1. \A a \in absent : Children(a) \subseteq Blocks
      BY DEF Children, TypeOK, Missing
    <2>2. missing_ancestors' \in [Missing' -> SUBSET Blocks]
      BY <1>a, <1>f, <2>1 DEF TypeOK, Missing
    <2>3. suspended_blocks' \in [Suspended' -> SUBSET Blocks]
      BY <1>a, <1>e, <1>c DEF TypeOK, Put, Suspended
    <2> QED
      BY <1>a, <1>b, <1>c, <1>e, <1>f, <2>2, <2>3 DEF TypeOK, Suspended, Missing
  <1>2. Index'
    BY <1>a, <1>c, <1>e, <1>f DEF Index, Children
  <1>3. Status'
    BY <1>a, <1>c, <1>d, <1>e, <1>f DEF Status
  <1>4. Phase'
    BY <1>a DEF Phase
  <1>5. History'
    BY <1>a, <1>b, <1>c, <1>d, <1>e DEF History, gc_round_at_end
  <1>6. AboveGc'
    BY <1>a, <1>b, <1>c, <1>f DEF AboveGc
  <1> QED
    BY <1>1, <1>2, <1>3, <1>4, <1>5, <1>6

\* try_accept_blocks: a block with all its ancestors is queued for acceptance.
LEMMA TryAcceptInvariant ==
    ASSUME IInv, NEW b \in Blocks, TryAccept(b)
    PROVE  IInv'
  <1> USE DEF IInv
  <1>a. /\ UNCHANGED <<dag, last_commit_round, suspended_blocks, missing_ancestors,
                       commit_blocks, commit_round>>
        /\ phase = "idle" /\ phase' = "accept"
        /\ b \notin Suspended /\ b \notin dag /\ Round[b] > gc_round
        /\ missing_blocks' = missing_blocks \ {b}
        /\ to_process' = {b} /\ blocks_to_accept' = {b}
    BY DEF TryAccept, NeedsProcessing, dagVars, commitVars
  <1>b. gc_round' = gc_round /\ Suspended' = Suspended /\ Missing' = Missing
    BY <1>a DEF gc_round, Suspended, Missing
  <1>c. \A a \in Ancestors[b] : Round[a] > gc_round => a \in dag
    BY DEF TryAccept, AncestorsNotFound
  <1>d. to_process = {} /\ blocks_to_accept = {} /\ commit_blocks = {}
    BY <1>a DEF Phase
  <1>1. TypeOK'
    BY <1>a, <1>b DEF TypeOK, Phases
  <1>2. Index'
    BY <1>a, <1>b DEF Index
  <1>3. Status'
    BY <1>a, <1>b, <1>d DEF Status
  <1>4. Phase'
    BY <1>a, <1>d DEF Phase
  <1>5. History'
    BY <1>a, <1>b, <1>c, <1>d DEF History, gc_round_at_end
  <1>6. AboveGc'
    BY <1>a, <1>b DEF AboveGc
  <1> QED
    BY <1>1, <1>2, <1>3, <1>4, <1>5, <1>6

\* try_find_blocks: a reference becomes missing without a child.
LEMMA TryFindBlockInvariant ==
    ASSUME IInv, NEW b \in Blocks, TryFindBlock(b)
    PROVE  IInv'
  <1> USE DEF IInv
  <1>a. /\ UNCHANGED <<dag, last_commit_round, suspended_blocks, phase, to_process,
                       blocks_to_accept, commit_blocks, commit_round>>
        /\ phase = "idle" /\ b \notin Suspended /\ b \notin dag /\ Round[b] > gc_round
        /\ b \notin missing_blocks /\ missing_blocks' = missing_blocks \cup {b}
        /\ missing_ancestors' = Put(missing_ancestors, b, Children(b))
    BY DEF TryFindBlock, NeedsProcessing, dagVars, loopVars, commitVars
  <1>b. gc_round' = gc_round /\ Suspended' = Suspended
    BY <1>a DEF gc_round, Suspended
  <1>d. to_process = {} /\ blocks_to_accept = {} /\ commit_blocks = {}
    BY <1>a DEF Phase
  <1>e. b \notin Missing /\ Children(b) = {}
    BY <1>a, <1>d DEF Status, Children
  <1>f. /\ Missing' = Missing \cup {b}
        /\ \A a \in Missing : missing_ancestors'[a] = missing_ancestors[a]
        /\ missing_ancestors'[b] = {}
    BY <1>a, <1>e DEF Missing, Put
  <1>1. TypeOK'
    <2>1. missing_ancestors' \in [Missing' -> SUBSET Blocks]
      BY <1>a, <1>e, <1>f DEF TypeOK, Missing, Put
    <2> QED
      BY <1>a, <1>b, <1>f, <2>1 DEF TypeOK, Missing
  <1>2. Index'
    BY <1>a, <1>b, <1>f DEF Index
  <1>3. Status'
    BY <1>a, <1>b, <1>d, <1>f DEF Status
  <1>4. Phase'
    BY <1>a DEF Phase
  <1>5. History'
    BY <1>a, <1>b, <1>d DEF History, gc_round_at_end
  <1>6. AboveGc'
    BY <1>a, <1>b, <1>f DEF AboveGc
  <1> QED
    BY <1>1, <1>2, <1>3, <1>4, <1>5, <1>6

\* try_unsuspend_children_blocks: `r' no longer blocks its children.
LEMMA UnsuspendChildrenInvariant ==
    ASSUME IInv, NEW r \in Blocks, UnsuspendChildren(r)
    PROVE  IInv'
  <1> DEFINE touched == Children(r)
             freed   == {c \in touched : suspended_blocks[c] = {r}}
             left    == (to_process \ {r}) \cup freed
             accept  == blocks_to_accept \cup freed
  <1> USE DEF IInv
  <1>a. /\ r \in to_process
        /\ missing_ancestors' = Remove(missing_ancestors, {r})
        /\ suspended_blocks' =
             [c \in Suspended \ freed |->
                 IF c \in touched THEN suspended_blocks[c] \ {r} ELSE suspended_blocks[c]]
        /\ to_process' = left
        /\ left = {} => /\ dag' = dag \cup accept
                        /\ blocks_to_accept' = {}
                        /\ phase' = IF phase = "accept" THEN "idle" ELSE phase
        /\ left # {} => /\ blocks_to_accept' = accept
                        /\ dag' = dag /\ phase' = phase
        /\ UNCHANGED <<last_commit_round, missing_blocks, commit_blocks, commit_round>>
    BY DEF UnsuspendChildren, commitVars
  <1>b. gc_round' = gc_round
    BY <1>a DEF gc_round
  <1>c. /\ touched \subseteq Suspended
        /\ \A c \in touched : r \in suspended_blocks[c] /\ r \in Missing
        /\ \A c \in Suspended \ touched : r \notin suspended_blocks[c]
    BY DEF Index, Children
  <1>d. freed \subseteq touched
    OBVIOUS
  <1>e. /\ Suspended' = Suspended \ freed
        /\ \A c \in Suspended' : suspended_blocks'[c] = suspended_blocks[c] \ {r}
    <2>1. Suspended' = Suspended \ freed
      BY <1>a DEF Suspended
    <2>2. \A c \in Suspended \ freed : suspended_blocks'[c] = suspended_blocks[c] \ {r}
      BY <1>a, <1>c DEF TypeOK, Suspended
    <2> QED
      BY <2>1, <2>2
  <1>f. /\ Missing' = Missing \ {r}
        /\ \A a \in Missing' : missing_ancestors'[a] = missing_ancestors[a]
    BY <1>a DEF Missing, Remove
  <1>g. /\ \A c \in Suspended' : suspended_blocks[c] \ {r} # {}
        /\ \A c \in freed : suspended_blocks[c] = {r}
    <2>1. \A c \in Suspended \ freed : suspended_blocks[c] \ {r} # {}
      BY <1>c DEF Index
    <2> QED
      BY <2>1, <1>e
  <1>h. /\ dag' \cup blocks_to_accept' = dag \cup blocks_to_accept \cup freed
        /\ dag \subseteq dag'
        /\ dag' \subseteq dag \cup accept
        /\ blocks_to_accept' \subseteq accept
        /\ to_process' = {} => blocks_to_accept' = {}
    BY <1>a
  <1>i. freed \subseteq Blocks
    BY <1>c DEF TypeOK, Suspended
  <1> HIDE DEF touched, freed, accept
  <1>1. TypeOK'
    <2>1. missing_ancestors' \in [Missing' -> SUBSET Blocks]
      BY <1>a, <1>f DEF TypeOK, Missing, Remove
    <2>2. suspended_blocks' \in [Suspended' -> SUBSET Blocks]
      BY <1>a, <1>e DEF TypeOK, Suspended
    <2>3. to_process' \subseteq Blocks /\ dag' \subseteq Blocks /\ blocks_to_accept' \subseteq Blocks
      BY <1>a, <1>h, <1>i DEF TypeOK
    <2>4. phase' \in Phases
      BY <1>a DEF TypeOK, Phases
    <2> QED
      BY <1>a, <1>b, <1>e, <1>f, <2>1, <2>2, <2>3, <2>4 DEF TypeOK, Suspended, Missing
  <1>2. Index'
    BY <1>c, <1>d, <1>e, <1>f, <1>g DEF Index
  <1>3. Status'
    <2>1. missing_blocks' = (Missing' \ Suspended') \ to_process'
      BY <1>a, <1>c, <1>d, <1>e, <1>f DEF Status
    <2>2. Missing' \cap (dag' \cup blocks_to_accept') \subseteq to_process'
      BY <1>a, <1>f, <1>h DEF Status
    <2>3. Suspended' \cap (dag' \cup blocks_to_accept' \cup to_process') = {}
      BY <1>a, <1>e, <1>h DEF Status
    <2> QED
      BY <1>h, <2>1, <2>2, <2>3 DEF Status
  <1>4. Phase'
    BY <1>a, <1>h DEF Phase, TypeOK, Phases
  <1>5. History'
    <2>1. gc_round_at_end' = gc_round_at_end
      BY <1>a, <1>b DEF gc_round_at_end
    <2>2. \A x \in to_process' : Round[x] > gc_round => x \in dag' \cup blocks_to_accept'
      BY <1>a, <1>h DEF History
    <2>3. \A c \in Suspended : \A a \in Ancestors[c] : Round[a] > gc_round =>
            a \in dag' \cup blocks_to_accept' \cup (suspended_blocks[c] \ {r})
      BY <1>a, <1>h DEF History
    <2>4. \A c \in Suspended' : \A a \in Ancestors[c] : Round[a] > gc_round =>
            a \in dag' \cup blocks_to_accept' \cup suspended_blocks'[c]
      BY <1>e, <2>3
    <2>5. \A x \in accept : \A a \in Ancestors[x] : Round[a] > gc_round =>
            a \in dag' \cup blocks_to_accept'
      BY <1>c, <1>d, <1>g, <1>h, <2>3 DEF History, accept
    <2>6. \A x \in dag' \cup commit_blocks' : \A a \in Ancestors[x] :
            Round[a] > gc_round_at_end => a \in dag' \cup blocks_to_accept' \cup commit_blocks'
      <3>1. gc_round <= gc_round_at_end
        BY GcRoundMonotone DEF gc_round_at_end, gc_round, Phase, TypeOK
      <3>2. \A x \in accept : \A a \in Ancestors[x] : Round[a] > gc_round_at_end => Round[a] > gc_round
        BY <3>1, <1>a, <1>i, BlocksAssumption, GcRoundMonotone
           DEF TypeOK, gc_round_at_end, gc_round, accept
      <3> QED
        BY <1>a, <1>h, <2>5, <3>2 DEF History
    <2> QED
      BY <1>b, <1>h, <2>1, <2>2, <2>4, <2>5, <2>6 DEF History
  <1>6. AboveGc'
    BY <1>a, <1>b, <1>f DEF AboveGc, Phase
  <1> QED
    BY <1>1, <1>2, <1>3, <1>4, <1>5, <1>6

\* Core::try_commit takes a leader: its history is complete up to the GC round
\* that the commit will put in force.
LEMMA StartCommitInvariant ==
    ASSUME IInv, NEW C \in SUBSET Blocks, NEW leader \in Blocks, StartCommit(C, leader)
    PROVE  IInv'
  <1> USE DEF IInv
  <1>a. /\ UNCHANGED <<dag, last_commit_round, suspended_blocks, missing_ancestors,
                       missing_blocks, to_process, blocks_to_accept>>
        /\ phase = "idle" /\ phase' = "committed"
        /\ commit_blocks' = C /\ commit_round' = Round[leader]
        /\ Round[leader] > last_commit_round
        /\ \A b \in C : /\ Round[b] > gc_round
                        /\ \A a \in Ancestors[b] :
                             Round[a] > calculate_gc_round(Round[leader]) => a \in dag \cup C
    BY DEF StartCommit, CompleteCommit, dagVars, bmVars, loopVars
  <1>b. gc_round' = gc_round /\ Suspended' = Suspended /\ Missing' = Missing
    BY <1>a DEF gc_round, Suspended, Missing
  <1>c. Round[leader] \in Nat
    BY BlocksAssumption
  <1>1. TypeOK'
    BY <1>a, <1>b, <1>c DEF TypeOK, Phases
  <1>2. Index'
    BY <1>a, <1>b DEF Index
  <1>3. Status'
    BY <1>a, <1>b DEF Status
  <1>4. Phase'
    BY <1>a DEF Phase
  <1>5. History'
    <2>1. gc_round_at_end' = calculate_gc_round(Round[leader])
      BY <1>a DEF gc_round_at_end, calculate_gc_round
    <2>2. gc_round <= calculate_gc_round(Round[leader])
      BY <1>a, <1>c, GcRoundMonotone DEF gc_round, TypeOK
    <2>3. \A b \in dag \cup C : \A a \in Ancestors[b] :
            Round[a] > calculate_gc_round(Round[leader]) => a \in dag \cup C
      <3>1. \A b \in dag : \A a \in Ancestors[b] : Round[a] > gc_round => a \in dag
        BY <1>a DEF History, Phase, gc_round_at_end
      <3>2. \A b \in dag : \A a \in Ancestors[b] :
              Round[a] > calculate_gc_round(Round[leader]) => Round[a] > gc_round
        BY <2>2, <1>c, BlocksAssumption, GcRoundMonotone DEF TypeOK
      <3> QED
        BY <1>a, <3>1, <3>2
    <2> QED
      BY <1>a, <1>b, <2>1, <2>3 DEF History
  <1>6. AboveGc'
    BY <1>a, <1>b DEF AboveGc
  <1> QED
    BY <1>1, <1>2, <1>3, <1>4, <1>5, <1>6

\* try_accept_one_committed_block: the block is in the DAG already.
LEMMA CommittedProcessedInvariant ==
    ASSUME IInv, NEW b \in Blocks, CommittedProcessed(b)
    PROVE  IInv'
  <1> USE DEF IInv
  <1>a. /\ UNCHANGED <<dag, last_commit_round, suspended_blocks, missing_ancestors,
                       missing_blocks, phase, to_process, blocks_to_accept, commit_round>>
        /\ phase = "committed" /\ b \in dag
        /\ commit_blocks' = commit_blocks \ {b}
    BY DEF CommittedProcessed, NextCommitted, dagVars, bmVars, loopVars
  <1>b. gc_round' = gc_round /\ Suspended' = Suspended /\ Missing' = Missing
    BY <1>a DEF gc_round, Suspended, Missing
  <1>c. gc_round_at_end' = gc_round_at_end
    BY <1>a, <1>b DEF gc_round_at_end
  <1>1. TypeOK'
    BY <1>a, <1>b DEF TypeOK
  <1>2. Index'
    BY <1>a, <1>b DEF Index
  <1>3. Status'
    BY <1>a, <1>b DEF Status
  <1>4. Phase'
    BY <1>a DEF Phase
  <1>5. History'
    BY <1>a, <1>b, <1>c DEF History
  <1>6. AboveGc'
    BY <1>a, <1>b DEF AboveGc
  <1> QED
    BY <1>1, <1>2, <1>3, <1>4, <1>5, <1>6

\* try_accept_one_committed_block: the block enters the DAG ahead of its
\* history and leaves both maps.
LEMMA CommittedAcceptedInvariant ==
    ASSUME IInv, NEW b \in Blocks, CommittedAccepted(b)
    PROVE  IInv'
  <1> USE DEF IInv
  <1>a. /\ UNCHANGED <<last_commit_round, phase, blocks_to_accept, commit_round>>
        /\ phase = "committed" /\ to_process = {} /\ b \in commit_blocks /\ b \notin dag
        /\ missing_blocks' = missing_blocks \ {b}
        /\ suspended_blocks' = Remove(suspended_blocks, {b})
        /\ missing_ancestors' =
             [a \in Missing |->
                 IF b \in Suspended /\ a \in suspended_blocks[b]
                 THEN missing_ancestors[a] \ {b} ELSE missing_ancestors[a]]
        /\ dag' = dag \cup {b} /\ to_process' = {b}
        /\ commit_blocks' = commit_blocks \ {b}
    BY DEF CommittedAccepted, NextCommitted
  <1>b. gc_round' = gc_round /\ gc_round_at_end' = gc_round_at_end
    BY <1>a DEF gc_round, gc_round_at_end
  <1>c. blocks_to_accept = {}
    BY <1>a DEF Phase
  <1>d. /\ Suspended' = Suspended \ {b}
        /\ \A c \in Suspended' : suspended_blocks'[c] = suspended_blocks[c]
    BY <1>a DEF Suspended, Remove
  <1>e. /\ Missing' = Missing
        /\ \A a \in Missing : missing_ancestors'[a] = missing_ancestors[a] \ {b}
    <2>1. \A a \in Missing : b \in missing_ancestors[a] => b \in Suspended /\ a \in suspended_blocks[b]
      BY DEF Index
    <2>2. \A a \in Missing : missing_ancestors'[a] = missing_ancestors[a] \ {b}
      BY <1>a, <2>1 DEF TypeOK, Missing
    <2> QED
      BY <1>a, <2>2 DEF Missing
  <1>1. TypeOK'
    <2>1. missing_ancestors' \in [Missing' -> SUBSET Blocks]
      BY <1>a, <1>e DEF TypeOK, Missing
    <2>2. suspended_blocks' \in [Suspended' -> SUBSET Blocks]
      BY <1>a, <1>d DEF TypeOK, Suspended, Remove
    <2> QED
      BY <1>a, <1>b, <1>d, <1>e, <2>1, <2>2 DEF TypeOK, Suspended, Missing
  <1>2. Index'
    BY <1>d, <1>e DEF Index
  <1>3. Status'
    BY <1>a, <1>c, <1>d, <1>e DEF Status
  <1>4. Phase'
    BY <1>a DEF Phase
  <1>5. History'
    BY <1>a, <1>b, <1>c, <1>d DEF History
  <1>6. AboveGc'
    BY <1>a, <1>b, <1>e DEF AboveGc
  <1> QED
    BY <1>1, <1>2, <1>3, <1>4, <1>5, <1>6

\* CommitObserver::handle_commit: the GC round moves to the promised one.
LEMMA HandleCommitInvariant ==
    ASSUME IInv, HandleCommit
    PROVE  IInv'
  <1> USE DEF IInv
  <1>a. /\ UNCHANGED <<dag, suspended_blocks, missing_ancestors, missing_blocks,
                       to_process, blocks_to_accept, commit_blocks, commit_round>>
        /\ phase = "committed" /\ phase' = "gc" /\ to_process = {} /\ commit_blocks = {}
        /\ last_commit_round' = commit_round
    BY DEF HandleCommit, bmVars, loopVars, commitVars
  <1>b. Suspended' = Suspended /\ Missing' = Missing
    BY <1>a DEF Suspended, Missing
  <1>c. blocks_to_accept = {} /\ commit_round > last_commit_round
    BY <1>a DEF Phase
  <1>d. /\ gc_round' = calculate_gc_round(commit_round)
        /\ gc_round_at_end' = gc_round' /\ gc_round_at_end = gc_round'
    BY <1>a DEF gc_round, gc_round_at_end, calculate_gc_round
  <1>e. gc_round \in Nat /\ gc_round' \in Nat /\ gc_round <= gc_round'
    BY <1>c, <1>d, GcRoundMonotone DEF TypeOK, gc_round
  <1>1. TypeOK'
    BY <1>a, <1>b, <1>e DEF TypeOK, Phases
  <1>2. Index'
    BY <1>a, <1>b DEF Index
  <1>3. Status'
    BY <1>a, <1>b DEF Status
  <1>4. Phase'
    BY <1>a DEF Phase
  <1>5. History'
    <2>1. \A c \in Suspended : \A a \in Ancestors[c] :
            Round[a] > gc_round' => a \in dag \cup suspended_blocks[c]
      <3>1. \A c \in Suspended : \A a \in Ancestors[c] : Round[a] > gc_round' => Round[a] > gc_round
        BY <1>e, BlocksAssumption DEF TypeOK, Suspended
      <3> QED
        BY <1>c, <3>1 DEF History
    <2> QED
      BY <1>a, <1>b, <1>c, <1>d, <2>1 DEF History
  <1>6. AboveGc'
    BY <1>a DEF AboveGc
  <1> QED
    BY <1>1, <1>2, <1>3, <1>4, <1>5, <1>6

\* try_unsuspend_blocks_for_latest_gc_round: a lowest missing reference at or
\* below the GC round is taken out; nothing suspended bears its name.
LEMMA GcMissingInvariant ==
    ASSUME IInv, NEW r \in Blocks, GcMissing(r)
    PROVE  IInv'
  <1> USE DEF IInv
  <1>a. /\ UNCHANGED <<dag, last_commit_round, suspended_blocks, missing_ancestors, phase,
                       blocks_to_accept, commit_blocks, commit_round>>
        /\ phase = "gc" /\ to_process = {} /\ to_process' = {r}
        /\ r \in Missing /\ Round[r] <= gc_round
        /\ \A a \in Missing : Round[r] <= Round[a]
        /\ missing_blocks' = missing_blocks \ {r}
    BY DEF GcMissing, dagVars, commitVars
  <1>b. gc_round' = gc_round /\ Suspended' = Suspended /\ Missing' = Missing
    BY <1>a DEF gc_round, Suspended, Missing
  <1>c. r \notin Suspended
    <2> SUFFICES ASSUME r \in Suspended PROVE FALSE
      OBVIOUS
    <2>1. PICK a \in suspended_blocks[r] : a \in Ancestors[r] /\ a \in Missing
      BY DEF Index
    <2> QED
      BY <1>a, <2>1, BlocksAssumption DEF TypeOK
  <1>d. ~(Round[r] > gc_round) /\ blocks_to_accept = {}
    BY <1>a, BlocksAssumption DEF TypeOK, Phase
  <1>1. TypeOK'
    BY <1>a, <1>b DEF TypeOK
  <1>2. Index'
    BY <1>a, <1>b DEF Index
  <1>3. Status'
    BY <1>a, <1>b, <1>c DEF Status
  <1>4. Phase'
    BY <1>a, <1>d DEF Phase
  <1>5. History'
    <2>1. gc_round_at_end' = gc_round_at_end
      BY <1>a, <1>b DEF gc_round_at_end
    <2> QED
      BY <1>a, <1>b, <1>d, <2>1 DEF History
  <1>6. AboveGc'
    BY <1>a, <1>b DEF AboveGc
  <1> QED
    BY <1>1, <1>2, <1>3, <1>4, <1>5, <1>6

\* The loop of try_unsuspend_blocks_for_latest_gc_round ends.
LEMMA GcDoneInvariant ==
    ASSUME IInv, GcDone
    PROVE  IInv'
  <1> USE DEF IInv
  <1>a. /\ UNCHANGED <<dag, last_commit_round, suspended_blocks, missing_ancestors,
                       missing_blocks, to_process, blocks_to_accept, commit_blocks, commit_round>>
        /\ phase = "gc" /\ phase' = "idle" /\ to_process = {}
        /\ \A a \in Missing : Round[a] > gc_round
    BY DEF GcDone, dagVars, bmVars, loopVars, commitVars
  <1>b. /\ gc_round' = gc_round /\ Suspended' = Suspended /\ Missing' = Missing
        /\ gc_round_at_end' = gc_round_at_end
    BY <1>a DEF gc_round, Suspended, Missing, gc_round_at_end
  <1>1. TypeOK'
    BY <1>a, <1>b DEF TypeOK, Phases
  <1>2. Index'
    BY <1>a, <1>b DEF Index
  <1>3. Status'
    BY <1>a, <1>b DEF Status
  <1>4. Phase'
    BY <1>a DEF Phase
  <1>5. History'
    BY <1>a, <1>b DEF History
  <1>6. AboveGc'
    BY <1>a, <1>b DEF AboveGc, Phase
  <1> QED
    BY <1>1, <1>2, <1>3, <1>4, <1>5, <1>6

-----------------------------------------------------------------------------
\* Every step of the core thread preserves the invariant.
LEMMA NextInvariant == IInv /\ [Next]_vars => IInv'
  <1> SUFFICES ASSUME IInv, [Next]_vars PROVE IInv'
    OBVIOUS
  <1>1. CASE UNCHANGED vars
    BY <1>1 DEF vars, dagVars, bmVars, loopVars, commitVars, IInv, TypeOK, Index, Status, Phase,
                History, AboveGc, Suspended, Missing, gc_round, gc_round_at_end, calculate_gc_round
  <1>2. ASSUME NEW b \in Blocks, TrySuspend(b) PROVE IInv'
    BY <1>2, TrySuspendInvariant
  <1>3. ASSUME NEW b \in Blocks, TryAccept(b) PROVE IInv'
    BY <1>3, TryAcceptInvariant
  <1>4. ASSUME NEW b \in Blocks, TryIgnore(b) PROVE IInv'
    BY <1>4, <1>1 DEF TryIgnore
  <1>5. ASSUME NEW b \in Blocks, TryFindBlock(b) PROVE IInv'
    BY <1>5, TryFindBlockInvariant
  <1>6. CASE Commit
    <2>1. ASSUME NEW leader \in Blocks, StartCommit({}, leader) PROVE IInv'
      BY <2>1, StartCommitInvariant
    <2>2. ASSUME NEW cc \in CertifiedCommits, StartCommit(cc[1], cc[2]) PROVE IInv'
      <3>1. cc[1] \in SUBSET Blocks /\ cc[2] \in Blocks
        BY BlocksAssumption
      <3> QED
        BY <2>2, <3>1, StartCommitInvariant
    <2> QED
      BY <1>6, <2>1, <2>2 DEF Commit
  <1>7. CASE Loop
    BY <1>7, UnsuspendChildrenInvariant, CommittedProcessedInvariant, CommittedAcceptedInvariant,
       GcMissingInvariant, HandleCommitInvariant, GcDoneInvariant DEF Loop
  <1> QED
    BY <1>1, <1>2, <1>3, <1>4, <1>5, <1>6, <1>7 DEF Next

\* IInv holds in every reachable state of the block manager.
THEOREM Invariance == Spec => []IInv
  BY InitInvariant, NextInvariant, PTL DEF Spec

\* The state keeps its types; in particular the GC round never goes below zero.
THEOREM TypeCorrect == Spec => []TypeOK
  <1>1. IInv => TypeOK
    BY DEF IInv
  <1> QED
    BY <1>1, Invariance, PTL

\* No expect or assert of the unsuspension code can fail.
THEOREM PanicFree == Spec => []NoPanic
  <1>1. IInv => NoPanic
    <2> SUFFICES ASSUME IInv PROVE NoPanic
      OBVIOUS
    <2>1. \A r \in to_process : \A c \in Children(r) : c \in Suspended /\ r \in suspended_blocks[c]
      BY DEF IInv, Index, Children
    <2>2. ASSUME NEW r \in Missing, \A a \in Missing : Round[r] <= Round[a]
          PROVE  r \notin Suspended
      <3> SUFFICES ASSUME r \in Suspended PROVE FALSE
        OBVIOUS
      <3>1. PICK a \in suspended_blocks[r] : a \in Ancestors[r] /\ a \in Missing
        BY DEF IInv, Index
      <3>2. Round[a] < Round[r] /\ Round[a] \in Nat /\ Round[r] \in Nat
        BY <3>1, BlocksAssumption DEF IInv, TypeOK, Missing
      <3> QED
        BY <2>2, <3>1, <3>2
    <2> QED
      BY <2>1, <2>2 DEF NoPanic
  <1> QED
    BY <1>1, Invariance, PTL

\* missing_blocks is what the field comment says, after every operation.
THEOREM MissingBlocksCorrect == Spec => []MissingBlocksExact
  <1>1. IInv => MissingBlocksExact
    BY DEF IInv, Status, Phase, MissingBlocksExact
  <1> QED
    BY <1>1, Invariance, PTL

\* The two maps index each other, after every operation.
THEOREM SuspensionIndexCorrect == Spec => []SuspensionIndex
  <1>1. IInv => SuspensionIndex
    BY DEF IInv, Index, Status, Phase, SuspensionIndex
  <1> QED
    BY <1>1, Invariance, PTL

\* The DAG that the committer and the linearizer read is causally complete
\* above the GC round, after every operation.
THEOREM CausalCompleteness == Spec => []CausallyComplete
  <1>1. IInv => CausallyComplete
    BY DEF IInv, Phase, History, gc_round_at_end, CausallyComplete
  <1> QED
    BY <1>1, Invariance, PTL

\* The synchronizer is asked for nothing that would be thrown away.
THEOREM FetchesUseful == Spec => []NoUselessFetch
  <1>1. IInv => NoUselessFetch
    BY DEF IInv, Phase, Status, AboveGc, NoUselessFetch
  <1> QED
    BY <1>1, Invariance, PTL

\* Blocks enter the DAG after their ancestors, unless a commit brings them.
THEOREM AcceptanceOrder == Spec => AcceptedAfterAncestors
  <1> DEFINE Ordered == \A b \in dag' \ dag : b \notin commit_blocks =>
                          \A a \in Ancestors[b] : Round[a] > gc_round => a \in dag'
  <1>1. IInv /\ [Next]_vars => Ordered
    <2> SUFFICES ASSUME IInv, [Next]_vars, NEW b \in dag' \ dag, b \notin commit_blocks,
                        NEW a \in Ancestors[b], Round[a] > gc_round
                 PROVE  a \in dag'
      OBVIOUS
    <2>1. PICK r \in Blocks : UnsuspendChildren(r)
      BY DEF Next, Commit, Loop, TrySuspend, TryAccept, TryIgnore, TryFindBlock, StartCommit,
             CommittedProcessed, CommittedAccepted, NextCommitted, HandleCommit, GcMissing, GcDone,
             vars, dagVars
    <2> DEFINE freed == {c \in Children(r) : suspended_blocks[c] = {r}}
    <2>2. dag' = dag \cup blocks_to_accept \cup freed
      BY <2>1 DEF UnsuspendChildren
    <2>3. CASE b \in blocks_to_accept
      BY <2>2, <2>3 DEF IInv, History
    <2>4. CASE b \in freed
      <3>1. b \in Suspended /\ suspended_blocks[b] = {r}
        BY <2>4 DEF IInv, Index, Children
      <3>2. a \in dag \cup blocks_to_accept \cup {r}
        BY <3>1 DEF IInv, History
      <3>3. a = r => a \in dag \cup blocks_to_accept
        BY <2>1 DEF IInv, History, UnsuspendChildren
      <3> QED
        BY <2>2, <3>2, <3>3
    <2> QED
      BY <2>2, <2>3, <2>4
  <1>2. IInv /\ [Next]_vars => [Ordered]_vars
    BY <1>1
  <1> QED
    BY <1>2, Invariance, PTL DEF Spec, AcceptedAfterAncestors
=============================================================================
