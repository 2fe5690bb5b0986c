---------------------- MODULE CheckpointExecutorProofs ----------------------
(***************************************************************************)
(* Proofs about CheckpointExecutor, for every length of the epoch, every   *)
(* concurrency, on validators and full nodes, with any number of crashes:  *)
(* the safety invariants follow from the inductive invariant IInv, and the *)
(* executor implements EpochExecution.                                     *)
(***************************************************************************)
EXTENDS CheckpointExecutor, TLAPS

-----------------------------------------------------------------------------
\* The numbers of the state.

\* The type invariant, as facts about each variable that counts.
LEMMA Bounded ==
    ASSUME TypeOK
    PROVE  /\ Last \in Nat /\ \A t \in Seqs : t \in 0..Last
           /\ synced \in 0..Last /\ executed \in 0..Last /\ committed \in 0..Last
           /\ summaries \in 0..Last /\ commits \in 0..Last /\ handled \in 0..Last
           /\ built \in 0..Last /\ rebuild \in 0..Last /\ finalized \in 0..Last
           /\ certifiedMark \in 0..Last /\ executedMark \in 0..Last
  BY ExecutorAssumption DEF TypeOK, Seqs

LEMMA TypeFacts ==
    ASSUME TypeOK
    PROVE  /\ Last \in Nat /\ 1 <= Last /\ synced <= Last
           /\ synced \in Nat /\ executed \in Nat /\ summaries \in Nat /\ next \in Nat
           /\ finalized \in Nat /\ certifiedMark \in Nat /\ executedMark \in Nat
           /\ \A t \in Seqs : stage[t] \in Nat /\ t \in Nat /\ 1 <= t /\ t <= Last
           /\ \A k \in Stages : watch[k] \in Nat /\ k \in Nat
  <1>1. Last \in Nat /\ 1 <= Last
    BY ExecutorAssumption
  <1>2. /\ synced \in Nat /\ executed \in Nat /\ summaries \in Nat /\ finalized \in Nat
        /\ certifiedMark \in Nat /\ executedMark \in Nat /\ synced <= Last
    BY Bounded
  <1>3. next \in Nat
    BY <1>1 DEF TypeOK
  <1>4. \A t \in Seqs : stage[t] \in Nat /\ t \in Nat /\ 1 <= t /\ t <= Last
    <2>1. \A t \in Seqs : t \in Nat /\ 1 <= t /\ t <= Last
      BY <1>1 DEF Seqs
    <2>2. \A t \in Seqs : stage[t] \in 0..End
      BY Zenon DEF TypeOK
    <2> QED
      BY <2>1, <2>2 DEF End
  <1>5. \A k \in Stages : watch[k] \in Nat /\ k \in Nat
    BY <1>1 DEF TypeOK, Stages, End
  <1> QED
    BY Zenon, <1>1, <1>2, <1>3, <1>4, <1>5

\* Persisting the summaries up to "high" keeps the last one within the bounds,
\* moves it forward only, to a checkpoint not above "high", and the last
\* persisted commit stays at or below it.
LEMMA CommitWithBatchFacts ==
    ASSUME TypeOK, commits <= summaries, NEW high \in 0..Last,
           NEW held \in SUBSET Seqs, CommitWithBatch(high, held)
    PROVE  /\ summaries' \in 0..Last /\ commits' \in 0..Last /\ quarantine' \subseteq Seqs
           /\ summaries <= summaries' /\ (summaries' = summaries \/ summaries' <= high)
           /\ commits' <= summaries'
  <1> DEFINE ready == {s \in held : s <= high}
  <1>1. summaries \in 0..Last /\ commits \in 0..Last /\ Last \in Nat
        /\ \A x \in ready : x \in 0..Last /\ x <= high
    BY Zenon, Bounded
  <1>2. quarantine' \subseteq Seqs
    BY Zenon DEF CommitWithBatch
  <1>3. summaries' \in {summaries} \cup ready /\ summaries <= summaries'
    BY Zenon DEF CommitWithBatch, MaxOf
  <1>4. summaries' \in 0..Last /\ (summaries' = summaries \/ summaries' <= high)
    BY Zenon, <1>1, <1>3
  <1>5. commits' = commits \/ (commits' \in Drained /\ commits' <= summaries')
    BY Zenon DEF CommitWithBatch, PersistedCommit, MaxOf
  <1>6. commits' \in 0..Last /\ commits' <= summaries'
    <2>0. commits \in Nat /\ summaries \in Nat /\ summaries' \in Nat
      BY <1>1, <1>4
    <2>1. CASE commits' = commits
      <3>1. commits <= summaries'
        BY <1>3, <2>0
      <3> QED
        BY Zenon, <1>1, <2>1, <3>1
    <2>2. CASE commits' \in Drained /\ commits' <= summaries'
      <3>1. commits' \in 0..Last
        BY <2>2, ExecutorAssumption
      <3> QED
        BY Zenon, <2>2, <3>1
    <2> QED
      BY Zenon, <1>5, <2>1, <2>2
  <1> QED
    BY Zenon, <1>2, <1>3, <1>4, <1>6

\* What the invariant says of a checkpoint that is in a stage: it was streamed,
\* its watch is at it, and every earlier checkpoint is executed or past it.
LEMMA InStageFacts ==
    ASSUME TypeOK, StreamInv, WatchInv, NEW s \in Seqs, InStage(s)
    PROVE  /\ s \in Nat /\ 1 <= s /\ s <= Last /\ s < next /\ stage[s] \in Stages
           /\ watch[stage[s]] = s
           /\ \A t \in Seqs : t < s => \/ step[t] # "none" /\ stage[t] > stage[s]
                                       \/ step[t] = "none" /\ t <= executed
  <1>1. s \in Nat /\ 1 <= s /\ s <= Last
    BY ExecutorAssumption DEF Seqs
  <1>2. next \in Nat /\ stage[s] \in 0..End /\ stage[s] # End /\ s < next
    BY <1>1, ExecutorAssumption DEF TypeOK, StreamInv, InStage
  <1>3. stage[s] \in Stages /\ stage[s] \in Nat
    BY <1>2 DEF Stages, End
  <1>4. watch[stage[s]] \in Nat /\ ~(watch[stage[s]] > s) /\ watch[stage[s]] >= s
    BY <1>2, <1>3, ExecutorAssumption DEF WatchInv, InStage, TypeOK
  <1>5. watch[stage[s]] = s
    BY <1>1, <1>4
  <1>6. ASSUME NEW t \in Seqs, t < s
        PROVE  \/ step[t] # "none" /\ stage[t] > stage[s]
               \/ step[t] = "none" /\ t <= executed
    <2>1. t < next /\ t \in Nat
      BY <1>1, <1>2, <1>6, ExecutorAssumption DEF Seqs
    <2>2. step[t] = "none" \/ stage[t] > stage[s]
      BY Zenon, <1>3, <1>5, <1>6, <2>1 DEF WatchInv
    <2> QED
      BY Zenon, <2>1, <2>2 DEF StreamInv
  <1> QED
    BY Zenon, <1>1, <1>2, <1>3, <1>5, <1>6

\* In the last stage, the checkpoint is the one after the highest executed one.
LEMMA NextToExecute ==
    ASSUME IInv, NEW s \in Seqs, InStage(s), stage[s] = BumpHighestExecuted
    PROVE  s = executed + 1
  <1>1. watch[BumpHighestExecuted] = s
    BY Zenon, InStageFacts DEF IInv
  <1> QED
    BY Zenon, <1>1, TypeFacts DEF IInv, MarksInv

\* The facts of the invariant about a checkpoint that is past the first stage.
LEMMA PastFirstStage ==
    ASSUME IInv, NEW s \in Seqs, stage[s] > ExecuteTransactions
    PROVE  /\ path[s] # "none" /\ (path[s] = "local" => Validator /\ s # Last /\ s \in hashes)
           /\ (Validator /\ s \in hashes /\ s # Last => HasEffects(s))
           /\ (stage[s] > WaitForTransactions /\ s # Last => HasEffects(s))
           /\ (stage[s] > FinalizeTransactions => HasEffects(s) /\ s \in hashes)
  BY Zenon DEF IInv, EffectsInv

\* What the later stages know of their checkpoint.
LEMMA FinalizedFacts ==
    ASSUME IInv, NEW s \in Seqs, stage[s] > FinalizeTransactions
    PROVE  /\ path[s] # "none" /\ (path[s] = "local" => Validator /\ s # Last)
           /\ HasEffects(s) /\ s \in hashes
           /\ path \in [Seqs -> {"none", "synced", "local"}]
  <1>1. stage[s] > ExecuteTransactions
    BY TypeFacts DEF IInv, ExecuteTransactions, FinalizeTransactions
  <1> QED
    BY Zenon, <1>1 DEF IInv, EffectsInv, TypeOK

-----------------------------------------------------------------------------
\* The actions of the pipeline either finish a stage or do a step within one.

\* What an action that finishes a stage may do besides.
Finishes(s) ==
    /\ InStage(s) /\ FinishStage(s)
    /\ UNCHANGED <<synced, committed, db, local, roots, node, handled, built, rebuild,
                   toHasher, next, certifiedMark, crashes>>
    /\ scheduled' \subseteq Seqs /\ pending' \subseteq Seqs /\ batch' \subseteq Seqs
    /\ quarantine' \subseteq Seqs /\ hashes' \subseteq Seqs
    /\ finalized' \in 0..Last /\ summaries' \in 0..Last /\ commits' \in 0..Last
    /\ path' \in [Seqs -> {"none", "synced", "local"}]
    /\ \A t \in Seqs : t # s => /\ path'[t] = path[t]
                                /\ t \in hashes' <=> t \in hashes
                                /\ t \in batch' <=> t \in batch
                                /\ t \in pending' <=> t \in pending
    /\ hashes \subseteq hashes' /\ (s \in pending => s \in pending' \cup db)
    /\ path'[s] # "none"
    /\ path'[s] = "local" => Validator /\ s # Last /\ s \in hashes'
    /\ s # Last /\ (stage[s] >= WaitForTransactions \/ (Validator /\ s \in hashes'))
          => HasEffects(s)
    /\ stage[s] >= FinalizeTransactions => HasEffects(s) /\ s \in hashes'
    /\ stage[s] # BuildDbBatch => batch' = batch
    /\ stage[s] = BuildDbBatch => s \in batch' \cup db /\ (s \in batch' => s \in pending')
    /\ stage[s] >= CommitTransactionOutputs => s \in db
    /\ \A t \in Seqs : t <= finalized' => t \in db /\ t \in hashes'
    /\ PersistedIsFinal'
    /\ stage[s] = BumpHighestExecuted => s \in roots
    /\ executed' = (IF stage[s] = BumpHighestExecuted THEN s ELSE executed)
    /\ executedMark' = (IF stage[s] = BuildDbBatch THEN s ELSE executedMark)

\* What an action within a stage, or into it once its watch is there, may do.
Steps(s, at) ==
    /\ InStage(s) \/ (step[s] = "wait" /\ watch[stage[s]] >= s)
    /\ at \in {"run", "hash", "written", "rooted", "closed"}
    /\ step' = [step EXCEPT ![s] = at]
    /\ UNCHANGED <<synced, executed, hashes, summaries, commits, toHasher, finalized,
                   pending, batch, next, stage, watch, executedMark>>
    /\ \A t \in Seqs : t # s => path'[t] = path[t]
    /\ path'[s] = path[s] \/ (path'[s] = "local" /\ Validator /\ s # Last
                              /\ stage[s] = ExecuteTransactions)
    /\ at = "hash" => path'[s] # "none"
    /\ at = "written" => s \in db'
    /\ at \in {"rooted", "closed"} => s \in roots'
    /\ db \subseteq db' /\ roots \subseteq roots'
    /\ certifiedMark <= certifiedMark' /\ certifiedMark' <= synced
    /\ s <= certifiedMark'
    /\ TypeOK' /\ DurablePrefix' /\ RootsPrefix'

\* The first stage on the path of synced checkpoints.
LEMMA ScheduleSyncedFinishes == ASSUME IInv, NEW s \in Seqs, ScheduleSynced(s) PROVE Finishes(s)
  <1> USE DEF IInv
  <1>2. path' \in [Seqs -> {"none", "synced", "local"}] /\ path'[s] = "synced"
        /\ (\A t \in Seqs : t # s => path'[t] = path[t]) /\ scheduled' \subseteq Seqs
    BY Zenon DEF ScheduleSynced, TypeOK
  <1>3. Validator /\ s \in hashes /\ s # Last => HasEffects(s)
    BY Zenon DEF EffectsInv
  <1> QED
    BY <1>2, <1>3
       DEF Finishes, ScheduleSynced, At, InStage, stores, builder, marks, TypeOK,
           StorageInv, PersistedIsFinal, ExecuteTransactions, WaitForTransactions,
           FinalizeTransactions, BuildDbBatch, CommitTransactionOutputs, BumpHighestExecuted

\* The stages that only wait: for the hash of a checkpoint of our own, for the
\* effects of the transactions, and those without work for this model.  The
\* checkpoint has what the stages before gave it.
LEMMA WaitingFinishes ==
    ASSUME IInv, NEW s \in Seqs,
           ReadHash(s) \/ AwaitEffects(s) \/ ProcessData(s) \/ UpdateIndex(s)
    PROVE  Finishes(s)
  <1> USE DEF IInv
  <1>2. /\ InStage(s) /\ FinishStage(s) /\ stage[s] \in {0, 1, 3, 7}
        /\ UNCHANGED <<stores, builder, cache, next, path, marks, node, crashes>>
    BY Zenon DEF ReadHash, AwaitEffects, ProcessData, UpdateIndex, At, InStage,
           ExecuteTransactions, WaitForTransactions, ProcessCheckpointData, UpdateRpcIndex
  <1>3. /\ path[s] # "none" /\ (path[s] = "local" => Validator /\ s # Last /\ s \in hashes)
        /\ (Validator /\ s \in hashes /\ s # Last => HasEffects(s))
    <2>1. CASE ReadHash(s)
      BY Zenon, <2>1 DEF ReadHash, At, EffectsInv
    <2>2. CASE ~ReadHash(s)
      BY <2>2, PastFirstStage
         DEF AwaitEffects, ProcessData, UpdateIndex, At, ExecuteTransactions,
             WaitForTransactions, ProcessCheckpointData, UpdateRpcIndex
    <2> QED
      BY Zenon, <2>1, <2>2
  <1>4. stage[s] >= 1 /\ s # Last => HasEffects(s)
    <2>1. CASE AwaitEffects(s)
      BY Zenon, <1>3, <2>1 DEF AwaitEffects, TypeOK
    <2>2. CASE ~AwaitEffects(s)
      BY <2>2 DEF EffectsInv, ReadHash, ProcessData, UpdateIndex, At,
             ExecuteTransactions, WaitForTransactions, ProcessCheckpointData, UpdateRpcIndex
    <2> QED
      BY Zenon, <2>1, <2>2
  <1>5. /\ stage[s] >= 2 => HasEffects(s) /\ s \in hashes
        /\ stage[s] >= 5 => s \in db
    BY <1>2 DEF EffectsInv, StorageInv, FinalizeTransactions, CommitTransactionOutputs
  <1>6. path' \in [Seqs -> {"none", "synced", "local"}]
    BY Zenon, <1>2 DEF TypeOK
  <1> QED
    BY <1>2, <1>3, <1>4, <1>5, <1>6
       DEF Finishes, stores, builder, cache, marks, TypeOK, StorageInv, PersistedIsFinal,
           WaitForTransactions, FinalizeTransactions, BuildDbBatch,
           CommitTransactionOutputs, BumpHighestExecuted

\* Both paths leave the stage with effects and a hash.
LEMMA AccumulateCheckpointFinishes ==
    ASSUME IInv, NEW s \in Seqs, AccumulateCheckpoint(s)
    PROVE  Finishes(s)
  <1> USE DEF IInv
  <1>2. stage[s] = FinalizeTransactions /\ InStage(s)
        /\ hashes' = (IF path[s] = "synced" THEN hashes \cup {s} ELSE hashes)
    BY Zenon DEF AccumulateCheckpoint, At, InStage
  <1>3. path[s] \in {"synced", "local"} /\ (path[s] = "local" => Validator /\ s # Last)
        /\ s \in hashes' /\ HasEffects(s)
    <2>1. path[s] # "none" /\ (path[s] = "local" => Validator /\ s # Last /\ s \in hashes)
          /\ (s # Last => HasEffects(s))
      BY <1>2, PastFirstStage
         DEF ExecuteTransactions, WaitForTransactions, FinalizeTransactions
    <2> QED
      BY Zenon, <1>2, <2>1 DEF AccumulateCheckpoint, TypeOK
  <1>4. path' \in [Seqs -> {"none", "synced", "local"}] /\ hashes' \subseteq Seqs
    BY Zenon, <1>2 DEF AccumulateCheckpoint, TypeOK
  <1> QED
    BY <1>2, <1>3, <1>4
       DEF Finishes, AccumulateCheckpoint, builder, cache, marks, TypeOK, StorageInv,
           PersistedIsFinal, WaitForTransactions, FinalizeTransactions, BuildDbBatch,
           CommitTransactionOutputs, BumpHighestExecuted

\* The batch holds the outputs that are not durable yet; the watermark of
\* backpressure moves by one.
LEMMA BuildBatchFinishes == ASSUME IInv, NEW s \in Seqs, BuildBatch(s) PROVE Finishes(s)
  <1> USE DEF IInv
  <1>2. InStage(s) /\ stage[s] = BuildDbBatch
    BY Zenon DEF BuildBatch, At, InStage
  <1>3. /\ path[s] # "none" /\ (path[s] = "local" => Validator /\ s # Last)
        /\ HasEffects(s) /\ s \in hashes /\ path \in [Seqs -> {"none", "synced", "local"}]
    BY <1>2, FinalizedFacts DEF BuildDbBatch, FinalizeTransactions
  <1>4. executedMark' = s
    <2>1. executedMark + 1 = s
      BY Zenon, <1>2, InStageFacts DEF MarksInv
    <2> QED
      BY <2>1, TypeFacts DEF BuildBatch, Max2
  <1>5. s \in batch' \cup db /\ (s \in batch' => s \in pending)
    <2>1. s \notin batch /\ s # 0
      BY <1>2, TypeFacts DEF StorageInv, BuildDbBatch
    <2> QED
      BY Zenon, <1>3, <2>1 DEF BuildBatch, HasEffects
  <1> QED
    BY <1>2, <1>3, <1>4, <1>5
       DEF Finishes, BuildBatch, stores, builder, TypeOK, StorageInv, PersistedIsFinal,
           BuildDbBatch, CommitTransactionOutputs, BumpHighestExecuted

\* What was written leaves the cache.
LEMMA FlushPendingFinishes == ASSUME IInv, NEW s \in Seqs, FlushPending(s) PROVE Finishes(s)
  <1> USE DEF IInv
  <1>2. InStage(s) /\ stage[s] = CommitTransactionOutputs /\ step[s] = "written"
    BY Zenon DEF FlushPending, At, InStage
  <1>3. /\ path[s] # "none" /\ (path[s] = "local" => Validator /\ s # Last)
        /\ HasEffects(s) /\ s \in hashes /\ path \in [Seqs -> {"none", "synced", "local"}]
    BY <1>2, FinalizedFacts DEF CommitTransactionOutputs, FinalizeTransactions
  <1>4. s \in db
    BY Zenon, <1>2 DEF StorageInv
  <1> QED
    BY <1>2, <1>3, <1>4
       DEF Finishes, FlushPending, stores, builder, marks, TypeOK, StorageInv,
           PersistedIsFinal, BuildDbBatch, CommitTransactionOutputs, BumpHighestExecuted

\* Every checkpoint up to a finalized one is durable and has its hash, so the
\* quarantine persists nothing that is not.
LEMMA HandleFinalizedFinishes == ASSUME IInv, NEW s \in Seqs, HandleFinalized(s) PROVE Finishes(s)
  <1> USE DEF IInv
  <1>2. InStage(s) /\ stage[s] = FinalizeCheckpoint /\ CommitWithBatch(s, quarantine)
        /\ s \in 0..Last
    BY TypeFacts DEF HandleFinalized, At, InStage
  <1>3. /\ path[s] # "none" /\ (path[s] = "local" => Validator /\ s # Last)
        /\ HasEffects(s) /\ s \in hashes /\ path \in [Seqs -> {"none", "synced", "local"}]
    BY <1>2, FinalizedFacts DEF FinalizeCheckpoint, FinalizeTransactions
  <1>4. /\ summaries' \in 0..Last /\ commits' \in 0..Last /\ quarantine' \subseteq Seqs
        /\ summaries <= summaries' /\ (summaries' = summaries \/ summaries' <= s)
        /\ commits' <= summaries'
    <2>1. quarantine \in SUBSET Seqs /\ commits <= summaries
      BY Zenon DEF TypeOK, StorageInv, PersistedIsFinal
    <2> QED
      BY Zenon, <1>2, <2>1, CommitWithBatchFacts
  <1>5. ASSUME NEW t \in Seqs, t <= s PROVE t \in db /\ t \in hashes
    <2>1. t <= executed \/ stage[t] >= stage[s]
      BY <1>2, <1>5, InStageFacts, TypeFacts
    <2>2. stage[t] >= stage[s]
             => stage[t] > CommitTransactionOutputs /\ stage[t] > FinalizeTransactions
      BY <1>2, TypeFacts
         DEF FinalizeTransactions, CommitTransactionOutputs, FinalizeCheckpoint
    <2> QED
      BY Zenon, <2>1, <2>2 DEF StorageInv, EffectsInv
  <1>6. PersistedIsFinal'
    <2>1. ASSUME NEW t \in Seqs, t <= summaries' PROVE t <= summaries \/ t <= s
      BY <1>4, <2>1, TypeFacts
    <2> QED
      BY Zenon, <1>4, <1>5, <2>1 DEF HandleFinalized, StorageInv, PersistedIsFinal
  <1> QED
    BY <1>2, <1>3, <1>4, <1>5, <1>6
       DEF Finishes, HandleFinalized, cache, marks, TypeOK, FinalizeCheckpoint,
           BuildDbBatch, CommitTransactionOutputs, BumpHighestExecuted

\* The highest executed checkpoint moves by one.
LEMMA BumpFinishes == ASSUME IInv, NEW s \in Seqs, Bump(s) PROVE Finishes(s)
  <1> USE DEF IInv
  <1>2. InStage(s) /\ stage[s] = BumpHighestExecuted /\ step[s] \in {"rooted", "closed"}
    BY Zenon DEF Bump, At, InStage
  <1>3. /\ path[s] # "none" /\ (path[s] = "local" => Validator /\ s # Last)
        /\ HasEffects(s) /\ s \in hashes /\ path \in [Seqs -> {"none", "synced", "local"}]
    BY <1>2, FinalizedFacts DEF BumpHighestExecuted, FinalizeTransactions
  <1>4. s \in db /\ s \in roots
    BY <1>2 DEF StorageInv, BumpHighestExecuted, CommitTransactionOutputs
  <1> QED
    BY <1>2, <1>3, <1>4
       DEF Finishes, Bump, builder, cache, marks, TypeOK, StorageInv, PersistedIsFinal,
           BuildDbBatch, CommitTransactionOutputs, BumpHighestExecuted

\* A stage begins; the first one records the certified checkpoint.
LEMMA BeginSteps == ASSUME IInv, NEW s \in Seqs, Begin(s) PROVE Steps(s, "run")
  <1> USE DEF IInv
  <1>2. certifiedMark' \in 0..Last /\ certifiedMark <= certifiedMark'
        /\ certifiedMark' <= synced /\ s <= certifiedMark'
    <2>1. s <= synced
      BY TypeFacts DEF StreamInv, Begin
    <2>2. stage[s] # ExecuteTransactions => s <= certifiedMark
      BY Zenon DEF MarksInv, Begin
    <2> QED
      BY <2>1, <2>2, TypeFacts DEF Begin, Max2, MarksInv
  <1>3. TypeOK'
    BY <1>2 DEF Begin, stores, builder, cache, TypeOK
  <1>4. DurablePrefix' /\ RootsPrefix'
    BY Zenon DEF Begin, stores, StorageInv, DurablePrefix, RootsPrefix
  <1> QED
    BY Zenon, <1>2, <1>3, <1>4
       DEF Steps, Begin, stores, builder, cache

\* The local path: the checkpoint of our own is found.
LEMMA FindLocalSteps == ASSUME IInv, NEW s \in Seqs, FindLocal(s) PROVE Steps(s, "hash")
  <1> USE DEF IInv
  <1>2. InStage(s) /\ stage[s] = ExecuteTransactions /\ s <= certifiedMark
        /\ certifiedMark <= synced
    BY Zenon DEF FindLocal, At, InStage, MarksInv
  <1>3. TypeOK' /\ path'[s] = "local" /\ \A t \in Seqs : t # s => path'[t] = path[t]
    BY Zenon DEF FindLocal, stores, builder, cache, marks, TypeOK
  <1>4. DurablePrefix' /\ RootsPrefix'
    BY Zenon DEF FindLocal, stores, StorageInv, DurablePrefix, RootsPrefix
  <1> QED
    BY <1>2, <1>3, <1>4, TypeFacts
       DEF Steps, FindLocal, UsesLocal, stores, builder, cache, marks

\* The batch is written after those of all earlier checkpoints.
LEMMA WriteBatchSteps == ASSUME IInv, NEW s \in Seqs, WriteBatch(s) PROVE Steps(s, "written")
  <1> USE DEF IInv
  <1>2. InStage(s) /\ stage[s] = CommitTransactionOutputs /\ s <= certifiedMark
        /\ certifiedMark <= synced
    BY Zenon DEF WriteBatch, At, InStage, MarksInv
  <1>3. s \in db' /\ db \subseteq db' /\ \A t \in db' : t \in db \/ t = s
    BY Zenon, <1>2 DEF WriteBatch, StorageInv
  <1>4. DurablePrefix'
    <2>1. ASSUME NEW t \in Seqs, t < s PROVE t \in db
      <3>1. stage[t] > stage[s] \/ t <= executed
        BY Zenon, <1>2, <2>1, InStageFacts
      <3> QED
        BY Zenon, <1>2, <3>1 DEF StorageInv
    <2> QED
      BY Zenon, <1>3, <2>1 DEF StorageInv, DurablePrefix
  <1>5. TypeOK'
    <2>1. {synced, executed, committed, summaries, commits, handled, built, rebuild,
           finalized, certifiedMark, executedMark}' \subseteq 0..Last
      BY Bounded DEF WriteBatch, builder, marks
    <2> QED
      BY Zenon, <2>1 DEF WriteBatch, builder, cache, marks, TypeOK
  <1>6. RootsPrefix'
    BY Zenon DEF WriteBatch, StorageInv, RootsPrefix
  <1> QED
    BY <1>2, <1>3, <1>4, <1>5, <1>6, TypeFacts
       DEF Steps, WriteBatch, builder, cache, marks

\* The running root is made after those of all earlier checkpoints.
LEMMA RunningRootSteps == ASSUME IInv, NEW s \in Seqs, RunningRoot(s) PROVE Steps(s, "rooted")
  <1> USE DEF IInv
  <1>2. InStage(s) /\ stage[s] = BumpHighestExecuted /\ s <= certifiedMark
        /\ certifiedMark <= synced
    BY Zenon
       DEF RunningRoot, At, InStage, MarksInv, BumpHighestExecuted, ExecuteTransactions
  <1>3. TypeOK'
    BY Zenon DEF RunningRoot, builder, cache, marks, TypeOK
  <1>4. RootsPrefix'
    <2>1. ASSUME NEW t \in Seqs, t < s PROVE t \in roots
      <3>1. s = executed + 1
        BY Zenon, <1>2, NextToExecute
      <3>2. t <= executed
        BY <2>1, <3>1, TypeFacts
      <3> QED
        BY Zenon, <3>2 DEF StorageInv
    <2> QED
      BY Zenon, <2>1 DEF RunningRoot, StorageInv, RootsPrefix
  <1>5. DurablePrefix'
    BY Zenon DEF RunningRoot, StorageInv, DurablePrefix
  <1> QED
    BY <1>2, <1>3, <1>4, <1>5, TypeFacts
       DEF Steps, RunningRoot, builder, cache, marks

\* The epoch is closed.
LEMMA CloseEpochSteps == ASSUME IInv, NEW s \in Seqs, CloseEpoch(s) PROVE Steps(s, "closed")
  <1> USE DEF IInv
  <1>2. InStage(s) /\ step[s] = "rooted" /\ s <= certifiedMark /\ certifiedMark <= synced
        /\ s \in roots
    BY Zenon DEF CloseEpoch, At, InStage, MarksInv, StorageInv
  <1>3. TypeOK'
    <2>1. local' \subseteq Seqs
      BY Zenon DEF CloseEpoch, TypeOK, MaxOf
    <2> QED
      BY Zenon, <2>1 DEF CloseEpoch, builder, cache, marks, TypeOK
  <1>4. DurablePrefix' /\ RootsPrefix'
    BY Zenon DEF CloseEpoch, StorageInv, DurablePrefix, RootsPrefix
  <1> QED
    BY <1>2, <1>3, <1>4, TypeFacts
       DEF Steps, CloseEpoch, builder, cache, marks

-----------------------------------------------------------------------------
\* The actions outside the pipeline add to the cache, the hashes and the roots.
Adds ==
    /\ UNCHANGED <<executed, db, batch, finalized, pipeline, marks>>
    /\ synced <= synced' /\ pending \subseteq pending' /\ hashes \subseteq hashes'
    /\ \A t \in hashes' : t \in hashes \/ t = Last \/ HasEffects(t)
    /\ \A t \in toHasher' : t \in toHasher \/ HasEffects(t)
    /\ roots \subseteq roots'
    /\ TypeOK' /\ RootsPrefix' /\ PersistedIsFinal'

\* State sync, the consensus handler, the start of the executor and the
\* scheduling of the change-epoch transaction.
LEMMA QuietAdds ==
    ASSUME IInv, Sync \/ Handle \/ StartExecutor \/ \E s \in Seqs : ScheduleChangeEpoch(s)
    PROVE  Adds
  <1>1. /\ UNCHANGED <<executed, db, hashes, roots, summaries, commits, pending, batch,
                       finalized, toHasher, pipeline, marks>>
        /\ synced' = synced \/ synced' = synced + 1
    BY Zenon DEF Sync, Handle, StartExecutor, ScheduleChangeEpoch, stores, builder, cache
  <1>2. TypeOK'
    <2>1. CASE Sync
      BY <2>1, TypeFacts DEF IInv, TypeOK, Sync, builder, cache, pipeline, marks
    <2>2. CASE Handle
      BY <2>2, TypeFacts DEF IInv, TypeOK, Handle, stores, cache, pipeline, marks
    <2>3. CASE StartExecutor
      BY Zenon, <2>3
         DEF IInv, TypeOK, StartExecutor, stores, builder, cache, pipeline, marks
    <2>4. ASSUME NEW s \in Seqs, ScheduleChangeEpoch(s) PROVE TypeOK'
      BY Zenon, <2>4
         DEF IInv, TypeOK, ScheduleChangeEpoch, stores, builder, pipeline, marks
    <2> QED
      BY Zenon, <2>1, <2>2, <2>3, <2>4
  <1>3. RootsPrefix' /\ PersistedIsFinal' /\ synced <= synced'
    BY <1>1, TypeFacts DEF IInv, StorageInv, RootsPrefix, PersistedIsFinal
  <1> QED
    BY Zenon, <1>1, <1>2, <1>3 DEF Adds

\* Execution.
LEMMA ExecuteAdds == ASSUME IInv, NEW s \in Seqs, Execute(s) PROVE Adds
  <1> USE DEF Execute, IInv, stores, builder, pipeline, marks
  <1>1. TypeOK'
    BY Zenon DEF TypeOK
  <1>2. RootsPrefix' /\ PersistedIsFinal' /\ synced <= synced'
    BY TypeFacts DEF StorageInv, RootsPrefix, PersistedIsFinal
  <1> QED
    BY Zenon, <1>1, <1>2 DEF Adds

\* The builder makes a checkpoint: what the quarantine persists with it is up to
\* the highest finalized checkpoint, so it is durable.
LEMMA BuildAdds ==
    ASSUME IInv, NEW s \in Seqs, Build(s) \/ (BuildLast /\ s = Last)
    PROVE  Adds
  <1> USE DEF IInv
  <1>2. /\ CommitWithBatch(finalized, quarantine \cup {s})
        /\ built' = s /\ local' = local \cup {s}
        /\ toHasher' = toHasher \/ (toHasher' = toHasher \cup {s} /\ HasEffects(s))
        /\ UNCHANGED <<synced, executed, committed, db, hashes, roots, handled, rebuild,
                       finalized, scheduled, pending, batch, pipeline, marks, node, crashes>>
    BY Zenon DEF Build, BuildLast, cache
  <1>3. /\ summaries' \in 0..Last /\ commits' \in 0..Last /\ quarantine' \subseteq Seqs
        /\ summaries <= summaries' /\ (summaries' = summaries \/ summaries' <= finalized)
        /\ commits' <= summaries'
    <2>1. finalized \in 0..Last /\ quarantine \cup {s} \in SUBSET Seqs /\ commits <= summaries
      BY Zenon DEF TypeOK, StorageInv, PersistedIsFinal
    <2> QED
      BY Zenon, <1>2, <2>1, CommitWithBatchFacts
  <1>4. TypeOK'
    <2>1. {synced, executed, committed, summaries, commits, handled, built, rebuild,
           finalized, certifiedMark, executedMark}' \subseteq 0..Last
      BY <1>2, <1>3, Bounded DEF marks
    <2> QED
      BY Zenon, <1>2, <1>3, <2>1 DEF TypeOK, pipeline
  <1>5. PersistedIsFinal'
    <2>1. ASSUME NEW t \in Seqs, t <= summaries' PROVE t <= summaries \/ t <= finalized
      BY <1>3, <2>1, TypeFacts
    <2> QED
      BY Zenon, <1>2, <1>3, <2>1 DEF StorageInv, PersistedIsFinal
  <1>6. RootsPrefix' /\ synced <= synced'
    BY <1>2, TypeFacts DEF StorageInv, RootsPrefix
  <1> QED
    BY Zenon, <1>2, <1>4, <1>5, <1>6 DEF Adds

\* The state hasher, for the checkpoints of the builder and for the last one.
LEMMA HashAdds ==
    ASSUME IInv, NEW s \in Seqs, Hash(s) \/ (HashLast /\ s = Last)
    PROVE  Adds
  <1>1. /\ hashes' = hashes \cup {s}
        /\ s = Last \/ HasEffects(s)
        /\ toHasher' \subseteq toHasher
        /\ UNCHANGED <<synced, executed, committed, db, local, roots, summaries, commits,
                       handled, built, rebuild, quarantine, finalized,
                       scheduled, pending, batch, pipeline, marks, node, crashes>>
    BY Zenon DEF Hash, HashLast, builder, cache, IInv, EffectsInv
  <1>2. TypeOK'
    BY Zenon, <1>1 DEF IInv, TypeOK, pipeline, marks
  <1>3. RootsPrefix' /\ PersistedIsFinal' /\ synced <= synced'
    BY <1>1, TypeFacts DEF IInv, StorageInv, RootsPrefix, PersistedIsFinal
  <1> QED
    BY Zenon, <1>1, <1>2, <1>3 DEF Adds

\* The root of the last checkpoint, after the running root before it.
LEMMA RootLastAdds == ASSUME IInv, RootLast PROVE Adds
  <1> USE DEF RootLast, builder, cache
  <1>1. TypeOK /\ StorageInv /\ Last \in Seqs
    BY ExecutorAssumption DEF IInv, Seqs
  <1>2. TypeOK'
    BY Zenon, <1>1 DEF TypeOK, pipeline, marks
  <1>3. ASSUME NEW t \in Seqs, t < Last PROVE t \in roots
    <2>1. Last # 1 /\ Last - 1 \in roots /\ (t = Last - 1 \/ t < Last - 1)
      BY <1>1, <1>3, TypeFacts
    <2> QED
      BY Zenon, <1>1, <2>1 DEF StorageInv, RootsPrefix
  <1>4. RootsPrefix' /\ PersistedIsFinal' /\ synced <= synced'
    BY <1>1, <1>3, TypeFacts DEF StorageInv, RootsPrefix, PersistedIsFinal
  <1> QED
    BY Zenon, <1>2, <1>4 DEF Adds

\* A checkpoint enters the pipeline.
LEMMA StreamStep == ASSUME IInv, NEW s \in Seqs, Stream(s) PROVE IInv'
  <1> USE DEF IInv
  <1>2. /\ s = next /\ s <= synced /\ next' = s + 1 /\ step' = [step EXCEPT ![s] = "wait"]
        /\ UNCHANGED <<synced, executed, committed, db, local, hashes, roots, summaries,
                       commits, node, handled, scheduled, pending, built, rebuild,
                       quarantine, finalized, toHasher, stage, path, batch, watch,
                       certifiedMark, executedMark, crashes>>
    BY Zenon DEF Stream, stores, builder, cache, marks
  <1>3. /\ step[s] = "none" /\ stage[s] = ExecuteTransactions /\ step'[s] = "wait"
        /\ \A t \in Seqs : t # s => step'[t] = step[t]
        /\ next' \in 1..(Last + 1) /\ next < next'
    BY <1>2, TypeFacts DEF TypeOK, StreamInv
  <1>4. TypeOK'
    BY Zenon, <1>2, <1>3 DEF TypeOK
  <1>5. StreamInv'
    BY <1>2, <1>3, TypeFacts DEF StreamInv, ExecuteTransactions, End
  <1>6. WatchInv'
    <2>1. \A k \in Stages : watch[k] <= next' /\ ~(watch[k] > s) /\ ~(stage[s] > k)
      BY <1>2, <1>3, TypeFacts DEF WatchInv, ExecuteTransactions
    <2>2. \A t \in Seqs : t < next' => t = s \/ t < next
      BY <1>2, TypeFacts
    <2> QED
      BY <1>2, <1>3, <2>1, <2>2 DEF WatchInv, InStage
  <1>7. EffectsInv' /\ MarksInv'
    BY Zenon, <1>2, <1>3 DEF EffectsInv, HasEffects, MarksInv
  <1>8. StorageInv'
    BY Zenon, <1>2, <1>3 DEF StorageInv, DurablePrefix, PersistedIsFinal, RootsPrefix
  <1> QED
    BY Zenon, <1>4, <1>5, <1>6, <1>7, <1>8

\* What is durable is kept, and the pipeline starts after the highest executed
\* checkpoint.  The hashes that are kept are those of checkpoints whose outputs
\* are durable.
LEMMA CrashStep == ASSUME IInv, Crash PROVE IInv'
  <1> USE DEF IInv
  <1>0. LastCommitted \in 0..Last /\ executed <= LastCommitted /\ summaries <= LastCommitted
        /\ LastCommitted \in {executed, summaries}
    BY Bounded DEF LastCommitted, Max2
  <1>1. \A t \in Seqs : t <= LastCommitted => t \in db /\ t \in hashes
    BY Zenon, <1>0 DEF StorageInv, PersistedIsFinal
  <1>2. TypeOK'
    <2>1. rebuild' \in local \cup {0} /\ local \subseteq Seqs
      BY Zenon DEF Crash, MaxOf, TypeOK
    <2>2. rebuild' \in 0..Last /\ executed + 1 \in 1..(Last + 1)
      BY <2>1, TypeFacts, Bounded
    <2>3. crashes' \in 0..MaxCrashes
      BY ExecutorAssumption DEF Crash, TypeOK
    <2>4. {synced, executed, committed, summaries, commits, handled, built, rebuild,
           finalized, certifiedMark, executedMark}' \subseteq 0..Last
      BY Zenon, <2>2, Bounded DEF Crash
    <2> QED
      BY <2>2, <2>3, <2>4 DEF Crash, TypeOK, ExecuteTransactions, End
  <1>3. StreamInv'
    BY TypeFacts DEF Crash, StreamInv, ExecuteTransactions, End
  <1>4. WatchInv'
    <2>1. \A t \in Seqs : t < executed + 1 <=> executed + 1 > t
      BY Zenon, TypeFacts
    <2> QED
      BY <2>1, TypeFacts DEF Crash, WatchInv, InStage
  <1>5. EffectsInv'
    BY <1>1 DEF Crash, EffectsInv, HasEffects, ExecuteTransactions, WaitForTransactions,
                FinalizeTransactions
  <1>6. StorageInv'
    <2>1. \A t \in Seqs : t <= executed \/ t <= summaries => t <= LastCommitted
      BY <1>0, TypeFacts
    <2>2. DurablePrefix' /\ PersistedIsFinal'
      BY Zenon, <2>1 DEF Crash, StorageInv, DurablePrefix, PersistedIsFinal
    <2>3. RootsPrefix'
      <3>1. \A a, b \in Seqs : b < a /\ a <= LastCommitted => b <= LastCommitted
        BY <1>0, TypeFacts
      <3>2. roots \subseteq Seqs
        BY Zenon DEF TypeOK
      <3> QED
        BY Zenon, <3>1, <3>2 DEF Crash, StorageInv, RootsPrefix
    <2>4. \A t \in Seqs : t <= executed => t \in db' /\ t \in hashes' /\ t \in roots'
      BY Zenon, <2>1 DEF Crash, StorageInv
    <2> QED
      BY <2>2, <2>3, <2>4 DEF Crash, StorageInv, ExecuteTransactions, BuildDbBatch,
                              CommitTransactionOutputs
  <1>7. MarksInv'
    BY TypeFacts DEF Crash, StreamInv, MarksInv, Stages, End, BumpHighestExecuted,
                     BuildDbBatch
  <1> QED
    BY Zenon, <1>2, <1>3, <1>4, <1>5, <1>6, <1>7

-----------------------------------------------------------------------------
\* The three kinds of actions preserve the invariant.

\* What is added is justified by effects.
LEMMA AddsInv == ASSUME IInv, Adds PROVE IInv'
  <1> USE DEF IInv, Adds, pipeline, marks
  <1>0. synced \in Nat /\ synced' \in Nat /\ certifiedMark \in Nat
    <2>1. synced' \in 0..Last /\ Last \in Nat
      BY Zenon, TypeFacts DEF TypeOK
    <2> QED
      BY <2>1, TypeFacts
  <1>1. StreamInv'
    BY <1>0, TypeFacts DEF StreamInv
  <1>2. WatchInv'
    BY Zenon DEF WatchInv, InStage
  <1>3. EffectsInv'
    BY Zenon DEF EffectsInv, HasEffects
  <1>4. StorageInv'
    BY Zenon DEF StorageInv, DurablePrefix
  <1>5. MarksInv'
    <2>1. certifiedMark <= synced'
      BY <1>0 DEF MarksInv
    <2> QED
      BY Zenon, <2>1 DEF MarksInv
  <1> QED
    BY Zenon, <1>1, <1>2, <1>3, <1>4, <1>5

\* A step within a stage keeps the order of the pipeline and of the stores.
LEMMA StepsInv ==
    ASSUME IInv, NEW s \in Seqs, NEW at, Steps(s, at)
    PROVE  IInv'
  <1> USE DEF IInv
  <1>2. /\ step'[s] = at /\ \A t \in Seqs : t # s => step'[t] = step[t]
        /\ step[s] # "none" /\ step[s] # "done" /\ watch[stage[s]] >= s
        /\ at \notin {"none", "wait", "done"}
    BY DEF TypeOK, Steps, InStage, WatchInv
  <1>3. StreamInv'
    BY Zenon, <1>2 DEF StreamInv, Steps
  <1>4. WatchInv'
    BY Zenon, <1>2 DEF WatchInv, InStage, Steps
  <1>5. EffectsInv'
    BY <1>2 DEF EffectsInv, HasEffects, Steps, ExecuteTransactions
  <1>6. StorageInv'
    BY Zenon, <1>2 DEF StorageInv, PersistedIsFinal, Steps
  <1>7. MarksInv'
    <2>1. \A t \in Seqs : t <= certifiedMark => t <= certifiedMark'
      BY TypeFacts, certifiedMark' \in 0..Last DEF Steps, TypeOK
    <2>2. executedMark <= certifiedMark'
      BY TypeFacts DEF Steps, MarksInv, TypeOK
    <2> QED
      BY Zenon, <1>2, <2>1, <2>2 DEF MarksInv, Steps
  <1> QED
    BY Zenon, <1>3, <1>4, <1>5, <1>6, <1>7 DEF Steps

\* The pipeline after finish_stage.
Moved(s) ==
    /\ stage' \in [Seqs -> 0..End]
    /\ step' \in [Seqs -> {"none", "wait", "run", "hash", "written", "rooted",
                           "closed", "done"}]
    /\ watch' \in [Stages -> 1..(Last + 1)]
    /\ stage'[s] = stage[s] + 1 /\ step'[s] \in {"wait", "done"}
    /\ \A t \in Seqs : t # s => stage'[t] = stage[t] /\ step'[t] = step[t]
    /\ watch'[stage[s]] = s + 1
    /\ \A k \in Stages : k # stage[s] => watch'[k] = watch[k]

\* Finishing a stage keeps the order of the pipeline: the signal is the next one
\* of the stage, so the watch passes this checkpoint and no other.
LEMMA FinishStageFacts ==
    ASSUME TypeOK, StreamInv, WatchInv, NEW s \in Seqs, InStage(s), FinishStage(s),
           next' = next, synced' = synced,
           executed' = executed \/ (executed' = s /\ s = executed + 1)
    PROVE  Moved(s) /\ StreamInv' /\ WatchInv'
  <1>1. s \in Nat /\ 1 <= s /\ s <= Last /\ s < next /\ stage[s] \in Stages
        /\ watch[stage[s]] = s
    BY Zenon, InStageFacts
  <1>2. stage[s] \in 0..8 /\ stage[s] + 1 \in 1..9 /\ stage[s] \in Nat /\ Last \in Nat
    BY <1>1, ExecutorAssumption DEF Stages, End
  <1>3. stage' \in [Seqs -> 0..End]
    BY <1>2 DEF FinishStage, TypeOK, End
  <1>4. step' \in [Seqs -> {"none", "wait", "run", "hash", "written", "rooted",
                            "closed", "done"}]
    BY Zenon DEF FinishStage, TypeOK
  <1>5. watch' \in [Stages -> 1..(Last + 1)]
    BY <1>1, <1>2 DEF FinishStage, TypeOK
  <1>6. stage'[s] = stage[s] + 1
        /\ step'[s] = (IF stage[s] + 1 = End THEN "done" ELSE "wait")
    BY Zenon DEF FinishStage, TypeOK
  <1>7. \A t \in Seqs : t # s => stage'[t] = stage[t] /\ step'[t] = step[t]
    BY Zenon DEF FinishStage, TypeOK
  <1>8. watch'[stage[s]] = s + 1 /\ \A k \in Stages : k # stage[s] => watch'[k] = watch[k]
    BY Zenon, <1>1 DEF FinishStage, TypeOK
  <1>9. executed \in Nat /\ next \in Nat /\ synced \in Nat /\ executed' \in Nat
        /\ \A t \in Seqs : stage[t] \in Nat /\ t \in Nat
        /\ executed <= executed'
    BY <1>1, TypeFacts
  <1>10. StreamInv'
    <2>1. executed' < next' /\ next' <= synced' + 1
      BY Zenon, <1>1, <1>9 DEF StreamInv
    <2>2. ASSUME NEW t \in Seqs
          PROVE  /\ t >= next' => step'[t] = "none"
                 /\ t < next' /\ step'[t] = "none" => t <= executed'
                 /\ step'[t] = "none" => stage'[t] = ExecuteTransactions
                 /\ step'[t] = "done" <=> stage'[t] = End
      <3>1. CASE t = s
        BY <1>1, <1>2, <1>6, <1>9, <3>1 DEF End
      <3>2. CASE t # s
        BY <1>7, <1>9, <3>2 DEF StreamInv
      <3> QED
        BY Zenon, <3>1, <3>2
    <2> QED
      BY Zenon, <2>1, <2>2 DEF StreamInv
  <1>11. WatchInv'
    <2>0. \A k \in Stages : watch[k] \in Nat /\ k \in Nat
      BY <1>2 DEF TypeOK, Stages, End
    <2>1. \A k \in Stages : watch'[k] <= next'
      BY <1>1, <1>8, <1>9 DEF WatchInv
    <2>2. ASSUME NEW t \in Seqs, NEW k \in Stages, t < next'
          PROVE  watch'[k] > t <=> step'[t] = "none" \/ stage'[t] > k
      <3>1. watch[k] > t <=> step[t] = "none" \/ stage[t] > k
        BY Zenon, <2>2 DEF WatchInv
      <3>2. CASE t = s
        <4>1. step[s] # "none" /\ step'[s] # "none"
          BY Zenon, <1>6 DEF InStage
        <4>2. CASE k = stage[s]
          BY <1>1, <1>2, <1>6, <1>8, <3>2, <4>2
        <4>3. CASE k # stage[s]
          BY <1>1, <1>2, <1>6, <1>8, <2>0, <3>1, <3>2, <4>1, <4>3
        <4> QED
          BY Zenon, <4>2, <4>3
      <3>3. CASE t # s
        <4>1. CASE k = stage[s]
          BY <1>1, <1>7, <1>8, <1>9, <3>1, <3>3, <4>1
        <4>2. CASE k # stage[s]
          BY Zenon, <1>7, <1>8, <3>1, <3>3, <4>2
        <4> QED
          BY Zenon, <4>1, <4>2
      <3> QED
        BY Zenon, <3>2, <3>3
    <2>3. ASSUME NEW t \in Seqs, InStage(t)'
          PROVE  watch'[stage'[t]] >= t
      <3>1. t # s
        BY Zenon, <1>6, <2>3 DEF InStage
      <3>2. step'[t] = step[t] /\ stage'[t] = stage[t] /\ InStage(t)
        BY Zenon, <1>7, <2>3, <3>1 DEF InStage
      <3>3. stage[t] \in Stages /\ watch[stage[t]] = t
        BY Zenon, <3>2, InStageFacts
      <3> QED
        BY <1>1, <1>8, <1>9, <3>2, <3>3
    <2> QED
      BY Zenon, <2>1, <2>2, <2>3 DEF WatchInv
  <1> QED
    BY Zenon, <1>3, <1>4, <1>5, <1>6, <1>7, <1>8, <1>10, <1>11 DEF Moved

\* Effects and hashes, when a stage is finished: its checkpoint has what the next
\* stage asks for.
LEMMA MovedEffects ==
    ASSUME TypeOK, EffectsInv, NEW s \in Seqs, Moved(s),
           toHasher' = toHasher,
           \A t \in Seqs : t # s => path'[t] = path[t],
           path'[s] # "none",
           path'[s] = "local" => Validator /\ s # Last /\ s \in hashes',
           hashes \subseteq hashes', \A t \in hashes' : t \in hashes \/ t = s,
           \A t \in Seqs : HasEffects(t) => HasEffects(t)',
           s # Last /\ (stage[s] >= WaitForTransactions \/ (Validator /\ s \in hashes'))
              => HasEffects(s),
           stage[s] >= FinalizeTransactions => HasEffects(s) /\ s \in hashes'
    PROVE  EffectsInv'
  <1> SUFFICES ASSUME NEW t \in Seqs
               PROVE  /\ t \in toHasher' => HasEffects(t)'
                      /\ Validator /\ t \in hashes' /\ t # Last => HasEffects(t)'
                      /\ stage'[t] > WaitForTransactions /\ t # Last => HasEffects(t)'
                      /\ stage'[t] > FinalizeTransactions => HasEffects(t)' /\ t \in hashes'
                      /\ stage'[t] > ExecuteTransactions \/ step'[t] = "hash"
                            => path'[t] # "none"
                      /\ path'[t] = "local" => Validator /\ t # Last
                      /\ path'[t] = "local" /\ stage'[t] > ExecuteTransactions
                            => t \in hashes'
    BY Zenon DEF EffectsInv
  <1>1. CASE t = s
    <2>1. stage'[s] = stage[s] + 1 /\ stage[s] \in Nat
      BY Zenon, TypeFacts DEF Moved
    <2>2. (stage'[s] > WaitForTransactions => stage[s] >= WaitForTransactions)
          /\ (stage'[s] > FinalizeTransactions => stage[s] >= FinalizeTransactions)
      BY <2>1 DEF WaitForTransactions, FinalizeTransactions
    <2>3. s \in toHasher => HasEffects(s)
      BY Zenon DEF EffectsInv
    <2> QED
      BY Zenon, <1>1, <2>2, <2>3
  <1>2. CASE t # s
    <2>1. stage'[t] = stage[t] /\ step'[t] = step[t] /\ path'[t] = path[t]
      BY Zenon, <1>2 DEF Moved
    <2>2. t \in hashes' <=> t \in hashes
      BY Zenon, <1>2
    <2> QED
      BY Zenon, <2>1, <2>2 DEF EffectsInv
  <1> QED
    BY Zenon, <1>1, <1>2

\* The stores, when a stage is finished: outputs enter the batch in BuildDbBatch,
\* and are durable from CommitTransactionOutputs on.
LEMMA MovedStorage ==
    ASSUME TypeOK, StorageInv, NEW s \in Seqs, Moved(s),
           db' = db, roots' = roots, hashes \subseteq hashes',
           \A t \in Seqs : t # s => (t \in batch' <=> t \in batch)
                                    /\ (t \in pending' <=> t \in pending),
           stage[s] # BuildDbBatch => batch' = batch,
           stage[s] = BuildDbBatch => s \in batch' \cup db /\ (s \in batch' => s \in pending'),
           stage[s] >= CommitTransactionOutputs => s \in db,
           \A t \in Seqs : t <= executed' => t \in db /\ t \in hashes' /\ t \in roots,
           \A t \in Seqs : t <= finalized' => t \in db /\ t \in hashes',
           PersistedIsFinal'
    PROVE  StorageInv'
  <1>1. ASSUME NEW t \in Seqs
        PROVE  /\ t \in batch' => stage'[t] > BuildDbBatch
               /\ stage'[t] = CommitTransactionOutputs => t \in batch' \cup db'
               /\ t \in batch' /\ stage'[t] = CommitTransactionOutputs => t \in pending'
               /\ stage'[t] = CommitTransactionOutputs /\ step'[t] = "written" => t \in db'
               /\ stage'[t] > CommitTransactionOutputs => t \in db'
               /\ step'[t] \in {"rooted", "closed"} => t \in roots'
    <2>1. CASE t = s
      <3>1. stage'[s] = stage[s] + 1 /\ stage[s] \in Nat /\ step'[s] \in {"wait", "done"}
        BY Zenon, TypeFacts DEF Moved
      <3>2. /\ stage'[s] = CommitTransactionOutputs => stage[s] = BuildDbBatch
            /\ stage'[s] > CommitTransactionOutputs => stage[s] >= CommitTransactionOutputs
            /\ stage[s] >= BuildDbBatch => stage'[s] > BuildDbBatch
            /\ stage[s] > BuildDbBatch => stage[s] >= BuildDbBatch
            /\ stage[s] = BuildDbBatch => stage[s] >= BuildDbBatch
        BY <3>1 DEF BuildDbBatch, CommitTransactionOutputs
      <3> QED
        BY Zenon, <2>1, <3>1, <3>2 DEF StorageInv
    <2>2. CASE t # s
      <3>1. stage'[t] = stage[t] /\ step'[t] = step[t]
        BY Zenon, <2>2 DEF Moved
      <3> QED
        BY Zenon, <2>2, <3>1 DEF StorageInv
    <2> QED
      BY Zenon, <2>1, <2>2
  <1>2. DurablePrefix' /\ RootsPrefix'
    BY Zenon DEF StorageInv, DurablePrefix, RootsPrefix
  <1> QED
    BY Zenon, <1>1, <1>2 DEF StorageInv

\* Finishing a stage preserves the invariant.
LEMMA FinishesInv == ASSUME IInv, NEW s \in Seqs, Finishes(s) PROVE IInv'
  <1> USE DEF IInv
  <1>2. InStage(s) /\ stage[s] = BumpHighestExecuted => s = executed + 1
    BY Zenon, NextToExecute
  <1>3. Moved(s) /\ StreamInv' /\ WatchInv'
    BY Zenon, <1>2, FinishStageFacts DEF Finishes
  <1>4. TypeOK'
    <2>1. {synced, executed, committed, summaries, commits, handled, built, rebuild,
           finalized, certifiedMark, executedMark}' \subseteq 0..Last
      BY Bounded DEF Finishes
    <2> QED
      BY Zenon, <1>3, <2>1 DEF TypeOK, Moved, Finishes
  <1>5. EffectsInv'
    <2>1. \A t \in Seqs : HasEffects(t) => HasEffects(t)'
      BY Zenon DEF HasEffects, Finishes
    <2> QED
      BY Zenon, <1>3, <2>1, MovedEffects DEF Finishes
  <1>6. StorageInv'
    <2>1. ASSUME NEW t \in Seqs, t <= executed' PROVE t \in db /\ t \in hashes' /\ t \in roots
      <3>1. CASE t <= executed
        BY Zenon, <3>1 DEF StorageInv, Finishes
      <3>2. CASE ~(t <= executed)
        <4>1. stage[s] = BumpHighestExecuted /\ t = s
          BY <1>2, <2>1, <3>2, TypeFacts DEF Finishes
        <4> QED
          BY <4>1 DEF Finishes, BumpHighestExecuted, CommitTransactionOutputs,
                      FinalizeTransactions
      <3> QED
        BY Zenon, <3>1, <3>2
    <2> QED
      BY Zenon, <1>3, <2>1, MovedStorage DEF Finishes
  <1>7. MarksInv'
    <2>1. s <= certifiedMark
      BY Zenon DEF MarksInv, InStage, Finishes
    <2>2. watch'[BumpHighestExecuted] = executed' + 1
          /\ watch'[BuildDbBatch] = executedMark' + 1
      BY <1>3 DEF MarksInv, Moved, Finishes, Stages, End, BuildDbBatch,
                        BumpHighestExecuted
    <2>3. \A t \in Seqs : step'[t] = "none"
              \/ (step'[t] = "wait" /\ stage'[t] = ExecuteTransactions) \/ t <= certifiedMark
      BY Zenon, <1>3, <2>1 DEF MarksInv, Moved
    <2> QED
      BY Zenon, <2>1, <2>2, <2>3 DEF MarksInv, Finishes
  <1> QED
    BY Zenon, <1>3, <1>4, <1>5, <1>6, <1>7

-----------------------------------------------------------------------------
\* The invariant.

\* A node that starts the epoch satisfies the invariant.
LEMMA InitIInv == Init => IInv
  <1> SUFFICES ASSUME Init PROVE IInv
    OBVIOUS
  <1> USE ExecutorAssumption DEF Init
  <1>1. TypeOK
    <2>1. stage \in [Seqs -> 0..End] /\ path \in [Seqs -> {"none", "synced", "local"}]
          /\ step \in [Seqs -> {"none", "wait", "run", "hash", "written", "rooted",
                                "closed", "done"}]
      BY DEF ExecuteTransactions, End
    <2>2. watch \in [Stages -> 1..(Last + 1)] /\ next \in 1..(Last + 1)
      OBVIOUS
    <2> QED
      BY <2>1, <2>2 DEF TypeOK
  <1>2. \A t \in Seqs : t \in Nat /\ 1 <= t
    BY DEF Seqs
  <1>3. StreamInv
    BY <1>2 DEF StreamInv, ExecuteTransactions, End
  <1>4. WatchInv
    BY <1>2 DEF WatchInv, InStage
  <1>5. EffectsInv
    BY DEF EffectsInv, HasEffects, ExecuteTransactions, WaitForTransactions,
       FinalizeTransactions
  <1>6. StorageInv
    BY <1>2 DEF StorageInv, DurablePrefix, PersistedIsFinal, RootsPrefix,
       ExecuteTransactions, BuildDbBatch, CommitTransactionOutputs
  <1>7. MarksInv
    BY DEF MarksInv, Stages, End, BuildDbBatch, BumpHighestExecuted
  <1> QED
    BY Zenon, <1>1, <1>3, <1>4, <1>5, <1>6, <1>7 DEF IInv

\* Every step of the node, crashes included, preserves it.
LEMMA NextIInv == IInv /\ [Next]_vars => IInv'
  <1> SUFFICES ASSUME IInv, [Next]_vars PROVE IInv'
    OBVIOUS
  <1>1. CASE \/ Sync \/ Handle \/ StartExecutor \/ Builder
             \/ \E s \in Seqs : Execute(s) \/ ScheduleChangeEpoch(s)
    <2>1. Last \in Seqs
      BY ExecutorAssumption DEF Seqs
    <2>2. Adds
      BY Zenon, <1>1, <2>1, QuietAdds, ExecuteAdds, BuildAdds, HashAdds, RootLastAdds
         DEF Builder
    <2> QED
      BY Zenon, <2>2, AddsInv
  <1>2. CASE Crash
    BY Zenon, <1>2, CrashStep
  <1>3. ASSUME NEW s \in Seqs, Task(s) PROVE IInv'
    <2>1. CASE Stream(s)
      BY Zenon, <2>1, StreamStep
    <2>2. CASE Begin(s) \/ FindLocal(s) \/ WriteBatch(s) \/ RunningRoot(s) \/ CloseEpoch(s)
      <3>1. \E at : Steps(s, at)
        BY Zenon, <2>2, BeginSteps, FindLocalSteps, WriteBatchSteps, RunningRootSteps,
           CloseEpochSteps
      <3> QED
        BY Zenon, <3>1, StepsInv
    <2>3. CASE \/ ScheduleSynced(s) \/ ReadHash(s) \/ AwaitEffects(s) \/ ProcessData(s)
               \/ UpdateIndex(s) \/ AccumulateCheckpoint(s) \/ BuildBatch(s)
               \/ FlushPending(s) \/ HandleFinalized(s) \/ Bump(s)
      <3>1. Finishes(s)
        BY Zenon, <2>3, ScheduleSyncedFinishes, WaitingFinishes,
           AccumulateCheckpointFinishes,
           BuildBatchFinishes, FlushPendingFinishes, HandleFinalizedFinishes, BumpFinishes
      <3> QED
        BY Zenon, <3>1, FinishesInv
    <2> QED
      BY Zenon, <1>1, <1>3, <2>1, <2>2, <2>3 DEF Task
  <1>4. CASE UNCHANGED vars
    <2>1. TypeOK' /\ RootsPrefix' /\ PersistedIsFinal'
      BY Zenon, <1>4
         DEF vars, stores, builder, cache, pipeline, marks, IInv, TypeOK, StorageInv,
                  RootsPrefix, PersistedIsFinal
    <2>2. synced <= synced'
      BY <1>4, TypeFacts DEF vars, stores, IInv
    <2> QED
      BY Zenon, <1>4, <2>1, <2>2, AddsInv DEF Adds, vars, stores, builder, cache
  <1> QED
    BY Zenon, <1>1, <1>2, <1>3, <1>4 DEF Next

\* The inductive invariant of the checkpoint executor holds in every state the
\* node reaches, through any number of crashes and restarts.
THEOREM Invariance == Spec => []IInv
  BY InitIInv, NextIInv, PTL DEF Spec

-----------------------------------------------------------------------------
\* The safety properties.

\* The type invariant.
THEOREM TypeCorrect == Spec => []TypeOK
  <1>1. IInv => TypeOK
    BY Zenon DEF IInv
  <1> QED
    BY <1>1, Invariance, PTL

\* Every stage takes the checkpoints in order: a checkpoint is in a stage only
\* when all earlier ones are past it, and every signal of a stage is the next one.
THEOREM PipelineInOrder == Spec => []PipelineOrder
  <1>1. IInv => PipelineOrder
    BY Zenon, InStageFacts DEF IInv, PipelineOrder
  <1> QED
    BY <1>1, Invariance, PTL

\* What the executed watermark covers is durable: the outputs of every checkpoint
\* up to it are in the database, whenever the node crashes.
THEOREM ExecutedIsDurable == Spec => []ExecutedDurable
  <1>1. IInv => ExecutedDurable
    BY Zenon DEF IInv, StorageInv, ExecutedDurable
  <1> QED
    BY <1>1, Invariance, PTL

\* Checkpoints become durable in order, across crashes.
THEOREM DurableInOrder == Spec => []DurablePrefix
  <1>1. IInv => DurablePrefix
    BY Zenon DEF IInv, StorageInv
  <1> QED
    BY <1>1, Invariance, PTL

\* What the quarantine persists of consensus output is covered by durable, hashed
\* checkpoints, so a restart that skips the persisted commits loses nothing.
THEOREM PersistedNeedsNoReplay == Spec => []PersistedIsFinal
  <1>1. IInv => PersistedIsFinal
    BY Zenon DEF IInv, StorageInv
  <1> QED
    BY <1>1, Invariance, PTL

\* No assert of the stages, of the flush or of the watermarks fails.
THEOREM NoAssertFails == Spec => []AssertsHold
  <1>1. IInv => AssertsHold
    <2> SUFFICES ASSUME IInv, NEW s \in Seqs
                 PROVE  /\ At(s, BuildDbBatch, "run") => s <= executedMark + 1
                        /\ At(s, CommitTransactionOutputs, "written") /\ s \in batch
                              => s \in pending
                        /\ At(s, BumpHighestExecuted, "run") =>
                              s \in roots \/ s = 1 \/ (s - 1) \in roots
                        /\ stage[s] = BumpHighestExecuted /\ InStage(s)
                              => s = executed + 1
      BY Zenon DEF AssertsHold
    <2>1. TypeOK /\ StreamInv /\ WatchInv /\ StorageInv /\ MarksInv
      BY Zenon DEF IInv
    <2>2. ASSUME At(s, BuildDbBatch, "run") PROVE s <= executedMark + 1
      <3>1. InStage(s) /\ stage[s] = BuildDbBatch
        BY Zenon, <2>2 DEF At, InStage
      <3>2. watch[BuildDbBatch] = s
        BY Zenon, <2>1, <3>1, InStageFacts
      <3> QED
        BY <2>1, <3>2, TypeFacts DEF MarksInv
    <2>3. ASSUME At(s, CommitTransactionOutputs, "written"), s \in batch
          PROVE  s \in pending
      BY Zenon, <2>1, <2>3 DEF At, StorageInv
    <2>4. stage[s] = BumpHighestExecuted /\ InStage(s) => s = executed + 1
      BY Zenon, NextToExecute
    <2>5. ASSUME At(s, BumpHighestExecuted, "run") PROVE s = 1 \/ (s - 1) \in roots
      <3>1. s = executed + 1
        BY Zenon, <2>4, <2>5 DEF At, InStage
      <3>2. s = 1 \/ (s - 1 \in Seqs /\ s - 1 <= executed)
        BY <2>1, <3>1, TypeFacts DEF Seqs
      <3> QED
        BY Zenon, <2>1, <3>2 DEF StorageInv
    <2> QED
      BY Zenon, <2>2, <2>3, <2>4, <2>5
  <1> QED
    BY <1>1, Invariance, PTL

\* The watermarks of backpressure are ordered: executed, then executed with a
\* batch, then certified, then synced.
THEOREM WatermarksOrdered == Spec => []MarksOrdered
  <1>1. IInv => MarksOrdered
    <2> SUFFICES ASSUME IInv PROVE executed <= executedMark
      BY Zenon DEF MarksOrdered, IInv, MarksInv
    <2> DEFINE w == watch[BuildDbBatch]
    <2>1. TypeOK /\ StreamInv /\ WatchInv /\ MarksInv
      BY Zenon DEF IInv
    <2>2. BuildDbBatch \in Stages /\ BumpHighestExecuted \in Stages
      BY DEF Stages, End, BuildDbBatch, BumpHighestExecuted
    <2>3. w = executedMark + 1 /\ w \in Nat /\ w <= next
      BY Zenon, <2>1, <2>2, TypeFacts DEF MarksInv, WatchInv
    <2>4. watch[BumpHighestExecuted] = executed + 1 /\ executed + 1 <= next
      BY Zenon, <2>1, <2>2 DEF MarksInv, WatchInv
    <2>5. CASE w = next
      BY <2>1, <2>3, <2>4, <2>5, TypeFacts
    <2>6. CASE w < next
      <3>1. w \in Seqs
        BY <2>1, <2>3, <2>6, TypeFacts DEF Seqs, StreamInv
      <3>2. ~(step[w] = "none" \/ stage[w] > BuildDbBatch)
        BY <2>1, <2>2, <2>3, <2>6, <3>1 DEF WatchInv
      <3>3. ~(step[w] = "none" \/ stage[w] > BumpHighestExecuted)
        BY <2>1, <3>1, <3>2, TypeFacts DEF BuildDbBatch, BumpHighestExecuted
      <3>4. ~(watch[BumpHighestExecuted] > w)
        BY Zenon, <2>1, <2>2, <2>6, <3>1, <3>3 DEF WatchInv
      <3> QED
        BY <2>1, <2>3, <2>4, <3>4, TypeFacts
    <2> QED
      BY <2>1, <2>3, <2>5, <2>6, TypeFacts
  <1> QED
    BY <1>1, Invariance, PTL

\* The running roots have no gap, across crashes.
THEOREM RootsInOrder == Spec => []RootsPrefix
  <1>1. IInv => RootsPrefix
    BY Zenon DEF IInv, StorageInv
  <1> QED
    BY <1>1, Invariance, PTL

-----------------------------------------------------------------------------
\* The executor implements the execution of an epoch in order.

\* A step that changes none of the three variables the promise is about.
Silent == UNCHANGED <<synced, db, executed>>

LEMMA WriteBatchStores ==
    ASSUME IInv, IInv', NEW s \in Seqs, WriteBatch(s)
    PROVE  Execution!Store \/ Silent
  <1>1. UNCHANGED <<synced, executed>> /\ db' = (IF s \in batch THEN db \cup {s} ELSE db)
    BY Zenon DEF WriteBatch
  <1>2. CASE s \notin batch \/ s \in db
    BY <1>1, <1>2 DEF Silent
  <1>3. CASE s \in batch /\ s \notin db
    <2>1. db' = db \cup {s}
      BY Zenon, <1>1, <1>3
    <2>2. step[s] # "none"
      BY Zenon DEF WriteBatch, At
    <2>3. ~(s >= next) /\ next <= synced + 1
      BY Zenon, <2>2 DEF IInv, StreamInv
    <2>4. s \in 1..synced
      BY <2>3, TypeFacts DEF IInv
    <2>5. \A t \in Seqs : t < s => t \in db'
      BY Zenon, <2>1 DEF IInv, StorageInv, DurablePrefix
    <2>6. 1..(s - 1) \subseteq db
      <3> SUFFICES ASSUME NEW t \in 1..(s - 1) PROVE t \in db
        BY Zenon
      <3>1. t \in Seqs /\ t < s /\ t # s
        BY TypeFacts DEF IInv, Seqs
      <3> QED
        BY Zenon, <2>1, <2>5, <3>1
    <2> QED
      BY Zenon, <1>1, <1>3, <2>1, <2>4, <2>6 DEF Execution!Store
  <1> QED
    BY Zenon, <1>2, <1>3

LEMMA BumpExecutes ==
    ASSUME IInv, NEW s \in Seqs, Bump(s)
    PROVE  Execution!Execute
  <1>1. stage[s] = BumpHighestExecuted /\ InStage(s)
    BY DEF Bump, At, InStage
  <1>2. s = executed + 1
    BY Zenon, <1>1, NextToExecute
  <1>3. stage[s] > CommitTransactionOutputs
    BY <1>1 DEF BumpHighestExecuted, CommitTransactionOutputs
  <1>4. s \in db
    BY Zenon, <1>3 DEF IInv, StorageInv
  <1> QED
    BY Zenon, <1>2, <1>4 DEF Bump, Execution!Execute

\* Every step of the node is a step of EpochExecution or changes nothing of it.
LEMMA StepExecutes ==
    ASSUME IInv, IInv', [Next]_vars
    PROVE  Execution!Next \/ Silent
  <1>1. CASE Sync
    BY Zenon, <1>1 DEF Sync, Execution!Certify, Execution!Next
  <1>2. CASE Handle \/ Crash \/ StartExecutor \/ UNCHANGED vars
    BY Zenon, <1>2 DEF Handle, Crash, StartExecutor, vars, stores, Silent
  <1>3. CASE Builder
    <2>1. UNCHANGED <<synced, db, executed>>
      BY Zenon, <1>3 DEF Builder, Build, Hash, HashLast, RootLast, BuildLast
    <2> QED
      BY Zenon, <2>1 DEF Silent
  <1>4. ASSUME NEW s \in Seqs, Execute(s) \/ Task(s)
        PROVE  Execution!Next \/ Silent
    <2>1. CASE WriteBatch(s)
      BY Zenon, <2>1, WriteBatchStores DEF Execution!Next
    <2>2. CASE Bump(s)
      BY Zenon, <2>2, BumpExecutes DEF Execution!Next
    <2>3. CASE Execute(s) \/ Stream(s) \/ Begin(s) \/ ScheduleSynced(s) \/ FindLocal(s)
               \/ ReadHash(s) \/ AwaitEffects(s) \/ ScheduleChangeEpoch(s) \/ ProcessData(s)
               \/ BuildBatch(s) \/ FlushPending(s) \/ UpdateIndex(s)
      BY Zenon, <2>3
         DEF Execute, Stream, Begin, ScheduleSynced, FindLocal, ReadHash, AwaitEffects,
             ScheduleChangeEpoch, ProcessData, BuildBatch, FlushPending, UpdateIndex,
             stores, Silent
    <2>4. CASE AccumulateCheckpoint(s) \/ HandleFinalized(s) \/ RunningRoot(s) \/ CloseEpoch(s)
      BY Zenon, <2>4
         DEF AccumulateCheckpoint, HandleFinalized, RunningRoot, CloseEpoch, Silent
    <2> QED
      BY Zenon, <1>4, <2>1, <2>2, <2>3, <2>4 DEF Task
  <1> QED
    BY Zenon, <1>1, <1>2, <1>3, <1>4 DEF Next

\* The node executes the epoch like EpochExecution: through any number of
\* crashes the effects of certified checkpoints become durable in order, the
\* executed watermark follows one by one, and neither ever goes back.
THEOREM Refinement == Spec => ExecutesInOrder
  <1>1. Init => Execution!Init
    BY Zenon DEF Init, Execution!Init
  <1>2. IInv /\ IInv' /\ [Next]_vars => [Execution!Next]_Execution!vars
    BY Zenon, StepExecutes DEF Silent, Execution!vars
  <1> QED
    BY <1>1, <1>2, Invariance, PTL DEF Spec, ExecutesInOrder, Execution!Spec

=============================================================================
