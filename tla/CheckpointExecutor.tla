------------------------- MODULE CheckpointExecutor -------------------------
(***************************************************************************)
(* The pipelined execution of certified checkpoints and its recovery after *)
(* a crash (sui-core/src/checkpoints/checkpoint_executor, with the parts   *)
(* of the checkpoint builder, the consensus output quarantine, the state   *)
(* hasher and the writeback cache it depends on), within one epoch.        *)
(*                                                                         *)
(* Checkpoints are 1..Last, 0 is the last one of the previous epoch, Last  *)
(* ends this one.  A checkpoint stands for its transactions, which execute *)
(* after those of the checkpoint before it; those of Last stand for the    *)
(* change-epoch transaction.  The commit s of consensus holds the roots of *)
(* checkpoint s; Drained are the commits that leave no roots pending.      *)
(* Left out: forks, run_with_range, indexes and subscriptions, randomness. *)
(***************************************************************************)
EXTENDS Naturals, FiniteSets

CONSTANTS
    Last,           \* the last checkpoint of the epoch
    Concurrency,    \* checkpoint_execution_max_concurrency
    Validator,      \* FALSE: a full node, without builder and consensus
    Drained,
    Timeout,        \* whether the wait for rebuilt checkpoints may time out
    MaxCrashes      \* bound: how often the node stops

ASSUME ExecutorAssumption ==
    /\ Last \in Nat \ {0} /\ Concurrency \in Nat \ {0}
    /\ Validator \in BOOLEAN /\ Timeout \in BOOLEAN
    /\ Drained \subseteq 1..Last
    /\ MaxCrashes \in Nat

Seqs == 1..Last

(* PipelineStage.                                                          *)
ExecuteTransactions == 0
WaitForTransactions == 1
FinalizeTransactions == 2
ProcessCheckpointData == 3
BuildDbBatch == 4
CommitTransactionOutputs == 5
FinalizeCheckpoint == 6
UpdateRpcIndex == 7
BumpHighestExecuted == 8
End == 9
Stages == 0..(End - 1)

VARIABLES
    \* The databases.
    synced,         \* CheckpointWatermark::HighestSynced
    executed,       \* CheckpointWatermark::HighestExecuted
    committed,      \* highest_committed_checkpoint of the perpetual store
    db,             \* checkpoints whose outputs are in the perpetual store
    local,          \* locally_computed_checkpoints
    hashes,         \* state_hash_by_checkpoint
    roots,          \* running_root_state_hash
    summaries,      \* last builder_checkpoint_summary_v2
    commits,        \* last commit in last_consensus_stats_v2
    \* Lost in a crash.
    node,           \* "rebuild" (before the executor starts) or "run"
    handled,        \* last commit taken by the consensus handler
    scheduled,      \* transactions enqueued by the executor
    pending,        \* pending_transaction_writes of the cache
    built,          \* last checkpoint of the builder
    rebuild,        \* highest_previously_built_seq
    quarantine,     \* builder summaries held by the quarantine
    finalized,      \* its highest_executed_checkpoint
    toHasher,       \* channel from the builder to the state hasher
    next,           \* next checkpoint of the stream
    stage,          \* cur_stage of each PipelineHandle
    step,           \* where in the stage its task is
    path,           \* "synced" or "local"
    batch,          \* whether the batch of a checkpoint holds its outputs
    watch,          \* the SequenceWatch of every stage
    certifiedMark, executedMark,    \* Watermarks of BackpressureManager
    crashes         \* bound

stores == <<synced, executed, committed, db, local, hashes, roots, summaries, commits>>
builder == <<handled, built, rebuild, quarantine, finalized, toHasher>>
cache == <<scheduled, pending, batch>>
pipeline == <<next, stage, step, path, watch>>
marks == <<certifiedMark, executedMark>>
vars == <<stores, builder, cache, pipeline, marks, node, crashes>>

(* The greatest element of a set, as a set.                               *)
MaxOf(S) == {x \in S : \A y \in S : y <= x}
Max2(x, y) == IF x <= y THEN y ELSE x

(* The outputs of a transaction are visible from the cache or the database. *)
HasEffects(s) == s = 0 \/ s \in pending \cup db

TypeOK ==
    /\ {synced, executed, committed, summaries, commits, handled, built, rebuild,
        finalized, certifiedMark, executedMark} \subseteq 0..Last
    /\ db \subseteq Seqs /\ local \subseteq Seqs /\ hashes \subseteq Seqs
    /\ roots \subseteq Seqs /\ scheduled \subseteq Seqs /\ pending \subseteq Seqs
    /\ quarantine \subseteq Seqs /\ toHasher \subseteq Seqs /\ batch \subseteq Seqs
    /\ node \in {"rebuild", "run"} /\ next \in 1..(Last + 1)
    /\ stage \in [Seqs -> 0..End]
    /\ step \in [Seqs -> {"none", "wait", "run", "hash", "written", "rooted", "closed", "done"}]
    /\ path \in [Seqs -> {"none", "synced", "local"}]
    /\ watch \in [Stages -> 1..(Last + 1)]
    /\ crashes \in 0..MaxCrashes

(***************************************************************************)
(* Consensus, execution and state sync.                                    *)
(***************************************************************************)

(* State sync has the next certified checkpoint and its contents.          *)
Sync ==
    /\ synced < Last
    /\ synced' = synced + 1
    /\ UNCHANGED <<executed, committed, db, local, hashes, roots, summaries, commits,
                   builder, cache, pipeline, marks, node, crashes>>

(* The handler takes the next commit, from the first one not persisted, and *)
(* schedules its transactions.                                             *)
Handle ==
    /\ Validator /\ handled < Last
    /\ handled' = handled + 1
    /\ UNCHANGED <<stores, built, rebuild, quarantine, finalized, toHasher,
                   cache, pipeline, marks, node, crashes>>

(* write_transaction_outputs of a scheduled transaction whose inputs are   *)
(* there.  Consensus does not schedule the change-epoch transaction.       *)
Execute(s) ==
    /\ ~HasEffects(s) /\ HasEffects(s - 1)
    /\ s \in scheduled \/ (s <= handled /\ s # Last)
    /\ pending' = pending \cup {s}
    /\ UNCHANGED <<stores, builder, scheduled, batch, pipeline, marks, node, crashes>>

(***************************************************************************)
(* The builder, the state hasher and the quarantine.                       *)
(***************************************************************************)

(* The last drained commit among those of the persisted summaries.         *)
PersistedCommit(last) == MaxOf({commits} \cup {d \in Drained : d <= last})

(* Summaries up to the highest executed checkpoint are persisted, with the *)
(* outputs of consensus they cover.                                        *)
CommitWithBatch(high, summariesHeld) ==
    LET ready == {s \in summariesHeld : s <= high}
    IN  /\ quarantine' = summariesHeld \ ready
        /\ summaries' \in MaxOf({summaries} \cup ready)
        /\ commits' \in IF ready = {} THEN {commits} ELSE PersistedCommit(summaries')

(* The builder makes the next checkpoint once its transactions have        *)
(* effects, and stores it; the hash is left to the state hasher.           *)
Build(s) ==
    /\ Validator /\ s = built + 1 /\ s # Last
    /\ s <= handled /\ s > commits      \* its PendingCheckpoint is held
    /\ HasEffects(s)
    /\ toHasher' = toHasher \cup {s}
    /\ local' = local \cup {s}
    /\ built' = s
    /\ CommitWithBatch(finalized, quarantine \cup {s})
    /\ UNCHANGED <<synced, executed, committed, db, hashes, roots, handled, rebuild,
                   finalized, cache, pipeline, marks, node, crashes>>

(* The last checkpoint of the epoch carries the root hash: its own hash    *)
(* first, then, after the running root before it, the root, then the       *)
(* summary.  The builder ends if the change-epoch transaction is executed. *)
BuildingLast ==
    /\ Validator /\ built + 1 = Last
    /\ Last <= handled /\ Last > commits
    /\ HasEffects(Last - 1)

BuilderEnded == BuildingLast /\ HasEffects(Last)

HashLast ==
    /\ BuildingLast /\ ~HasEffects(Last)
    /\ Last \notin hashes
    /\ hashes' = hashes \cup {Last}
    /\ UNCHANGED <<synced, executed, committed, db, local, roots, summaries, commits,
                   builder, cache, pipeline, marks, node, crashes>>

RootLast ==
    /\ BuildingLast /\ Last \in hashes /\ Last \notin roots
    /\ Last = 1 \/ (Last - 1) \in roots
    /\ roots' = roots \cup {Last}
    /\ UNCHANGED <<synced, executed, committed, db, local, hashes, summaries, commits,
                   builder, cache, pipeline, marks, node, crashes>>

BuildLast ==
    /\ BuildingLast /\ Last \in hashes /\ Last \in roots
    /\ local' = local \cup {Last}
    /\ built' = Last
    /\ CommitWithBatch(finalized, quarantine \cup {Last})
    /\ UNCHANGED <<synced, executed, committed, db, hashes, roots, handled, rebuild,
                   finalized, toHasher, cache, pipeline, marks, node, crashes>>

(* accumulate_checkpoint in the CheckpointStateHasher.                     *)
Hash(s) ==
    /\ s \in toHasher
    /\ toHasher' = toHasher \ {s}
    /\ hashes' = hashes \cup {s}
    /\ UNCHANGED <<synced, executed, committed, db, local, roots, summaries, commits,
                   handled, built, rebuild, quarantine, finalized,
                   cache, pipeline, marks, node, crashes>>

(***************************************************************************)
(* The pipeline.                                                           *)
(***************************************************************************)

\* A mutant: a stage begins when the checkpoint before has begun it.
Begin_Early(s) ==
    /\ node = "run" /\ step[s] = "wait" /\ watch[stage[s]] >= s - 1
    /\ step' = [step EXCEPT ![s] = "run"]
    /\ certifiedMark' = IF stage[s] = ExecuteTransactions
                        THEN Max2(certifiedMark, s) ELSE certifiedMark
    /\ UNCHANGED <<stores, builder, cache, next, stage, path, watch,
                   executedMark, node, crashes>>

(* A stage begins once the checkpoint before has finished it.  The first   *)
(* one starts the task, which records the certified checkpoint.            *)
Begin(s) ==
    /\ node = "run" /\ step[s] = "wait" /\ watch[stage[s]] >= s
    /\ step' = [step EXCEPT ![s] = "run"]
    /\ certifiedMark' = IF stage[s] = ExecuteTransactions
                        THEN Max2(certifiedMark, s) ELSE certifiedMark
    /\ UNCHANGED <<stores, builder, cache, next, stage, path, watch,
                   executedMark, node, crashes>>

At(s, k, at) == node = "run" /\ stage[s] = k /\ step[s] = at

(* finish_stage: signal the stage and wait for the next one.               *)
FinishStage(s) ==
    /\ watch' = [watch EXCEPT ![stage[s]] = s + 1]
    /\ stage' = [stage EXCEPT ![s] = stage[s] + 1]
    /\ step' = [step EXCEPT ![s] = IF stage[s] + 1 = End THEN "done" ELSE "wait"]

(* Up to Concurrency checkpoints are in the pipeline.                      *)
Stream(s) ==
    /\ node = "run" /\ s = next /\ s <= synced
    /\ Cardinality({t \in Seqs : step[t] \notin {"none", "done"}}) < Concurrency
    /\ next' = s + 1
    /\ step' = [step EXCEPT ![s] = "wait"]
    /\ UNCHANGED <<stores, builder, cache, stage, path, watch, marks, node, crashes>>

(* The last checkpoint waits until the ones before it are executed.        *)
Ready(s) == s = Last => executed >= s - 1

UsesLocal(s) == Validator /\ s # Last /\ s \in local

(* execute_transactions_from_synced_checkpoint: transactions that are not  *)
(* executed are enqueued, the change-epoch transaction excepted.           *)
ScheduleSynced(s) ==
    /\ At(s, ExecuteTransactions, "run") /\ Ready(s) /\ ~UsesLocal(s)
    /\ scheduled' = IF HasEffects(s) \/ s = Last THEN scheduled ELSE scheduled \cup {s}
    /\ path' = [path EXCEPT ![s] = "synced"]
    /\ FinishStage(s)
    /\ UNCHANGED <<stores, builder, pending, batch, next, marks, node, crashes>>

(* verify_locally_built_checkpoint: there is a checkpoint of our own ...   *)
FindLocal(s) ==
    /\ At(s, ExecuteTransactions, "run") /\ Ready(s) /\ UsesLocal(s)
    /\ path' = [path EXCEPT ![s] = "local"]
    /\ step' = [step EXCEPT ![s] = "hash"]
    /\ UNCHANGED <<stores, builder, cache, next, stage, watch, marks, node, crashes>>

(* ... and the task waits for the hash the builder ordered.                *)
ReadHash(s) ==
    /\ At(s, ExecuteTransactions, "hash") /\ s \in hashes
    /\ FinishStage(s)
    /\ UNCHANGED <<stores, builder, cache, next, path, marks, node, crashes>>

AwaitEffects(s) ==
    /\ At(s, WaitForTransactions, "run")
    /\ path[s] = "synced" /\ s # Last => HasEffects(s)
    /\ FinishStage(s)
    /\ UNCHANGED <<stores, builder, cache, next, path, marks, node, crashes>>

ScheduleChangeEpoch(s) ==
    /\ At(s, FinalizeTransactions, "run") /\ s = Last /\ s \notin scheduled
    /\ scheduled' = scheduled \cup {s}
    /\ UNCHANGED <<stores, builder, pending, batch, pipeline, marks, node, crashes>>

(* The local path leaves the stage without work for this model.            *)
AccumulateCheckpoint(s) ==
    /\ At(s, FinalizeTransactions, "run")
    /\ s = Last => s \in scheduled /\ HasEffects(s)
    /\ hashes' = IF path[s] = "synced" THEN hashes \cup {s} ELSE hashes
    /\ FinishStage(s)
    /\ UNCHANGED <<synced, executed, committed, db, local, roots, summaries, commits,
                   builder, cache, next, path, marks, node, crashes>>

ProcessData(s) ==
    /\ At(s, ProcessCheckpointData, "run")
    /\ FinishStage(s)
    /\ UNCHANGED <<stores, builder, cache, next, path, marks, node, crashes>>

(* build_db_batch skips transactions that are not pending.                 *)
BuildBatch(s) ==
    /\ At(s, BuildDbBatch, "run")
    /\ executedMark' = Max2(executedMark, s)
    /\ batch' = IF s \in pending THEN batch \cup {s} ELSE batch
    /\ FinishStage(s)
    /\ UNCHANGED <<stores, builder, scheduled, pending, next, path, certifiedMark,
                   node, crashes>>

(* commit_transaction_outputs: the batch, with the committed watermark, is *)
(* written first ...                                                       *)
WriteBatch(s) ==
    /\ At(s, CommitTransactionOutputs, "run")
    /\ db' = IF s \in batch THEN db \cup {s} ELSE db
    /\ committed' = s
    /\ step' = [step EXCEPT ![s] = "written"]
    /\ UNCHANGED <<synced, executed, local, hashes, roots, summaries, commits,
                   builder, cache, next, stage, path, watch, marks, node, crashes>>

(* ... then its transactions leave the dirty set.                          *)
FlushPending(s) ==
    /\ At(s, CommitTransactionOutputs, "written")
    /\ pending' = IF s \in batch THEN pending \ {s} ELSE pending
    /\ FinishStage(s)
    /\ UNCHANGED <<stores, builder, scheduled, batch, next, path, marks, node, crashes>>

(* handle_finalized_checkpoint.                                            *)
HandleFinalized(s) ==
    /\ At(s, FinalizeCheckpoint, "run")
    /\ finalized' = s
    /\ CommitWithBatch(s, quarantine)
    /\ FinishStage(s)
    /\ UNCHANGED <<synced, executed, committed, db, local, hashes, roots, handled, built,
                   rebuild, toHasher, cache, next, path, marks, node, crashes>>

UpdateIndex(s) ==
    /\ At(s, UpdateRpcIndex, "run")
    /\ FinishStage(s)
    /\ UNCHANGED <<stores, builder, cache, next, path, marks, node, crashes>>

RunningRoot(s) ==
    /\ At(s, BumpHighestExecuted, "run")
    /\ roots' = roots \cup {s}
    /\ step' = [step EXCEPT ![s] = "rooted"]
    /\ UNCHANGED <<synced, executed, committed, db, local, hashes, summaries, commits,
                   builder, cache, next, stage, path, watch, marks, node, crashes>>

(* The epoch's root hash is stored and local summaries but the last are    *)
(* pruned.                                                                 *)
CloseEpoch(s) ==
    /\ At(s, BumpHighestExecuted, "rooted") /\ s = Last
    /\ local' = MaxOf(local)
    /\ step' = [step EXCEPT ![s] = "closed"]
    /\ UNCHANGED <<synced, executed, committed, db, hashes, roots, summaries, commits,
                   builder, cache, next, stage, path, watch, marks, node, crashes>>

Bump(s) ==
    /\ At(s, BumpHighestExecuted, IF s = Last THEN "closed" ELSE "rooted")
    /\ executed' = s
    /\ FinishStage(s)
    /\ UNCHANGED <<synced, committed, db, local, hashes, roots, summaries, commits,
                   builder, cache, next, path, marks, node, crashes>>

(***************************************************************************)
(* Crash and restart.                                                      *)
(***************************************************************************)


\* A mutant: all hashes of the epoch are cleared.
LastCommitted_All == 0

\* A mutant: no hash is cleared.
LastCommitted_None == Last

(* What clear_state_hashes_after_checkpoint keeps at the start of the      *)
(* checkpoint service.                                                     *)
LastCommitted == Max2(summaries, executed)

(* The node stops at any point and starts again from its databases.  A     *)
(* validator rebuilds what it had built before its executor starts.        *)
Crash ==
    /\ crashes < MaxCrashes
    /\ crashes' = crashes + 1
    /\ node' = IF Validator THEN "rebuild" ELSE "run"
    /\ hashes' = IF Validator THEN {s \in hashes : s <= LastCommitted} ELSE hashes
    /\ roots' = IF Validator THEN {s \in roots : s <= LastCommitted} ELSE roots
    /\ handled' = commits /\ built' = summaries
    /\ rebuild' \in MaxOf(local \cup {0})
    /\ quarantine' = {} /\ finalized' = executed /\ toHasher' = {}
    /\ scheduled' = {} /\ pending' = {} /\ batch' = {}
    /\ next' = executed + 1
    /\ stage' = [s \in Seqs |-> ExecuteTransactions]
    /\ step' = [s \in Seqs |-> "none"]
    /\ path' = [s \in Seqs |-> "none"]
    /\ watch' = [k \in Stages |-> executed + 1]
    /\ certifiedMark' = synced /\ executedMark' = executed
    /\ UNCHANGED <<synced, executed, committed, db, local, summaries, commits>>

(* The executor starts when the builder is where it was, or has ended, or  *)
(* was waited for long enough.                                             *)
StartExecutor ==
    /\ node = "rebuild"
    /\ built >= rebuild \/ BuilderEnded \/ Timeout
    /\ node' = "run"
    /\ UNCHANGED <<stores, builder, cache, pipeline, marks, crashes>>

Init ==
    /\ synced = 0 /\ executed = 0 /\ committed = 0 /\ summaries = 0 /\ commits = 0
    /\ db = {} /\ local = {} /\ hashes = {} /\ roots = {}
    /\ node = (IF Validator THEN "rebuild" ELSE "run")
    /\ handled = 0 /\ built = 0 /\ rebuild = 0 /\ quarantine = {} /\ finalized = 0
    /\ toHasher = {} /\ scheduled = {} /\ pending = {} /\ batch = {} /\ next = 1
    /\ stage = [s \in Seqs |-> ExecuteTransactions]
    /\ step = [s \in Seqs |-> "none"]
    /\ path = [s \in Seqs |-> "none"]
    /\ watch = [k \in Stages |-> 1]
    /\ certifiedMark = 0 /\ executedMark = 0 /\ crashes = 0

Task(s) ==
    \/ Stream(s) \/ Begin(s) \/ ScheduleSynced(s) \/ FindLocal(s) \/ ReadHash(s)
    \/ AwaitEffects(s) \/ ScheduleChangeEpoch(s) \/ AccumulateCheckpoint(s)
    \/ ProcessData(s) \/ BuildBatch(s) \/ WriteBatch(s) \/ FlushPending(s)
    \/ HandleFinalized(s) \/ UpdateIndex(s) \/ RunningRoot(s) \/ CloseEpoch(s)
    \/ Bump(s)

Builder ==
    \/ \E s \in Seqs : Build(s) \/ Hash(s)
    \/ HashLast \/ RootLast \/ BuildLast

Next ==
    \/ Sync \/ Handle \/ Builder \/ Crash \/ StartExecutor
    \/ \E s \in Seqs : Execute(s) \/ Task(s)

Spec == Init /\ [][Next]_vars

(* Everything but arrivals, crashes and the timeout keeps going: each is a *)
(* task of the runtime or a thread of execution.                           *)
FairSpec ==
    /\ Spec
    /\ WF_vars(Sync) /\ WF_vars(Handle)
    /\ WF_vars(StartExecutor) /\ WF_vars(HashLast) /\ WF_vars(RootLast)
    /\ WF_vars(BuildLast)
    /\ \A s \in Seqs : WF_vars(Build(s)) /\ WF_vars(Hash(s)) /\ WF_vars(Execute(s))
                        /\ WF_vars(Task(s))

(***************************************************************************)
(* Properties.                                                             *)
(***************************************************************************)

InStage(s) == step[s] \notin {"none", "wait", "done"}

(* "Stage A for seq i must complete before Stage A of seq i+1 begins": a   *)
(* checkpoint is in a stage only when every earlier one of this run of the *)
(* executor is past it, and every signal is the next one, so that the      *)
(* assert of SequenceWatch::signal holds.                                  *)
PipelineOrder ==
    \A s \in Seqs : InStage(s) /\ node = "run" =>
        /\ watch[stage[s]] = s
        /\ \A t \in Seqs : t < s /\ step[t] # "none" => stage[t] > stage[s]

(* The highest executed checkpoint and everything before it survive a      *)
(* crash: their outputs are durable.  A batch may be empty only because    *)
(* the outputs were written before an earlier crash, also when the node    *)
(* starts without waiting for the rebuilt checkpoints.                     *)
ExecutedDurable == \A s \in Seqs : s <= executed => s \in db

(* Outputs become durable in the order of the checkpoints, across crashes. *)
DurablePrefix == \A s \in db : \A t \in Seqs : t < s => t \in db

(* What the quarantine has persisted needs no replay: the outputs of the   *)
(* persisted summaries are durable, their hashes are there for the         *)
(* executor, and no commit is persisted beyond them.                       *)
PersistedIsFinal ==
    /\ commits <= summaries
    /\ \A s \in Seqs : s <= summaries => s \in db /\ s \in hashes

(* None of the asserts on the way fires: the watermark of backpressure and *)
(* the executed watermark advance one by one, a running root has its       *)
(* predecessor, a written transaction is still pending when it is flushed. *)
AssertsHold ==
    node = "run" => \A s \in Seqs :
        /\ At(s, BuildDbBatch, "run") => s <= executedMark + 1
        /\ At(s, CommitTransactionOutputs, "written") /\ s \in batch => s \in pending
        /\ At(s, BumpHighestExecuted, "run") =>
              s \in roots \/ s = 1 \/ (s - 1) \in roots
        /\ stage[s] = BumpHighestExecuted /\ InStage(s) => s = executed + 1

(* "the executed watermark is always less than or equal to the certified   *)
(* watermark", and neither runs ahead of state sync or behind the stores.  *)
MarksOrdered ==
    node = "run" => /\ executedMark <= certifiedMark /\ certifiedMark <= synced
                    /\ executed <= executedMark

(* The running roots have no gap: the root of a checkpoint includes all of *)
(* the epoch before it.                                                    *)
RootsPrefix == \A s \in roots : \A t \in Seqs : t < s => t \in roots

(* The pipeline, the builder and the recovery together execute the epoch   *)
(* like EpochExecution: in order, durably and without a step back.         *)
Execution == INSTANCE EpochExecution WITH certified <- synced, stored <- db

ExecutesInOrder == Execution!Spec


(***************************************************************************)
(* The inductive invariant.                                                *)
(***************************************************************************)

(* Which checkpoints are in the pipeline, and which were executed before   *)
(* this run of the executor.                                               *)
StreamInv ==
    /\ executed < next /\ next <= synced + 1
    /\ \A s \in Seqs :
        /\ s >= next => step[s] = "none"
        /\ s < next /\ step[s] = "none" => s <= executed
        /\ step[s] = "none" => stage[s] = ExecuteTransactions
        /\ step[s] = "done" <=> stage[s] = End

(* A watch has passed exactly the checkpoints that are past its stage.     *)
WatchInv ==
    /\ \A k \in Stages : watch[k] <= next
    /\ \A s \in Seqs, k \in Stages :
        s < next => (watch[k] > s <=> step[s] = "none" \/ stage[s] > k)
    /\ \A s \in Seqs : InStage(s) => watch[stage[s]] >= s

(* Where a checkpoint must have its effects and its hash: both paths have  *)
(* them when FinalizeTransactions is done, the local one through the hash. *)
EffectsInv ==
    \A s \in Seqs :
        /\ s \in toHasher => HasEffects(s)
        /\ Validator /\ s \in hashes /\ s # Last => HasEffects(s)
        /\ stage[s] > WaitForTransactions /\ s # Last => HasEffects(s)
        /\ stage[s] > FinalizeTransactions => HasEffects(s) /\ s \in hashes
        /\ stage[s] > ExecuteTransactions \/ step[s] = "hash" => path[s] # "none"
        /\ path[s] = "local" => Validator /\ s # Last
        /\ path[s] = "local" /\ stage[s] > ExecuteTransactions => s \in hashes

(* From the batch to the database, and what relies on it.                  *)
StorageInv ==
    /\ \A s \in Seqs :
        /\ s \in batch => stage[s] > BuildDbBatch
        /\ stage[s] = CommitTransactionOutputs => s \in batch \cup db
        /\ s \in batch /\ stage[s] = CommitTransactionOutputs => s \in pending
        /\ stage[s] = CommitTransactionOutputs /\ step[s] = "written" => s \in db
        /\ stage[s] > CommitTransactionOutputs => s \in db
        /\ s <= executed => s \in db /\ s \in hashes /\ s \in roots
        /\ s <= finalized => s \in db /\ s \in hashes
        /\ step[s] \in {"rooted", "closed"} => s \in roots
    /\ DurablePrefix /\ PersistedIsFinal /\ RootsPrefix

(* Two watches move together with a watermark.                             *)
MarksInv ==
    /\ watch[BumpHighestExecuted] = executed + 1
    /\ watch[BuildDbBatch] = executedMark + 1
    /\ executedMark <= certifiedMark /\ certifiedMark <= synced
    /\ \A s \in Seqs :
        step[s] = "none" \/ (step[s] = "wait" /\ stage[s] = ExecuteTransactions)
        \/ s <= certifiedMark

IInv == TypeOK /\ StreamInv /\ WatchInv /\ EffectsInv /\ StorageInv /\ MarksInv

=============================================================================
