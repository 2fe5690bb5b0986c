---------------------------- MODULE CommitOutput ----------------------------
(***************************************************************************)
(* The way of a commit from Core to the consumer of the commits (Sui) and  *)
(* back through a crash: CommitObserver (core/src/commit_observer.rs), the *)
(* task of CommitFinalizer (core/src/commit_finalizer.rs), the commits     *)
(* that DagState buffers and flushes, and the replay at startup.           *)
(*                                                                         *)
(* Core, the finalizer task and the consumer run concurrently and pass     *)
(* commits through unbounded channels.  A commit is its index; finalizing  *)
(* it yields one of Outcomes (the set of its rejected transactions), which *)
(* depends on the blocks the node has at that moment and so is chosen      *)
(* arbitrarily here.                                                       *)
(***************************************************************************)
EXTENDS Naturals, Sequences

CONSTANTS
    Outcomes,      \* results of finalization
    NoOutcome,     \* no result: the commit is not finalized yet
    FinalizeDepth, \* commits that may stay buffered in CommitFinalizer
    MaxCommit,     \* bound: commits
    MaxCrashes     \* bound: crashes

ASSUME OutputAssumption ==
    /\ NoOutcome \notin Outcomes
    /\ FinalizeDepth \in Nat /\ MaxCommit \in Nat /\ MaxCrashes \in Nat

VARIABLES
    last_commit_index, \* DagState::last_commit_index()
    commits_to_write,  \* DagState::commits_to_write
    stored_commits,    \* commits in the store
    stored_finalized,  \* finalized commits in the store: index -> outcome
    sending,           \* handle_commit has added all its commits and sends them
    to_send,           \* sub-dags of handle_commit not yet sent to the finalizer
    recover_next,      \* next commit that recover_and_send_commits resends
    recover_last,      \* last commit that it resends
    inbox,             \* channel from CommitObserver to CommitFinalizer
    pending_commits,   \* CommitFinalizer::pending_commits
    last_processed_commit, \* CommitFinalizer::last_processed_commit, 0 for none
    finalized_commits, \* result of process_commit in CommitFinalizer::run
    fin,               \* where CommitFinalizer::run is
    output,            \* channel to the consumer
    expected,          \* next commit the consumer waits for
    processed,         \* last commit the consumer has made durable
    received,          \* history: every commit the consumer ever received
    crashes

coreVars  == <<last_commit_index, sending, to_send, recover_next, recover_last>>
storeVars == <<commits_to_write, stored_commits, stored_finalized>>
finVars   == <<pending_commits, last_processed_commit, finalized_commits, fin>>
userVars  == <<expected, processed, received>>
vars == <<coreVars, storeVars, inbox, finVars, output, userVars, crashes>>

Commit == [index : Nat, outcome : Outcomes \cup {NoOutcome}]
FinalizedCommit == [index : Nat, outcome : Outcomes]

TypeOK ==
    /\ last_commit_index \in Nat
    /\ commits_to_write \in SUBSET Nat
    /\ stored_commits \in SUBSET Nat
    /\ stored_finalized \in [DOMAIN stored_finalized -> Outcomes]
    /\ DOMAIN stored_finalized \in SUBSET Nat
    /\ sending \in BOOLEAN
    /\ to_send \in Seq(Commit) /\ inbox \in Seq(Commit)
    /\ recover_next \in Nat /\ recover_last \in Nat
    /\ pending_commits \in Seq(Nat)
    /\ last_processed_commit \in Nat
    /\ finalized_commits \in Seq(FinalizedCommit) /\ output \in Seq(FinalizedCommit)
    /\ fin \in {"recv", "record", "flush", "send"}
    /\ expected \in Nat /\ processed \in Nat
    /\ received \in SUBSET FinalizedCommit
    /\ crashes \in Nat

Init ==
    /\ last_commit_index = 0
    /\ commits_to_write = {}
    /\ stored_commits = {}
    /\ stored_finalized = << >>
    /\ sending = FALSE
    /\ to_send = << >>
    /\ recover_next = 1
    /\ recover_last = 0
    /\ inbox = << >>
    /\ pending_commits = << >>
    /\ last_processed_commit = 0
    /\ finalized_commits = << >>
    /\ fin = "recv"
    /\ output = << >>
    /\ expected = 1
    /\ processed = 0
    /\ received = {}
    /\ crashes = 0

Recovered == recover_next > recover_last

\* Faulty variant of StoredOutcome: the outcome is not recovered.
StoredOutcome_Forget(i) == NoOutcome

\* What load_committed_subdag_from_store knows about the outcome of commit i.
StoredOutcome(i) == IF i \in DOMAIN stored_finalized THEN stored_finalized[i] ELSE NoOutcome

\* Faulty variant of Flush: the commits are dropped from the buffer unwritten.
Flush_LosesCommits ==
    /\ commits_to_write' = {}
    /\ UNCHANGED stored_commits

\* DagState::flush: all that is buffered goes to the store at once.
Flush ==
    /\ stored_commits' = stored_commits \cup commits_to_write
    /\ commits_to_write' = {}

-----------------------------------------------------------------------------
\* CommitObserver, on the core thread.

\* Faulty variant of RecoverCommit: a finalized commit is taken as delivered.
RecoverCommit_UnfinalizedOnly ==
    /\ ~Recovered
    /\ commits_to_write' = commits_to_write \cup {recover_next}
    /\ inbox' = IF recover_next \in DOMAIN stored_finalized THEN inbox
                ELSE Append(inbox, [index |-> recover_next, outcome |-> NoOutcome])
    /\ recover_next' = recover_next + 1
    /\ UNCHANGED <<last_commit_index, sending, to_send, recover_last, stored_commits,
                   stored_finalized, finVars, output, userVars, crashes>>

\* An iteration of recover_and_send_commits, before Core starts.
RecoverCommit ==
    /\ ~Recovered
    /\ commits_to_write' = commits_to_write \cup {recover_next}
    /\ inbox' = Append(inbox, [index |-> recover_next, outcome |-> StoredOutcome(recover_next)])
    /\ recover_next' = recover_next + 1
    /\ UNCHANGED <<last_commit_index, sending, to_send, recover_last, stored_commits, stored_finalized,
                   finVars, output, userVars, crashes>>

\* Linearizer::handle_commit adds the commit of one more leader to DagState.
AddCommit ==
    /\ Recovered
    /\ ~sending
    /\ last_commit_index < MaxCommit
    /\ last_commit_index' = last_commit_index + 1
    /\ commits_to_write' = commits_to_write \cup {last_commit_index + 1}
    /\ to_send' = Append(to_send, [index |-> last_commit_index + 1, outcome |-> NoOutcome])
    /\ UNCHANGED <<sending, recover_next, recover_last, stored_commits, stored_finalized, inbox,
                   finVars, output, userVars, crashes>>

\* CommitObserver::handle_commit sends a sub-dag to the finalizer.
SendToFinalizer ==
    /\ to_send # << >>
    /\ inbox' = Append(inbox, Head(to_send))
    /\ to_send' = Tail(to_send)
    /\ sending' = (Len(to_send) > 1)
    /\ UNCHANGED <<last_commit_index, recover_next, recover_last, storeVars, finVars, output,
                   userVars, crashes>>

\* DagState::flush from the proposer.
CoreFlush ==
    /\ Recovered
    /\ to_send = << >>
    /\ commits_to_write # {}
    /\ Flush
    /\ UNCHANGED <<coreVars, stored_finalized, inbox, finVars, output, userVars, crashes>>

-----------------------------------------------------------------------------
\* CommitFinalizer::run, a task of its own.

\* A commit whose outcome was recovered from the store.
ReceiveFinalized ==
    /\ fin = "recv"
    /\ inbox # << >>
    /\ Head(inbox).outcome # NoOutcome
    /\ inbox' = Tail(inbox)
    /\ finalized_commits' = <<Head(inbox)>>
    /\ fin' = "flush"
    /\ UNCHANGED <<coreVars, storeVars, pending_commits, last_processed_commit, output, userVars,
                   crashes>>

\* Faulty variant of ProcessCommit: a commit behind a pending one is finalized.
ProcessCommit_NotPrefix(k, outcome) ==
    LET buffered == Append(pending_commits, Head(inbox).index)
        n == Len(buffered) IN
    /\ fin = "recv"
    /\ inbox # << >>
    /\ Head(inbox).outcome = NoOutcome
    /\ k \in 0 .. n
    /\ n - k <= FinalizeDepth
    /\ outcome \in [1 .. k -> Outcomes]
    /\ inbox' = Tail(inbox)
    /\ last_processed_commit' = Head(inbox).index
    /\ pending_commits' = SubSeq(buffered, 1, n - k)
    /\ finalized_commits' =
        [j \in 1 .. k |-> [index |-> buffered[n - k + j], outcome |-> outcome[j]]]
    /\ fin' = IF k = 0 THEN "recv" ELSE "record"
    /\ UNCHANGED <<coreVars, storeVars, output, userVars, crashes>>

\* process_commit: the commit is buffered, and a prefix of the buffered commits
\* is finalized, each with some outcome.
ProcessCommit(k, outcome) ==
    LET buffered == Append(pending_commits, Head(inbox).index) IN
    /\ fin = "recv"
    /\ inbox # << >>
    /\ Head(inbox).outcome = NoOutcome
    /\ k \in 0 .. Len(buffered)
    /\ Len(buffered) - k <= FinalizeDepth
    /\ outcome \in [1 .. k -> Outcomes]
    /\ inbox' = Tail(inbox)
    /\ last_processed_commit' = Head(inbox).index
    /\ pending_commits' = SubSeq(buffered, k + 1, Len(buffered))
    /\ finalized_commits' = [j \in 1 .. k |-> [index |-> buffered[j], outcome |-> outcome[j]]]
    /\ fin' = IF k = 0 THEN "recv" ELSE "record"
    /\ UNCHANGED <<coreVars, storeVars, output, userVars, crashes>>

Indices(commits) == {commits[j].index : j \in DOMAIN commits}

OutcomeIn(commits, i) == commits[CHOOSE j \in DOMAIN commits : commits[j].index = i].outcome

\* Faulty variant of RecordFinalized: the flush is left to the proposer.
RecordFinalized_NoFlush ==
    /\ fin = "record"
    /\ fin' = "send"
    /\ UNCHANGED <<coreVars, storeVars, inbox, pending_commits, last_processed_commit,
                   finalized_commits, output, userVars, crashes>>

\* Under one lock of DagState: add_finalized_commit for each commit, and flush.
RecordFinalized ==
    /\ fin = "record"
    /\ Flush
    /\ stored_finalized' =
        [i \in DOMAIN stored_finalized \cup Indices(finalized_commits) |->
            IF i \in Indices(finalized_commits) THEN OutcomeIn(finalized_commits, i)
            ELSE stored_finalized[i]]
    /\ fin' = "send"
    /\ UNCHANGED <<coreVars, inbox, pending_commits, last_processed_commit, finalized_commits,
                   output, userVars, crashes>>

\* The outcome of a recovered commit is in the store already.
FlushRecovered ==
    /\ fin = "flush"
    /\ Flush
    /\ fin' = "send"
    /\ UNCHANGED <<coreVars, stored_finalized, inbox, pending_commits, last_processed_commit,
                   finalized_commits, output, userVars, crashes>>

\* An iteration of the loop that sends the finalized commits to Sui.
SendOutput ==
    /\ fin = "send"
    /\ finalized_commits # << >>
    /\ output' = Append(output, Head(finalized_commits))
    /\ finalized_commits' = Tail(finalized_commits)
    /\ fin' = IF Len(finalized_commits) = 1 THEN "recv" ELSE "send"
    /\ UNCHANGED <<coreVars, storeVars, inbox, pending_commits, last_processed_commit, userVars,
                   crashes>>

-----------------------------------------------------------------------------
\* The consumer and crashes.

\* The consumer takes a commit and makes its effects durable.
Consume ==
    /\ output # << >>
    /\ received' = received \cup {Head(output)}
    /\ expected' = expected + 1
    /\ processed' = IF Head(output).index > processed THEN Head(output).index ELSE processed
    /\ output' = Tail(output)
    /\ UNCHANGED <<coreVars, storeVars, inbox, finVars, crashes>>

LastStored == IF stored_commits = {} THEN 0
              ELSE CHOOSE i \in stored_commits : \A j \in stored_commits : j <= i

\* The node crashes; it restarts from the store, and the consumer asks for a
\* replay after a commit that it has processed, or an earlier one.
CrashAndRestart(replay_after) ==
    /\ crashes < MaxCrashes
    /\ crashes' = crashes + 1
    /\ replay_after \in 0 .. processed
    /\ last_commit_index' = LastStored
    /\ commits_to_write' = {}
    /\ sending' = FALSE
    /\ to_send' = << >>
    /\ recover_next' = replay_after + 1
    /\ recover_last' = LastStored
    /\ inbox' = << >>
    /\ pending_commits' = << >>
    /\ last_processed_commit' = 0
    /\ finalized_commits' = << >>
    /\ fin' = "recv"
    /\ output' = << >>
    /\ expected' = replay_after + 1
    /\ UNCHANGED <<stored_commits, stored_finalized, processed, received>>

Core == RecoverCommit \/ AddCommit \/ SendToFinalizer \/ CoreFlush

Finalizer ==
    \/ ReceiveFinalized
    \/ \E k \in 0 .. MaxCommit : \E outcome \in [1 .. k -> Outcomes] : ProcessCommit(k, outcome)
    \/ RecordFinalized
    \/ FlushRecovered
    \/ SendOutput

Next ==
    \/ Core
    \/ Finalizer
    \/ Consume
    \/ \E replay_after \in 0 .. MaxCommit : CrashAndRestart(replay_after)

Spec == Init /\ [][Next]_vars

\* Every task is scheduled, and consensus goes on committing.
Fairness == WF_vars(RecoverCommit) /\ WF_vars(AddCommit) /\ WF_vars(SendToFinalizer)
              /\ WF_vars(Finalizer) /\ WF_vars(Consume)

FairSpec == Spec /\ Fairness

-----------------------------------------------------------------------------
\* Safety.

\* Each commit of the queue s follows the one before it, and the first is n.
Consecutive(s, n) == \A j \in DOMAIN s : s[j].index = n + j - 1

\* The consumer sees every commit from its replay point on, in order and once.
NoGapToConsumer == Consecutive(output, expected)

\* Whatever leaves CommitFinalizer is in the store, with its outcome: the node
\* can lose nothing on which Sui has acted.
PersistedBeforeSent ==
    \A c \in received \cup {output[j] : j \in DOMAIN output} :
        /\ c.index \in stored_commits
        /\ c.index \in DOMAIN stored_finalized
        /\ stored_finalized[c.index] = c.outcome

\* The consumer never sees two outcomes of a commit, also across restarts.
SameOutcome == \A c, d \in received : c.index = d.index => c.outcome = d.outcome

\* The asserts of recover_and_send_commits hold whenever the node may crash:
\* the store has no gap, finalized commits come first, and the consumer is not
\* ahead of the store.
RecoveryAsserts ==
    /\ \A i \in stored_commits : \A j \in 1 .. i : j \in stored_commits
    /\ \A i \in DOMAIN stored_finalized :
        i \in stored_commits /\ \A j \in 1 .. i : j \in DOMAIN stored_finalized
    /\ processed <= LastStored

\* The assert of process_commit: commits arrive in order.
ProcessedInOrder ==
    (fin = "recv" /\ inbox # << >> /\ Head(inbox).outcome = NoOutcome /\ last_processed_commit # 0)
        => Head(inbox).index = last_processed_commit + 1

\* Outcomes in the store are final.
OutcomesFinal ==
    [][\A i \in DOMAIN stored_finalized :
        i \in DOMAIN stored_finalized' /\ stored_finalized'[i] = stored_finalized[i]]_vars

\* The log of the commits with a stored outcome, as the consumer reads it.
Log == INSTANCE CommitLog
           WITH log <- stored_finalized, next <- expected

\* The observer, the finalizer, the store and the replay after a crash together
\* implement one log of commits that only grows and is read in order.
ImplementsLog == Log!Spec

-----------------------------------------------------------------------------
\* Liveness.

\* Every commit except the last FinalizeDepth ones reaches the consumer, also
\* when it was finalized just before a crash.
CommitsReachConsumer ==
    \A i \in 1 .. MaxCommit - FinalizeDepth : <>(\E c \in received : c.index = i)
=============================================================================
