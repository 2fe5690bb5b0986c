------------------------- MODULE CommitOutputProofs -------------------------
(***************************************************************************)
(* Proofs about CommitOutput for any number of commits, crashes and        *)
(* outcomes, and any depth of the finalizer.                               *)
(*                                                                         *)
(* At any moment the commits that the consumer has not read yet stand in   *)
(* line, without gap, in the output channel, in the batch of the finalizer *)
(* task, in its buffer, in its inbox, and at last in handle_commit or in   *)
(* the store still to be replayed.  The inductive invariant says at which  *)
(* commit each of these queues starts, and where in this line the stored   *)
(* outcomes end.                                                           *)
(***************************************************************************)
EXTENDS CommitOutput, TLAPS

\* The first commit of each queue.
Sent      == expected + Len(output)
Finalized == Sent + Len(finalized_commits)
Buffered  == Finalized + Len(pending_commits)
Queued    == Buffered + Len(inbox)

QueuesInv ==
    /\ expected > 0
    /\ Consecutive(output, expected)
    /\ Consecutive(finalized_commits, Sent)
    /\ \A j \in DOMAIN pending_commits : pending_commits[j] = Finalized + j - 1
    /\ Consecutive(inbox, Buffered)
    /\ Consecutive(to_send, Queued)

CoreInv ==
    /\ last_commit_index <= MaxCommit
    /\ recover_next <= recover_last =>
        to_send = << >> /\ recover_next = Queued /\ recover_last = last_commit_index
    /\ recover_next > recover_last => Queued + Len(to_send) = last_commit_index + 1

\* The store has the commits 1..n and the outcomes of 1..m.
StoreInv(m, n) ==
    /\ m <= n /\ n <= last_commit_index
    /\ stored_commits = 1 .. n
    /\ DOMAIN stored_finalized = 1 .. m
    /\ stored_commits \cup commits_to_write = 1 .. last_commit_index
    /\ processed <= m /\ expected <= m + 1

IsStored(c, m) == c.index \in 1 .. m /\ stored_finalized[c.index] = c.outcome

OutcomeInv(m) ==
    /\ \A c \in received : IsStored(c, m)
    /\ \A j \in DOMAIN output : IsStored(output[j], m)
    /\ fin \in {"flush", "send"} =>
        \A j \in DOMAIN finalized_commits : IsStored(finalized_commits[j], m)
    /\ \A j \in DOMAIN inbox :
        IF inbox[j].outcome = NoOutcome THEN inbox[j].index > m ELSE IsStored(inbox[j], m)
    /\ \A j \in DOMAIN to_send : to_send[j].outcome = NoOutcome /\ to_send[j].index > m
    /\ \A j \in DOMAIN pending_commits : pending_commits[j] > m

FinalizerInv(m) ==
    /\ fin = "recv" <=> finalized_commits = << >>
    /\ fin = "record" => m + 1 = Sent
    /\ last_processed_commit # 0 => last_processed_commit + 1 = Buffered /\ m < Buffered

InvAt(m, n) == QueuesInv /\ CoreInv /\ StoreInv(m, n) /\ OutcomeInv(m) /\ FinalizerInv(m)

IInv == TypeOK /\ \E m, n \in Nat : InvAt(m, n)

-----------------------------------------------------------------------------
(* Sequences.                                                              *)

(* What Append does to a queue.                                            *)
LEMMA AppendFacts ==
    ASSUME NEW S, NEW s \in Seq(S), NEW e \in S
    PROVE  /\ Append(s, e) \in Seq(S)
           /\ Len(s) \in Nat /\ DOMAIN s = 1 .. Len(s)
           /\ Len(Append(s, e)) = Len(s) + 1
           /\ DOMAIN Append(s, e) = 1 .. Len(s) + 1
           /\ Append(s, e)[Len(s) + 1] = e
           /\ \A j \in 1 .. Len(s) : Append(s, e)[j] = s[j]
  OBVIOUS

(* What Head and Tail give of a queue that is not empty.                   *)
LEMMA TailFacts ==
    ASSUME NEW S, NEW s \in Seq(S), s # << >>
    PROVE  /\ Head(s) \in S /\ Head(s) = s[1]
           /\ Tail(s) \in Seq(S)
           /\ Len(s) \in Nat /\ Len(s) > 0 /\ DOMAIN s = 1 .. Len(s)
           /\ Len(Tail(s)) = Len(s) - 1
           /\ DOMAIN Tail(s) = 1 .. Len(s) - 1
           /\ \A j \in 1 .. Len(s) - 1 : Tail(s)[j] = s[j + 1]
  OBVIOUS

(* Where an element of the tail stands in the queue.                       *)
LEMMA TailIndex ==
    ASSUME NEW S, NEW s \in Seq(S), s # << >>, NEW j \in DOMAIN Tail(s)
    PROVE  Tail(s)[j] = s[j + 1] /\ j + 1 \in DOMAIN s
  <1>1. /\ Len(s) \in Nat /\ DOMAIN s = 1 .. Len(s) /\ j \in 1 .. Len(s) - 1
        /\ Tail(s)[j] = s[j + 1]
    BY TailFacts
  <1> QED BY <1>1

(* The empty queue.                                                        *)
LEMMA EmptyFacts ==
    ASSUME NEW S, NEW s \in Seq(S)
    PROVE  /\ Len(s) \in Nat /\ DOMAIN s = 1 .. Len(s)
           /\ s = << >> <=> Len(s) = 0
           /\ << >> \in Seq(S) /\ Len(<< >>) = 0 /\ DOMAIN << >> = {}
  OBVIOUS

(* The commit after the last one may join a queue.                         *)
LEMMA ConsecutiveAppend ==
    ASSUME NEW S, NEW s \in Seq(S), NEW e \in S, NEW k \in Nat,
           Consecutive(s, k), e.index = k + Len(s)
    PROVE  Consecutive(Append(s, e), k)
  <1>1. ASSUME NEW j \in DOMAIN Append(s, e)
        PROVE  Append(s, e)[j].index = k + j - 1
    <2>1. CASE j = Len(s) + 1
      BY <2>1, AppendFacts
    <2>2. CASE j # Len(s) + 1
      BY <2>2, AppendFacts DEF Consecutive
    <2> QED BY <2>1, <2>2
  <1> QED BY <1>1 DEF Consecutive

(* The rest of a queue follows its head.                                   *)
LEMMA ConsecutiveTail ==
    ASSUME NEW S, NEW s \in Seq(S), s # << >>, NEW k \in Nat, Consecutive(s, k)
    PROVE  Head(s).index = k /\ Consecutive(Tail(s), k + 1)
  <1>1. Head(s).index = k
    BY TailFacts DEF Consecutive
  <1>2. ASSUME NEW j \in DOMAIN Tail(s)
        PROVE  Tail(s)[j].index = k + 1 + j - 1
    BY TailFacts DEF Consecutive
  <1> QED BY <1>1, <1>2 DEF Consecutive

-----------------------------------------------------------------------------
(* The invariant, action by action.                                        *)

\* TypeOK by parts, but for sending.
CoreType ==
    /\ last_commit_index \in Nat /\ recover_next \in Nat /\ recover_last \in Nat
    /\ to_send \in Seq(Commit) /\ inbox \in Seq(Commit)

StoreType ==
    /\ commits_to_write \in SUBSET Nat /\ stored_commits \in SUBSET Nat
    /\ stored_finalized \in [DOMAIN stored_finalized -> Outcomes]
    /\ DOMAIN stored_finalized \in SUBSET Nat

FinType ==
    /\ pending_commits \in Seq(Nat) /\ last_processed_commit \in Nat
    /\ finalized_commits \in Seq(FinalizedCommit)
    /\ fin \in {"recv", "record", "flush", "send"}

UserType ==
    /\ output \in Seq(FinalizedCommit) /\ received \in SUBSET FinalizedCommit
    /\ expected \in Nat /\ processed \in Nat /\ crashes \in Nat

(* TypeOK has these parts.                                                 *)
LEMMA TypeParts ==
    ASSUME TypeOK
    PROVE  CoreType /\ StoreType /\ FinType /\ UserType
  BY Zenon DEF TypeOK, CoreType, StoreType, FinType, UserType

(* The queues have lengths, and so their first commits are numbers.        *)
LEMMA Positions ==
    ASSUME TypeOK
    PROVE  /\ Len(output) \in Nat /\ Len(finalized_commits) \in Nat
           /\ Len(pending_commits) \in Nat /\ Len(inbox) \in Nat /\ Len(to_send) \in Nat
           /\ Sent \in Nat /\ Finalized \in Nat /\ Buffered \in Nat /\ Queued \in Nat
           /\ expected \in Nat /\ expected <= Sent /\ Sent <= Finalized
           /\ Finalized <= Buffered /\ Buffered <= Queued
  <1>1. /\ Len(output) \in Nat /\ Len(finalized_commits) \in Nat
        /\ Len(pending_commits) \in Nat /\ Len(inbox) \in Nat /\ Len(to_send) \in Nat
    BY EmptyFacts DEF TypeOK
  <1>2. expected \in Nat
    BY DEF TypeOK
  <1> QED BY <1>1, <1>2 DEF Sent, Finalized, Buffered, Queued

(* The replay of a commit at startup.                                      *)
LEMMA RecoverCommitInv ==
    ASSUME NEW m \in Nat, NEW n \in Nat, TypeOK, InvAt(m, n), RecoverCommit
    PROVE  TypeOK' /\ InvAt(m, n)'
  <1> DEFINE c == [index |-> recover_next, outcome |-> StoredOutcome(recover_next)]
  <1>1. recover_next = Queued /\ recover_last = last_commit_index /\ to_send = << >>
        /\ recover_next <= recover_last
    <2>1. recover_next \in Nat /\ recover_last \in Nat /\ ~(recover_next > recover_last)
      BY TypeParts DEF CoreType, RecoverCommit, Recovered
    <2> QED BY <2>1 DEF InvAt, CoreInv
  <1>2. c \in Commit /\ c.index = recover_next
        /\ (IF c.outcome = NoOutcome THEN c.index > m ELSE IsStored(c, m))
    <2>1. CASE recover_next \in DOMAIN stored_finalized
      <3>1. stored_finalized[recover_next] \in Outcomes
        BY <2>1 DEF TypeOK
      <3>2. stored_finalized[recover_next] # NoOutcome
        BY <3>1, OutputAssumption
      <3>3. recover_next \in 1 .. m /\ recover_next \in Nat
        BY <2>1 DEF InvAt, StoreInv, TypeOK
      <3>4. c = [index |-> recover_next, outcome |-> stored_finalized[recover_next]]
        BY <2>1 DEF StoredOutcome
      <3> QED BY <3>1, <3>2, <3>3, <3>4 DEF Commit, IsStored
    <2>2. CASE recover_next \notin DOMAIN stored_finalized
      <3>1. recover_next > m
        BY <1>1, <2>2, Positions DEF InvAt, StoreInv, QueuesInv
      <3> QED BY <2>2, <3>1 DEF StoredOutcome, Commit, TypeOK
    <2> QED BY <2>1, <2>2
  <1>3. inbox' = Append(inbox, c) /\ inbox \in Seq(Commit)
    BY DEF RecoverCommit, TypeOK
  <1> HIDE DEF c
  <1>4. /\ inbox' \in Seq(Commit) /\ Len(inbox') = Len(inbox) + 1
        /\ DOMAIN inbox' = 1 .. Len(inbox) + 1
        /\ inbox'[Len(inbox) + 1] = c
        /\ \A j \in 1 .. Len(inbox) : inbox'[j] = inbox[j]
    BY <1>2, <1>3, AppendFacts
  <1>5. TypeOK'
    <2>1. (sending \in BOOLEAN)'
      BY DEF TypeOK, RecoverCommit
    <2>2. CoreType' /\ StoreType'
      BY <1>4, TypeParts DEF RecoverCommit, CoreType, StoreType
    <2>3. FinType' /\ UserType'
      BY TypeParts DEF RecoverCommit, finVars, userVars, FinType, UserType
    <2> QED BY <2>1, <2>2, <2>3, Zenon DEF TypeOK, CoreType, StoreType, FinType, UserType
  <1>6. /\ Sent' = Sent /\ Finalized' = Finalized /\ Buffered' = Buffered
        /\ Queued' = Queued + 1
    <2>1. Sent' = Sent /\ Finalized' = Finalized /\ Buffered' = Buffered
      BY DEF Sent, Finalized, Buffered, RecoverCommit, finVars, userVars
    <2>2. Buffered \in Nat /\ Len(inbox) \in Nat
      BY Positions
    <2> QED BY <1>4, <2>1, <2>2 DEF Queued
  <1>7. QueuesInv'
    <2>1. Consecutive(inbox, Buffered)'
      BY <1>1, <1>2, <1>3, <1>6, Positions, ConsecutiveAppend
         DEF InvAt, QueuesInv, Queued
    <2>2. Consecutive(to_send, Queued)'
      BY <1>1 DEF Consecutive, RecoverCommit
    <2> QED BY <1>6, <2>1, <2>2
            DEF InvAt, QueuesInv, RecoverCommit, finVars, userVars, Consecutive
  <1>8. CoreInv'
    BY <1>1, <1>6, Positions DEF InvAt, CoreInv, RecoverCommit, TypeOK
  <1>9. StoreInv(m, n)'
    <2>1. recover_next \in 1 .. last_commit_index
      <3>1. expected > 0 /\ expected \in Nat /\ Queued \in Nat /\ expected <= Queued
        <4>1. /\ expected \in Nat /\ Sent \in Nat /\ Finalized \in Nat /\ Buffered \in Nat
              /\ Queued \in Nat /\ expected <= Sent /\ Sent <= Finalized
              /\ Finalized <= Buffered /\ Buffered <= Queued
          BY Positions
        <4> QED BY <4>1 DEF InvAt, QueuesInv
      <3>2. last_commit_index \in Nat
        BY TypeParts DEF CoreType
      <3> QED BY <1>1, <3>1, <3>2
    <2> QED BY <2>1 DEF InvAt, StoreInv, RecoverCommit, userVars
  <1>10. OutcomeInv(m)'
    <2>1. (\A j \in DOMAIN inbox :
            IF inbox[j].outcome = NoOutcome THEN inbox[j].index > m ELSE IsStored(inbox[j], m))'
      <3> SUFFICES ASSUME NEW j \in DOMAIN inbox'
                   PROVE  (IF inbox[j].outcome = NoOutcome THEN inbox[j].index > m
                           ELSE IsStored(inbox[j], m))'
        OBVIOUS
      <3>1. CASE j = Len(inbox) + 1
        BY <3>1, <1>2, <1>4 DEF IsStored, RecoverCommit
      <3>2. CASE j \in 1 .. Len(inbox)
        <4>1. inbox'[j] = inbox[j] /\ j \in DOMAIN inbox
          BY <3>2, <1>3, <1>4, EmptyFacts
        <4>2. stored_finalized' = stored_finalized
          BY DEF RecoverCommit
        <4> QED BY <4>1, <4>2 DEF IsStored, InvAt, OutcomeInv
      <3> QED BY <3>1, <3>2, <1>4, Positions
    <2> QED BY <2>1 DEF InvAt, OutcomeInv, RecoverCommit, finVars, userVars, IsStored
  <1>11. FinalizerInv(m)'
    BY <1>6 DEF InvAt, FinalizerInv, RecoverCommit, finVars
  <1> QED BY <1>5, <1>7, <1>8, <1>9, <1>10, <1>11 DEF InvAt

(* Core adds a commit.                                                     *)
LEMMA AddCommitInv ==
    ASSUME NEW m \in Nat, NEW n \in Nat, TypeOK, InvAt(m, n), AddCommit
    PROVE  TypeOK' /\ InvAt(m, n)'
  <1> DEFINE c == [index |-> last_commit_index + 1, outcome |-> NoOutcome]
  <1>1. /\ Queued + Len(to_send) = last_commit_index + 1
        /\ last_commit_index \in Nat /\ m <= last_commit_index
    BY TypeParts DEF InvAt, CoreInv, StoreInv, AddCommit, Recovered, CoreType
  <1>2. c \in Commit /\ c.index = last_commit_index + 1 /\ c.outcome = NoOutcome
    BY <1>1 DEF Commit
  <1>3. to_send' = Append(to_send, c) /\ to_send \in Seq(Commit)
    BY TypeParts DEF AddCommit, CoreType
  <1> HIDE DEF c
  <1>4. /\ to_send' \in Seq(Commit) /\ Len(to_send') = Len(to_send) + 1
        /\ DOMAIN to_send = 1 .. Len(to_send)
        /\ DOMAIN to_send' = 1 .. Len(to_send) + 1
        /\ to_send'[Len(to_send) + 1] = c
        /\ \A j \in 1 .. Len(to_send) : to_send'[j] = to_send[j]
    BY <1>2, <1>3, AppendFacts
  <1>5. TypeOK'
    <2>1. (sending \in BOOLEAN)'
      BY DEF TypeOK, AddCommit
    <2>2. CoreType' /\ StoreType'
      BY <1>4, TypeParts DEF AddCommit, CoreType, StoreType
    <2>3. FinType' /\ UserType'
      BY TypeParts DEF AddCommit, finVars, userVars, FinType, UserType
    <2> QED BY <2>1, <2>2, <2>3, Zenon DEF TypeOK, CoreType, StoreType, FinType, UserType
  <1>6. /\ Sent' = Sent /\ Finalized' = Finalized /\ Buffered' = Buffered
        /\ Queued' = Queued
    BY DEF Sent, Finalized, Buffered, Queued, AddCommit, finVars, userVars
  <1>7. QueuesInv'
    <2>1. Consecutive(to_send, Queued)'
      BY <1>1, <1>2, <1>3, <1>6, Positions, ConsecutiveAppend DEF InvAt, QueuesInv
    <2> QED BY <1>6, <2>1 DEF InvAt, QueuesInv, AddCommit, finVars, userVars, Consecutive
  <1>8. CoreInv'
    <2>1. /\ last_commit_index' = last_commit_index + 1 /\ last_commit_index < MaxCommit
          /\ recover_next' = recover_next /\ recover_last' = recover_last
          /\ recover_next > recover_last
      BY DEF AddCommit, Recovered
    <2>2. recover_next \in Nat /\ recover_last \in Nat
      BY TypeParts DEF CoreType
    <2>3. (last_commit_index <= MaxCommit)' /\ ~(recover_next <= recover_last)'
      BY <1>1, <2>1, <2>2, OutputAssumption
    <2>4. (Queued + Len(to_send) = last_commit_index + 1)'
      <3>1. Queued' = Queued /\ Len(to_send') = Len(to_send) + 1
        BY <1>4, <1>6
      <3>2. Queued' + Len(to_send') = last_commit_index + 2
        <4>1. Queued \in Nat /\ Len(to_send) \in Nat
          BY Positions
        <4> QED BY <1>1, <2>2, <3>1, <4>1
      <3> QED BY <1>1, <2>1, <3>2
    <2> QED BY <2>3, <2>4 DEF CoreInv
  <1>9. StoreInv(m, n)'
    BY <1>1 DEF InvAt, StoreInv, AddCommit, userVars
  <1>10. OutcomeInv(m)'
    <2>1. (\A j \in DOMAIN to_send : to_send[j].outcome = NoOutcome /\ to_send[j].index > m)'
      <3> SUFFICES ASSUME NEW j \in DOMAIN to_send'
                   PROVE  to_send'[j].outcome = NoOutcome /\ to_send'[j].index > m
        OBVIOUS
      <3>1. CASE j = Len(to_send) + 1
        BY <3>1, <1>1, <1>2, <1>4
      <3>2. CASE j \in 1 .. Len(to_send)
        BY <3>2, <1>4 DEF InvAt, OutcomeInv
      <3> QED BY <3>1, <3>2, <1>4, Positions
    <2> QED BY <2>1 DEF InvAt, OutcomeInv, AddCommit, finVars, userVars, IsStored
  <1>11. FinalizerInv(m)'
    BY <1>6 DEF InvAt, FinalizerInv, AddCommit, finVars
  <1> QED BY <1>5, <1>7, <1>8, <1>9, <1>10, <1>11 DEF InvAt

(* A sub-dag is sent to the finalizer.                                     *)
LEMMA SendToFinalizerInv ==
    ASSUME NEW m \in Nat, NEW n \in Nat, TypeOK, InvAt(m, n), SendToFinalizer
    PROVE  TypeOK' /\ InvAt(m, n)'
  <1> DEFINE c == Head(to_send)
  <1>1. /\ to_send # << >> /\ to_send \in Seq(Commit) /\ inbox \in Seq(Commit)
        /\ to_send' = Tail(to_send) /\ inbox' = Append(inbox, c)
    BY TypeParts DEF SendToFinalizer, CoreType
  <1>2. /\ c \in Commit /\ c = to_send[1]
        /\ to_send' \in Seq(Commit) /\ Len(to_send') = Len(to_send) - 1
        /\ DOMAIN to_send = 1 .. Len(to_send) /\ Len(to_send) > 0
        /\ DOMAIN to_send' = 1 .. Len(to_send) - 1
        /\ \A j \in 1 .. Len(to_send) - 1 : to_send'[j] = to_send[j + 1]
    BY <1>1, TailFacts
  <1>3. c.index = Queued /\ c.outcome = NoOutcome /\ c.index > m
    <2>1. 1 \in DOMAIN to_send
      BY <1>2, Positions
    <2>2. to_send[1].index = Queued + 1 - 1
      BY <2>1 DEF InvAt, QueuesInv, Consecutive
    <2>3. to_send[1].outcome = NoOutcome /\ to_send[1].index > m
      BY <2>1 DEF InvAt, OutcomeInv
    <2> QED BY <1>2, <2>2, <2>3, Positions
  <1> HIDE DEF c
  <1>4. /\ inbox' \in Seq(Commit) /\ Len(inbox') = Len(inbox) + 1
        /\ DOMAIN inbox = 1 .. Len(inbox)
        /\ DOMAIN inbox' = 1 .. Len(inbox) + 1
        /\ inbox'[Len(inbox) + 1] = c
        /\ \A j \in 1 .. Len(inbox) : inbox'[j] = inbox[j]
    BY <1>1, <1>2, AppendFacts
  <1>5. TypeOK'
    <2>1. (sending \in BOOLEAN)'
      BY DEF SendToFinalizer
    <2>2. CoreType' /\ StoreType'
      BY <1>2, <1>4, TypeParts DEF SendToFinalizer, storeVars, CoreType, StoreType
    <2>3. FinType' /\ UserType'
      BY TypeParts DEF SendToFinalizer, finVars, userVars, FinType, UserType
    <2> QED BY <2>1, <2>2, <2>3, Zenon DEF TypeOK, CoreType, StoreType, FinType, UserType
  <1>6. /\ Sent' = Sent /\ Finalized' = Finalized /\ Buffered' = Buffered
        /\ Queued' = Queued + 1
    <2>1. Sent' = Sent /\ Finalized' = Finalized /\ Buffered' = Buffered
      BY DEF Sent, Finalized, Buffered, SendToFinalizer, finVars, userVars
    <2>2. Buffered \in Nat /\ Len(inbox) \in Nat
      BY Positions
    <2> QED BY <1>4, <2>1, <2>2 DEF Queued
  <1>7. QueuesInv'
    <2>1. Consecutive(inbox, Buffered)'
      <3>1. Buffered \in Nat /\ c.index = Buffered + Len(inbox)
        BY <1>3, Positions DEF Queued
      <3>2. Consecutive(Append(inbox, c), Buffered)
        BY <1>1, <1>2, <3>1, ConsecutiveAppend DEF InvAt, QueuesInv
      <3> QED BY <1>1, <1>6, <3>2 DEF Consecutive
    <2>2. Consecutive(to_send, Queued)'
      BY <1>1, <1>6, Positions, ConsecutiveTail DEF InvAt, QueuesInv
    <2> QED BY <1>6, <2>1, <2>2
            DEF InvAt, QueuesInv, SendToFinalizer, finVars, userVars, Consecutive
  <1>8. CoreInv'
    <2>1. /\ last_commit_index' = last_commit_index
          /\ recover_next' = recover_next /\ recover_last' = recover_last
      BY DEF SendToFinalizer
    <2>2. /\ recover_next \in Nat /\ recover_last \in Nat /\ last_commit_index \in Nat
      BY TypeParts DEF CoreType
    <2>3. /\ ~(recover_next <= recover_last) /\ last_commit_index <= MaxCommit
          /\ Queued + Len(to_send) = last_commit_index + 1
      BY <1>1, <2>2 DEF InvAt, CoreInv
    <2>4. (Queued + Len(to_send) = last_commit_index + 1)'
      <3>1. Queued' = Queued + 1 /\ Len(to_send') = Len(to_send) - 1
        BY <1>2, <1>6
      <3>2. Queued \in Nat /\ Len(to_send) \in Nat
        BY Positions
      <3>3. Queued' + Len(to_send') = last_commit_index + 1
        BY <2>2, <2>3, <3>1, <3>2
      <3> QED BY <2>1, <3>3
    <2>5. (last_commit_index <= MaxCommit)' /\ ~(recover_next <= recover_last)'
      BY <2>1, <2>3
    <2> QED BY <2>4, <2>5 DEF CoreInv
  <1>9. StoreInv(m, n)'
    BY DEF InvAt, StoreInv, SendToFinalizer, userVars, storeVars
  <1>10. OutcomeInv(m)'
    <2>1. (\A j \in DOMAIN inbox :
            IF inbox[j].outcome = NoOutcome THEN inbox[j].index > m ELSE IsStored(inbox[j], m))'
      <3> SUFFICES ASSUME NEW j \in DOMAIN inbox'
                   PROVE  (IF inbox[j].outcome = NoOutcome THEN inbox[j].index > m
                           ELSE IsStored(inbox[j], m))'
        OBVIOUS
      <3>1. CASE j = Len(inbox) + 1
        BY <3>1, <1>3, <1>4
      <3>2. CASE j \in 1 .. Len(inbox)
        BY <3>2, <1>4 DEF IsStored, SendToFinalizer, storeVars, InvAt, OutcomeInv
      <3> QED BY <3>1, <3>2, <1>4, Positions
    <2>2. (\A j \in DOMAIN to_send : to_send[j].outcome = NoOutcome /\ to_send[j].index > m)'
      <3> SUFFICES ASSUME NEW j \in DOMAIN to_send'
                   PROVE  to_send'[j].outcome = NoOutcome /\ to_send'[j].index > m
        OBVIOUS
      <3>1. to_send'[j] = to_send[j + 1] /\ j + 1 \in DOMAIN to_send
        BY <1>1, TailIndex
      <3> QED BY <3>1 DEF InvAt, OutcomeInv
    <2> QED BY <2>1, <2>2
            DEF InvAt, OutcomeInv, SendToFinalizer, finVars, userVars, storeVars, IsStored
  <1>11. FinalizerInv(m)'
    BY <1>6 DEF InvAt, FinalizerInv, SendToFinalizer, finVars
  <1> QED BY <1>5, <1>7, <1>8, <1>9, <1>10, <1>11 DEF InvAt

(* The proposer flushes: all commits are in the store.                     *)
LEMMA CoreFlushInv ==
    ASSUME NEW m \in Nat, NEW n \in Nat, TypeOK, InvAt(m, n), CoreFlush
    PROVE  TypeOK' /\ InvAt(m, last_commit_index)'
  <1>1. last_commit_index \in Nat /\ last_commit_index' = last_commit_index
    BY TypeParts DEF CoreFlush, coreVars, CoreType
  <1>2. TypeOK'
    <2>1. (sending \in BOOLEAN)'
      BY DEF TypeOK, CoreFlush, coreVars
    <2>2. CoreType' /\ StoreType'
      BY TypeParts DEF CoreFlush, coreVars, Flush, CoreType, StoreType
    <2>3. FinType' /\ UserType'
      BY TypeParts DEF CoreFlush, finVars, userVars, FinType, UserType
    <2> QED BY <2>1, <2>2, <2>3, Zenon DEF TypeOK, CoreType, StoreType, FinType, UserType
  <1>3. Sent' = Sent /\ Finalized' = Finalized /\ Buffered' = Buffered /\ Queued' = Queued
    BY DEF Sent, Finalized, Buffered, Queued, CoreFlush, finVars, userVars
  <1>4. QueuesInv' /\ CoreInv'
    BY <1>3 DEF InvAt, QueuesInv, CoreInv, CoreFlush, coreVars, finVars, userVars, Consecutive
  <1>5. StoreInv(m, last_commit_index)'
    BY <1>1 DEF InvAt, StoreInv, CoreFlush, Flush, userVars
  <1>6. OutcomeInv(m)'
    BY DEF InvAt, OutcomeInv, CoreFlush, coreVars, finVars, userVars, IsStored
  <1>7. FinalizerInv(m)'
    BY <1>3 DEF InvAt, FinalizerInv, CoreFlush, finVars
  <1> QED BY <1>2, <1>4, <1>5, <1>6, <1>7 DEF InvAt

(* The finalizer takes a commit whose outcome was recovered: nothing can   *)
(* be pending then, because pending commits have no outcome and come       *)
(* earlier.                                                                *)
LEMMA ReceiveFinalizedInv ==
    ASSUME NEW m \in Nat, NEW n \in Nat, TypeOK, InvAt(m, n), ReceiveFinalized
    PROVE  TypeOK' /\ InvAt(m, n)'
  <1> DEFINE c == Head(inbox)
  <1>1. /\ inbox # << >> /\ inbox \in Seq(Commit) /\ inbox' = Tail(inbox)
        /\ finalized_commits' = <<c>> /\ fin = "recv" /\ fin' = "flush"
        /\ c.outcome # NoOutcome
    BY TypeParts DEF ReceiveFinalized, CoreType
  <1>2. /\ c \in Commit /\ c = inbox[1]
        /\ inbox' \in Seq(Commit) /\ Len(inbox') = Len(inbox) - 1
        /\ DOMAIN inbox = 1 .. Len(inbox) /\ Len(inbox) > 0
        /\ DOMAIN inbox' = 1 .. Len(inbox) - 1
        /\ \A j \in 1 .. Len(inbox) - 1 : inbox'[j] = inbox[j + 1]
    BY <1>1, TailFacts
  <1>3. 1 \in DOMAIN inbox /\ c.index = Buffered /\ IsStored(c, m)
    <2>1. 1 \in DOMAIN inbox
      BY <1>2, Positions
    <2>2. inbox[1].index = Buffered + 1 - 1
      BY <2>1 DEF InvAt, QueuesInv, Consecutive
    <2>3. IsStored(inbox[1], m)
      BY <1>1, <1>2, <2>1 DEF InvAt, OutcomeInv
    <2> QED BY <1>2, <2>1, <2>2, <2>3, Positions
  <1>4. c \in FinalizedCommit
    BY <1>1, <1>2 DEF Commit, FinalizedCommit
  <1> HIDE DEF c
  <1>5. /\ finalized_commits' \in Seq(FinalizedCommit) /\ Len(finalized_commits') = 1
        /\ DOMAIN finalized_commits' = {1} /\ finalized_commits'[1] = c
        /\ finalized_commits' # << >>
    BY <1>1, <1>4
  <1>6. Len(finalized_commits) = 0 /\ Finalized = Sent
    <2>1. finalized_commits = << >>
      BY <1>1 DEF InvAt, FinalizerInv
    <2> QED BY <2>1, Positions DEF Finalized
  <1>7. Len(pending_commits) = 0 /\ Buffered = Finalized
    <2>1. Buffered <= m
      BY <1>3, Positions DEF IsStored
    <2>2. ASSUME Len(pending_commits) > 0 PROVE FALSE
      <3>1. 1 \in DOMAIN pending_commits
        BY <2>2, EmptyFacts, TypeParts DEF FinType
      <3>2. pending_commits[1] = Finalized + 1 - 1 /\ pending_commits[1] > m
        BY <3>1 DEF InvAt, QueuesInv, OutcomeInv
      <3> QED BY <2>1, <3>2, Positions
    <2> QED BY <2>2, Positions DEF Buffered
  <1>8. TypeOK'
    <2>1. (sending \in BOOLEAN)'
      BY DEF TypeOK, ReceiveFinalized, coreVars
    <2>2. CoreType' /\ StoreType'
      BY <1>2, TypeParts DEF ReceiveFinalized, coreVars, storeVars, CoreType, StoreType
    <2>3. FinType' /\ UserType'
      BY <1>1, <1>5, TypeParts DEF ReceiveFinalized, userVars, FinType, UserType
    <2> QED BY <2>1, <2>2, <2>3, Zenon DEF TypeOK, CoreType, StoreType, FinType, UserType
  <1>9. /\ Sent' = Sent /\ Finalized' = Finalized + 1 /\ Buffered' = Buffered + 1
        /\ Queued' = Queued
    <2>1. Sent' = Sent /\ Len(pending_commits') = 0
      BY <1>7 DEF Sent, ReceiveFinalized, userVars
    <2> QED BY <1>2, <1>5, <1>6, <1>7, <2>1, Positions DEF Finalized, Buffered, Queued
  <1>10. QueuesInv'
    <2>1. Consecutive(inbox, Buffered)'
      BY <1>1, <1>9, Positions, ConsecutiveTail DEF InvAt, QueuesInv
    <2>2. Consecutive(finalized_commits, Sent)'
      <3>1. finalized_commits'[1].index = Sent
        BY <1>3, <1>5, <1>6, <1>7
      <3>2. Sent \in Nat /\ Sent + 1 - 1 = Sent
        BY Positions
      <3> QED BY <1>5, <1>9, <3>1, <3>2 DEF Consecutive
    <2>3. (\A j \in DOMAIN pending_commits : pending_commits[j] = Finalized + j - 1)'
      <3>1. DOMAIN pending_commits = 1 .. 0 /\ pending_commits' = pending_commits
        BY <1>7, EmptyFacts, TypeParts DEF FinType, ReceiveFinalized
      <3> QED BY <3>1
    <2> QED BY <1>9, <2>1, <2>2, <2>3
            DEF InvAt, QueuesInv, ReceiveFinalized, coreVars, userVars, Consecutive
  <1>11. CoreInv' /\ StoreInv(m, n)'
    BY <1>9 DEF InvAt, CoreInv, StoreInv, ReceiveFinalized, coreVars, storeVars, userVars
  <1>12. OutcomeInv(m)'
    <2>1. (\A j \in DOMAIN inbox :
            IF inbox[j].outcome = NoOutcome THEN inbox[j].index > m ELSE IsStored(inbox[j], m))'
      <3> SUFFICES ASSUME NEW j \in DOMAIN inbox'
                   PROVE  (IF inbox[j].outcome = NoOutcome THEN inbox[j].index > m
                           ELSE IsStored(inbox[j], m))'
        OBVIOUS
      <3>1. inbox'[j] = inbox[j + 1] /\ j + 1 \in DOMAIN inbox
        BY <1>1, TailIndex
      <3>2. stored_finalized' = stored_finalized
        BY DEF ReceiveFinalized, storeVars
      <3> QED BY <3>1, <3>2 DEF InvAt, OutcomeInv, IsStored
    <2>2. (\A j \in DOMAIN finalized_commits : IsStored(finalized_commits[j], m))'
      BY <1>3, <1>5 DEF IsStored, ReceiveFinalized, storeVars
    <2> QED BY <2>1, <2>2
            DEF InvAt, OutcomeInv, ReceiveFinalized, coreVars, userVars, storeVars, IsStored
  <1>13. FinalizerInv(m)'
    <2>1. last_processed_commit = 0
      BY <1>3, Positions DEF InvAt, FinalizerInv, IsStored
    <2> QED BY <1>1, <1>5, <2>1 DEF FinalizerInv, ReceiveFinalized
  <1> QED BY <1>8, <1>10, <1>11, <1>12, <1>13 DEF InvAt

(* The rest of a queue from some place on.                                 *)
LEMMA SubSeqFacts ==
    ASSUME NEW S, NEW s \in Seq(S), NEW k \in 0 .. Len(s)
    PROVE  /\ SubSeq(s, k + 1, Len(s)) \in Seq(S)
           /\ Len(SubSeq(s, k + 1, Len(s))) = Len(s) - k
           /\ DOMAIN SubSeq(s, k + 1, Len(s)) = 1 .. Len(s) - k
           /\ \A j \in 1 .. Len(s) - k : SubSeq(s, k + 1, Len(s))[j] = s[k + j]
  OBVIOUS

(* The outcomes of all commits that were sent to the consumer are stored,  *)
(* and no commit is in a queue that Core has not made.                     *)
LEMMA Bounds ==
    ASSUME NEW m \in Nat, NEW n \in Nat, TypeOK, InvAt(m, n)
    PROVE  Sent <= m + 1 /\ Queued <= last_commit_index + 1
  <1>1. Sent <= m + 1
    <2>1. CASE Len(output) = 0
      BY <2>1, Positions DEF Sent, InvAt, StoreInv
    <2>2. CASE Len(output) > 0
      <3>1. Len(output) \in DOMAIN output
        BY <2>2, EmptyFacts, TypeParts DEF UserType
      <3>2. output[Len(output)].index = expected + Len(output) - 1
        BY <3>1 DEF InvAt, QueuesInv, Consecutive
      <3>3. output[Len(output)].index <= m
        BY <3>1, <3>2, Positions DEF InvAt, OutcomeInv, IsStored
      <3>4. expected \in Nat /\ Len(output) \in Nat
        BY Positions
      <3> QED BY <3>2, <3>3, <3>4 DEF Sent
    <2> QED BY <2>1, <2>2, Positions
  <1>2. Queued <= last_commit_index + 1
    <2>1. last_commit_index \in Nat /\ recover_next \in Nat /\ recover_last \in Nat
      BY TypeParts DEF CoreType
    <2>2. CASE recover_next <= recover_last
      BY <2>1, <2>2, Positions DEF InvAt, CoreInv
    <2>3. CASE recover_next > recover_last
      <3>1. Queued + Len(to_send) = last_commit_index + 1
        BY <2>3 DEF InvAt, CoreInv
      <3>2. Queued \in Nat /\ Len(to_send) \in Nat
        BY Positions
      <3> QED BY <2>1, <3>1, <3>2
    <2> QED BY <2>1, <2>2, <2>3
  <1> QED BY <1>1, <1>2

(* The finalizer buffers a commit and finalizes a prefix of the buffer.    *)
LEMMA ProcessCommitInv ==
    ASSUME NEW m \in Nat, NEW n \in Nat, TypeOK, InvAt(m, n),
           NEW k, NEW outcome, ProcessCommit(k, outcome)
    PROVE  TypeOK' /\ InvAt(m, n)'
  <1> DEFINE c == Head(inbox)
             b == Append(pending_commits, c.index)
  <1>1. /\ inbox # << >> /\ inbox \in Seq(Commit) /\ inbox' = Tail(inbox)
        /\ c.outcome = NoOutcome /\ fin = "recv"
        /\ k \in 0 .. Len(b) /\ outcome \in [1 .. k -> Outcomes]
        /\ last_processed_commit' = c.index
        /\ pending_commits' = SubSeq(b, k + 1, Len(b))
        /\ finalized_commits' = [j \in 1 .. k |-> [index |-> b[j], outcome |-> outcome[j]]]
        /\ fin' = IF k = 0 THEN "recv" ELSE "record"
    BY TypeParts DEF ProcessCommit, CoreType
  <1>2. /\ c \in Commit /\ c = inbox[1]
        /\ inbox' \in Seq(Commit) /\ Len(inbox') = Len(inbox) - 1
        /\ DOMAIN inbox = 1 .. Len(inbox) /\ Len(inbox) > 0
        /\ DOMAIN inbox' = 1 .. Len(inbox) - 1
        /\ \A j \in 1 .. Len(inbox) - 1 : inbox'[j] = inbox[j + 1]
    BY <1>1, TailFacts
  <1>3. c.index \in Nat /\ c.index = Buffered /\ c.index > m
    <2>1. 1 \in DOMAIN inbox
      BY <1>2, Positions
    <2>2. inbox[1].index = Buffered + 1 - 1
      BY <2>1 DEF InvAt, QueuesInv, Consecutive
    <2>3. inbox[1].index > m
      BY <1>1, <1>2, <2>1 DEF InvAt, OutcomeInv
    <2> QED BY <1>2, <2>1, <2>2, <2>3, Positions
  <1>4. pending_commits \in Seq(Nat) /\ Len(pending_commits) \in Nat
    BY TypeParts, Positions DEF FinType
  <1>5. Len(finalized_commits) = 0 /\ Finalized = Sent
    <2>1. finalized_commits = << >>
      BY <1>1 DEF InvAt, FinalizerInv
    <2> QED BY <2>1, Positions DEF Finalized
  <1> HIDE DEF c
  <1>6. /\ b \in Seq(Nat) /\ Len(b) = Len(pending_commits) + 1
        /\ DOMAIN pending_commits = 1 .. Len(pending_commits)
        /\ b[Len(pending_commits) + 1] = c.index
        /\ \A j \in 1 .. Len(pending_commits) : b[j] = pending_commits[j]
    BY <1>3, <1>4, AppendFacts
  <1> HIDE DEF b
  <1>7. \A j \in 1 .. Len(b) : b[j] = Finalized + j - 1 /\ b[j] > m
    <2> SUFFICES ASSUME NEW j \in 1 .. Len(b)
                 PROVE  b[j] = Finalized + j - 1 /\ b[j] > m
      OBVIOUS
    <2>1. CASE j = Len(pending_commits) + 1
      BY <2>1, <1>3, <1>6, Positions DEF Buffered
    <2>2. CASE j \in 1 .. Len(pending_commits)
      BY <2>2, <1>6 DEF InvAt, QueuesInv, OutcomeInv
    <2> QED BY <2>1, <2>2, <1>4, <1>6
  <1>8. m + 1 = Sent
    <2>1. b[1] = Finalized + 1 - 1 /\ b[1] > m
      BY <1>4, <1>6, <1>7
    <2> QED BY <2>1, <1>5, Bounds, Positions
  <1>9. k \in Nat /\ k <= Len(b) /\ Len(b) \in Nat
    BY <1>1, <1>4, <1>6
  <1>10. /\ pending_commits' \in Seq(Nat) /\ Len(pending_commits') = Len(b) - k
         /\ DOMAIN pending_commits' = 1 .. Len(b) - k
         /\ \A j \in 1 .. Len(b) - k : pending_commits'[j] = b[k + j]
    <2>1. k \in 0 .. Len(b) /\ pending_commits' = SubSeq(b, k + 1, Len(b)) /\ b \in Seq(Nat)
      BY <1>1, <1>6
    <2> QED BY <2>1, SubSeqFacts
  <1>11. /\ finalized_commits' \in Seq(FinalizedCommit) /\ Len(finalized_commits') = k
         /\ DOMAIN finalized_commits' = 1 .. k
         /\ \A j \in 1 .. k : finalized_commits'[j].index = b[j]
    <2>1. \A j \in 1 .. k : b[j] \in Nat /\ outcome[j] \in Outcomes
      <3>1. \A j \in 1 .. Len(b) : b[j] \in Nat
        BY <1>6
      <3>2. \A j \in 1 .. k : j \in 1 .. Len(b)
        BY <1>9
      <3> QED BY <1>1, <3>1, <3>2
    <2>2. \A j \in 1 .. k : [index |-> b[j], outcome |-> outcome[j]] \in FinalizedCommit
      BY <2>1 DEF FinalizedCommit
    <2> QED BY <1>1, <1>9, <2>2
  <1>12. /\ Sent' = Sent /\ Finalized' = Finalized + k /\ Buffered' = Buffered + 1
         /\ Queued' = Queued
    <2>1. Sent' = Sent
      BY DEF Sent, ProcessCommit, userVars
    <2>2. Finalized' = Finalized + k
      BY <1>5, <1>9, <1>11, <2>1, Positions DEF Finalized
    <2>3. /\ Buffered = Finalized + Len(pending_commits) /\ Queued = Buffered + Len(inbox)
          /\ Buffered' = Finalized' + Len(pending_commits') /\ Queued' = Buffered' + Len(inbox')
      BY DEF Buffered, Queued
    <2>4. Finalized \in Nat /\ Buffered \in Nat /\ Len(inbox) \in Nat
      BY Positions
    <2>5. Buffered' = Buffered + 1
      BY <1>4, <1>6, <1>9, <1>10, <2>2, <2>3, <2>4
    <2>6. Queued' = Queued
      BY <1>2, <2>3, <2>4, <2>5
    <2> QED BY <2>1, <2>2, <2>5, <2>6
  <1>13. TypeOK'
    <2>1. (sending \in BOOLEAN)'
      BY DEF TypeOK, ProcessCommit, coreVars
    <2>2. CoreType' /\ StoreType'
      BY <1>2, TypeParts DEF ProcessCommit, coreVars, storeVars, CoreType, StoreType
    <2>3. FinType'
      BY <1>1, <1>3, <1>10, <1>11 DEF FinType
    <2>4. UserType'
      BY TypeParts DEF ProcessCommit, userVars, UserType
    <2> QED BY <2>1, <2>2, <2>3, <2>4, Zenon DEF TypeOK, CoreType, StoreType, FinType, UserType
  <1>14. QueuesInv'
    <2>1. Consecutive(inbox, Buffered)'
      BY <1>1, <1>12, Positions, ConsecutiveTail DEF InvAt, QueuesInv
    <2>2. Consecutive(finalized_commits, Sent)'
      <3> SUFFICES ASSUME NEW j \in DOMAIN finalized_commits'
                   PROVE  finalized_commits'[j].index = Sent' + j - 1
        BY DEF Consecutive
      <3>1. j \in 1 .. k /\ j \in 1 .. Len(b)
        BY <1>9, <1>11
      <3>2. b[j] = Finalized + j - 1
        BY <1>7, <3>1
      <3> QED BY <1>5, <1>11, <1>12, <3>1, <3>2
    <2>3. (\A j \in DOMAIN pending_commits : pending_commits[j] = Finalized + j - 1)'
      <3> SUFFICES ASSUME NEW j \in DOMAIN pending_commits'
                   PROVE  pending_commits'[j] = Finalized' + j - 1
        OBVIOUS
      <3>1. j \in 1 .. Len(b) - k /\ k + j \in 1 .. Len(b) /\ j \in Nat
        BY <1>9, <1>10
      <3>2. pending_commits'[j] = Finalized + (k + j) - 1
        BY <1>7, <1>10, <3>1
      <3>3. Finalized \in Nat
        BY Positions
      <3> QED BY <1>9, <1>12, <3>1, <3>2, <3>3
    <2> QED BY <1>12, <2>1, <2>2, <2>3
            DEF InvAt, QueuesInv, ProcessCommit, coreVars, userVars, Consecutive
  <1>15. CoreInv' /\ StoreInv(m, n)'
    BY <1>12 DEF InvAt, CoreInv, StoreInv, ProcessCommit, coreVars, storeVars, userVars
  <1>16. OutcomeInv(m)'
    <2>1. (\A j \in DOMAIN inbox :
            IF inbox[j].outcome = NoOutcome THEN inbox[j].index > m ELSE IsStored(inbox[j], m))'
      <3> SUFFICES ASSUME NEW j \in DOMAIN inbox'
                   PROVE  (IF inbox[j].outcome = NoOutcome THEN inbox[j].index > m
                           ELSE IsStored(inbox[j], m))'
        OBVIOUS
      <3>1. inbox'[j] = inbox[j + 1] /\ j + 1 \in DOMAIN inbox
        BY <1>1, TailIndex
      <3>2. stored_finalized' = stored_finalized
        BY DEF ProcessCommit, storeVars
      <3> QED BY <3>1, <3>2 DEF InvAt, OutcomeInv, IsStored
    <2>2. (\A j \in DOMAIN pending_commits : pending_commits[j] > m)'
      <3> SUFFICES ASSUME NEW j \in DOMAIN pending_commits'
                   PROVE  pending_commits'[j] > m
        OBVIOUS
      <3>1. j \in 1 .. Len(b) - k /\ k + j \in 1 .. Len(b)
        BY <1>9, <1>10
      <3> QED BY <1>7, <1>10, <3>1
    <2>3. ~(fin \in {"flush", "send"})'
      BY <1>1
    <2> QED BY <2>1, <2>2, <2>3
            DEF InvAt, OutcomeInv, ProcessCommit, coreVars, userVars, storeVars, IsStored
  <1>17. FinalizerInv(m)'
    <2>1. (fin = "recv" <=> finalized_commits = << >>)'
      BY <1>1, <1>9, <1>11, EmptyFacts
    <2>2. (fin = "record" => m + 1 = Sent)'
      BY <1>8, <1>12
    <2>3. (last_processed_commit + 1 = Buffered /\ m < Buffered)'
      <3>1. last_processed_commit' = Buffered /\ Buffered' = Buffered + 1 /\ Buffered > m
        BY <1>1, <1>3, <1>12
      <3>2. Buffered \in Nat
        BY Positions
      <3> QED BY <3>1, <3>2
    <2> QED BY <2>1, <2>2, <2>3 DEF FinalizerInv
  <1> QED BY <1>13, <1>14, <1>15, <1>16, <1>17 DEF InvAt

(* The outcomes of a batch are stored, behind the outcomes stored so far.  *)
LEMMA RecordFinalizedInv ==
    ASSUME NEW m \in Nat, NEW n \in Nat, TypeOK, InvAt(m, n), RecordFinalized
    PROVE  /\ TypeOK'
           /\ \E q \in Nat :
               /\ InvAt(q, last_commit_index)'
               /\ m < q /\ q <= last_commit_index
               /\ DOMAIN stored_finalized' = 1 .. q
               /\ \A i \in 1 .. m : stored_finalized'[i] = stored_finalized[i]
               /\ \A i \in 1 .. q : stored_finalized'[i] \in Outcomes
  <1> DEFINE fc == finalized_commits
  <1>0. /\ Sent \in Nat /\ Finalized \in Nat /\ Buffered \in Nat /\ Queued \in Nat
        /\ Finalized <= Buffered /\ Buffered <= Queued
        /\ last_commit_index \in Nat /\ Queued <= last_commit_index + 1
    BY Positions, Bounds, TypeParts DEF CoreType
  <1>1. /\ fin = "record" /\ fin' = "send" /\ m + 1 = Sent
        /\ fc \in Seq(FinalizedCommit) /\ fc # << >>
    BY TypeParts DEF RecordFinalized, InvAt, FinalizerInv, FinType
  <1>2. /\ Len(fc) \in Nat /\ Len(fc) > 0 /\ DOMAIN fc = 1 .. Len(fc)
        /\ \A j \in 1 .. Len(fc) : fc[j] \in FinalizedCommit
    BY <1>1, EmptyFacts
  <1> PICK q \in Nat : q = m + Len(fc)
    BY <1>2
  <1>3. q \in Nat /\ q = m + Len(fc) /\ Finalized = q + 1
    BY <1>1, <1>2, Positions DEF Finalized
  <1>4. \A j \in 1 .. Len(fc) : fc[j].index = m + j
    <2> SUFFICES ASSUME NEW j \in 1 .. Len(fc) PROVE fc[j].index = m + j
      OBVIOUS
    <2>1. fc[j].index = Sent + j - 1
      BY <1>2 DEF InvAt, QueuesInv, Consecutive
    <2> QED BY <1>1, <2>1
  <1>5. \A i : i \in Indices(fc) <=> i \in (m + 1) .. q
    <2>1. ASSUME NEW i \in (m + 1) .. q PROVE i \in Indices(fc)
      <3>1. i - m \in 1 .. Len(fc)
        BY <1>2, <1>3
      <3>2. fc[i - m].index = m + (i - m)
        BY <1>4, <3>1
      <3> QED BY <1>2, <3>1, <3>2 DEF Indices
    <2>2. ASSUME NEW i \in Indices(fc) PROVE i \in (m + 1) .. q
      <3>1. PICK j \in 1 .. Len(fc) : i = fc[j].index
        BY <1>2 DEF Indices
      <3> QED BY <1>2, <1>3, <1>4, <3>1
    <2> QED BY <2>1, <2>2
  <1>6. \A j \in 1 .. Len(fc) : OutcomeIn(fc, m + j) = fc[j].outcome
    <2> SUFFICES ASSUME NEW j \in 1 .. Len(fc) PROVE OutcomeIn(fc, m + j) = fc[j].outcome
      OBVIOUS
    <2>1. \A i \in DOMAIN fc : fc[i].index = m + j <=> i = j
      <3> SUFFICES ASSUME NEW i \in DOMAIN fc PROVE fc[i].index = m + j <=> i = j
        OBVIOUS
      <3>1. i \in 1 .. Len(fc) /\ fc[i].index = m + i
        BY <1>2, <1>4
      <3> QED BY <3>1
    <2>2. (CHOOSE i \in DOMAIN fc : fc[i].index = m + j) = j
      BY <1>2, <2>1
    <2> QED BY <2>2 DEF OutcomeIn
  <1>7. /\ DOMAIN stored_finalized = 1 .. m
        /\ \A i \in 1 .. m : stored_finalized[i] \in Outcomes
    BY TypeParts DEF InvAt, StoreInv, StoreType
  <1>8. stored_finalized' =
            [i \in DOMAIN stored_finalized \cup Indices(fc) |->
                IF i \in Indices(fc) THEN OutcomeIn(fc, i) ELSE stored_finalized[i]]
    BY DEF RecordFinalized
  <1>9. DOMAIN stored_finalized' = 1 .. q
    <2>1. DOMAIN stored_finalized' = DOMAIN stored_finalized \cup Indices(fc)
      BY <1>8
    <2>2. \A i : i \in 1 .. m \/ i \in (m + 1) .. q <=> i \in 1 .. q
      BY <1>2, <1>3
    <2> QED BY <1>5, <1>7, <2>1, <2>2
  <1>10. \A i \in 1 .. m : stored_finalized'[i] = stored_finalized[i]
    BY <1>5, <1>7, <1>8
  <1>11. \A j \in 1 .. Len(fc) :
            fc[j].index \in 1 .. q /\ stored_finalized'[fc[j].index] = fc[j].outcome
    <2> SUFFICES ASSUME NEW j \in 1 .. Len(fc)
                 PROVE  m + j \in 1 .. q /\ stored_finalized'[m + j] = fc[j].outcome
      BY <1>4
    <2>1. m + j \in 1 .. q /\ m + j \in (m + 1) .. q
      BY <1>2, <1>3
    <2>2. stored_finalized'[m + j] = OutcomeIn(fc, m + j)
      BY <1>5, <1>8, <2>1
    <2> QED BY <1>6, <2>1, <2>2
  <1>12. \A i \in 1 .. q : stored_finalized'[i] \in Outcomes
    <2> SUFFICES ASSUME NEW i \in 1 .. q PROVE stored_finalized'[i] \in Outcomes
      OBVIOUS
    <2>1. CASE i \in 1 .. m
      BY <1>7, <1>10, <2>1
    <2>2. CASE i \notin 1 .. m
      <3>1. i - m \in 1 .. Len(fc) /\ fc[i - m].index = i
        BY <1>2, <1>3, <1>4, <2>2
      <3>2. fc[i - m].outcome \in Outcomes
        BY <1>2, <3>1 DEF FinalizedCommit
      <3> QED BY <1>11, <3>1, <3>2
    <2> QED BY <2>1, <2>2
  <1>13. Sent' = Sent /\ Finalized' = Finalized /\ Buffered' = Buffered /\ Queued' = Queued
    BY DEF Sent, Finalized, Buffered, Queued, RecordFinalized, userVars
  <1>14. TypeOK'
    <2>1. (sending \in BOOLEAN)'
      BY DEF TypeOK, RecordFinalized, coreVars
    <2>2. CoreType'
      BY TypeParts DEF RecordFinalized, coreVars, CoreType
    <2>3. StoreType'
      <3>1. (/\ stored_finalized \in [DOMAIN stored_finalized -> Outcomes]
             /\ DOMAIN stored_finalized \in SUBSET Nat)'
        <4>1. stored_finalized' = [i \in 1 .. q |-> stored_finalized'[i]]
          BY <1>8, <1>9
        <4>2. stored_finalized' \in [1 .. q -> Outcomes]
          BY <1>12, <4>1
        <4> QED BY <1>9, <4>2
      <3> QED BY <3>1, TypeParts DEF RecordFinalized, Flush, StoreType
    <2>4. FinType' /\ UserType'
      BY <1>1, TypeParts DEF RecordFinalized, userVars, FinType, UserType
    <2> QED BY <2>1, <2>2, <2>3, <2>4, Zenon DEF TypeOK, CoreType, StoreType, FinType, UserType
  <1>15. QueuesInv' /\ CoreInv'
    BY <1>13 DEF InvAt, QueuesInv, CoreInv, RecordFinalized, coreVars, userVars, Consecutive
  <1>21. m < q /\ q <= last_commit_index /\ last_commit_index \in Nat
    BY <1>0, <1>2, <1>3
  <1>16. StoreInv(q, last_commit_index)'
    <2>1. /\ last_commit_index' = last_commit_index /\ processed' = processed
          /\ expected' = expected /\ commits_to_write' = {}
          /\ stored_commits' = stored_commits \cup commits_to_write
      BY DEF RecordFinalized, Flush, coreVars, userVars
    <2>2. /\ stored_commits \cup commits_to_write = 1 .. last_commit_index
          /\ processed <= m /\ expected <= m + 1
      BY DEF InvAt, StoreInv
    <2>3. processed \in Nat /\ expected \in Nat
      BY TypeParts DEF UserType
    <2>4. (processed <= q /\ expected <= q + 1)'
      BY <1>21, <2>1, <2>2, <2>3
    <2> QED BY <1>9, <1>21, <2>1, <2>2, <2>4 DEF StoreInv
  <1>17. \A c : IsStored(c, m) => IsStored(c, q)'
    BY <1>2, <1>3, <1>10 DEF IsStored
  <1>18. OutcomeInv(q)'
    <2>1. (\A j \in DOMAIN inbox :
            IF inbox[j].outcome = NoOutcome THEN inbox[j].index > q ELSE IsStored(inbox[j], q))'
      <3> SUFFICES ASSUME NEW j \in DOMAIN inbox
                   PROVE  (IF inbox[j].outcome = NoOutcome THEN inbox[j].index > q
                           ELSE IsStored(inbox[j], q))'
        BY DEF RecordFinalized
      <3>1. inbox[j].index = Buffered + j - 1 /\ j \in Nat /\ j > 0
        BY EmptyFacts, TypeParts DEF InvAt, QueuesInv, Consecutive, CoreType
      <3>2. inbox[j].index > q
        BY <3>1, <1>0, <1>3
      <3>3. inbox[j].outcome # NoOutcome => IsStored(inbox[j], m)
        BY DEF InvAt, OutcomeInv
      <3>4. inbox' = inbox
        BY DEF RecordFinalized
      <3> QED BY <3>2, <3>3, <3>4, <1>17 DEF IsStored
    <2>2. \A j \in DOMAIN to_send : to_send[j].outcome = NoOutcome /\ to_send[j].index > q
      <3> SUFFICES ASSUME NEW j \in DOMAIN to_send
                   PROVE  to_send[j].outcome = NoOutcome /\ to_send[j].index > q
        OBVIOUS
      <3>1. to_send[j].index = Queued + j - 1 /\ j \in Nat /\ j > 0
        BY EmptyFacts, TypeParts DEF InvAt, QueuesInv, Consecutive, CoreType
      <3>2. to_send[j].index > q
        BY <3>1, <1>0, <1>3
      <3> QED BY <3>2 DEF InvAt, OutcomeInv
    <2>3. \A j \in DOMAIN pending_commits : pending_commits[j] > q
      <3> SUFFICES ASSUME NEW j \in DOMAIN pending_commits PROVE pending_commits[j] > q
        OBVIOUS
      <3>1. pending_commits[j] = Finalized + j - 1 /\ j \in Nat /\ j > 0
        BY EmptyFacts, TypeParts DEF InvAt, QueuesInv, FinType
      <3> QED BY <3>1, <1>0, <1>3
    <2>5. (\A c \in received : IsStored(c, q))' /\ (\A j \in DOMAIN output : IsStored(output[j], q))'
      BY <1>17 DEF InvAt, OutcomeInv, RecordFinalized, userVars, IsStored
    <2>6. (\A j \in DOMAIN finalized_commits : IsStored(finalized_commits[j], q))'
      <3>1. finalized_commits' = finalized_commits
        BY DEF RecordFinalized
      <3> QED BY <1>2, <1>11, <3>1 DEF IsStored
    <2>7. (/\ \A j \in DOMAIN to_send : to_send[j].outcome = NoOutcome /\ to_send[j].index > q
           /\ \A j \in DOMAIN pending_commits : pending_commits[j] > q)'
      BY <2>2, <2>3, <1>13 DEF RecordFinalized, coreVars
    <2> QED BY <2>1, <2>5, <2>6, <2>7 DEF OutcomeInv
  <1>19. FinalizerInv(q)'
    <2>1. last_processed_commit # 0 => last_processed_commit + 1 = Buffered
      BY DEF InvAt, FinalizerInv
    <2>2. q < Buffered
      BY <1>3, Positions
    <2> QED BY <1>1, <1>13, <2>1, <2>2 DEF FinalizerInv, RecordFinalized
  <1>20. InvAt(q, last_commit_index)'
    BY <1>15, <1>16, <1>18, <1>19 DEF InvAt
  <1> QED BY <1>3, <1>9, <1>10, <1>12, <1>14, <1>20, <1>21


(* The flush before a recovered commit is sent.                            *)
LEMMA FlushRecoveredInv ==
    ASSUME NEW m \in Nat, NEW n \in Nat, TypeOK, InvAt(m, n), FlushRecovered
    PROVE  TypeOK' /\ InvAt(m, last_commit_index)'
  <1>1. last_commit_index \in Nat /\ last_commit_index' = last_commit_index
    BY TypeParts DEF FlushRecovered, coreVars, CoreType
  <1>2. TypeOK'
    <2>1. (sending \in BOOLEAN)'
      BY DEF TypeOK, FlushRecovered, coreVars
    <2>2. CoreType' /\ StoreType'
      BY TypeParts DEF FlushRecovered, coreVars, Flush, CoreType, StoreType
    <2>3. FinType' /\ UserType'
      BY TypeParts DEF FlushRecovered, userVars, FinType, UserType
    <2> QED BY <2>1, <2>2, <2>3, Zenon DEF TypeOK, CoreType, StoreType, FinType, UserType
  <1>3. Sent' = Sent /\ Finalized' = Finalized /\ Buffered' = Buffered /\ Queued' = Queued
    BY DEF Sent, Finalized, Buffered, Queued, FlushRecovered, userVars
  <1>4. QueuesInv' /\ CoreInv'
    BY <1>3 DEF InvAt, QueuesInv, CoreInv, FlushRecovered, coreVars, userVars, Consecutive
  <1>5. StoreInv(m, last_commit_index)'
    BY <1>1 DEF InvAt, StoreInv, FlushRecovered, Flush, userVars
  <1>6. OutcomeInv(m)'
    BY DEF InvAt, OutcomeInv, FlushRecovered, coreVars, userVars, IsStored
  <1>7. FinalizerInv(m)'
    BY <1>3 DEF InvAt, FinalizerInv, FlushRecovered
  <1> QED BY <1>2, <1>4, <1>5, <1>6, <1>7 DEF InvAt

(* A finalized commit moves to the output channel.                         *)
LEMMA SendOutputInv ==
    ASSUME NEW m \in Nat, NEW n \in Nat, TypeOK, InvAt(m, n), SendOutput
    PROVE  TypeOK' /\ InvAt(m, n)'
  <1> DEFINE c == Head(finalized_commits)
  <1>1. /\ fin = "send" /\ finalized_commits # << >>
        /\ finalized_commits \in Seq(FinalizedCommit) /\ output \in Seq(FinalizedCommit)
        /\ output' = Append(output, c) /\ finalized_commits' = Tail(finalized_commits)
        /\ fin' = IF Len(finalized_commits) = 1 THEN "recv" ELSE "send"
    BY TypeParts DEF SendOutput, FinType, UserType
  <1>2. /\ c \in FinalizedCommit /\ c = finalized_commits[1]
        /\ finalized_commits' \in Seq(FinalizedCommit)
        /\ Len(finalized_commits) \in Nat /\ Len(finalized_commits) > 0
        /\ DOMAIN finalized_commits = 1 .. Len(finalized_commits)
        /\ Len(finalized_commits') = Len(finalized_commits) - 1
        /\ DOMAIN finalized_commits' = 1 .. Len(finalized_commits) - 1
        /\ \A j \in 1 .. Len(finalized_commits) - 1 :
            finalized_commits'[j] = finalized_commits[j + 1]
    BY <1>1, TailFacts
  <1>3. 1 \in DOMAIN finalized_commits /\ IsStored(c, m)
    BY <1>1, <1>2 DEF InvAt, OutcomeInv
  <1>4. /\ expected \in Nat /\ Sent \in Nat /\ Finalized \in Nat /\ Len(output) \in Nat
    BY Positions
  <1>5. c.index = Sent /\ Consecutive(Tail(finalized_commits), Sent + 1)
    BY <1>1, <1>4, ConsecutiveTail DEF InvAt, QueuesInv
  <1> HIDE DEF c
  <1>6. /\ output' \in Seq(FinalizedCommit) /\ Len(output') = Len(output) + 1
        /\ DOMAIN output = 1 .. Len(output) /\ DOMAIN output' = 1 .. Len(output) + 1
        /\ output'[Len(output) + 1] = c
        /\ \A j \in 1 .. Len(output) : output'[j] = output[j]
    BY <1>1, <1>2, AppendFacts
  <1>7. /\ expected' = expected /\ stored_finalized' = stored_finalized
        /\ pending_commits' = pending_commits /\ inbox' = inbox /\ to_send' = to_send
    BY DEF SendOutput, userVars, storeVars, coreVars
  <1>8. Sent' = Sent + 1 /\ Finalized' = Finalized /\ Buffered' = Buffered /\ Queued' = Queued
    <2>1. Sent' = Sent + 1
      BY <1>4, <1>6, <1>7 DEF Sent
    <2>2. Finalized' = Finalized
      BY <1>2, <1>4, <2>1 DEF Finalized
    <2> QED BY <1>7, <2>1, <2>2 DEF Buffered, Queued
  <1>9. TypeOK'
    <2>1. (sending \in BOOLEAN)'
      BY DEF TypeOK, SendOutput, coreVars
    <2>2. CoreType' /\ StoreType'
      BY TypeParts DEF SendOutput, coreVars, storeVars, CoreType, StoreType
    <2>3. FinType' /\ UserType'
      BY <1>1, <1>2, <1>6, TypeParts DEF SendOutput, userVars, FinType, UserType
    <2> QED BY <2>1, <2>2, <2>3, Zenon DEF TypeOK, CoreType, StoreType, FinType, UserType
  <1>10. QueuesInv'
    <2>1. Consecutive(output, expected)'
      <3>1. Consecutive(Append(output, c), expected)
        BY <1>1, <1>2, <1>4, <1>5, ConsecutiveAppend DEF InvAt, QueuesInv, Sent
      <3> QED BY <1>1, <1>7, <3>1 DEF Consecutive
    <2>2. Consecutive(finalized_commits, Sent)'
      BY <1>1, <1>5, <1>8 DEF Consecutive
    <2> QED BY <1>7, <1>8, <2>1, <2>2 DEF InvAt, QueuesInv, Consecutive
  <1>11. CoreInv' /\ StoreInv(m, n)'
    BY <1>8 DEF InvAt, CoreInv, StoreInv, SendOutput, coreVars, storeVars, userVars
  <1>12. OutcomeInv(m)'
    <2>1. (\A j \in DOMAIN output : IsStored(output[j], m))'
      <3> SUFFICES ASSUME NEW j \in DOMAIN output' PROVE IsStored(output[j], m)'
        OBVIOUS
      <3>1. IsStored(output'[j], m)
        <4>1. CASE j = Len(output) + 1
          BY <1>3, <1>6, <4>1
        <4>2. CASE j # Len(output) + 1
          <5>1. j \in DOMAIN output /\ output'[j] = output[j]
            BY <1>4, <1>6, <4>2
          <5> QED BY <5>1 DEF InvAt, OutcomeInv
        <4> QED BY <4>1, <4>2
      <3> QED BY <1>7, <3>1 DEF IsStored
    <2>2. (\A j \in DOMAIN finalized_commits : IsStored(finalized_commits[j], m))'
      <3> SUFFICES ASSUME NEW j \in DOMAIN finalized_commits'
                   PROVE  IsStored(finalized_commits[j], m)'
        OBVIOUS
      <3>1. finalized_commits'[j] = finalized_commits[j + 1] /\ j + 1 \in DOMAIN finalized_commits
        BY <1>1, TailIndex
      <3>2. IsStored(finalized_commits'[j], m)
        BY <1>1, <3>1 DEF InvAt, OutcomeInv
      <3> QED BY <1>7, <3>2 DEF IsStored
    <2>3. (\A d \in received : IsStored(d, m))'
      BY <1>7 DEF InvAt, OutcomeInv, SendOutput, userVars, IsStored
    <2> QED BY <1>7, <2>1, <2>2, <2>3 DEF InvAt, OutcomeInv, IsStored
  <1>13. FinalizerInv(m)'
    <2>1. fin' = "recv" <=> finalized_commits' = << >>
      BY <1>1, <1>2, EmptyFacts
    <2> QED BY <1>1, <1>8, <2>1 DEF InvAt, FinalizerInv, SendOutput
  <1> QED BY <1>9, <1>10, <1>11, <1>12, <1>13 DEF InvAt

(* The consumer reads the entry `expected` of the log of stored outcomes.  *)
LEMMA ConsumeInv ==
    ASSUME NEW m \in Nat, NEW n \in Nat, TypeOK, InvAt(m, n), Consume
    PROVE  /\ TypeOK' /\ InvAt(m, n)'
           /\ Head(output) = [index |-> expected, outcome |-> stored_finalized[expected]]
           /\ expected \in 1 .. m
  <1> DEFINE c == Head(output)
  <1>1. /\ output # << >> /\ output \in Seq(FinalizedCommit)
        /\ output' = Tail(output) /\ expected' = expected + 1
        /\ processed' = IF c.index > processed THEN c.index ELSE processed
        /\ received' = received \cup {c}
    BY TypeParts DEF Consume, UserType
  <1>2. /\ c \in FinalizedCommit /\ c = output[1]
        /\ output' \in Seq(FinalizedCommit)
        /\ Len(output) \in Nat /\ Len(output) > 0 /\ DOMAIN output = 1 .. Len(output)
        /\ Len(output') = Len(output) - 1 /\ DOMAIN output' = 1 .. Len(output) - 1
        /\ \A j \in 1 .. Len(output) - 1 : output'[j] = output[j + 1]
    BY <1>1, TailFacts
  <1>3. /\ expected \in Nat /\ processed \in Nat /\ Sent \in Nat
    BY Positions, TypeParts DEF UserType
  <1>4. c.index = expected /\ Consecutive(Tail(output), expected + 1)
    BY <1>1, <1>3, ConsecutiveTail DEF InvAt, QueuesInv
  <1>5. IsStored(c, m)
    BY <1>2 DEF InvAt, OutcomeInv
  <1>6. expected \in 1 .. m /\ c.outcome = stored_finalized[expected]
    BY <1>4, <1>5 DEF IsStored
  <1>7. c = [index |-> expected, outcome |-> stored_finalized[expected]]
    BY <1>2, <1>4, <1>6 DEF FinalizedCommit
  <1> HIDE DEF c
  <1>8. /\ stored_finalized' = stored_finalized /\ finalized_commits' = finalized_commits
        /\ pending_commits' = pending_commits /\ inbox' = inbox /\ to_send' = to_send
        /\ fin' = fin /\ last_processed_commit' = last_processed_commit
    BY DEF Consume, storeVars, coreVars, finVars
  <1>9. Sent' = Sent /\ Finalized' = Finalized /\ Buffered' = Buffered /\ Queued' = Queued
    <2>1. Sent' = Sent
      BY <1>1, <1>2, <1>3 DEF Sent
    <2> QED BY <1>8, <2>1 DEF Finalized, Buffered, Queued
  <1>10. TypeOK'
    <2>1. (sending \in BOOLEAN)'
      BY DEF TypeOK, Consume, coreVars
    <2>2. CoreType' /\ StoreType'
      BY TypeParts DEF Consume, coreVars, storeVars, CoreType, StoreType
    <2>3. FinType'
      BY TypeParts DEF Consume, finVars, FinType
    <2>4. expected' \in Nat /\ processed' \in Nat
      BY <1>1, <1>3, <1>4
    <2>5. received' \in SUBSET FinalizedCommit
      BY <1>1, <1>2, TypeParts DEF UserType
    <2>6. UserType'
      BY <1>2, <2>4, <2>5, TypeParts DEF UserType, Consume
    <2> QED BY <2>1, <2>2, <2>3, <2>6, Zenon
            DEF TypeOK, CoreType, StoreType, FinType, UserType
  <1>11. QueuesInv'
    <2>1. Consecutive(output, expected)' /\ (expected > 0)'
      BY <1>1, <1>3, <1>4 DEF Consecutive
    <2> QED BY <1>8, <1>9, <2>1 DEF InvAt, QueuesInv, Consecutive
  <1>12. CoreInv'
    BY <1>9 DEF InvAt, CoreInv, Consume, coreVars
  <1>13. StoreInv(m, n)'
    <2>1. (processed <= m /\ expected <= m + 1)'
      <3>1. processed <= m
        BY DEF InvAt, StoreInv
      <3> QED BY <1>1, <1>3, <1>4, <1>6, <3>1
    <2> QED BY <2>1 DEF InvAt, StoreInv, Consume, coreVars, storeVars
  <1>14. OutcomeInv(m)'
    <2>1. (\A j \in DOMAIN output : IsStored(output[j], m))'
      <3> SUFFICES ASSUME NEW j \in DOMAIN output' PROVE IsStored(output[j], m)'
        OBVIOUS
      <3>1. output'[j] = output[j + 1] /\ j + 1 \in DOMAIN output
        BY <1>1, TailIndex
      <3>2. IsStored(output'[j], m)
        BY <3>1 DEF InvAt, OutcomeInv
      <3> QED BY <1>8, <3>2 DEF IsStored
    <2>2. (\A d \in received : IsStored(d, m))'
      BY <1>1, <1>5, <1>8 DEF InvAt, OutcomeInv, IsStored
    <2> QED BY <1>8, <2>1, <2>2 DEF InvAt, OutcomeInv, IsStored
  <1>15. FinalizerInv(m)'
    BY <1>8, <1>9 DEF InvAt, FinalizerInv
  <1>16. InvAt(m, n)'
    BY <1>11, <1>12, <1>13, <1>14, <1>15 DEF InvAt
  <1> QED BY <1>6, <1>7, <1>10, <1>16 DEF c

(* The last commit in the store.                                           *)
LEMMA LastStoredFact ==
    ASSUME NEW n \in Nat, stored_commits = 1 .. n
    PROVE  LastStored = n
  <1>1. CASE n = 0
    BY <1>1 DEF LastStored
  <1>2. CASE n # 0
    <2>1. n \in stored_commits /\ \A j \in stored_commits : j <= n
      BY <1>2
    <2>2. \A i \in stored_commits : (\A j \in stored_commits : j <= i) => i = n
      BY <2>1
    <2>3. LastStored = CHOOSE i \in stored_commits : \A j \in stored_commits : j <= i
      BY <2>1 DEF LastStored
    <2> QED BY <2>1, <2>2, <2>3
  <1> QED BY <1>1, <1>2

(* After a crash all queues are empty, and the replay starts at the commit *)
(* that the consumer waits for.                                            *)
LEMMA CrashAndRestartInv ==
    ASSUME NEW m \in Nat, NEW n \in Nat, TypeOK, InvAt(m, n),
           NEW replay_after \in Nat, CrashAndRestart(replay_after)
    PROVE  TypeOK' /\ InvAt(m, n)' /\ replay_after \in 0 .. processed
  <1>1. LastStored = n /\ replay_after <= processed /\ processed \in Nat
    BY LastStoredFact, TypeParts DEF InvAt, StoreInv, CrashAndRestart, UserType
  <1>2. /\ last_commit_index' = n /\ recover_last' = n /\ recover_next' = replay_after + 1
        /\ expected' = replay_after + 1 /\ commits_to_write' = {} /\ fin' = "recv"
        /\ last_processed_commit' = 0
        /\ to_send' = << >> /\ inbox' = << >> /\ pending_commits' = << >>
        /\ finalized_commits' = << >> /\ output' = << >>
    BY <1>1 DEF CrashAndRestart
  <1>3. /\ stored_commits' = stored_commits /\ stored_finalized' = stored_finalized
        /\ processed' = processed /\ received' = received
    BY DEF CrashAndRestart
  <1>4. /\ last_commit_index \in Nat /\ n <= last_commit_index /\ m <= n /\ processed <= m
        /\ last_commit_index <= MaxCommit /\ MaxCommit \in Nat
        /\ stored_commits = 1 .. n /\ DOMAIN stored_finalized = 1 .. m
    BY OutputAssumption, TypeParts DEF InvAt, StoreInv, CoreInv, CoreType
  <1>5. /\ Sent' = replay_after + 1 /\ Finalized' = replay_after + 1
        /\ Buffered' = replay_after + 1 /\ Queued' = replay_after + 1
    <2>1. /\ Len(output') = 0 /\ Len(finalized_commits') = 0 /\ Len(pending_commits') = 0
          /\ Len(inbox') = 0
      BY <1>2
    <2>2. replay_after + 1 \in Nat /\ replay_after + 1 + 0 = replay_after + 1
      OBVIOUS
    <2> QED BY <1>2, <2>1, <2>2 DEF Sent, Finalized, Buffered, Queued
  <1>6. TypeOK'
    <2>1. (sending \in BOOLEAN)'
      BY DEF CrashAndRestart
    <2>2. CoreType'
      BY <1>2 DEF CoreType
    <2>3. StoreType'
      BY <1>2, <1>3, TypeParts DEF StoreType
    <2>4. FinType'
      BY <1>2 DEF FinType
    <2>5. UserType'
      BY <1>2, <1>3, TypeParts DEF UserType, CrashAndRestart
    <2> QED BY <2>1, <2>2, <2>3, <2>4, <2>5, Zenon
            DEF TypeOK, CoreType, StoreType, FinType, UserType
  <1>7. QueuesInv'
    BY <1>2 DEF QueuesInv, Consecutive
  <1>8. CoreInv'
    <2>1. Len(to_send') = 0
      BY <1>2
    <2> QED BY <1>1, <1>2, <1>4, <1>5, <2>1 DEF CoreInv
  <1>9. StoreInv(m, n)'
    BY <1>1, <1>2, <1>3, <1>4 DEF StoreInv
  <1>10. OutcomeInv(m)'
    <2>1. \A c \in received : IsStored(c, m)
      BY DEF InvAt, OutcomeInv
    <2>2. (\A c \in received : IsStored(c, m))'
      BY <1>3, <2>1 DEF IsStored
    <2> QED BY <1>2, <2>2 DEF OutcomeInv
  <1>11. FinalizerInv(m)'
    BY <1>2 DEF FinalizerInv
  <1> QED BY <1>1, <1>6, <1>7, <1>8, <1>9, <1>10, <1>11 DEF InvAt

(* Before the first commit the store and all queues are empty.             *)
LEMMA InitInv ==
    ASSUME Init
    PROVE  TypeOK /\ InvAt(0, 0)
  <1>1. /\ Sent = 1 /\ Finalized = 1 /\ Buffered = 1 /\ Queued = 1
    BY DEF Init, Sent, Finalized, Buffered, Queued
  <1>2. TypeOK
    <2>1. sending \in BOOLEAN
      BY DEF Init
    <2>2. CoreType /\ FinType /\ UserType
      BY DEF Init, CoreType, FinType, UserType
    <2>3. StoreType
      BY DEF Init, StoreType
    <2> QED BY <2>1, <2>2, <2>3, Zenon DEF TypeOK, CoreType, StoreType, FinType, UserType
  <1>3. QueuesInv /\ FinalizerInv(0)
    BY <1>1 DEF Init, QueuesInv, Consecutive, FinalizerInv
  <1>4. CoreInv
    BY <1>1, OutputAssumption DEF Init, CoreInv
  <1>5. StoreInv(0, 0)
    BY DEF Init, StoreInv
  <1>6. OutcomeInv(0)
    BY DEF Init, OutcomeInv
  <1> QED BY <1>2, <1>3, <1>4, <1>5, <1>6 DEF InvAt

-----------------------------------------------------------------------------
(* Theorems.                                                               *)

(* The line of commits is kept by every step of the core thread, of the    *)
(* finalizer task and of the consumer, and by a crash at any moment.       *)
LEMMA StepInv ==
    ASSUME IInv, [Next]_vars
    PROVE  IInv'
  <1>1. PICK m \in Nat, n \in Nat : InvAt(m, n)
    BY DEF IInv
  <1>2. TypeOK /\ last_commit_index \in Nat
    BY TypeParts DEF IInv, CoreType
  <1> SUFFICES TypeOK' /\ \E q, r \in Nat : InvAt(q, r)'
    BY Zenon DEF IInv
  <1>15. CoreFlush \/ RecordFinalized \/ FlushRecovered => last_commit_index' \in Nat
    BY <1>2 DEF CoreFlush, RecordFinalized, FlushRecovered, coreVars
  <1>3. CASE RecoverCommit
    BY <1>1, <1>2, <1>3, RecoverCommitInv
  <1>4. CASE AddCommit
    BY <1>1, <1>2, <1>4, AddCommitInv
  <1>5. CASE SendToFinalizer
    BY <1>1, <1>2, <1>5, SendToFinalizerInv
  <1>6. CASE CoreFlush
    BY <1>1, <1>2, <1>15, <1>6, CoreFlushInv
  <1>7. CASE ReceiveFinalized
    BY <1>1, <1>2, <1>7, ReceiveFinalizedInv
  <1>8. ASSUME NEW k \in 0 .. MaxCommit, NEW outcome \in [1 .. k -> Outcomes],
               ProcessCommit(k, outcome)
        PROVE  TypeOK' /\ \E q, r \in Nat : InvAt(q, r)'
    BY <1>1, <1>2, <1>8, ProcessCommitInv
  <1>9. CASE RecordFinalized
    BY <1>1, <1>2, <1>15, <1>9, RecordFinalizedInv
  <1>10. CASE FlushRecovered
    BY <1>1, <1>2, <1>15, <1>10, FlushRecoveredInv
  <1>11. CASE SendOutput
    BY <1>1, <1>2, <1>11, SendOutputInv
  <1>12. CASE Consume
    BY <1>1, <1>2, <1>12, ConsumeInv
  <1>13. ASSUME NEW replay_after \in 0 .. MaxCommit, CrashAndRestart(replay_after)
         PROVE  TypeOK' /\ \E q, r \in Nat : InvAt(q, r)'
    <2>1. replay_after \in Nat
      BY OutputAssumption
    <2> QED BY <1>1, <1>2, <1>13, <2>1, CrashAndRestartInv
  <1>14. CASE UNCHANGED vars
    <2>1. TypeOK'
      BY <1>2, <1>14, Zenon DEF vars, coreVars, storeVars, finVars, userVars, TypeOK
    <2>2. Sent' = Sent /\ Finalized' = Finalized /\ Buffered' = Buffered /\ Queued' = Queued
      BY <1>14 DEF vars, coreVars, storeVars, finVars, userVars,
                   Sent, Finalized, Buffered, Queued
    <2>3. QueuesInv' /\ CoreInv' /\ StoreInv(m, n)'
      BY <1>1, <1>14, <2>2 DEF vars, coreVars, storeVars, finVars, userVars,
                               InvAt, QueuesInv, CoreInv, StoreInv, Consecutive
    <2>4. OutcomeInv(m)' /\ FinalizerInv(m)'
      BY <1>1, <1>14, <2>2 DEF vars, coreVars, storeVars, finVars, userVars,
                               InvAt, OutcomeInv, FinalizerInv, IsStored
    <2> QED BY <2>1, <2>3, <2>4 DEF InvAt
  <1> QED BY <1>3, <1>4, <1>5, <1>6, <1>7, <1>8, <1>9, <1>10, <1>11, <1>12, <1>13, <1>14
          DEF Next, Core, Finalizer

(* Every step is a step of the log or leaves it as it is: recording        *)
(* outcomes decides entries, the consumer delivers one to itself, a crash  *)
(* rewinds it, and nothing else touches the log.                           *)
LEMMA LogStep ==
    ASSUME IInv, [Next]_vars
    PROVE  [Log!Next]_(Log!vars)
  <1>1. PICK m \in Nat, n \in Nat : InvAt(m, n)
    BY DEF IInv
  <1>2. TypeOK /\ last_commit_index \in Nat /\ last_commit_index <= MaxCommit /\ MaxCommit \in Nat
    BY <1>1, TypeParts, OutputAssumption DEF IInv, CoreType, InvAt, CoreInv
  <1>3. DOMAIN stored_finalized = 1 .. m
    BY <1>1 DEF InvAt, StoreInv
  <1>4. CASE RecordFinalized
    <2>1. PICK q \in Nat :
            /\ m < q /\ q <= last_commit_index
            /\ DOMAIN stored_finalized' = 1 .. q
            /\ \A i \in 1 .. m : stored_finalized'[i] = stored_finalized[i]
            /\ \A i \in 1 .. q : stored_finalized'[i] \in Outcomes
      BY <1>1, <1>2, <1>4, RecordFinalizedInv
    <2>2. q \in 1 .. MaxCommit /\ 1 .. m \subseteq 1 .. q - 1
      BY <1>2, <2>1
    <2>3. stored_finalized' \in [1 .. q -> Outcomes]
      <3>1. stored_finalized' = [i \in DOMAIN stored_finalized' |-> stored_finalized'[i]]
        BY <1>4 DEF RecordFinalized
      <3> QED BY <2>1, <3>1
    <2>4. UNCHANGED <<expected, processed, received>>
      BY <1>4 DEF RecordFinalized, userVars
    <2> QED BY <1>3, <2>1, <2>2, <2>3, <2>4 DEF Log!Next, Log!Decide
  <1>5. CASE Consume
    <2>1. /\ Head(output) = [index |-> expected, outcome |-> stored_finalized[expected]]
          /\ expected \in DOMAIN stored_finalized
      BY <1>1, <1>2, <1>3, <1>5, ConsumeInv
    <2>2. Head(output).index = expected
      BY <2>1
    <2> QED BY <1>5, <2>1, <2>2 DEF Consume, storeVars, Log!Next, Log!Deliver
  <1>6. ASSUME NEW replay_after \in 0 .. MaxCommit, CrashAndRestart(replay_after)
        PROVE  Log!Next
    BY <1>6 DEF CrashAndRestart, Log!Next, Log!Rewind
  <1>7. CASE UNCHANGED <<stored_finalized, expected, processed, received>>
    BY <1>7 DEF Log!vars
  <1>8. RecoverCommit \/ AddCommit \/ SendToFinalizer \/ CoreFlush
            => UNCHANGED <<stored_finalized, expected, processed, received>>
    BY DEF RecoverCommit, AddCommit, SendToFinalizer, CoreFlush, userVars, storeVars
  <1>9. ReceiveFinalized \/ FlushRecovered \/ SendOutput
            => UNCHANGED <<stored_finalized, expected, processed, received>>
    BY DEF ReceiveFinalized, FlushRecovered, SendOutput, userVars, storeVars
  <1>10. \A k, outcome : ProcessCommit(k, outcome)
            => UNCHANGED <<stored_finalized, expected, processed, received>>
    BY DEF ProcessCommit, userVars, storeVars
  <1>11. UNCHANGED vars => UNCHANGED <<stored_finalized, expected, processed, received>>
    BY DEF vars, userVars, storeVars
  <1> QED BY <1>4, <1>5, <1>6, <1>7, <1>8, <1>9, <1>10, <1>11 DEF Next, Core, Finalizer

(* The inductive invariant holds in every reachable state.                 *)
THEOREM LineOfCommits == Spec => []IInv
  <1>1. Init => IInv
    BY InitInv DEF IInv
  <1>2. IInv /\ [Next]_vars => IInv'
    BY StepInv
  <1> QED BY <1>1, <1>2, PTL DEF Spec

(* Every variable keeps its type.                                          *)
THEOREM TypeCorrect == Spec => []TypeOK
  <1>1. IInv => TypeOK
    BY DEF IInv
  <1> QED BY <1>1, LineOfCommits, PTL

(* The consumer gets every commit from its replay point on, in order and   *)
(* once.                                                                   *)
THEOREM GapFree == Spec => []NoGapToConsumer
  <1>1. IInv => NoGapToConsumer
    BY DEF IInv, InvAt, QueuesInv, NoGapToConsumer
  <1> QED BY <1>1, LineOfCommits, PTL

(* A commit reaches the consumer only when it is stored with its outcome.  *)
THEOREM DurableOutput == Spec => []PersistedBeforeSent
  <1>1. ASSUME IInv PROVE PersistedBeforeSent
    <2>1. PICK m \in Nat, n \in Nat : InvAt(m, n)
      BY <1>1 DEF IInv
    <2>2. 1 .. m \subseteq stored_commits /\ DOMAIN stored_finalized = 1 .. m
      BY <2>1 DEF InvAt, StoreInv
    <2>3. \A c \in received \cup {output[j] : j \in DOMAIN output} : IsStored(c, m)
      BY <2>1 DEF InvAt, OutcomeInv
    <2> QED BY <2>2, <2>3 DEF PersistedBeforeSent, IsStored
  <1> QED BY <1>1, LineOfCommits, PTL

(* The consumer never sees two outcomes of one commit.                     *)
THEOREM OneOutcome == Spec => []SameOutcome
  <1>1. ASSUME IInv PROVE SameOutcome
    BY <1>1 DEF IInv, InvAt, OutcomeInv, IsStored, SameOutcome
  <1> QED BY <1>1, LineOfCommits, PTL

(* The asserts of recover_and_send_commits hold at any crash.              *)
THEOREM RecoverySound == Spec => []RecoveryAsserts
  <1>1. ASSUME IInv PROVE RecoveryAsserts
    <2>1. PICK m \in Nat, n \in Nat : InvAt(m, n)
      BY <1>1 DEF IInv
    <2>2. /\ stored_commits = 1 .. n /\ DOMAIN stored_finalized = 1 .. m
          /\ m <= n /\ processed <= m
      BY <2>1 DEF InvAt, StoreInv
    <2>3. processed \in Nat /\ LastStored = n
      BY <1>1, <2>2, TypeParts, LastStoredFact DEF IInv, UserType
    <2>4. processed <= LastStored
      BY <2>2, <2>3
    <2> QED BY <2>2, <2>4 DEF RecoveryAsserts
  <1> QED BY <1>1, LineOfCommits, PTL

(* The assert of process_commit holds whenever a commit arrives.           *)
THEOREM FinalizerInOrder == Spec => []ProcessedInOrder
  <1>1. ASSUME IInv PROVE ProcessedInOrder
    <2> SUFFICES ASSUME inbox # << >>, last_processed_commit # 0
                 PROVE  Head(inbox).index = last_processed_commit + 1
      BY DEF ProcessedInOrder
    <2>1. PICK m \in Nat, n \in Nat : InvAt(m, n)
      BY <1>1 DEF IInv
    <2>2. inbox \in Seq(Commit) /\ Buffered \in Nat
      BY <1>1, TypeParts, Positions DEF IInv, CoreType
    <2>3. Head(inbox).index = Buffered
      BY <2>1, <2>2, ConsecutiveTail DEF InvAt, QueuesInv
    <2> QED BY <2>1, <2>3 DEF InvAt, FinalizerInv
  <1> QED BY <1>1, LineOfCommits, PTL

(* The observer, the finalizer, the store and the replay implement the log *)
(* of CommitLog, with any number of crashes.                               *)
THEOREM Refinement == Spec => ImplementsLog
  <1>1. Init => Log!Init
    BY DEF Init, Log!Init
  <1>2. IInv /\ [Next]_vars => [Log!Next]_(Log!vars)
    BY LogStep
  <1> QED BY <1>1, <1>2, LineOfCommits, PTL DEF Spec, ImplementsLog, Log!Spec

(* A stored outcome is never changed or lost.                              *)
THEOREM FinalOutcomes == Spec => OutcomesFinal
  <1>1. IInv /\ [Next]_vars =>
            [\A i \in DOMAIN stored_finalized :
                i \in DOMAIN stored_finalized' /\ stored_finalized'[i] = stored_finalized[i]]_vars
    <2> SUFFICES ASSUME IInv, [Next]_vars
                 PROVE  \A i \in DOMAIN stored_finalized :
                            /\ i \in DOMAIN stored_finalized'
                            /\ stored_finalized'[i] = stored_finalized[i]
      OBVIOUS
    <2>1. [Log!Next]_(Log!vars)
      BY LogStep
    <2>2. ASSUME Log!Decide
          PROVE  \A i \in DOMAIN stored_finalized :
                   /\ i \in DOMAIN stored_finalized'
                   /\ stored_finalized'[i] = stored_finalized[i]
      BY <2>2 DEF Log!Decide
    <2>3. CASE Log!Deliver \/ Log!Rewind \/ UNCHANGED Log!vars
      <3>1. stored_finalized' = stored_finalized
        BY <2>3 DEF Log!Deliver, Log!Rewind, Log!vars
      <3> QED BY <3>1
    <2> QED BY <2>1, <2>2, <2>3 DEF Log!Next
  <1> QED BY <1>1, LineOfCommits, PTL DEF Spec, OutcomesFinal
=============================================================================
