------------------------- MODULE CommitSyncerProofs -------------------------
(***************************************************************************)
(* IInv is an inductive invariant of the commit syncer, for every batch    *)
(* size, parallelism, number of commits and of restarts, and implies its   *)
(* safety properties.                                                      *)
(***************************************************************************)
EXTENDS CommitSyncer, TLAPS

\* The bounds of a range are natural numbers in order.
LEMMA RangeFacts ==
    /\ \A r \in Range : r[1] \in Nat /\ r[2] \in Nat /\ 0 < r[1] /\ r[1] <= r[2]
    /\ \A m, n \in Nat : 0 < m /\ m <= n =>
          <<m, n>> \in Range /\ <<m, n>>[1] = m /\ <<m, n>>[2] = n
  BY DEF Range

\* Larger is the maximum.
LEMMA LargerFacts ==
    \A m, n \in Nat : Larger(m, n) \in Nat /\ Larger(m, n) >= m /\ Larger(m, n) >= n
                        /\ Larger(m, n) \in {m, n}
  BY DEF Larger

\* A new or restarted syncer satisfies the invariant.
LEMMA InitInvariant == Init => IInv
  BY DEF Init, IInv, TypeOK, NothingLost, FetchedOnce, Scheduled, Apart

\* The tick of the interval only raises synced_commit_index.
LEMMA TryScheduleOnceInvariant ==
    ASSUME IInv, TryScheduleOnce PROVE IInv'
  <1>a. /\ phase = "select" /\ phase' = "schedule"
        /\ UNCHANGED <<quorum_commit_index, last_commit_index, highest_handled, restarts,
              inflight_fetches, pending_fetches, fetched_ranges, sending, highest_scheduled_index>>
        /\ Scheduled' = Scheduled
        /\ synced_commit_index' \in Nat
        /\ synced_commit_index <= synced_commit_index' /\ synced_commit_index' <= last_commit_index
    BY LargerFacts DEF TryScheduleOnce, nodeVars, fetchVars, IInv, TypeOK, Scheduled
  <1>1. TypeOK'
    BY <1>a DEF IInv, TypeOK
  <1>2. NothingLost'
    <2> SUFFICES ASSUME NEW i \in 1 .. highest_scheduled_index, synced_commit_index' < i
                 PROVE  \E r \in Scheduled : r[1] <= i /\ i <= r[2]
      BY <1>a DEF NothingLost
    <2>0. synced_commit_index \in Nat /\ highest_scheduled_index \in Nat
      BY DEF IInv, TypeOK
    <2>1. synced_commit_index < i
      BY <1>a, <2>0
    <2> QED
      BY <2>1 DEF IInv, NothingLost
  <1>3. FetchedOnce'
    BY <1>a DEF IInv, FetchedOnce
  <1> QED
    BY <1>a, <1>1, <1>2, <1>3 DEF IInv

\* A new batch starts right after everything scheduled or synced.
LEMMA ScheduleBatchInvariant ==
    ASSUME IInv, ScheduleBatch PROVE IInv'
  <1> DEFINE from == FetchAfterIndex
             new  == <<from + 1, from + BatchSize>>
  <1>a. /\ phase = "schedule"
        /\ UNCHANGED <<quorum_commit_index, last_commit_index, highest_handled, restarts, phase,
              inflight_fetches, fetched_ranges, sending, synced_commit_index>>
        /\ pending_fetches' = pending_fetches \cup {new}
        /\ highest_scheduled_index' = from + BatchSize
    BY DEF ScheduleBatch, nodeVars
  <1>b. /\ from \in Nat /\ from >= synced_commit_index /\ from >= highest_scheduled_index
        /\ from \in {synced_commit_index, highest_scheduled_index}
    BY LargerFacts DEF FetchAfterIndex, IInv, TypeOK
  <1> HIDE DEF from
  <1>c. new \in Range /\ new[1] = from + 1 /\ new[2] = from + BatchSize
    BY <1>b, RangeFacts, ParametersAssumption
  <1>d. Scheduled' = Scheduled \cup {new} /\ Scheduled \subseteq Range
    BY <1>a DEF Scheduled, IInv, TypeOK
  <1>e. \A r \in Scheduled : r[1] \in Nat /\ r[2] \in Nat /\ r[2] <= from
    BY <1>b, <1>d, RangeFacts DEF IInv, TypeOK
  <1> HIDE DEF new
  <1>f. \A r \in Scheduled : Apart(r, new) /\ Apart(new, r) /\ r # new
    BY <1>b, <1>c, <1>e, ParametersAssumption DEF Apart
  <1>g. new \notin Scheduled
    BY <1>f
  <1>1. TypeOK'
    BY <1>a, <1>b, <1>c, ParametersAssumption DEF IInv, TypeOK
  <1>2. NothingLost'
    <2> SUFFICES ASSUME NEW i \in 1 .. from + BatchSize, synced_commit_index < i
                 PROVE  \E r \in Scheduled \cup {new} : r[1] <= i /\ i <= r[2]
      BY <1>a, <1>d DEF NothingLost
    <2>1. CASE i <= from
      BY <2>1, <1>b DEF IInv, TypeOK, NothingLost
    <2>2. CASE i > from
      BY <2>2, <1>b, <1>c DEF IInv, TypeOK
    <2> QED
      BY <2>1, <2>2, <1>b DEF IInv, TypeOK
  <1>3. FetchedOnce'
    <2>1. \A r, s \in Scheduled' : r = s \/ Apart(r, s)
      BY <1>d, <1>f DEF IInv, FetchedOnce
    <2> QED
      BY <2>1, <1>a, <1>g DEF IInv, FetchedOnce, Scheduled
  <1>4. \A r \in Scheduled' : r[2] <= highest_scheduled_index'
    BY <1>a, <1>b, <1>c, <1>d, <1>e, ParametersAssumption
  <1> QED
    BY <1>a, <1>1, <1>2, <1>3, <1>4 DEF IInv

\* A fetch returns: its range is split into the fetched prefix and the rest.
LEMMA FetchReturnsInvariant ==
    ASSUME IInv, NEW q \in inflight_fetches, NEW k \in q[1] .. q[2], FetchReturns(q, k)
    PROVE  IInv'
  <1> DEFINE synced == Larger(synced_commit_index, last_commit_index)
             rest   == <<k + 1, q[2]>>
             got    == <<q[1], k>>
  <1>a. /\ phase = "select" /\ phase' = "process"
        /\ UNCHANGED <<quorum_commit_index, last_commit_index, highest_handled, restarts,
                       sending, highest_scheduled_index>>
        /\ inflight_fetches' = inflight_fetches \ {q}
        /\ pending_fetches' = IF k < q[2] THEN pending_fetches \cup {rest} ELSE pending_fetches
        /\ fetched_ranges' = IF synced < k THEN fetched_ranges \cup {got} ELSE fetched_ranges
        /\ synced_commit_index' = synced
    BY DEF FetchReturns, HandleFetchResult, nodeVars
  <1>b. /\ synced \in Nat /\ synced_commit_index <= synced /\ synced <= last_commit_index
    BY LargerFacts DEF IInv, TypeOK
  <1>c. /\ q \in Range /\ q[1] \in Nat /\ q[2] \in Nat /\ k \in Nat
        /\ 0 < q[1] /\ q[1] <= k /\ k <= q[2]
    BY RangeFacts DEF IInv, TypeOK
  <1>d. got \in Range /\ got[1] = q[1] /\ got[2] = k
    BY <1>c, RangeFacts
  <1>e. k < q[2] => rest \in Range /\ rest[1] = k + 1 /\ rest[2] = q[2]
    BY <1>c, RangeFacts
  <1> HIDE DEF synced, rest, got
  <1>f. /\ q \in Scheduled /\ Scheduled \subseteq Range /\ sending = {}
        /\ q[2] <= highest_scheduled_index
        /\ \A r \in Scheduled : r[1] \in Nat /\ r[2] \in Nat /\ (r = q \/ Apart(r, q))
    BY <1>a, RangeFacts DEF IInv, TypeOK, Scheduled, FetchedOnce
  <1>g. /\ \A r \in Scheduled \ {q} : Apart(r, got) /\ Apart(got, r) /\ r # got
        /\ k < q[2] => \A r \in (Scheduled \ {q}) \cup {got} :
                          Apart(r, rest) /\ Apart(rest, r) /\ r # rest
    BY <1>c, <1>d, <1>e, <1>f DEF Apart
  <1>h. /\ q \notin pending_fetches /\ q \notin fetched_ranges
    BY <1>f DEF IInv, FetchedOnce
  <1>i. /\ Scheduled' \subseteq (Scheduled \ {q}) \cup {got, rest}
        /\ Scheduled \ {q} \subseteq Scheduled'
        /\ rest \in Scheduled' => k < q[2] \/ rest \in Scheduled \ {q} \/ rest = got
        /\ k < q[2] => rest \in Scheduled'
        /\ synced < k => got \in Scheduled'
    BY <1>a, <1>f, <1>h DEF Scheduled
  <1>1. TypeOK'
    BY <1>a, <1>b, <1>d, <1>e DEF IInv, TypeOK
  <1>2. NothingLost'
    <2> SUFFICES ASSUME NEW i \in 1 .. highest_scheduled_index, synced < i
                 PROVE  \E r \in Scheduled' : r[1] <= i /\ i <= r[2]
      BY <1>a DEF NothingLost
    <2>1. PICK r \in Scheduled : r[1] <= i /\ i <= r[2]
      BY <1>b DEF IInv, TypeOK, NothingLost
    <2>2. CASE r = q
      BY <2>1, <2>2, <1>b, <1>c, <1>d, <1>e, <1>i
    <2> QED
      BY <2>1, <2>2, <1>i
  <1>3. FetchedOnce'
    <2>1. \A r, s \in Scheduled' : r = s \/ Apart(r, s)
      BY <1>g, <1>i DEF IInv, FetchedOnce
    <2>2. /\ got \notin Scheduled \ {q}
          /\ k < q[2] => rest \notin (Scheduled \ {q}) \cup {got}
      BY <1>g
    <2>3. /\ got \notin pending_fetches /\ got \notin inflight_fetches'
          /\ k < q[2] => /\ rest \notin inflight_fetches'
                         /\ rest \notin fetched_ranges /\ rest # got
      BY <2>2, <1>a, <1>h DEF Scheduled
    <2>4. pending_fetches' \cap inflight_fetches' = {}
      BY <1>a, <2>3 DEF IInv, FetchedOnce
    <2>5. pending_fetches' \cap fetched_ranges' = {}
      BY <1>a, <2>3 DEF IInv, FetchedOnce
    <2>6. inflight_fetches' \cap fetched_ranges' = {}
      BY <1>a, <2>3 DEF IInv, FetchedOnce
    <2> QED
      BY <2>1, <2>4, <2>5, <2>6, <1>a, <1>f DEF FetchedOnce
  <1>4. \A r \in Scheduled' : r[2] <= highest_scheduled_index'
    BY <1>a, <1>c, <1>d, <1>e, <1>f, <1>i DEF IInv, TypeOK
  <1> QED
    BY <1>a, <1>b, <1>f, <1>1, <1>2, <1>3, <1>4 DEF IInv

\* A range that is synced already can be dropped.
LEMMA SkipSyncedInvariant ==
    ASSUME IInv, NEW q \in fetched_ranges, SkipSynced(q)
    PROVE  IInv'
  <1>a. /\ phase = "process" /\ q[2] <= synced_commit_index
        /\ fetched_ranges' = fetched_ranges \ {q}
        /\ UNCHANGED <<quorum_commit_index, last_commit_index, highest_handled, restarts, phase,
              inflight_fetches, pending_fetches, sending, highest_scheduled_index,
              synced_commit_index>>
    BY DEF SkipSynced, nodeVars, indexVars
  <1>b. Scheduled' \subseteq Scheduled /\ Scheduled \ {q} \subseteq Scheduled'
    BY <1>a DEF Scheduled
  <1>c. q[2] \in Nat
    BY RangeFacts DEF IInv, TypeOK
  <1>1. TypeOK'
    BY <1>a DEF IInv, TypeOK
  <1>2. NothingLost'
    <2> SUFFICES ASSUME NEW i \in 1 .. highest_scheduled_index, synced_commit_index < i
                 PROVE  \E r \in Scheduled' : r[1] <= i /\ i <= r[2]
      BY <1>a DEF NothingLost
    <2>1. PICK r \in Scheduled : r[1] <= i /\ i <= r[2]
      BY DEF IInv, NothingLost
    <2> QED
      BY <2>1, <1>a, <1>b, <1>c DEF IInv, TypeOK
  <1>3. FetchedOnce'
    BY <1>a, <1>b DEF IInv, FetchedOnce
  <1> QED
    BY <1>a, <1>b, <1>1, <1>2, <1>3 DEF IInv

\* A range moves from the fetched ones to Core.
LEMMA SendToCoreInvariant ==
    ASSUME IInv, NEW q \in fetched_ranges, SendToCore(q)
    PROVE  IInv'
  <1>a. /\ phase = "process" /\ phase' = "await" /\ q[1] <= synced_commit_index + 1
        /\ fetched_ranges' = fetched_ranges \ {q}
        /\ sending' = {q}
        /\ UNCHANGED <<quorum_commit_index, last_commit_index, highest_handled, restarts,
              inflight_fetches, pending_fetches, highest_scheduled_index, synced_commit_index>>
    BY DEF SendToCore, nodeVars, indexVars
  <1>b. Scheduled' = Scheduled /\ fetched_ranges' \cup sending' = fetched_ranges \cup sending
    BY <1>a DEF Scheduled, IInv
  <1>1. TypeOK'
    BY <1>a DEF IInv, TypeOK
  <1>2. NothingLost'
    BY <1>a, <1>b DEF IInv, NothingLost
  <1>3. FetchedOnce'
    BY <1>a, <1>b DEF IInv, FetchedOnce
  <1> QED
    BY <1>a, <1>b, <1>1, <1>2, <1>3 DEF IInv

\* Core has committed the range: it is synced.
LEMMA AddCertifiedCommitsInvariant ==
    ASSUME IInv, NEW q \in sending, AddCertifiedCommits(q)
    PROVE  IInv'
  <1>a. /\ phase = "await" /\ phase' = "process" /\ sending' = {}
        /\ last_commit_index' = Larger(last_commit_index, q[2])
        /\ synced_commit_index' = Larger(synced_commit_index, q[2])
        /\ UNCHANGED <<quorum_commit_index, highest_handled, restarts, inflight_fetches,
              pending_fetches, fetched_ranges, highest_scheduled_index>>
    BY DEF AddCertifiedCommits
  <1>b. q[1] \in Nat /\ q[2] \in Nat /\ q[1] <= q[2] /\ q[1] <= synced_commit_index + 1
    BY RangeFacts DEF IInv, TypeOK
  <1>c. /\ synced_commit_index' \in Nat /\ last_commit_index' \in Nat
        /\ synced_commit_index' >= synced_commit_index /\ synced_commit_index' >= q[2]
        /\ synced_commit_index' <= last_commit_index'
    BY <1>a, <1>b, LargerFacts DEF IInv, TypeOK, Larger
  <1>d. Scheduled' = Scheduled \ sending /\ sending = {q}
    BY <1>a DEF Scheduled, IInv, FetchedOnce
  <1>1. TypeOK'
    BY <1>a, <1>c DEF IInv, TypeOK
  <1>2. NothingLost'
    <2> SUFFICES ASSUME NEW i \in 1 .. highest_scheduled_index, synced_commit_index' < i
                 PROVE  \E r \in Scheduled' : r[1] <= i /\ i <= r[2]
      BY <1>a DEF NothingLost
    <2>0. synced_commit_index \in Nat /\ highest_scheduled_index \in Nat
      BY DEF IInv, TypeOK
    <2>a. synced_commit_index < i /\ i > q[2]
      BY <1>b, <1>c, <2>0
    <2>1. PICK r \in Scheduled : r[1] <= i /\ i <= r[2]
      BY <2>a DEF IInv, NothingLost
    <2>2. r \notin sending
      BY <2>1, <2>a, <1>b, <1>d
    <2> QED
      BY <2>1, <2>2, <1>d
  <1>3. FetchedOnce'
    BY <1>a, <1>d DEF IInv, FetchedOnce
  <1> QED
    BY <1>a, <1>c, <1>d, <1>1, <1>2, <1>3 DEF IInv

\* A pending range becomes a running fetch.
LEMMA StartFetchInvariant ==
    ASSUME IInv, NEW q \in pending_fetches, StartFetch(q)
    PROVE  IInv'
  <1>a. /\ phase = "start"
        /\ pending_fetches' = pending_fetches \ {q}
        /\ inflight_fetches' = inflight_fetches \cup {q}
        /\ UNCHANGED <<quorum_commit_index, last_commit_index, highest_handled, restarts, phase,
              fetched_ranges, sending, highest_scheduled_index, synced_commit_index>>
    BY DEF StartFetch, nodeVars, indexVars
  <1>b. /\ Scheduled' = Scheduled
        /\ pending_fetches' \cup inflight_fetches' = pending_fetches \cup inflight_fetches
    BY <1>a DEF Scheduled
  <1>1. TypeOK'
    BY <1>a DEF IInv, TypeOK
  <1>2. NothingLost'
    BY <1>a, <1>b DEF IInv, NothingLost
  <1>3. FetchedOnce'
    BY <1>a, <1>b DEF IInv, FetchedOnce
  <1> QED
    BY <1>a, <1>b, <1>1, <1>2, <1>3 DEF IInv

\* Steps that leave the ranges and the syncer's indices alone.
LEMMA OtherStepsInvariant ==
    ASSUME IInv, UNCHANGED <<fetchVars, indexVars>>, last_commit_index' >= last_commit_index,
           phase' # "await" => phase # "await" \/ sending = {}, TypeOK'
    PROVE  IInv'
  <1>a. UNCHANGED <<inflight_fetches, pending_fetches, fetched_ranges, sending,
                    highest_scheduled_index, synced_commit_index, Scheduled>>
    BY DEF fetchVars, indexVars, Scheduled
  <1>1. NothingLost' /\ FetchedOnce'
    BY <1>a DEF IInv, NothingLost, FetchedOnce
  <1> QED
    BY <1>a, <1>1 DEF IInv, TypeOK

\* Every step preserves the invariant.
LEMMA NextInvariant == IInv /\ [Next]_vars => IInv'
  <1> SUFFICES ASSUME IInv, [Next]_vars PROVE IInv'
    OBVIOUS
  <1>1. CASE UNCHANGED vars
    BY <1>1 DEF vars, nodeVars, fetchVars, indexVars, IInv, TypeOK, NothingLost, FetchedOnce,
                Scheduled
  <1>2. CASE ScheduleDone \/ ProcessDone \/ StartFetchesDone
    <2>1. /\ UNCHANGED <<nodeVars, fetchVars, indexVars>> /\ phase # "await"
          /\ phase' \in {"start", "select"}
      BY <1>2 DEF ScheduleDone, ProcessDone, StartFetchesDone
    <2>2. TypeOK' /\ last_commit_index' >= last_commit_index
      BY <2>1 DEF nodeVars, fetchVars, indexVars, IInv, TypeOK
    <2> QED
      BY <2>1, <2>2, OtherStepsInvariant
  <1>3. CASE LocalCommit \/ ObserveVotes \/ HandleCommit
    <2>1. UNCHANGED <<fetchVars, indexVars>> /\ phase' = phase
      BY <1>3 DEF LocalCommit, ObserveVotes, HandleCommit
    <2>2. TypeOK' /\ last_commit_index' >= last_commit_index
      BY <1>3 DEF LocalCommit, ObserveVotes, HandleCommit, fetchVars, indexVars, IInv, TypeOK
    <2>3. phase' # "await" => phase # "await" \/ sending = {}
      BY <2>1
    <2> QED
      BY <2>1, <2>2, <2>3, OtherStepsInvariant
  <1>4. CASE Restart
    <2>1. TypeOK' /\ synced_commit_index' <= last_commit_index' /\ highest_scheduled_index' = 0
      BY <1>4 DEF Restart, IInv, TypeOK
    <2>2. Scheduled' = {} /\ sending' = {} /\ phase' = "select"
      BY <1>4 DEF Restart, Scheduled
    <2>3. NothingLost'
      <3> SUFFICES ASSUME NEW i \in 1 .. highest_scheduled_index'
                   PROVE  FALSE
        BY <2>1 DEF NothingLost, TypeOK
      <3> QED
        BY <2>1 DEF TypeOK
    <2>4. FetchedOnce' /\ fetched_ranges' = {}
      BY <1>4, <2>2 DEF Restart, FetchedOnce
    <2> QED
      BY <2>1, <2>2, <2>3, <2>4 DEF IInv
  <1>5. CASE Sync
    <2>1. ASSUME NEW r \in inflight_fetches, NEW k \in r[1] .. r[2], FetchReturns(r, k) PROVE IInv'
      BY <2>1, FetchReturnsInvariant
    <2> QED
      BY <1>2, <1>5, <2>1, TryScheduleOnceInvariant, ScheduleBatchInvariant, SkipSyncedInvariant,
         SendToCoreInvariant, AddCertifiedCommitsInvariant, StartFetchInvariant DEF Sync
  <1> QED
    BY <1>1, <1>3, <1>4, <1>5 DEF Next

\* IInv holds in every reachable state of the commit syncer.
THEOREM Invariance == Spec => []IInv
  BY InitInvariant, NextInvariant, PTL DEF Spec

\* The state keeps its types; in particular no range is ever empty.
THEOREM TypeCorrect == Spec => []TypeOK
  <1>1. IInv => TypeOK
    BY DEF IInv
  <1> QED
    BY <1>1, Invariance, PTL

\* Core is never handed commits with a gap to its own, so the expect in
\* add_certified_commits cannot fail.
THEOREM NoGaps == Spec => []NoGapToCore
  <1>1. IInv => NoGapToCore
    BY RangeFacts DEF IInv, TypeOK, NoGapToCore
  <1> QED
    BY <1>1, Invariance, PTL

\* No scheduled commit is forgotten before it is synced.
THEOREM NoCommitLost == Spec => []NothingLost
  <1>1. IInv => NothingLost
    BY DEF IInv
  <1> QED
    BY <1>1, Invariance, PTL

\* No commit is scheduled twice.
THEOREM NoCommitTwice == Spec => []FetchedOnce
  <1>1. IInv => FetchedOnce
    BY DEF IInv
  <1> QED
    BY <1>1, Invariance, PTL
=============================================================================
