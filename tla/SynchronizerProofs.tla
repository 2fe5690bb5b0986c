------------------------- MODULE SynchronizerProofs -------------------------
(***************************************************************************)
(* The locks of the synchronizer are exact and bounded, its tasks keep to  *)
(* their limits, and a periodic sync leaves nothing behind, for any number *)
(* of peers and blocks and any behaviour of the peers.                     *)
(***************************************************************************)
EXTENDS Synchronizer, FunctionTheorems, FiniteSetTheorems, NaturalsInduction,
        WellFoundedInduction, TLAPS

\* A guard is a record of these fields.
IsGuard(g) ==
    g = [peer |-> g.peer, refs |-> g.refs, stage |-> g.stage,
         retries |-> g.retries, after |-> g.after, blocks |-> g.blocks]

\* The entries of the map are finite and within the bound.
EntriesSmall ==
    \A b \in Blocks : /\ IsFiniteSet(inflight[b])
                      /\ Cardinality(inflight[b]) <= MAX_AUTHORITIES_TO_FETCH_PER_BLOCK

LInv == (\A g \in guards : IsGuard(g)) /\ LocksExact /\ EntriesSmall

-----------------------------------------------------------------------------
\* What a step that updates a guard leaves alone.
LEMMA AskedGuard ==
    ASSUME NEW g, IsGuard(g), NEW a
    PROVE  /\ IsGuard(Asked(g, a))
           /\ Asked(g, a).peer = g.peer /\ Asked(g, a).refs = g.refs
           /\ Asked(g, a).stage = "live"
  <1>1. PICK p, r, t, m, b, B :
           g = [peer |-> p, refs |-> r, stage |-> t, retries |-> m, after |-> b, blocks |-> B]
    BY Zenon DEF IsGuard
  <1> DEFINE k == [g EXCEPT !.stage = "live"]
  <1>2. k = [peer |-> p, refs |-> r, stage |-> "live", retries |-> m, after |-> b, blocks |-> B]
    BY <1>1
  <1> HIDE DEF k
  <1>3. [k EXCEPT !.after = a]
           = [peer |-> p, refs |-> r, stage |-> "live", retries |-> m, after |-> a, blocks |-> B]
    BY <1>2
  <1>4. Asked(g, a)
           = [peer |-> p, refs |-> r, stage |-> "live", retries |-> m, after |-> a, blocks |-> B]
    BY <1>3, Zenon DEF k, Asked
  <1> QED
    BY <1>1, <1>4 DEF IsGuard

\* The answer in hand.
LEMMA AnsweredGuard ==
    ASSUME NEW g, IsGuard(g), NEW s, NEW S
    PROVE  /\ IsGuard(Answered(g, s, S))
           /\ Answered(g, s, S).peer = g.peer /\ Answered(g, s, S).refs = g.refs
           /\ Answered(g, s, S).stage = s
  <1>1. PICK p, r, t, m, b, B :
           g = [peer |-> p, refs |-> r, stage |-> t, retries |-> m, after |-> b, blocks |-> B]
    BY Zenon DEF IsGuard
  <1> DEFINE k == [g EXCEPT !.stage = s]
  <1>2. k = [peer |-> p, refs |-> r, stage |-> s, retries |-> m, after |-> b, blocks |-> B]
    BY <1>1
  <1> HIDE DEF k
  <1>3. [k EXCEPT !.blocks = S]
           = [peer |-> p, refs |-> r, stage |-> s, retries |-> m, after |-> b, blocks |-> S]
    BY <1>2
  <1>4. Answered(g, s, S)
           = [peer |-> p, refs |-> r, stage |-> s, retries |-> m, after |-> b, blocks |-> S]
    BY <1>3, Zenon DEF k, Answered
  <1> QED
    BY <1>1, <1>4 DEF IsGuard

\* One more try of a request.
LEMMA RetriedGuard ==
    ASSUME NEW g, IsGuard(g), NEW n
    PROVE  /\ IsGuard([g EXCEPT !.retries = n])
           /\ [g EXCEPT !.retries = n].peer = g.peer
           /\ [g EXCEPT !.retries = n].refs = g.refs
           /\ [g EXCEPT !.retries = n].stage = g.stage
  BY DEF IsGuard

-----------------------------------------------------------------------------
\* The three ways a step changes the guards.

\* A guard over what could be locked for a peer: lock_blocks.
LEMMA LockKeepsLInv ==
    ASSUME LInv, NEW p, NEW refs, NEW g,
           IsGuard(g), g.peer = p, g.refs = Lockable(refs, p),
           \A b \in Blocks : inflight'[b] = IF b \in g.refs THEN inflight[b] \cup {p}
                                            ELSE inflight[b],
           guards' = guards \cup {g}
    PROVE  LInv'
  <1>2. \A b \in Blocks :
           inflight'[b] = IF b \in g.refs THEN inflight[b] \cup {p} ELSE inflight[b]
    OBVIOUS
  <1>3. \A b \in Blocks : b \in g.refs =>
           /\ p \notin inflight[b]
           /\ Cardinality(inflight[b]) < MAX_AUTHORITIES_TO_FETCH_PER_BLOCK
    BY Zenon DEF Lockable
  <1>4. (\A h \in guards : IsGuard(h))'
    BY Zenon DEF LInv, IsGuard
  <1>5. \A b \in Blocks :
           inflight'[b] = {h.peer : h \in {k \in guards' : b \in k.refs}}
    <2> TAKE b \in Blocks
    <2>1. inflight[b] = {h.peer : h \in {k \in guards : b \in k.refs}}
      BY Zenon DEF LInv, LocksExact
    <2>2. CASE b \in g.refs
      BY Zenon, <2>1, <2>2, <1>2
    <2>3. CASE b \notin g.refs
      BY Zenon, <2>1, <2>3, <1>2
    <2> QED
      BY Zenon, <2>2, <2>3
  <1>6. \A b \in Blocks : \A h, k \in guards' :
           b \in h.refs /\ b \in k.refs /\ h.peer = k.peer => h = k
    <2> SUFFICES ASSUME NEW b \in Blocks, NEW h \in guards', NEW k \in guards',
                        b \in h.refs, b \in k.refs, h.peer = k.peer
                 PROVE  h = k
      OBVIOUS
    <2>1. \A m \in guards : b \in m.refs => m.peer \in inflight[b]
      BY DEF LInv, LocksExact
    <2>2. \A m \in guards : b \in m.refs /\ b \in g.refs => m.peer # p
      BY Zenon, <2>1, <1>3
    <2> QED
      BY Zenon, <2>2 DEF LInv, LocksExact
  <1>7. EntriesSmall'
    <2> SUFFICES ASSUME NEW b \in Blocks
                 PROVE  /\ IsFiniteSet(inflight'[b])
                        /\ Cardinality(inflight'[b]) <= MAX_AUTHORITIES_TO_FETCH_PER_BLOCK
      BY Zenon DEF EntriesSmall
    <2>1. /\ IsFiniteSet(inflight[b])
          /\ Cardinality(inflight[b]) <= MAX_AUTHORITIES_TO_FETCH_PER_BLOCK
      BY Zenon DEF LInv, EntriesSmall
    <2>2. CASE b \notin g.refs
      BY Zenon, <2>1, <2>2, <1>2
    <2>3. CASE b \in g.refs
      <3>1. inflight'[b] = inflight[b] \cup {p}
        BY Zenon, <2>3, <1>2
      <3>2. /\ IsFiniteSet(inflight[b] \cup {p})
            /\ Cardinality(inflight[b] \cup {p}) = Cardinality(inflight[b]) + 1
        BY Zenon, <2>1, <2>3, <1>3, FS_AddElement
      <3>3. Cardinality(inflight[b]) \in Nat
        BY Zenon, <2>1, FS_CardinalityType
      <3>4. MAX_AUTHORITIES_TO_FETCH_PER_BLOCK \in Nat
        BY Zenon, SynchronizerAssumption
      <3> QED
        BY <3>1, <3>2, <3>3, <3>4, <2>3, <1>3
    <2> QED
      BY Zenon, <2>2, <2>3
  <1> QED
    BY Zenon, <1>4, <1>5, <1>6, <1>7 DEF LInv, LocksExact

\* Guards that are dropped: unlock_blocks of each.
LEMMA DropKeepsLInv ==
    ASSUME LInv, NEW G \in SUBSET guards,
           inflight' = Unlocked(G), guards' = guards \ G
    PROVE  LInv'
  <1>1. \A b \in Blocks :
           inflight'[b] = inflight[b] \ {g.peer : g \in {h \in G : b \in h.refs}}
    BY Zenon DEF Unlocked
  <1>2. (\A h \in guards : IsGuard(h))'
    BY Zenon DEF LInv, IsGuard
  <1>3. \A b \in Blocks :
           inflight'[b] = {h.peer : h \in {k \in guards' : b \in k.refs}}
    <2> TAKE b \in Blocks
    <2>1. inflight[b] = {h.peer : h \in {k \in guards : b \in k.refs}}
      BY Zenon DEF LInv, LocksExact
    <2>2. \A g, h \in guards : b \in g.refs /\ b \in h.refs /\ g.peer = h.peer => g = h
      BY Zenon DEF LInv, LocksExact
    <2> QED
      BY <1>1, <2>1, <2>2
  <1>4. \A b \in Blocks : \A h, k \in guards' :
           b \in h.refs /\ b \in k.refs /\ h.peer = k.peer => h = k
    BY Zenon DEF LInv, LocksExact
  <1>5. EntriesSmall'
    <2> SUFFICES ASSUME NEW b \in Blocks
                 PROVE  /\ IsFiniteSet(inflight'[b])
                        /\ Cardinality(inflight'[b]) <= MAX_AUTHORITIES_TO_FETCH_PER_BLOCK
      BY Zenon DEF EntriesSmall
    <2>1. /\ IsFiniteSet(inflight[b])
          /\ Cardinality(inflight[b]) <= MAX_AUTHORITIES_TO_FETCH_PER_BLOCK
      BY Zenon DEF LInv, EntriesSmall
    <2>2. inflight'[b] \in SUBSET inflight[b]
      BY Zenon, <1>1
    <2>3. IsFiniteSet(inflight'[b]) /\ Cardinality(inflight'[b]) <= Cardinality(inflight[b])
      BY Zenon, <2>1, <2>2, FS_Subset
    <2>4. Cardinality(inflight[b]) \in Nat /\ Cardinality(inflight'[b]) \in Nat
      BY Zenon, <2>1, <2>3, FS_CardinalityType
    <2>5. MAX_AUTHORITIES_TO_FETCH_PER_BLOCK \in Nat
      BY Zenon, SynchronizerAssumption
    <2> QED
      BY <2>1, <2>3, <2>4, <2>5
  <1> QED
    BY Zenon, <1>2, <1>3, <1>4, <1>5 DEF LInv, LocksExact

\* A guard that moves on to its next stage.
LEMMA ReplaceKeepsLInv ==
    ASSUME LInv, NEW g \in guards, NEW h, IsGuard(h),
           h.peer = g.peer, h.refs = g.refs,
           inflight' = inflight, guards' = Replace(g, h)
    PROVE  LInv'
  <1>1. (\A k \in guards : IsGuard(k))'
    BY Zenon DEF LInv, IsGuard, Replace
  <1>2. \A b \in Blocks :
           inflight'[b] = {k.peer : k \in {m \in guards' : b \in m.refs}}
    <2> TAKE b \in Blocks
    <2>1. inflight[b] = {k.peer : k \in {m \in guards : b \in m.refs}}
      BY Zenon DEF LInv, LocksExact
    <2> QED
      BY Zenon, <2>1 DEF Replace
  <1>3. \A b \in Blocks : \A m, k \in guards' :
           b \in m.refs /\ b \in k.refs /\ m.peer = k.peer => m = k
    <2> TAKE b \in Blocks
    <2>1. \A m, k \in guards : b \in m.refs /\ b \in k.refs /\ m.peer = k.peer => m = k
      BY Zenon DEF LInv, LocksExact
    <2> QED
      BY <2>1 DEF Replace
  <1>4. EntriesSmall'
    BY Zenon DEF LInv, EntriesSmall
  <1> QED
    BY Zenon, <1>1, <1>2, <1>3, <1>4 DEF LInv, LocksExact

\* A step that leaves the locks and the guards alone.
LEMMA SameKeepsLInv ==
    ASSUME LInv, guards' = guards, \A b \in Blocks : inflight'[b] = inflight[b]
    PROVE  LInv'
  BY Zenon DEF LInv, LocksExact, EntriesSmall, IsGuard

\* The entries after lock_blocks.
LEMMA LockedEntries ==
    ASSUME NEW refs, NEW p, NEW b \in Blocks
    PROVE  Locked(Lockable(refs, p), p)[b] =
              IF b \in Lockable(refs, p) THEN inflight[b] \cup {p} ELSE inflight[b]
  BY Zenon DEF Locked, Lockable

\* The steps of the scheduler task that lock for a peer.
LEMMA LockAndRequestKeepsLInv ==
    ASSUME LInv, NEW b, LockAndRequest(b)
    PROVE  LInv'
  <1> DEFINE refs == Lockable(b.refs, b.peer)
  <1>1. inflight' = Locked(refs, b.peer)
    BY Zenon DEF LockAndRequest
  <1>2. \A c \in Blocks : inflight'[c] = IF c \in refs THEN inflight[c] \cup {b.peer}
                                        ELSE inflight[c]
    BY Zenon, <1>1, LockedEntries
  <1>3. CASE refs = {}
    <2>1. guards' = guards
      BY Zenon, <1>3 DEF LockAndRequest
    <2> QED
      BY Zenon, <1>2, <1>3, <2>1, SameKeepsLInv
  <1>4. CASE refs # {}
    <2> DEFINE g == NewGuard(b.peer, refs, "periodic", b.after)
    <2>1. guards' = guards \cup {g}
      BY Zenon, <1>4 DEF LockAndRequest
    <2>2. IsGuard(g) /\ g.peer = b.peer /\ g.refs = Lockable(b.refs, b.peer)
      BY Zenon DEF NewGuard, IsGuard
    <2> HIDE DEF g
    <2> QED
      BY <1>2, <2>1, <2>2, LockKeepsLInv
  <1> QED
    BY Zenon, <1>3, <1>4

-----------------------------------------------------------------------------
LEMMA InitLInv == Init => LInv
  <1> SUFFICES ASSUME Init PROVE LInv
    OBVIOUS
  <1>1. \A b \in Blocks : inflight[b] = {}
    BY Zenon DEF Init
  <1>2. guards = {}
    BY Zenon DEF Init
  <1>3. MAX_AUTHORITIES_TO_FETCH_PER_BLOCK \in Nat
    BY Zenon, SynchronizerAssumption
  <1>4. EntriesSmall
    BY <1>1, <1>3, FS_EmptySet DEF EntriesSmall
  <1> QED
    BY Zenon, <1>1, <1>2, <1>4 DEF LInv, LocksExact

LEMMA NextLInv == LInv /\ [Next]_vars => LInv'
  <1> SUFFICES ASSUME LInv, [Next]_vars PROVE LInv'
    OBVIOUS
  <1>0. \A g \in guards : IsGuard(g)
    BY Zenon DEF LInv
  <1>1. ASSUME NEW b \in SentBlocks, ReceiveBlock(b) PROVE LInv'
    BY Zenon, <1>1, SameKeepsLInv DEF ReceiveBlock
  <1>2. ASSUME NEW c \in commands, FetchBlocks(c) PROVE LInv'
    <2> DEFINE first == FirstBlocks(c.refs, MaxBlocksPerSync)
               refs == Lockable(first, c.peer)
               g == NewGuard(c.peer, refs, "queued", [a \in Authorities |-> 0])
    <2>1. CASE UNCHANGED <<inflight, guards>>
      BY Zenon, <2>1, SameKeepsLInv
    <2>2. CASE inflight' = Locked(refs, c.peer) /\ guards' = guards \cup {g}
      <3>1. IsGuard(g) /\ g.peer = c.peer /\ g.refs = Lockable(first, c.peer)
        BY Zenon DEF NewGuard, IsGuard
      <3>2. \A b \in Blocks : inflight'[b] = IF b \in refs THEN inflight[b] \cup {c.peer}
                                            ELSE inflight[b]
        BY <2>2, LockedEntries
      <3> HIDE DEF g, first
      <3> QED
        BY <2>2, <3>1, <3>2, LockKeepsLInv
    <2> QED
      BY Zenon, <1>2, <2>1, <2>2 DEF FetchBlocks
  <1>3. ASSUME NEW g \in guards, StartRequest(g) PROVE LInv'
    <2> DEFINE h == Asked(g, FetchAfterRounds)
    <2>1. IsGuard(h) /\ h.peer = g.peer /\ h.refs = g.refs
      <3>1. IsGuard(g)
        BY Zenon, <1>0
      <3> QED
        BY Zenon, <3>1, AskedGuard, AnsweredGuard
    <2>2. guards' = Replace(g, h) /\ inflight' = inflight
      BY Zenon, <1>3 DEF StartRequest
    <2> HIDE DEF h
    <2> QED
      BY Zenon, <2>1, <2>2, ReplaceKeepsLInv
  <1>4. ASSUME NEW g \in guards, LiveAnswer(g) PROVE LInv'
    <2>1. PICK S : guards' = Replace(g, Answered(g, "live_processing", S))
      BY Zenon, <1>4 DEF LiveAnswer
    <2> DEFINE h == Answered(g, "live_processing", S)
    <2>2. IsGuard(h) /\ h.peer = g.peer /\ h.refs = g.refs
      <3>1. IsGuard(g)
        BY Zenon, <1>0
      <3> QED
        BY <3>1, AskedGuard, AnsweredGuard
    <2>3. guards' = Replace(g, h) /\ inflight' = inflight
      BY Zenon, <1>4, <2>1 DEF LiveAnswer
    <2> HIDE DEF h
    <2> QED
      BY Zenon, <2>2, <2>3, ReplaceKeepsLInv
  <1>5. ASSUME NEW g \in guards, LiveFailure(g) PROVE LInv'
    <2>1. CASE guards' = guards \ {g} /\ inflight' = Unlocked({g})
      <3>1. {g} \in SUBSET guards
        OBVIOUS
      <3> QED
        BY Zenon, <2>1, <3>1, DropKeepsLInv
    <2>2. CASE guards' = Replace(g, [g EXCEPT !.retries = @ + 1]) /\ inflight' = inflight
      <3> DEFINE h == [g EXCEPT !.retries = @ + 1]
      <3>1. IsGuard(h) /\ h.peer = g.peer /\ h.refs = g.refs
        BY Zenon, <1>0, RetriedGuard
      <3> HIDE DEF h
      <3> QED
        BY Zenon, <2>2, <3>1, ReplaceKeepsLInv DEF h
    <2> QED
      BY Zenon, <1>5, <2>1, <2>2 DEF LiveFailure
  <1>6. ASSUME NEW g \in guards, ProcessFetchedBlocks(g) PROVE LInv'
    <2>1. {g} \in SUBSET guards /\ guards' = guards \ {g} /\ inflight' = Unlocked({g})
      BY Zenon, <1>6 DEF ProcessFetchedBlocks
    <2> QED
      BY Zenon, <2>1, DropKeepsLInv
  <1>7. ASSUME NEW p \in Peers, PeriodicAfterRounds(p) PROVE LInv'
    <2> DEFINE g == NewGuard(p, {}, "periodic", FetchAfterRounds)
    <2>1. IsGuard(g) /\ g.peer = p /\ g.refs = {}
      BY Zenon DEF NewGuard, IsGuard
    <2>2. guards' = guards \cup {g} /\ inflight' = inflight
      BY Zenon, <1>7 DEF PeriodicAfterRounds
    <2>3. Lockable({}, p) = {}
      BY Zenon DEF Lockable
    <2> HIDE DEF g
    <2>4. \A b \in Blocks : inflight'[b] = IF b \in g.refs THEN inflight[b] \cup {p}
                                          ELSE inflight[b]
      BY Zenon, <2>1, <2>2
    <2> QED
      BY Zenon, <2>1, <2>2, <2>3, <2>4, LockKeepsLInv
  <1>8. ASSUME PeriodicSend PROVE LInv'
    BY Zenon, <1>8, LockAndRequestKeepsLInv DEF PeriodicSend
  <1>9. ASSUME NEW s \in swapping, SwapLocks(s) PROVE LInv'
    BY Zenon, <1>9, LockAndRequestKeepsLInv DEF SwapLocks
  <1>10. ASSUME NEW g \in guards, PeriodicAnswer(g) PROVE LInv'
    <2>1. PICK S : guards' = Replace(g, Answered(g, "result", S))
      BY Zenon, <1>10 DEF PeriodicAnswer
    <2> DEFINE h == Answered(g, "result", S)
    <2>2. IsGuard(h) /\ h.peer = g.peer /\ h.refs = g.refs
      <3>1. IsGuard(g)
        BY Zenon, <1>0
      <3> QED
        BY <3>1, AskedGuard, AnsweredGuard
    <2>3. guards' = Replace(g, h) /\ inflight' = inflight
      BY Zenon, <1>10, <2>1 DEF PeriodicAnswer
    <2> HIDE DEF h
    <2> QED
      BY Zenon, <2>2, <2>3, ReplaceKeepsLInv
  <1>11. ASSUME NEW g \in guards, PeriodicFailure(g) PROVE LInv'
    <2>1. {g} \in SUBSET guards /\ guards' = guards \ {g} /\ inflight' = Unlocked({g})
      BY Zenon, <1>11 DEF PeriodicFailure
    <2> QED
      BY Zenon, <2>1, DropKeepsLInv
  <1>12. ASSUME PeriodicGathered PROVE LInv'
    <2> DEFINE open == {g \in guards : g.stage = "periodic"}
    <2>1. open \in SUBSET guards /\ guards' = guards \ open /\ inflight' = Unlocked(open)
      BY Zenon, <1>12 DEF PeriodicGathered
    <2> HIDE DEF open
    <2> QED
      BY Zenon, <2>1, DropKeepsLInv
  <1>13. ASSUME UNCHANGED <<inflight, guards>> PROVE LInv'
    BY Zenon, <1>13, SameKeepsLInv
  <1> QED
    BY Zenon, <1>1, <1>2, <1>3, <1>4, <1>5, <1>6, <1>7, <1>8, <1>9, <1>10, <1>11,
       <1>12, <1>13
       DEF Next, vars, ProcessLive, ProcessPeriodic, PeriodicSkipped, PeriodicNothing,
           PeriodicMissing, PeriodicEnd, CommitAdvances, QuorumAdvances, CommitStalls

-----------------------------------------------------------------------------
\* Numbers, finite sets and the operators on blocks.

\* Natural numbers are well-founded.
LEMMA LeastNatural ==
    ASSUME NEW S \in SUBSET Nat, S # {}
    PROVE  \E m \in S : \A n \in S : m <= n
  <1> DEFINE R == OpToRel(<, Nat)
  <1>1. IsWellFoundedOn(R, Nat)
    BY Zenon, NatLessThanWellFounded
  <1>2. \A x, y \in Nat : <<x, y>> \in R <=> x < y
    BY Zenon DEF OpToRel
  <1> HIDE DEF R
  <1>3. PICK m \in S : \A n \in S : ~ (<<n, m>> \in R)
    BY Zenon, <1>1, WFMin
  <1>4. \A n \in S : ~(n < m)
    BY <1>2, <1>3, Zenon
  <1>5. \A n \in S : m <= n
    BY <1>4
  <1> QED
    BY Zenon, <1>3, <1>5

\* A finite set of numbers has a greatest one.
LEMMA GreatestNatural ==
    ASSUME NEW S \in SUBSET Nat, IsFiniteSet(S), S # {}
    PROVE  \E m \in S : \A n \in S : n <= m
  <1> DEFINE NoMax(T) == T # {} /\ ~(\E m \in T : \A n \in T : n <= m)
             C == {Cardinality(T) : T \in {U \in SUBSET S : NoMax(U)}}
  <1> SUFFICES ASSUME NoMax(S) PROVE FALSE
    OBVIOUS
  <1>1. \A T \in SUBSET S : IsFiniteSet(T) /\ Cardinality(T) \in Nat
    BY Zenon, FS_Subset, FS_CardinalityType
  <1>2. S \in {U \in SUBSET S : NoMax(U)}
    OBVIOUS
  <1>3. C \in SUBSET Nat /\ C # {}
    BY Zenon, <1>1, <1>2
  <1>4. PICK c \in C : \A d \in C : c <= d
    BY Zenon, <1>3, LeastNatural
  <1>5. PICK T \in SUBSET S : NoMax(T) /\ c = Cardinality(T)
    BY Zenon, <1>4
  <1>6. PICK x \in T : TRUE
    BY Zenon, <1>5
  <1>7. Cardinality(T \ {x}) = Cardinality(T) - 1
    BY Zenon, <1>1, <1>5, <1>6, FS_RemoveElement
  <1>8. ~NoMax(T \ {x})
    <2> SUFFICES ASSUME NoMax(T \ {x}) PROVE FALSE
      OBVIOUS
    <2>1. Cardinality(T \ {x}) \in C
      OBVIOUS
    <2>2. Cardinality(T) <= Cardinality(T \ {x})
      BY Zenon, <2>1, <1>4, <1>5
    <2>3. Cardinality(T) \in Nat
      BY Zenon, <1>1
    <2> QED
      BY <2>2, <2>3, <1>7
  <1>9. CASE T \ {x} = {}
    BY <1>5, <1>6, <1>9
  <1>10. CASE T \ {x} # {}
    <2>1. PICK m \in T \ {x} : \A n \in T \ {x} : n <= m
      BY Zenon, <1>8, <1>10
    <2>2. m \in Nat /\ x \in Nat
      BY Zenon, <1>6, <2>1
    <2>3. CASE m <= x
      <3>1. \A n \in T : n <= x
        BY <2>1, <2>2, <2>3
      <3> QED
        BY Zenon, <3>1, <1>5, <1>6
    <2>4. CASE x <= m
      <3>1. \A n \in T : n <= m
        BY Zenon, <2>1, <2>2, <2>4
      <3> QED
        BY Zenon, <3>1, <2>1, <1>5
    <2> QED
      BY <2>2, <2>3, <2>4
  <1> QED
    BY Zenon, <1>9, <1>10

\* The rounds of a set of blocks.
LEMMA FiniteRounds ==
    ASSUME NEW S \in SUBSET Blocks
    PROVE  /\ IsFiniteSet(S) /\ IsFiniteSet({Round[b] : b \in S})
           /\ {Round[b] : b \in S} \in SUBSET Nat
  <1>1. IsFiniteSet(S)
    BY Zenon, BlockSyncAssumption, FS_Subset
  <1> DEFINE R == {Round[b] : b \in S}
             f == [b \in S |-> Round[b]]
  <1>2. f \in Surjection(S, R)
    BY Zenon DEF Surjection
  <1>3. \A b \in S : Round[b] \in Nat
    BY Zenon, BlockSyncAssumption
  <1> HIDE DEF f
  <1>4. IsFiniteSet(R)
    BY Zenon, <1>1, <1>2, FS_Surjection
  <1> QED
    BY Zenon, <1>1, <1>3, <1>4

\* A set of rounds and one more has a greatest element.
LEMMA GreatestRound ==
    ASSUME NEW S \in SUBSET Blocks, NEW r \in Nat
    PROVE  LET rounds == {r} \cup {Round[b] : b \in S}
               m == CHOOSE x \in rounds : \A s \in rounds : s <= x
           IN  m \in rounds /\ (\A s \in rounds : s <= m) /\ m \in Nat
  <1> DEFINE R == {Round[b] : b \in S}
             T == R \cup {r}
             rounds == {r} \cup {Round[b] : b \in S}
  <1>1. IsFiniteSet(R) /\ R \in SUBSET Nat
    BY Zenon, FiniteRounds
  <1>2. IsFiniteSet(T)
    BY Zenon, <1>1, FS_AddElement
  <1>3. T = rounds /\ rounds \in SUBSET Nat /\ rounds # {}
    BY Zenon, <1>1
  <1> HIDE DEF T, rounds, R
  <1>4. \E x \in rounds : \A s \in rounds : s <= x
    BY Zenon, <1>2, <1>3, GreatestNatural
  <1> QED
    BY Zenon, <1>3, <1>4 DEF rounds

\* LastRound is a round.
LEMMA LastRoundType ==
    ASSUME NEW S \in SUBSET Blocks, NEW a
    PROVE  LastRound(S, a) \in Nat
  <1> DEFINE A == {c \in S : Author[c] = a}
  <1>1. A \in SUBSET Blocks
    OBVIOUS
  <1> HIDE DEF A
  <1>2. (CHOOSE x \in {0} \cup {Round[b] : b \in A} :
            \A s \in {0} \cup {Round[b] : b \in A} : s <= x) \in Nat
    BY Zenon, <1>1, GreatestRound
  <1> QED
    BY <1>2, Zenon DEF LastRound, A

LEMMA FetchAfterType ==
    ASSUME received \in SUBSET Blocks
    PROVE  FetchAfterRounds \in Rounds
  BY Zenon, LastRoundType DEF FetchAfterRounds, Accepted, Rounds

\* R is a strict total order of S.
StrictlyOrders(R, S) ==
    /\ \A x \in S : <<x, x>> \notin R
    /\ \A x, y, z \in S : <<x, y>> \in R /\ <<y, z>> \in R => <<x, z>> \in R
    /\ \A x, y \in S : x # y => <<x, y>> \in R \/ <<y, x>> \in R

\* In a finite set with a strict total order every rank is taken.
LEMMA RanksTaken ==
    ASSUME NEW S, IsFiniteSet(S), NEW R, StrictlyOrders(R, S),
           NEW i \in Nat, i < Cardinality(S)
    PROVE  \E b \in S : Cardinality({c \in S : <<c, b>> \in R}) = i
  <1>0. /\ \A x \in S : <<x, x>> \notin R
        /\ \A x, y, z \in S : <<x, y>> \in R /\ <<y, z>> \in R => <<x, z>> \in R
        /\ \A x, y \in S : x # y => <<x, y>> \in R \/ <<y, x>> \in R
    BY Zenon DEF StrictlyOrders
  <1> DEFINE Below(b) == {c \in S : <<c, b>> \in R}
             n == Cardinality(S)
             f == [b \in S |-> Cardinality(Below(b))]
             I == 0 .. (n - 1)
  <1>1. n \in Nat /\ 1 <= n
    BY FS_CardinalityType
  <1>2. ASSUME NEW b \in S
        PROVE  IsFiniteSet(Below(b)) /\ Cardinality(Below(b)) \in Nat /\ Cardinality(Below(b)) < n
    <2>1. Below(b) \in SUBSET S /\ Below(b) # S
      BY Zenon, <1>0
    <2> HIDE DEF Below
    <2>2. /\ IsFiniteSet(Below(b)) /\ Cardinality(Below(b)) <= n
          /\ Cardinality(Below(b)) # n
      BY Zenon, <2>1, FS_Subset
    <2>3. Cardinality(Below(b)) \in Nat
      BY Zenon, <2>2, FS_CardinalityType
    <2> QED
      BY <2>2, <2>3, <1>1
  <1>3. ASSUME NEW b \in S, NEW c \in S, <<b, c>> \in R
        PROVE  Cardinality(Below(b)) # Cardinality(Below(c))
    <2>1. Below(b) \in SUBSET Below(c) /\ b \in Below(c) /\ b \notin Below(b)
      BY Zenon, <1>0, <1>3
    <2>2. Below(b) # Below(c)
      BY Zenon, <2>1
    <2>3. IsFiniteSet(Below(c))
      BY Zenon, <1>2
    <2> HIDE DEF Below
    <2> QED
      BY Zenon, <2>1, <2>2, <2>3, FS_Subset
  <1>4. f \in Injection(S, I)
    <2>1. f \in [S -> I]
      <3> HIDE DEF Below
      <3>1. \A b \in S : Cardinality(Below(b)) \in Nat /\ Cardinality(Below(b)) < n
        BY <1>2, Zenon
      <3> HIDE DEF n
      <3>2. \A b \in S : Cardinality(Below(b)) \in I
        BY <3>1, <1>1
      <3> QED
        BY Zenon, <3>2
    <2>2. ASSUME NEW b \in S, NEW c \in S, b # c
          PROVE  Cardinality(Below(b)) # Cardinality(Below(c))
      <3>1. CASE <<b, c>> \in R
        BY Zenon, <3>1, <1>3
      <3>2. CASE <<c, b>> \in R
        <4>1. Cardinality(Below(c)) # Cardinality(Below(b))
          BY Zenon, <3>2, <1>3
        <4> QED
          BY Zenon, <4>1
      <3> QED
        BY Zenon, <1>0, <2>2, <3>1, <3>2
    <2>3. \A b \in S : f[b] = Cardinality(Below(b))
      OBVIOUS
    <2> HIDE DEF f, Below
    <2>4. \A b, c \in S : f[b] = f[c] => b = c
      BY <2>2, <2>3, Zenon
    <2> QED
      BY Zenon, <2>1, <2>4 DEF Injection, IsInjective
  <1>5. IsFiniteSet(I) /\ Cardinality(I) = n
    <2> HIDE DEF n
    <2>1. 0 \in Int /\ n - 1 \in Int /\ ~(0 > n - 1) /\ (n - 1) - 0 + 1 = n
      BY <1>1
    <2> QED
      BY Zenon, <2>1, FS_Interval
  <1> HIDE DEF f, I
  <1>6. f \in Surjection(S, I)
    BY Zenon, <1>4, <1>5, FS_Injection
  <1>7. i \in I
    BY <1>1 DEF I
  <1>8. PICK b \in S : f[b] = i
    BY Zenon, <1>6, <1>7 DEF Surjection
  <1>9. f[b] = Cardinality({c \in S : <<c, b>> \in R})
    BY Zenon DEF f
  <1> QED
    BY Zenon, <1>8, <1>9

\* Where the scan of an author stands when it comes to a block: above the
\* author's blocks before it and not above the block.
LEMMA ScanStartFacts ==
    ASSUME NEW S \in SUBSET Blocks, NEW after \in Rounds, NEW b \in S,
           after[Author[b]] < Round[b]
    PROVE  /\ ScanStart(S, after, b) \in Nat
           /\ \/ ScanStart(S, after, b) <= Round[b]
              \/ \E c \in S : c < b /\ Author[c] = Author[b] /\ Round[c] >= Round[b]
           /\ \A c \in S : Author[c] = Author[b] /\ c < b => Round[c] < ScanStart(S, after, b)
  <1> DEFINE A == {d \in S : Author[d] = Author[b] /\ d < b}
             rounds == {after[Author[b]]} \cup {Round[c] : c \in A}
             m == CHOOSE x \in rounds : \A s \in rounds : s <= x
  <1>0. after[Author[b]] \in Nat /\ \A c \in Blocks : Round[c] \in Nat
    BY Zenon, BlockSyncAssumption DEF Rounds
  <1>1. A \in SUBSET Blocks
    OBVIOUS
  <1>2. m \in rounds /\ (\A s \in rounds : s <= m) /\ m \in Nat
    <2> HIDE DEF A
    <2> QED
      BY Zenon, <1>0, <1>1, GreatestRound
  <1>3. ScanStart(S, after, b) = m + 1
    BY Zenon DEF ScanStart
  <1> HIDE DEF m
  <1>4. \A c \in A : Round[c] <= m
    BY Zenon, <1>2
  <1>5. m = after[Author[b]] \/ \E c \in A : m = Round[c]
    BY Zenon, <1>2
  <1>6. \A c \in A : Round[c] < m + 1
    BY <1>0, <1>1, <1>2, <1>4
  <1>7. m + 1 <= Round[b] \/ \E c \in A : Round[c] >= Round[b]
    BY <1>0, <1>1, <1>2, <1>5
  <1> QED
    BY <1>2, <1>3, <1>6, <1>7

\* The heap pops the blocks of a scan in a strict total order: the blocks of
\* one author by their rounds, those of two authors never at the same time.
LEMMA PopsTotal ==
    ASSUME NEW held \in SUBSET Blocks, NEW limits, NEW after \in Rounds,
           NEW b \in Scannable(held, limits, after), NEW c \in Scannable(held, limits, after),
           b # c
    PROVE  LET S == Scannable(held, limits, after)
           IN  PoppedBefore(S, after, b, c) \/ PoppedBefore(S, after, c, b)
  <1> DEFINE S == Scannable(held, limits, after)
  <1>0. /\ \A d \in Blocks : d \in Nat /\ Round[d] \in Nat /\ Author[d] \in Nat
        /\ \A d, e \in Blocks : Round[d] < Round[e] => d < e
    BY Zenon, BlockSyncAssumption
  <1>1. S \in SUBSET Blocks
    BY Zenon DEF Scannable
  <1>2. \A d \in S : after[Author[d]] < Round[d]
    BY Zenon DEF Scannable
  <1>3. \A d, e \in S : Author[d] = Author[e] /\ Round[d] = Round[e] => d = e
    <2>1. \A d, e \in S : Author[d] = Author[e] /\ Round[d] = Round[e] => d <= e /\ e <= d
      BY Zenon DEF Scannable
    <2> QED
      BY <2>1, <1>0, <1>1
  <1> HIDE DEF S
  <1>4. \A d \in S : ScanStart(S, after, d) \in Nat
    BY Zenon, <1>1, <1>2, ScanStartFacts
  <1>5. ASSUME NEW d \in S, NEW e \in S, Author[d] = Author[e], Round[d] < Round[e]
        PROVE  ScanStart(S, after, d) < ScanStart(S, after, e)
    <2>1. d < e
      BY Zenon, <1>0, <1>1, <1>5
    <2>2. Round[d] < ScanStart(S, after, e)
      BY Zenon, <2>1, <1>1, <1>2, <1>5, ScanStartFacts
    <2>3. ~\E k \in S : k < d /\ Author[k] = Author[d] /\ Round[k] >= Round[d]
      BY <1>0, <1>1, <1>3
    <2>4. ScanStart(S, after, d) <= Round[d]
      BY Zenon, <2>3, <1>1, <1>2, ScanStartFacts
    <2> QED
      BY <2>2, <2>4, <1>0, <1>1, <1>4
  <1>6. b \in S /\ c \in S
    BY Zenon DEF S
  <1>7. CASE Author[b] = Author[c]
    <2>1. Round[b] # Round[c]
      BY Zenon, <1>3, <1>6, <1>7
    <2>2. Round[b] < Round[c] \/ Round[c] < Round[b]
      BY <2>1, <1>0, <1>1, <1>6
    <2>3. ScanStart(S, after, b) < ScanStart(S, after, c)
             \/ ScanStart(S, after, c) < ScanStart(S, after, b)
      BY Zenon, <2>2, <1>5, <1>6, <1>7
    <2> QED
      BY Zenon, <2>3 DEF PoppedBefore, S
  <1>8. CASE Author[b] # Author[c]
    <2>1. Author[b] \in Nat /\ Author[c] \in Nat
      BY Zenon, <1>0, <1>1, <1>6
    <2>2. ScanStart(S, after, b) \in Nat /\ ScanStart(S, after, c) \in Nat
      BY Zenon, <1>4, <1>6
    <2>3. PoppedBefore(S, after, b, c) \/ PoppedBefore(S, after, c, b)
      BY <2>1, <2>2, <1>8 DEF PoppedBefore
    <2> QED
      BY Zenon, <2>3 DEF S
  <1> QED
    BY Zenon, <1>7, <1>8

\* The additional blocks of a periodic answer are a sequence of held blocks.
LEMMA ScannedType ==
    ASSUME NEW held \in SUBSET Blocks, NEW limits, NEW after \in Rounds, NEW room \in Int
    PROVE  Scanned(held, limits, after, room) \in Seq(held)
  <1> DEFINE S == Scannable(held, limits, after)
             R == {p \in S \X S : PoppedBefore(S, after, p[1], p[2])}
             n == Min(room, Cardinality(S))
             Rank(b) == Cardinality({c \in S : PoppedBefore(S, after, c, b)})
             s == [i \in 1..n |-> CHOOSE b \in S : Rank(b) = i - 1]
  <1>1. S \in SUBSET Blocks /\ S \in SUBSET held
    BY Zenon DEF Scannable
  <1>2. IsFiniteSet(S) /\ Cardinality(S) \in Nat
    BY Zenon, <1>1, FiniteRounds, FS_CardinalityType
  <1>3. \A d \in S : after[Author[d]] < Round[d]
    BY Zenon DEF Scannable
  <1>4. \A b, c \in S : b # c => PoppedBefore(S, after, b, c) \/ PoppedBefore(S, after, c, b)
    BY Zenon, PopsTotal
  <1>0. Scanned(held, limits, after, room) = s
    BY Zenon DEF Scanned
  <1> HIDE DEF S
  <1>5. \A d \in S : ScanStart(S, after, d) \in Nat /\ Author[d] \in Nat
    BY Zenon, <1>1, <1>3, ScanStartFacts, BlockSyncAssumption
  <1>6. \A b, c \in S : <<b, c>> \in R <=> PoppedBefore(S, after, b, c)
    OBVIOUS
  <1>7. \A b \in S : ~PoppedBefore(S, after, b, b)
    BY <1>5 DEF PoppedBefore
  <1>8. \A b, c, d \in S : PoppedBefore(S, after, b, c) /\ PoppedBefore(S, after, c, d)
                              => PoppedBefore(S, after, b, d)
    BY <1>5 DEF PoppedBefore
  <1> HIDE DEF R
  <1>9. \A b \in S : {c \in S : <<c, b>> \in R} = {c \in S : PoppedBefore(S, after, c, b)}
    BY Zenon, <1>6
  <1>10. ASSUME NEW i \in 1..n PROVE \E b \in S : Rank(b) = i - 1
    <2> DEFINE k == i - 1
    <2>1. k \in Nat /\ k < Cardinality(S)
      BY <1>2 DEF Min
    <2> HIDE DEF k
    <2>2. \A x \in S : <<x, x>> \notin R
      BY <1>6, <1>7, Zenon
    <2>3. \A x, y, z \in S : <<x, y>> \in R /\ <<y, z>> \in R => <<x, z>> \in R
      BY <1>6, <1>8, Zenon
    <2>4. \A x, y \in S : x # y => <<x, y>> \in R \/ <<y, x>> \in R
      BY <1>4, <1>6, Zenon
    <2>7. StrictlyOrders(R, S)
      BY <2>2, <2>3, <2>4, Zenon DEF StrictlyOrders
    <2>5. \E b \in S : Cardinality({c \in S : <<c, b>> \in R}) = k
      BY <2>1, <2>7, <1>2, RanksTaken
    <2>6. \E b \in S : Rank(b) = k
      BY Zenon, <2>5, <1>9
    <2> QED
      BY Zenon, <2>6 DEF k
  <1>11. \A i \in 1..n : (CHOOSE b \in S : Rank(b) = i - 1) \in held
    BY Zenon, <1>1, <1>10
  <1>12. n \in Int
    BY <1>2 DEF Min
  <1>13. s \in [1..n -> held]
    BY Zenon, <1>11
  <1> HIDE DEF s, n
  <1>14. s \in Seq(held)
    <2>1. CASE n < 0
      <3>1. 1..n = 1..0
        BY <2>1, <1>12
      <3>2. s \in [1..0 -> held]
        BY Zenon, <3>1, <1>13
      <3> QED
        BY <3>2
    <2>2. CASE n \in Nat
      BY <2>2, <1>13
    <2> QED
      BY <2>1, <2>2, <1>12
  <1> QED
    BY Zenon, <1>0, <1>14

\* div_ceil.
LEMMA DivCeilFacts ==
    ASSUME NEW m \in Nat, NEW n \in Nat, 1 <= n
    PROVE  /\ DivCeil(m, n) \in Nat
           /\ m <= DivCeil(m, n) * n
           /\ DivCeil(m, n) * n < m + n
           /\ 1 <= m => 1 <= DivCeil(m, n)
  <1> DEFINE x == m + n - 1
             q == x \div n
             r == x % n
  <1>1. x \in Nat
    OBVIOUS
  <1>2. q \in Int /\ r \in 0..(n-1) /\ x = n * q + r
    <2> HIDE DEF x
    <2> QED
      BY <1>1
  <1>3. DivCeil(m, n) = q
    BY Zenon DEF DivCeil
  <1> HIDE DEF q, r
  <1>4. m <= n * q /\ n * q < m + n
    <2>1. n * q \in Int
      BY <1>2
    <2> DEFINE y == n * q
    <2> HIDE DEF y
    <2>2. x = y + r /\ y \in Int /\ r \in Int /\ 0 <= r /\ r <= n - 1
      BY <1>2, <2>1 DEF y
    <2>3. m <= y /\ y < m + n
      BY <2>2 DEF x
    <2> QED
      BY Zenon, <2>3 DEF y
  <1>5. 0 <= q
    <2> SUFFICES ASSUME q <= -1 PROVE FALSE
       BY <1>2
    <2>1. n * q <= -n
       BY <1>2
    <2> QED
      BY <2>1, <1>2, <1>4
  <1>6. ASSUME 1 <= m PROVE 1 <= q
    <2> SUFFICES ASSUME q = 0 PROVE FALSE
       BY <1>2, <1>5
    <2>1. n * q = 0
       BY <1>2
    <2> QED
      BY <2>1, <1>6, <1>2, <1>4
  <1>7. n * q = q * n
    BY <1>2
  <1> QED
    BY <1>2, <1>3, <1>4, <1>5, <1>6, <1>7

\* Authorities dealt in batches of DivCeil(n, k) make at most k batches.
LEMMA AtMostBatches ==
    ASSUME NEW n \in Nat, 1 <= n, NEW k \in Nat, 1 <= k
    PROVE  DivCeil(n, DivCeil(n, k)) <= k
  <1> DEFINE size == DivCeil(n, k)
             d == DivCeil(n, size)
  <1>1. size \in Nat /\ 1 <= size /\ n <= size * k
    BY Zenon, DivCeilFacts
  <1> HIDE DEF size
  <1>2. d \in Nat /\ d * size < n + size
    BY Zenon, <1>1, DivCeilFacts
  <1> HIDE DEF d
  <1> SUFFICES ASSUME k + 1 <= d PROVE FALSE
    BY <1>2 DEF d, size
  <1>3. (k + 1) * size <= d * size
    BY <1>1, <1>2
  <1>4. (k + 1) * size = size * k + size
    BY <1>1
  <1> QED
    BY <1>1, <1>2, <1>3, <1>4

\* The authors of a set of blocks are finitely many.
LEMMA FiniteAuthors ==
    ASSUME NEW S \in SUBSET Blocks, S # {}
    PROVE  /\ IsFiniteSet({Author[b] : b \in S})
           /\ Cardinality({Author[b] : b \in S}) \in Nat
           /\ 1 <= Cardinality({Author[b] : b \in S})
  <1> DEFINE A == {Author[b] : b \in S}
             f == [b \in S |-> Author[b]]
  <1>1. IsFiniteSet(S)
    BY Zenon, FiniteRounds
  <1>2. f \in Surjection(S, A) /\ A # {}
    BY Zenon DEF Surjection
  <1> HIDE DEF f, A
  <1>3. IsFiniteSet(A)
    BY Zenon, <1>1, <1>2, FS_Surjection
  <1>4. Cardinality(A) \in Nat /\ Cardinality(A) # 0
    BY Zenon, <1>2, <1>3, FS_CardinalityType, FS_EmptySet
  <1>5. 1 <= Cardinality(A)
    BY <1>4
  <1> QED
    BY Zenon, <1>3, <1>4, <1>5 DEF A

\* An order of a finite set is a sequence of its elements.
LEMMA OrderType ==
    ASSUME NEW S, IsFiniteSet(S), NEW f \in Orders(S)
    PROVE  f \in Seq(S) /\ Len(f) = Cardinality(S)
  <1>1. Cardinality(S) \in Nat
    BY Zenon, FS_CardinalityType
  <1>2. f \in [1..Cardinality(S) -> S]
    BY Zenon DEF Orders
  <1> QED
    BY <1>1, <1>2

\* The authors are dealt in no more batches than there are peers, so that
\* "No more peers left to fetch blocks!" is never reached, and the peers that
\* are left over take the requests that fail.
LEMMA BatchesHavePeers ==
    ASSUME received \in SUBSET Blocks, NEW wanted \in SUBSET Blocks, wanted # {},
           NEW order \in Orders(Peers), NEW authors \in Orders({Author[b] : b \in wanted})
    PROVE  /\ Batches(wanted, order, authors) \in Seq(Batch)
           /\ Len(Batches(wanted, order, authors)) <= Len(order)
           /\ SubSeq(order, Len(Batches(wanted, order, authors)) + 1, Len(order)) \in Seq(Peers)
  <1> DEFINE A == {Author[b] : b \in wanted}
             k == Min(Len(order), MAX_PERIODIC_SYNC_PEERS)
             size == DivCeil(Len(authors), k)
             n == DivCeil(Len(authors), size)
             Of(i) == {authors[j] : j \in ((i - 1) * size + 1)..Min(i * size, Len(authors))}
             refs(i) == FirstBlocks({b \in wanted : Author[b] \in Of(i)}, MaxBlocksPerFetch)
             s == [i \in 1..n |->
                     [peer |-> order[i], after |-> FetchAfterRounds, refs |-> refs(i)]]
  <1>1. IsFiniteSet(Peers) /\ Peers # {}
    BY Zenon, SynchronizerAssumption, BlockSyncAssumption, FS_Subset
  <1>2. order \in Seq(Peers) /\ Len(order) \in Nat /\ 1 <= Len(order)
    <2>1. order \in Seq(Peers) /\ Len(order) = Cardinality(Peers)
      BY Zenon, <1>1, OrderType
    <2>2. Cardinality(Peers) \in Nat /\ Cardinality(Peers) # 0
      BY Zenon, <1>1, FS_CardinalityType, FS_EmptySet
    <2> QED
      BY <2>1, <2>2
  <1>3. Len(authors) \in Nat /\ 1 <= Len(authors)
    <2>1. IsFiniteSet(A) /\ Cardinality(A) \in Nat /\ 1 <= Cardinality(A)
      BY Zenon, FiniteAuthors
    <2> HIDE DEF A
    <2>2. authors \in Orders(A)
      BY Zenon DEF A
    <2>3. Len(authors) = Cardinality(A)
      BY Zenon, <2>1, <2>2, OrderType
    <2> QED
      BY Zenon, <2>1, <2>3
  <1>4. MAX_PERIODIC_SYNC_PEERS \in Nat /\ 1 <= MAX_PERIODIC_SYNC_PEERS
    BY SynchronizerAssumption
  <1>5. k \in Nat /\ 1 <= k /\ k <= Len(order)
    BY <1>2, <1>4 DEF Min
  <1> HIDE DEF k
  <1>6. size \in Nat /\ 1 <= size
    BY Zenon, <1>3, <1>5, DivCeilFacts
  <1>7. n <= k
    BY Zenon, <1>3, <1>5, AtMostBatches
  <1>8. Batches(wanted, order, authors) = s
    BY Zenon DEF Batches, k
  <1> HIDE DEF size
  <1>9. n \in Nat
    BY Zenon, <1>3, <1>6, DivCeilFacts
  <1> HIDE DEF n
  <1>10. FetchAfterRounds \in Rounds
    BY Zenon, FetchAfterType
  <1>11. ASSUME NEW i \in 1..n
         PROVE  [peer |-> order[i], after |-> FetchAfterRounds, refs |-> refs(i)] \in Batch
    <2>1. order[i] \in Peers
      BY <1>2, <1>5, <1>7, <1>9
    <2>2. refs(i) \in SUBSET Blocks
      BY Zenon DEF FirstBlocks
    <2> HIDE DEF refs
    <2> QED
      BY Zenon, <2>1, <2>2, <1>10 DEF Batch
  <1> HIDE DEF refs
  <1>12. s \in [1..n -> Batch]
    BY Zenon, <1>11
  <1> HIDE DEF s
  <1>13. s \in Seq(Batch) /\ Len(s) = n
    BY <1>9, <1>12
  <1>14. SubSeq(order, n + 1, Len(order)) \in Seq(Peers)
    BY <1>2, <1>5, <1>7, <1>9
  <1>15. n <= Len(order)
    BY <1>2, <1>5, <1>7, <1>9
  <1> QED
    BY Zenon, <1>8, <1>13, <1>14, <1>15

\* What a peer may answer.
LEMMA LiveResponseType ==
    ASSUME NEW held \in SUBSET Blocks, NEW refs, NEW after,
           NEW S \in LiveResponses(held, refs, after)
    PROVE  S \in SUBSET Blocks
  <1>1. Requested(held, refs) \in SUBSET held
    BY Zenon DEF Requested
  <1> QED
    BY Zenon, <1>1 DEF LiveResponses

LEMMA PeriodicResponseType ==
    ASSUME NEW held \in SUBSET Blocks, NEW refs \in SUBSET Blocks, NEW after \in Rounds
    PROVE  /\ PeriodicScan(held, refs, after) \in Seq(held)
           /\ PeriodicResponse(held, refs, after) \in SUBSET Blocks
           /\ \A n \in Nat : n <= Len(PeriodicScan(held, refs, after)) =>
                 Elements(SubSeq(PeriodicScan(held, refs, after), 1, n)) \in SUBSET Blocks
  <1> DEFINE scan == PeriodicScan(held, refs, after)
             room == ResponseLimit(refs) - Cardinality(Requested(held, refs))
  <1>1. Requested(held, refs) \in SUBSET Blocks
    BY Zenon DEF Requested
  <1>2. room \in Int
    <2>1. Cardinality(Requested(held, refs)) \in Nat
      BY Zenon, <1>1, FiniteRounds, FS_CardinalityType
    <2> QED
      BY <2>1, BlockSyncAssumption DEF ResponseLimit
  <1> HIDE DEF room
  <1>3. scan \in Seq(held)
    BY Zenon, <1>2, ScannedType DEF PeriodicScan, room
  <1> HIDE DEF scan
  <1>4. Elements(scan) \in SUBSET Blocks
    BY <1>3 DEF Elements
  <1>5. \A n \in Nat : n <= Len(scan) => Elements(SubSeq(scan, 1, n)) \in SUBSET Blocks
    <2> SUFFICES ASSUME NEW n \in Nat, n <= Len(scan)
                 PROVE  Elements(SubSeq(scan, 1, n)) \in SUBSET Blocks
      OBVIOUS
    <2>1. SubSeq(scan, 1, n) \in Seq(held)
      BY <1>3
    <2> DEFINE t == SubSeq(scan, 1, n)
    <2> HIDE DEF t
    <2>2. Elements(t) \in SUBSET Blocks
      BY <2>1 DEF t, Elements
    <2> QED
      BY Zenon, <2>2 DEF t
  <1>6. PeriodicResponse(held, refs, after) \in SUBSET Blocks
    BY Zenon, <1>1, <1>4 DEF PeriodicResponse, scan
  <1> QED
    BY Zenon, <1>3, <1>5, <1>6 DEF scan

-----------------------------------------------------------------------------
\* Types of the pieces of a step.
LEMMA GuardFields ==
    ASSUME NEW g \in Guard
    PROVE  /\ g.peer \in Peers /\ g.refs \in SUBSET Blocks /\ g.stage \in Stages
           /\ g.retries \in 1..MAX_RETRIES /\ g.after \in Rounds /\ g.blocks \in SUBSET Blocks
           /\ IsGuard(g)
  BY Zenon DEF Guard, IsGuard

LEMMA GuardIn ==
    ASSUME NEW p \in Peers, NEW r \in SUBSET Blocks, NEW t \in Stages,
           NEW n \in 1..MAX_RETRIES, NEW a \in Rounds, NEW B \in SUBSET Blocks
    PROVE  [peer |-> p, refs |-> r, stage |-> t, retries |-> n, after |-> a, blocks |-> B]
              \in Guard
  BY Zenon DEF Guard

LEMMA NewGuardType ==
    ASSUME NEW p \in Peers, NEW r \in SUBSET Blocks, NEW t \in Stages, NEW a \in Rounds
    PROVE  NewGuard(p, r, t, a) \in Guard
  <1>1. 1 \in 1..MAX_RETRIES
    BY SynchronizerAssumption
  <1> QED
    BY Zenon, <1>1, GuardIn DEF NewGuard

LEMMA AskedType ==
    ASSUME NEW g \in Guard, NEW a \in Rounds
    PROVE  Asked(g, a) \in Guard
  <1> DEFINE k == [g EXCEPT !.stage = "live"]
  <1>1. k \in Guard
    BY Zenon DEF Guard, Stages
  <1> HIDE DEF k
  <1>2. [k EXCEPT !.after = a] \in Guard
    BY Zenon, <1>1 DEF Guard
  <1> QED
    BY <1>2, Zenon DEF k, Asked

LEMMA AnsweredType ==
    ASSUME NEW g \in Guard, NEW s \in Stages, NEW S \in SUBSET Blocks
    PROVE  Answered(g, s, S) \in Guard
  <1> DEFINE k == [g EXCEPT !.stage = s]
  <1>1. k \in Guard
    BY Zenon DEF Guard
  <1> HIDE DEF k
  <1>2. [k EXCEPT !.blocks = S] \in Guard
    BY Zenon, <1>1 DEF Guard
  <1> QED
    BY <1>2, Zenon DEF k, Answered

LEMMA RetriedType ==
    ASSUME NEW g \in Guard, g.retries + 1 <= MAX_RETRIES
    PROVE  [g EXCEPT !.retries = @ + 1] \in Guard
  <1>1. g.retries + 1 \in 1..MAX_RETRIES
    BY GuardFields, SynchronizerAssumption
  <1> QED
    BY Zenon, <1>1 DEF Guard

LEMMA LockTypes ==
    ASSUME inflight \in [Blocks -> SUBSET Peers]
    PROVE  /\ \A refs : \A p \in Peers : Locked(refs, p) \in [Blocks -> SUBSET Peers]
           /\ \A G : Unlocked(G) \in [Blocks -> SUBSET Peers]
           /\ \A refs, p : Lockable(refs, p) \in SUBSET refs
  BY Zenon DEF Locked, Unlocked, Lockable

LEMMA AddBlocksType ==
    ASSUME TypeOK, NEW S \in SUBSET Blocks, AddBlocks(S)
    PROVE  received' \subseteq Blocks /\ missing' \subseteq Blocks \ received'
  <1>1. \A b \in S : Ancestors[b] \subseteq Blocks
    BY Zenon, BlockSyncAssumption
  <1> QED
    BY <1>1 DEF TypeOK, AddBlocks

LEMMA ProcessFetchedBlocksType ==
    ASSUME TypeOK, NEW g \in guards, ProcessFetchedBlocks(g), UNCHANGED task_vars
    PROVE  TypeOK'
  <1>1. g.blocks \in SUBSET Blocks
    BY Zenon, GuardFields DEF TypeOK
  <1>2. received' \subseteq Blocks /\ missing' \subseteq Blocks \ received'
    BY Zenon, <1>1, AddBlocksType DEF ProcessFetchedBlocks, core_vars, TypeOK
  <1>3. inflight' \in [Blocks -> SUBSET Peers] /\ guards' \subseteq Guard
    BY Zenon, LockTypes DEF TypeOK, ProcessFetchedBlocks
  <1> QED
    BY Zenon, <1>2, <1>3 DEF TypeOK, ProcessFetchedBlocks, lag_vars, task_vars

LEMMA LockAndRequestType ==
    ASSUME TypeOK, NEW b \in Batch, LockAndRequest(b)
    PROVE  inflight' \in [Blocks -> SUBSET Peers] /\ guards' \subseteq Guard
  <1>1. b.peer \in Peers /\ b.refs \in SUBSET Blocks /\ b.after \in Rounds
    BY Zenon DEF Batch
  <1> DEFINE refs == Lockable(b.refs, b.peer)
  <1>2. inflight' \in [Blocks -> SUBSET Peers]
    BY Zenon, <1>1, LockTypes DEF TypeOK, LockAndRequest
  <1>3. refs \in SUBSET Blocks
    BY Zenon, <1>1 DEF Lockable
  <1> HIDE DEF refs
  <1>4. NewGuard(b.peer, refs, "periodic", b.after) \in Guard
    BY Zenon, <1>1, <1>3, NewGuardType DEF Stages
  <1>5. guards' \subseteq guards \cup {NewGuard(b.peer, refs, "periodic", b.after)}
    BY Zenon DEF LockAndRequest, refs
  <1> QED
    BY Zenon, <1>2, <1>4, <1>5 DEF TypeOK

-----------------------------------------------------------------------------
\* The types of what should_run_periodic_sync updates.
LagTypeOK ==
    /\ commit_index \in Nat /\ quorum_commit_index \in Nat
    /\ last_changed_commit_index \in Nat
    /\ stalled \in BOOLEAN /\ commit_sync_failover \in BOOLEAN

LEMMA InitTypeOK == Init => TypeOK
  <1> SUFFICES ASSUME Init PROVE TypeOK
    OBVIOUS
  <1>1. stalled \in BOOLEAN /\ commit_sync_failover \in BOOLEAN
    BY Zenon DEF Init
  <1> QED
    BY <1>1 DEF Init, TypeOK

LEMMA NextTypeOK == TypeOK /\ [Next]_vars => TypeOK'
  <1> SUFFICES ASSUME TypeOK, [Next]_vars PROVE TypeOK'
    OBVIOUS
  <1>0. received \in SUBSET Blocks /\ missing \in SUBSET Blocks /\ guards \in SUBSET Guard
    BY Zenon DEF TypeOK
  <1>a. FetchAfterRounds \in Rounds
    BY Zenon, <1>0, FetchAfterType
  <1>b. Peers \subseteq Authorities /\ \A b \in SentBlocks : b \in Blocks /\ Author[b] \in Peers
                /\ Excluded[b] \subseteq Blocks /\ Ancestors[b] \subseteq Blocks
    BY Zenon, SynchronizerAssumption, BlockSyncAssumption
  <1>c. \A p \in Peers : \A held \in Held(p) : held \in SUBSET Blocks
    BY Zenon DEF Held
  <1>1. ASSUME NEW b \in SentBlocks, ReceiveBlock(b) PROVE TypeOK'
    <2> DEFINE now == received \cup {b}
               excluded == Excluded[b] \ now
    <2>1. /\ received' = now /\ missing' = (missing \cup Ancestors[b] \cup excluded) \ now
          /\ commands' = commands \cup FetchCommand(Ancestors[b] \ now, Author[b])
                                  \cup FetchCommand(excluded, Author[b])
      BY Zenon, <1>1 DEF ReceiveBlock
    <2>2. received' \subseteq Blocks /\ missing' \subseteq Blocks \ received'
      BY Zenon, <2>1, <1>0, <1>b
    <2>3. commands' \subseteq [peer : Peers, refs : SUBSET Blocks]
      <3>1. \A refs \in SUBSET Blocks :
               FetchCommand(refs, Author[b]) \subseteq [peer : Peers, refs : SUBSET Blocks]
        BY <1>b DEF FetchCommand
      <3>2. Ancestors[b] \ now \in SUBSET Blocks /\ excluded \in SUBSET Blocks
        BY Zenon, <1>b
      <3> HIDE DEF now, excluded
      <3> QED
        BY Zenon, <2>1, <3>1, <3>2 DEF TypeOK
    <2> QED
      BY Zenon, <1>1, <2>2, <2>3 DEF TypeOK, ReceiveBlock, task_vars, lag_vars
  <1>2. ASSUME NEW c \in commands, FetchBlocks(c) PROVE TypeOK'
    <2> DEFINE refs == Lockable(FirstBlocks(c.refs, MaxBlocksPerSync), c.peer)
               g == NewGuard(c.peer, refs, "queued", [a \in Authorities |-> 0])
    <2>1. c.peer \in Peers /\ c.refs \in SUBSET Blocks
      BY Zenon DEF TypeOK
    <2>2. refs \in SUBSET Blocks
      BY Zenon, <2>1 DEF Lockable, FirstBlocks
    <2>3. \/ inflight' = Locked(refs, c.peer) /\ guards' = guards \cup {g}
          \/ inflight' = inflight /\ guards' = guards
      BY Zenon, <1>2 DEF FetchBlocks
    <2> HIDE DEF refs
    <2>4. [a \in Authorities |-> 0] \in Rounds
      BY Zenon DEF Rounds
    <2>5. g \in Guard
      BY Zenon, <2>1, <2>2, <2>4, NewGuardType DEF Stages
    <2> HIDE DEF g
    <2>6. inflight' \in [Blocks -> SUBSET Peers] /\ guards' \subseteq Guard
      BY <2>1, <2>3, <2>5, LockTypes DEF TypeOK
    <2> QED
      BY Zenon, <1>2, <2>6 DEF TypeOK, FetchBlocks, core_vars, task_vars, lag_vars
  <1>3. ASSUME NEW g \in guards, StartRequest(g) PROVE TypeOK'
    <2>1. Asked(g, FetchAfterRounds) \in Guard
      BY Zenon, <1>0, <1>a, AskedType
    <2>2. guards' \subseteq Guard
      BY Zenon, <1>0, <1>3, <2>1 DEF StartRequest, Replace
    <2> QED
      BY Zenon, <1>3, <2>2 DEF TypeOK, StartRequest, core_vars, task_vars, lag_vars
  <1>4. ASSUME NEW g \in guards, LiveAnswer(g) PROVE TypeOK'
    <2>1. PICK held \in Held(g.peer) : \E S \in LiveResponses(held, g.refs, g.after) :
             guards' = Replace(g, Answered(g, "live_processing", S))
      BY Zenon, <1>4 DEF LiveAnswer
    <2>2. PICK S \in LiveResponses(held, g.refs, g.after) :
             guards' = Replace(g, Answered(g, "live_processing", S))
      BY Zenon, <2>1
    <2>3. g \in Guard /\ g.peer \in Peers
      BY Zenon, <1>0, GuardFields
    <2>4. S \in SUBSET Blocks
      BY Zenon, <1>c, <2>3, LiveResponseType
    <2>5. Answered(g, "live_processing", S) \in Guard
      BY Zenon, <2>3, <2>4, AnsweredType DEF Stages
    <2>6. guards' \subseteq Guard
      BY Zenon, <1>0, <2>2, <2>5 DEF Replace
    <2> QED
      BY Zenon, <1>4, <2>6 DEF TypeOK, LiveAnswer, core_vars, task_vars, lag_vars
  <1>5. ASSUME NEW g \in guards, LiveFailure(g) PROVE TypeOK'
    <2>1. CASE g.retries + 1 <= MAX_RETRIES
      <3>1. [g EXCEPT !.retries = @ + 1] \in Guard
        BY Zenon, <1>0, <2>1, RetriedType
      <3>2. guards' = Replace(g, [g EXCEPT !.retries = @ + 1]) /\ inflight' = inflight
        BY Zenon, <1>5, <2>1 DEF LiveFailure
      <3>3. guards' \subseteq Guard
        BY Zenon, <1>0, <3>1, <3>2 DEF Replace
      <3> QED
        BY Zenon, <1>5, <3>2, <3>3
           DEF TypeOK, LiveFailure, core_vars, task_vars, lag_vars
    <2>2. CASE ~(g.retries + 1 <= MAX_RETRIES)
      <3>1. guards' = guards \ {g} /\ inflight' = Unlocked({g})
        BY Zenon, <1>5, <2>2 DEF LiveFailure
      <3>2. inflight' \in [Blocks -> SUBSET Peers] /\ guards' \subseteq Guard
        BY Zenon, <1>0, <3>1, LockTypes DEF TypeOK
      <3> QED
        BY Zenon, <1>5, <3>2 DEF TypeOK, LiveFailure, core_vars, task_vars, lag_vars
    <2> QED
      BY Zenon, <2>1, <2>2
  <1>6. ASSUME NEW g \in guards, ProcessFetchedBlocks(g), UNCHANGED task_vars PROVE TypeOK'
    BY Zenon, <1>6, ProcessFetchedBlocksType
  <1>7. ASSUME PeriodicRuns PROVE LagTypeOK'
    <2>1. /\ commit_index' \in Nat /\ quorum_commit_index' \in Nat
          /\ last_changed_commit_index' \in Nat
      BY Zenon, <1>7 DEF TypeOK, PeriodicRuns, ResetCommitChange
    <2>2. stalled' \in BOOLEAN /\ commit_sync_failover' \in BOOLEAN
      BY <1>7, Zenon DEF TypeOK, PeriodicRuns, ResetCommitChange
    <2> QED
      BY Zenon, <2>1, <2>2 DEF LagTypeOK
  <1>8. ASSUME PeriodicSkipped PROVE TypeOK'
    <2>1. stalled' \in BOOLEAN /\ commit_sync_failover' \in BOOLEAN
      BY <1>8, Zenon DEF PeriodicSkipped, ResetCommitChange
    <2> QED
      BY Zenon, <1>8, <2>1 DEF TypeOK, PeriodicSkipped, ResetCommitChange, core_vars,
             task_vars
  <1>9. ASSUME PeriodicNothing PROVE TypeOK'
    <2>1. LagTypeOK'
      BY <1>7, <1>9, Zenon DEF PeriodicNothing
    <2> QED
      BY Zenon, <1>9, <2>1 DEF TypeOK, LagTypeOK, PeriodicNothing, core_vars, task_vars
  <1>10. ASSUME NEW p \in Peers, PeriodicAfterRounds(p) PROVE TypeOK'
    <2>1. NewGuard(p, {}, "periodic", FetchAfterRounds) \in Guard
      BY Zenon, <1>a, NewGuardType DEF Stages
    <2>2. guards' \subseteq Guard
      BY Zenon, <1>0, <1>10, <2>1 DEF PeriodicAfterRounds
    <2>3. LagTypeOK'
      BY <1>7, <1>10, Zenon DEF PeriodicAfterRounds
    <2> QED
      BY Zenon, <1>10, <2>2, <2>3 DEF TypeOK, LagTypeOK, PeriodicAfterRounds, core_vars
  <1>11. ASSUME PeriodicMissing PROVE TypeOK'
    <2>1. Wanted \in SUBSET Blocks /\ Wanted # {}
      BY Zenon, <1>0, <1>11 DEF PeriodicMissing, Wanted, BlocksToFetch, FirstBlocks
    <2>2. PICK order \in Orders(Peers), authors \in Orders({Author[b] : b \in Wanted}) :
             /\ batches' = Batches(Wanted, order, authors)
             /\ peers' = SubSeq(order, Len(batches') + 1, Len(order))
      BY Zenon, <1>11 DEF PeriodicMissing
    <2>3. batches' \in Seq(Batch) /\ peers' \in Seq(Peers)
      BY Zenon, <1>0, <2>1, <2>2, BatchesHavePeers
    <2>4. LagTypeOK'
      BY <1>7, <1>11, Zenon DEF PeriodicMissing
    <2> QED
      BY Zenon, <1>11, <2>3, <2>4 DEF TypeOK, LagTypeOK, PeriodicMissing, core_vars
  <1>12. ASSUME PeriodicSend PROVE TypeOK'
    <2>1. Head(batches) \in Batch /\ Tail(batches) \in Seq(Batch)
      BY <1>12 DEF TypeOK, PeriodicSend
    <2>2. inflight' \in [Blocks -> SUBSET Peers] /\ guards' \subseteq Guard
      BY Zenon, <1>12, <2>1, LockAndRequestType DEF PeriodicSend
    <2> QED
      BY Zenon, <1>12, <2>1, <2>2 DEF TypeOK, PeriodicSend, core_vars, lag_vars
  <1>13. ASSUME NEW s \in swapping, SwapLocks(s) PROVE TypeOK'
    <2>1. s \in Batch
      BY Zenon DEF TypeOK
    <2>2. inflight' \in [Blocks -> SUBSET Peers] /\ guards' \subseteq Guard
      BY Zenon, <1>13, <2>1, LockAndRequestType DEF SwapLocks
    <2> QED
      BY Zenon, <1>13, <2>2 DEF TypeOK, SwapLocks, core_vars, lag_vars
  <1>14. ASSUME NEW g \in guards, PeriodicAnswer(g) PROVE TypeOK'
    <2>1. g \in Guard /\ g.peer \in Peers /\ g.refs \in SUBSET Blocks /\ g.after \in Rounds
      BY Zenon, <1>0, GuardFields
    <2>2. PICK held \in Held(g.peer) :
             LET scan == PeriodicScan(held, g.refs, g.after)
                 kept == SubSeq(scan, 1, Min(Len(scan), MaxBlocksPerSync))
             IN  guards' = Replace(g, Answered(g, "result",
                                IF g.refs = {} THEN Elements(kept)
                                ELSE PeriodicResponse(held, g.refs, g.after)))
      BY Zenon, <1>14 DEF PeriodicAnswer
    <2> DEFINE scan == PeriodicScan(held, g.refs, g.after)
               n == Min(Len(scan), MaxBlocksPerSync)
               kept == SubSeq(scan, 1, n)
               S == IF g.refs = {} THEN Elements(kept)
                    ELSE PeriodicResponse(held, g.refs, g.after)
    <2>3. held \in SUBSET Blocks
      BY Zenon, <1>c, <2>1
    <2>4. guards' = Replace(g, Answered(g, "result", S))
      BY Zenon, <2>2
    <2>5. scan \in Seq(held) /\ PeriodicResponse(held, g.refs, g.after) \in SUBSET Blocks
      BY Zenon, <2>1, <2>3, PeriodicResponseType
    <2>6. n \in Nat /\ n <= Len(scan)
      BY <2>5, BlockSyncAssumption DEF Min
    <2>7. Elements(kept) \in SUBSET Blocks
      BY Zenon, <2>1, <2>3, <2>6, PeriodicResponseType
    <2>8. S \in SUBSET Blocks
      BY Zenon, <2>5, <2>7
    <2> HIDE DEF S
    <2>9. Answered(g, "result", S) \in Guard
      BY Zenon, <2>1, <2>8, AnsweredType DEF Stages
    <2>10. guards' \subseteq Guard
      BY Zenon, <1>0, <2>4, <2>9 DEF Replace
    <2> QED
      BY Zenon, <1>14, <2>10 DEF TypeOK, PeriodicAnswer, core_vars, task_vars, lag_vars
  <1>15. ASSUME NEW g \in guards, PeriodicFailure(g) PROVE TypeOK'
    <2>1. inflight' \in [Blocks -> SUBSET Peers] /\ guards' \subseteq Guard
      BY Zenon, <1>0, <1>15, LockTypes DEF TypeOK, PeriodicFailure
    <2>2. CASE peers = <<>>
      BY Zenon, <1>15, <2>1, <2>2 DEF TypeOK, PeriodicFailure, core_vars, lag_vars
    <2>3. CASE peers # <<>>
      <3>1. Head(peers) \in Peers /\ Tail(peers) \in Seq(Peers)
        BY <2>3 DEF TypeOK
      <3>2. g.refs \in SUBSET Blocks /\ g.after \in Rounds
        BY Zenon, <1>0, GuardFields
      <3>3. [peer |-> Head(peers), refs |-> g.refs, after |-> g.after] \in Batch
        BY Zenon, <3>1, <3>2 DEF Batch
      <3>4. swapping' \subseteq Batch /\ peers' \in Seq(Peers)
        BY Zenon, <1>15, <2>3, <3>1, <3>3 DEF PeriodicFailure
      <3> QED
        BY Zenon, <1>15, <2>1, <3>4 DEF TypeOK, PeriodicFailure, core_vars, lag_vars
    <2> QED
      BY Zenon, <2>2, <2>3
  <1>16. ASSUME PeriodicGathered PROVE TypeOK'
    <2>1. inflight' \in [Blocks -> SUBSET Peers] /\ guards' \subseteq Guard
      BY Zenon, <1>0, <1>16, LockTypes DEF TypeOK, PeriodicGathered
    <2> QED
      BY Zenon, <1>16, <2>1 DEF TypeOK, PeriodicGathered, core_vars, lag_vars
  <1>17. ASSUME PeriodicEnd PROVE TypeOK'
    BY <1>17 DEF TypeOK, PeriodicEnd, core_vars, lag_vars
  <1>18. ASSUME CommitAdvances PROVE TypeOK'
    BY <1>18 DEF TypeOK, CommitAdvances, core_vars, task_vars
  <1>19. ASSUME QuorumAdvances PROVE TypeOK'
    BY Zenon, <1>19, SynchronizerAssumption
       DEF TypeOK, QuorumAdvances, core_vars, task_vars
  <1>20. ASSUME CommitStalls PROVE TypeOK'
    <2>1. stalled' \in BOOLEAN
      BY <1>20, Zenon DEF CommitStalls
    <2> QED
      BY Zenon, <1>20, <2>1 DEF TypeOK, CommitStalls, core_vars, task_vars
  <1>21. ASSUME UNCHANGED vars PROVE TypeOK'
    BY Zenon, <1>21 DEF TypeOK, vars
  <1> QED
    BY <1>1, <1>2, <1>3, <1>4, <1>5, <1>6, <1>8, <1>9, <1>10, <1>11, <1>12, <1>13,
       <1>14,
       <1>15, <1>16, <1>17, <1>18, <1>19, <1>20, <1>21, Zenon
       DEF Next, ProcessLive, ProcessPeriodic

-----------------------------------------------------------------------------
\* Counting with a bound: one more, one for another, fewer.
LEMMA OneMore ==
    ASSUME NEW S, IsFiniteSet(S), NEW C \in Nat, Cardinality(S) < C,
           NEW h, NEW T \in SUBSET (S \cup {h})
    PROVE  Cardinality(T) <= C
  <1> DEFINE U == S \cup {h}
  <1>1. IsFiniteSet(U) /\ Cardinality(U) = IF h \in S THEN Cardinality(S) ELSE Cardinality(S) + 1
    BY Zenon, FS_AddElement
  <1>2. Cardinality(S) \in Nat
    BY Zenon, FS_CardinalityType
  <1> HIDE DEF U
  <1>3. IsFiniteSet(T) /\ Cardinality(T) <= Cardinality(U)
    BY Zenon, <1>1, FS_Subset DEF U
  <1>4. Cardinality(T) \in Nat
    BY Zenon, <1>3, FS_CardinalityType
  <1> QED
    BY <1>1, <1>2, <1>3, <1>4

LEMMA Fewer ==
    ASSUME NEW S, IsFiniteSet(S), NEW C \in Nat, Cardinality(S) <= C, NEW T \in SUBSET S
    PROVE  Cardinality(T) <= C
  <1>1. IsFiniteSet(T) /\ Cardinality(T) <= Cardinality(S)
    BY Zenon, FS_Subset
  <1>2. Cardinality(S) \in Nat /\ Cardinality(T) \in Nat
    BY Zenon, <1>1, FS_CardinalityType
  <1> QED
    BY <1>1, <1>2

LEMMA OneForAnother ==
    ASSUME NEW S, IsFiniteSet(S), NEW C \in Nat, Cardinality(S) <= C, NEW g \in S,
           NEW h, NEW T \in SUBSET ((S \ {g}) \cup {h})
    PROVE  Cardinality(T) <= C
  <1> DEFINE U == S \ {g}
  <1>1. IsFiniteSet(U) /\ Cardinality(U) = Cardinality(S) - 1
    BY Zenon, FS_RemoveElement
  <1>2. Cardinality(S) \in Nat
    BY Zenon, FS_CardinalityType
  <1> HIDE DEF U
  <1>3. Cardinality(U) < C
    BY <1>1, <1>2
  <1>4. T \in SUBSET (U \cup {h})
    BY Zenon DEF U
  <1> QED
    BY Zenon, <1>1, <1>3, <1>4, OneMore

RInv == IsFiniteSet(guards) /\ RequestsBounded

\* The requests of one peer.
LEMMA RequestSets ==
    ASSUME RInv, NEW p \in Peers
    PROVE  /\ IsFiniteSet(Queued(p)) /\ IsFiniteSet(Live(p))
           /\ IsFiniteSet(Live(p) \cup Processing(p))
           /\ Cardinality(Queued(p)) <= FETCH_BLOCKS_CONCURRENCY
           /\ Cardinality(Live(p) \cup Processing(p)) <= FETCH_BLOCKS_CONCURRENCY
           /\ \A g, h \in Processing(p) : g = h
  <1>1. Queued(p) \in SUBSET guards /\ Live(p) \in SUBSET guards
        /\ Live(p) \cup Processing(p) \in SUBSET guards
    BY Zenon DEF Queued, Live, Processing
  <1>2. /\ IsFiniteSet(Queued(p)) /\ IsFiniteSet(Live(p))
        /\ IsFiniteSet(Live(p) \cup Processing(p))
    BY Zenon, <1>1, FS_Subset DEF RInv
  <1> QED
    BY Zenon, <1>2 DEF RInv, RequestsBounded

\* A step that starts no request of a live task.
LEMMA QuietKeepsRInv ==
    ASSUME RInv, IsFiniteSet(guards'),
           \A g \in guards' : g \in guards \/ g.stage \in {"periodic", "result"}
    PROVE  RInv'
  <1>0. FETCH_BLOCKS_CONCURRENCY \in Nat
    BY Zenon, SynchronizerAssumption
  <1> SUFFICES ASSUME NEW p \in Peers
               PROVE  /\ Cardinality(Queued(p)') <= FETCH_BLOCKS_CONCURRENCY
                      /\ Cardinality((Live(p) \cup Processing(p))') <= FETCH_BLOCKS_CONCURRENCY
                      /\ \A g, h \in Processing(p)' : g = h
    BY Zenon DEF RInv, RequestsBounded
  <1>1. Queued(p)' \in SUBSET Queued(p)
    BY Zenon DEF Queued
  <1>2. Live(p)' \in SUBSET Live(p) /\ Processing(p)' \in SUBSET Processing(p)
    BY Zenon DEF Live, Processing
  <1>3. (Live(p) \cup Processing(p))' \in SUBSET (Live(p) \cup Processing(p))
    BY Zenon, <1>2
  <1> QED
    BY Zenon, <1>0, <1>1, <1>2, <1>3, RequestSets, Fewer

\* A guard of a live task that moves on.
LEMMA MoveKeepsRInv ==
    ASSUME RInv, TypeOK, NEW g \in guards, g.stage = "live", Processing(g.peer) = {},
           NEW h, h.peer = g.peer, h.stage \in {"live", "live_processing"},
           guards' = Replace(g, h)
    PROVE  RInv'
  <1>0. FETCH_BLOCKS_CONCURRENCY \in Nat
    BY Zenon, SynchronizerAssumption
  <1>a. IsFiniteSet(guards')
    BY Zenon, FS_AddElement, FS_RemoveElement DEF RInv, Replace
  <1> SUFFICES ASSUME NEW p \in Peers
               PROVE  /\ Cardinality(Queued(p)') <= FETCH_BLOCKS_CONCURRENCY
                      /\ Cardinality((Live(p) \cup Processing(p))') <= FETCH_BLOCKS_CONCURRENCY
                      /\ \A k, m \in Processing(p)' : k = m
    BY Zenon, <1>a DEF RInv, RequestsBounded
  <1>1. Queued(p)' \in SUBSET Queued(p)
    BY Zenon DEF Queued, Replace
  <1>2. Cardinality(Queued(p)') <= FETCH_BLOCKS_CONCURRENCY
    BY Zenon, <1>0, <1>1, RequestSets, Fewer
  <1>3. CASE p # g.peer
    <2>1. Live(p)' \in SUBSET Live(p) /\ Processing(p)' \in SUBSET Processing(p)
      BY Zenon, <1>3 DEF Live, Processing, Replace
    <2>2. (Live(p) \cup Processing(p))' \in SUBSET (Live(p) \cup Processing(p))
      BY Zenon, <2>1
    <2> QED
      BY Zenon, <1>0, <1>2, <2>1, <2>2, RequestSets, Fewer
  <1>4. CASE p = g.peer
    <2>1. g \in Live(p) \cup Processing(p)
      BY Zenon, <1>4 DEF Live
    <2>2. (Live(p) \cup Processing(p))' \in SUBSET (((Live(p) \cup Processing(p)) \ {g}) \cup {h})
      BY Zenon, <1>4 DEF Live, Processing, Replace
    <2>3. Processing(p)' \in SUBSET {h}
      BY Zenon, <1>4 DEF Processing, Replace
    <2>4. Cardinality((Live(p) \cup Processing(p))') <= FETCH_BLOCKS_CONCURRENCY
      <3> DEFINE A == Live(p) \cup Processing(p)
                 B == (Live(p) \cup Processing(p))'
      <3>1. IsFiniteSet(A) /\ Cardinality(A) <= FETCH_BLOCKS_CONCURRENCY
        BY Zenon, RequestSets
      <3>2. g \in A /\ B \in SUBSET ((A \ {g}) \cup {h})
        BY Zenon, <2>1, <2>2
      <3> HIDE DEF A, B
      <3>3. Cardinality(B) <= FETCH_BLOCKS_CONCURRENCY
        BY <1>0, <3>1, <3>2, OneForAnother, Zenon
      <3> QED
        BY Zenon, <3>3 DEF B
    <2> QED
      BY Zenon, <1>2, <2>3, <2>4
  <1> QED
    BY Zenon, <1>3, <1>4

LEMMA InitRInv == Init => RInv /\ NothingLeftBehind
  <1> SUFFICES ASSUME Init PROVE RInv /\ NothingLeftBehind
    OBVIOUS
  <1>0. FETCH_BLOCKS_CONCURRENCY \in Nat
    BY Zenon, SynchronizerAssumption
  <1>1. \A p \in Peers : Queued(p) = {} /\ Live(p) \cup Processing(p) = {} /\ Processing(p) = {}
    BY Zenon DEF Init, Queued, Live, Processing
  <1>2. IsFiniteSet(guards)
    BY Zenon, FS_EmptySet DEF Init
  <1>3. Cardinality({}) = 0 /\ 0 <= FETCH_BLOCKS_CONCURRENCY
    BY <1>0, FS_EmptySet
  <1>4. RequestsBounded
    BY Zenon, <1>1, <1>3 DEF RequestsBounded
  <1>5. NothingLeftBehind
    BY Zenon DEF NothingLeftBehind, Init
  <1> QED
    BY Zenon, <1>2, <1>4, <1>5 DEF RInv

LEMMA NextRInv == TypeOK /\ RInv /\ [Next]_vars => RInv'
  <1> SUFFICES ASSUME TypeOK, RInv, [Next]_vars PROVE RInv'
    OBVIOUS
  <1>0. FETCH_BLOCKS_CONCURRENCY \in Nat
    BY Zenon, SynchronizerAssumption
  <1>a. \A g \in guards : IsGuard(g) /\ g.peer \in Peers
    BY Zenon, GuardFields DEF TypeOK
  <1>b. IsFiniteSet(guards)
    BY Zenon DEF RInv
  <1>c. ASSUME NEW h, guards' \in SUBSET (guards \cup {h}) PROVE IsFiniteSet(guards')
    <2>1. IsFiniteSet(guards \cup {h})
      BY Zenon, <1>b, FS_AddElement
    <2> QED
      BY Zenon, <1>c, <2>1, FS_Subset
  <1>d. ASSUME guards' \in SUBSET guards PROVE RInv'
    <2>1. IsFiniteSet(guards')
      BY Zenon, <1>b, <1>d, FS_Subset
    <2> QED
      BY Zenon, <1>d, <2>1, QuietKeepsRInv
  <1>e. ASSUME NEW b, LockAndRequest(b) PROVE RInv'
    <2> DEFINE h == NewGuard(b.peer, Lockable(b.refs, b.peer), "periodic", b.after)
    <2>1. guards' \in SUBSET (guards \cup {h})
      BY Zenon, <1>e DEF LockAndRequest
    <2>2. h.stage = "periodic"
      BY Zenon DEF NewGuard
    <2> HIDE DEF h
    <2>3. IsFiniteSet(guards')
      BY Zenon, <1>c, <2>1
    <2>4. \A g \in guards' : g \in guards \/ g.stage = "periodic"
      BY Zenon, <2>1, <2>2
    <2> QED
      BY Zenon, <2>3, <2>4, QuietKeepsRInv
  <1>2. ASSUME NEW c \in commands, FetchBlocks(c) PROVE RInv'
    <2> DEFINE refs == Lockable(FirstBlocks(c.refs, MaxBlocksPerSync), c.peer)
               h == NewGuard(c.peer, refs, "queued", [a \in Authorities |-> 0])
    <2>1. CASE guards' = guards
      BY Zenon, <2>1, <1>d
    <2>2. CASE guards' = guards \cup {h} /\ Cardinality(Queued(c.peer)) < FETCH_BLOCKS_CONCURRENCY
      <3>1. h.stage = "queued" /\ h.peer = c.peer
        BY Zenon DEF NewGuard
      <3> HIDE DEF h
      <3>2. IsFiniteSet(guards')
        BY Zenon, <2>2, <1>c
      <3> SUFFICES ASSUME NEW p \in Peers
                   PROVE  /\ Cardinality(Queued(p)') <= FETCH_BLOCKS_CONCURRENCY
                          /\ Cardinality((Live(p) \cup Processing(p))') <= FETCH_BLOCKS_CONCURRENCY
                          /\ \A g, k \in Processing(p)' : g = k
        BY Zenon, <3>2 DEF RInv, RequestsBounded
      <3>3. Live(p)' \in SUBSET Live(p) /\ Processing(p)' \in SUBSET Processing(p)
        BY Zenon, <2>2, <3>1 DEF Live, Processing
      <3>4. (Live(p) \cup Processing(p))' \in SUBSET (Live(p) \cup Processing(p))
        BY Zenon, <3>3
      <3>5. /\ Cardinality((Live(p) \cup Processing(p))') <= FETCH_BLOCKS_CONCURRENCY
            /\ \A g, k \in Processing(p)' : g = k
        BY Zenon, <1>0, <3>3, <3>4, RequestSets, Fewer
      <3>6. CASE p = c.peer
        <4>1. Queued(p)' \in SUBSET (Queued(p) \cup {h})
          BY Zenon, <2>2 DEF Queued
        <4>2. Cardinality(Queued(p)') <= FETCH_BLOCKS_CONCURRENCY
          BY <1>0, <2>2, <3>6, <4>1, RequestSets, OneMore
        <4> QED
          BY Zenon, <3>5, <4>2
      <3>7. CASE p # c.peer
        <4>1. Queued(p)' \in SUBSET Queued(p)
          BY Zenon, <2>2, <3>1, <3>7 DEF Queued
        <4>2. Cardinality(Queued(p)') <= FETCH_BLOCKS_CONCURRENCY
          BY <1>0, <4>1, RequestSets, Fewer
        <4> QED
          BY Zenon, <3>5, <4>2
      <3> QED
        BY Zenon, <3>6, <3>7
    <2> QED
      BY Zenon, <1>2, <2>1, <2>2 DEF FetchBlocks
  <1>3. ASSUME NEW g \in guards, StartRequest(g) PROVE RInv'
    <2> DEFINE h == Asked(g, FetchAfterRounds)
    <2>1. h.stage = "live" /\ h.peer = g.peer
      BY Zenon, <1>a, AskedGuard
    <2>2. guards' = Replace(g, h) /\ g.stage = "queued" /\ Processing(g.peer) = {}
          /\ Cardinality(Live(g.peer)) < FETCH_BLOCKS_CONCURRENCY
      BY Zenon, <1>3 DEF StartRequest
    <2> HIDE DEF h
    <2>3. guards' \in SUBSET (guards \cup {h})
      BY Zenon, <2>2 DEF Replace
    <2>4. IsFiniteSet(guards')
      BY Zenon, <2>3, <1>c
    <2> SUFFICES ASSUME NEW p \in Peers
                 PROVE  /\ Cardinality(Queued(p)') <= FETCH_BLOCKS_CONCURRENCY
                        /\ Cardinality((Live(p) \cup Processing(p))') <= FETCH_BLOCKS_CONCURRENCY
                        /\ \A j, k \in Processing(p)' : j = k
      BY Zenon, <2>4 DEF RInv, RequestsBounded
    <2>5. Queued(p)' \in SUBSET Queued(p) /\ Processing(p)' \in SUBSET Processing(p)
      BY Zenon, <2>1, <2>3 DEF Queued, Processing
    <2>6. /\ Cardinality(Queued(p)') <= FETCH_BLOCKS_CONCURRENCY
          /\ \A j, k \in Processing(p)' : j = k
      BY Zenon, <1>0, <2>5, RequestSets, Fewer
    <2>7. CASE p = g.peer
      <3>1. (Live(p) \cup Processing(p))' \in SUBSET (Live(p) \cup {h})
        BY Zenon, <2>2, <2>3, <2>5, <2>7 DEF Live
      <3>2. Cardinality((Live(p) \cup Processing(p))') <= FETCH_BLOCKS_CONCURRENCY
        BY <1>0, <2>2, <2>7, <3>1, RequestSets, OneMore
      <3> QED
        BY Zenon, <2>6, <3>2
    <2>8. CASE p # g.peer
      <3>1. (Live(p) \cup Processing(p))' \in SUBSET (Live(p) \cup Processing(p))
        BY Zenon, <2>1, <2>3, <2>5, <2>8 DEF Live
      <3>2. Cardinality((Live(p) \cup Processing(p))') <= FETCH_BLOCKS_CONCURRENCY
        BY Zenon, <1>0, <3>1, RequestSets, Fewer
      <3> QED
        BY Zenon, <2>6, <3>2
    <2> QED
      BY Zenon, <2>7, <2>8
  <1>4. ASSUME NEW g \in guards, LiveAnswer(g) PROVE RInv'
    <2>1. PICK S : guards' = Replace(g, Answered(g, "live_processing", S))
      BY Zenon, <1>4 DEF LiveAnswer
    <2> DEFINE h == Answered(g, "live_processing", S)
    <2>2. h.peer = g.peer /\ h.stage = "live_processing"
      BY <1>a, AnsweredGuard
    <2>3. guards' = Replace(g, h) /\ g.stage = "live" /\ Processing(g.peer) = {}
      BY Zenon, <1>4, <2>1 DEF LiveAnswer
    <2> HIDE DEF h
    <2> QED
      BY Zenon, <2>2, <2>3, MoveKeepsRInv
  <1>5. ASSUME NEW g \in guards, LiveFailure(g) PROVE RInv'
    <2>1. CASE guards' = guards \ {g}
      BY Zenon, <2>1, <1>d
    <2>2. CASE guards' = Replace(g, [g EXCEPT !.retries = @ + 1])
      <3> DEFINE h == [g EXCEPT !.retries = @ + 1]
      <3>1. h.peer = g.peer /\ h.stage = g.stage
        BY Zenon, <1>a, RetriedGuard
      <3>2. guards' = Replace(g, h) /\ g.stage = "live" /\ Processing(g.peer) = {}
        BY Zenon, <1>5, <2>2 DEF LiveFailure
      <3> HIDE DEF h
      <3> QED
        BY Zenon, <3>1, <3>2, MoveKeepsRInv
    <2> QED
      BY Zenon, <1>5, <2>1, <2>2 DEF LiveFailure
  <1>6. ASSUME NEW g, ProcessFetchedBlocks(g) PROVE RInv'
    BY Zenon, <1>6, <1>d DEF ProcessFetchedBlocks
  <1>7. ASSUME NEW p \in Peers, PeriodicAfterRounds(p) PROVE RInv'
    <2> DEFINE h == NewGuard(p, {}, "periodic", FetchAfterRounds)
    <2>1. guards' = guards \cup {h}
      BY Zenon, <1>7 DEF PeriodicAfterRounds
    <2>2. h.stage = "periodic"
      BY Zenon DEF NewGuard
    <2> HIDE DEF h
    <2>3. IsFiniteSet(guards')
      BY Zenon, <1>c, <2>1
    <2> QED
      BY Zenon, <2>1, <2>2, <2>3, QuietKeepsRInv
  <1>8. ASSUME PeriodicSend PROVE RInv'
    BY Zenon, <1>8, <1>e DEF PeriodicSend
  <1>9. ASSUME NEW s \in swapping, SwapLocks(s) PROVE RInv'
    BY Zenon, <1>9, <1>e DEF SwapLocks
  <1>10. ASSUME NEW g \in guards, PeriodicAnswer(g) PROVE RInv'
    <2>1. PICK S : guards' = Replace(g, Answered(g, "result", S))
      BY Zenon, <1>10 DEF PeriodicAnswer
    <2> DEFINE h == Answered(g, "result", S)
    <2>2. h.stage = "result"
      BY <1>a, AnsweredGuard
    <2>3. guards' = Replace(g, h)
      BY Zenon, <2>1
    <2> HIDE DEF h
    <2>4. guards' \in SUBSET (guards \cup {h})
      BY Zenon, <2>3 DEF Replace
    <2>5. IsFiniteSet(guards')
      BY Zenon, <1>c, <2>4
    <2> QED
      BY Zenon, <2>2, <2>4, <2>5, QuietKeepsRInv
  <1>11. ASSUME NEW g \in guards, PeriodicFailure(g) PROVE RInv'
    BY Zenon, <1>11, <1>d DEF PeriodicFailure
  <1>12. ASSUME PeriodicGathered PROVE RInv'
    BY Zenon, <1>12, <1>d DEF PeriodicGathered
  <1>13. ASSUME UNCHANGED guards PROVE RInv'
    BY Zenon, <1>13, <1>d
  <1>14. ASSUME NEW b \in SentBlocks, ReceiveBlock(b) PROVE RInv'
    BY Zenon, <1>14, <1>13 DEF ReceiveBlock
  <1> QED
    BY Zenon, <1>2, <1>3, <1>4, <1>5, <1>6, <1>7, <1>8, <1>9, <1>10, <1>11, <1>12,
       <1>13, <1>14
       DEF Next, vars, ProcessLive, ProcessPeriodic, PeriodicSkipped, PeriodicNothing,
           PeriodicMissing, PeriodicEnd, CommitAdvances, QuorumAdvances, CommitStalls

LEMMA NextNothingLeftBehind ==
    TypeOK /\ NothingLeftBehind /\ [Next]_vars => NothingLeftBehind'
  <1> SUFFICES ASSUME TypeOK, NothingLeftBehind, [Next]_vars PROVE NothingLeftBehind'
    OBVIOUS
  <1>a. \A g \in guards : IsGuard(g)
    BY Zenon, GuardFields DEF TypeOK
  <1>b. task \in {"idle", "fetching", "processing"}
    BY Zenon DEF TypeOK
  \* A step in which no periodic request appears and the task stays.
  <1>c. ASSUME UNCHANGED task_vars,
               \A g \in guards' : g \in guards \/ g.stage \in {"queued", "live", "live_processing"}
        PROVE  NothingLeftBehind'
    BY Zenon, <1>c DEF NothingLeftBehind, task_vars
  <1>d. ASSUME task' = "fetching" PROVE NothingLeftBehind'
    BY Zenon, <1>d DEF NothingLeftBehind
  <1>1. ASSUME NEW b \in SentBlocks, ReceiveBlock(b) PROVE NothingLeftBehind'
    BY Zenon, <1>1, <1>c DEF ReceiveBlock
  <1>2. ASSUME NEW c \in commands, FetchBlocks(c) PROVE NothingLeftBehind'
    <2> DEFINE refs == Lockable(FirstBlocks(c.refs, MaxBlocksPerSync), c.peer)
               h == NewGuard(c.peer, refs, "queued", [a \in Authorities |-> 0])
    <2>1. guards' \in SUBSET (guards \cup {h}) /\ UNCHANGED task_vars
      BY Zenon, <1>2 DEF FetchBlocks
    <2>2. h.stage = "queued"
      BY Zenon DEF NewGuard
    <2> HIDE DEF h
    <2> QED
      BY Zenon, <2>1, <2>2, <1>c
  <1>3. ASSUME NEW g \in guards, StartRequest(g) PROVE NothingLeftBehind'
    <2> DEFINE h == Asked(g, FetchAfterRounds)
    <2>1. h.stage = "live"
      BY Zenon, <1>a, AskedGuard
    <2>2. guards' \in SUBSET (guards \cup {h}) /\ UNCHANGED task_vars
      BY Zenon, <1>3 DEF StartRequest, Replace
    <2> HIDE DEF h
    <2> QED
      BY Zenon, <2>1, <2>2, <1>c
  <1>4. ASSUME NEW g \in guards, LiveAnswer(g) PROVE NothingLeftBehind'
    <2>1. PICK S : guards' = Replace(g, Answered(g, "live_processing", S))
      BY Zenon, <1>4 DEF LiveAnswer
    <2> DEFINE h == Answered(g, "live_processing", S)
    <2>2. h.stage = "live_processing"
      BY <1>a, AnsweredGuard
    <2>3. guards' \in SUBSET (guards \cup {h}) /\ UNCHANGED task_vars
      BY Zenon, <1>4, <2>1 DEF LiveAnswer, Replace
    <2> HIDE DEF h
    <2> QED
      BY Zenon, <2>2, <2>3, <1>c
  <1>5. ASSUME NEW g \in guards, LiveFailure(g) PROVE NothingLeftBehind'
    <2> DEFINE h == [g EXCEPT !.retries = @ + 1]
    <2>1. h.stage = g.stage
      BY Zenon, <1>a, RetriedGuard
    <2>2. guards' \in SUBSET (guards \cup {h}) /\ g.stage = "live" /\ UNCHANGED task_vars
      BY Zenon, <1>5 DEF LiveFailure, Replace
    <2> HIDE DEF h
    <2> QED
      BY Zenon, <2>1, <2>2, <1>c
  <1>6. ASSUME NEW g, ProcessFetchedBlocks(g), UNCHANGED task_vars PROVE NothingLeftBehind'
    BY Zenon, <1>6, <1>c DEF ProcessFetchedBlocks
  <1>7. ASSUME NEW p \in Peers, PeriodicAfterRounds(p) PROVE NothingLeftBehind'
    BY Zenon, <1>7, <1>d DEF PeriodicAfterRounds
  <1>8. ASSUME PeriodicMissing PROVE NothingLeftBehind'
    BY Zenon, <1>8, <1>d DEF PeriodicMissing
  <1>9. ASSUME PeriodicSend PROVE NothingLeftBehind'
    BY Zenon, <1>9, <1>d DEF PeriodicSend
  <1>10. ASSUME NEW s \in swapping, SwapLocks(s) PROVE NothingLeftBehind'
    <2>1. task = "fetching"
      BY Zenon, <1>10 DEF NothingLeftBehind
    <2> QED
      BY Zenon, <2>1, <1>10, <1>d DEF SwapLocks
  <1>11. ASSUME NEW g \in guards, PeriodicAnswer(g) PROVE NothingLeftBehind'
    BY Zenon, <1>11, <1>d DEF PeriodicAnswer, Gathering, task_vars
  <1>12. ASSUME NEW g \in guards, PeriodicFailure(g) PROVE NothingLeftBehind'
    BY Zenon, <1>12, <1>d DEF PeriodicFailure, Gathering
  <1>13. ASSUME PeriodicGathered PROVE NothingLeftBehind'
    BY Zenon, <1>13 DEF PeriodicGathered, Gathering, NothingLeftBehind
  <1>14. ASSUME PeriodicEnd PROVE NothingLeftBehind'
    BY Zenon, <1>14 DEF PeriodicEnd, NothingLeftBehind
  <1>15. ASSUME UNCHANGED <<guards, task_vars>> PROVE NothingLeftBehind'
    BY Zenon, <1>15, <1>c
  <1> QED
    BY Zenon, <1>1, <1>2, <1>3, <1>4, <1>5, <1>6, <1>7, <1>8, <1>9, <1>10, <1>11,
       <1>12, <1>13,
       <1>14, <1>15
       DEF Next, vars, task_vars, ProcessLive, ProcessPeriodic, PeriodicSkipped, PeriodicNothing,
           CommitAdvances, QuorumAdvances, CommitStalls

-----------------------------------------------------------------------------
\* All parts of the inductive invariant.
LEMMA PartsInvariance == Spec => [](TypeOK /\ LInv /\ RInv /\ NothingLeftBehind)
  <1>1. Init => TypeOK /\ LInv /\ RInv /\ NothingLeftBehind
    BY Zenon, InitTypeOK, InitLInv, InitRInv
  <1>2. TypeOK /\ LInv /\ RInv /\ NothingLeftBehind /\ [Next]_vars
           => (TypeOK /\ LInv /\ RInv /\ NothingLeftBehind)'
    BY Zenon, NextTypeOK, NextLInv, NextRInv, NextNothingLeftBehind
  <1> QED
    BY <1>1, <1>2, PTL DEF Spec

\* The invariant of the synchronizer: types, exact and bounded locks, bounded
\* live tasks, and a periodic task that leaves nothing behind.
THEOREM Invariance == Spec => []IInv
  <1>1. TypeOK /\ LInv /\ RInv /\ NothingLeftBehind => IInv
    BY Zenon DEF IInv, LInv, RInv, EntriesSmall, EntriesBounded
  <1> QED
    BY <1>1, PartsInvariance, PTL

\* Every variable keeps its type.  In particular the authors of the missing
\* blocks are never dealt in more batches than there are known peers, and the
\* scan of a peer pops every block it may return.
THEOREM TypeCorrect == Spec => []TypeOK
  <1>1. IInv => TypeOK
    BY Zenon DEF IInv
  <1> QED
    BY <1>1, Invariance, PTL

\* The task of a peer never has more than FETCH_BLOCKS_CONCURRENCY requests
\* waiting, nor more than that out, and processes one answer at a time.
THEOREM LiveTasksBounded == Spec => []RequestsBounded
  <1>1. IInv => RequestsBounded
    BY Zenon DEF IInv
  <1> QED
    BY <1>1, Invariance, PTL

\* When the task of a periodic sync has ended, no guard of it is alive.
THEOREM PeriodicSyncIsClean == Spec => []NothingLeftBehind
  <1>1. IInv => NothingLeftBehind
    BY Zenon DEF IInv
  <1> QED
    BY <1>1, Invariance, PTL

\* The map of in-flight blocks is exact in every state, so that neither the
\* expect nor the assert of unlock_blocks can fail and no lock is leaked.
THEOREM LocksAreExact == Spec => []LocksExact
  <1>1. IInv => LocksExact
    BY Zenon DEF IInv
  <1> QED
    BY <1>1, Invariance, PTL

\* No block is ever fetched from more than
\* MAX_AUTHORITIES_TO_FETCH_PER_BLOCK peers at a time.
THEOREM FetchesAreBounded == Spec => []FetchBound
  <1>1. LInv => FetchBound
    <2> SUFFICES ASSUME LInv, NEW b \in Blocks
                 PROVE  Cardinality({g \in guards : b \in g.refs})
                           <= MAX_AUTHORITIES_TO_FETCH_PER_BLOCK
      BY Zenon DEF FetchBound
    <2> DEFINE S == {g \in guards : b \in g.refs}
               f == [g \in S |-> g.peer]
    <2>1. inflight[b] = {g.peer : g \in S}
      BY Zenon DEF LInv, LocksExact
    <2>2. \A g, h \in S : f[g] = f[h] => g = h
      BY Zenon DEF LInv, LocksExact
    <2>3. f \in Injection(S, inflight[b])
      BY Zenon, <2>1, <2>2 DEF Injection, IsInjective
    <2>4. /\ IsFiniteSet(inflight[b])
          /\ Cardinality(inflight[b]) <= MAX_AUTHORITIES_TO_FETCH_PER_BLOCK
      BY Zenon DEF LInv, EntriesSmall
    <2> HIDE DEF S, f
    <2>5. IsFiniteSet(S) /\ Cardinality(S) <= Cardinality(inflight[b])
      BY Zenon, <2>3, <2>4, FS_Injection
    <2>6. Cardinality(S) \in Nat /\ Cardinality(inflight[b]) \in Nat
      BY Zenon, <2>4, <2>5, FS_CardinalityType
    <2>7. MAX_AUTHORITIES_TO_FETCH_PER_BLOCK \in Nat
      BY Zenon, SynchronizerAssumption
    <2>8. Cardinality(S) <= MAX_AUTHORITIES_TO_FETCH_PER_BLOCK
      BY <2>4, <2>5, <2>6, <2>7
    <2> QED
      BY Zenon, <2>8 DEF S
  <1> QED
    BY <1>1, PartsInvariance, PTL

=============================================================================
