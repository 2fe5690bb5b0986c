-------------------------- MODULE CommitterProofs --------------------------
(***************************************************************************)
(* Agreement of the commit rule, for every committee, every DAG and every  *)
(* order in which validators accept its blocks.                            *)
(***************************************************************************)
EXTENDS Committer, StakeThresholds, WellFoundedInduction, TLAPS

-----------------------------------------------------------------------------
\* The inductive invariant behind Agreement: every decision is justified by
\* blocks that exist and by other decisions.

\* The block `anchor' decides slot r: it is committed, and the slots between r's
\* wave and it are skipped.
Anchored(r, anchor) ==
    /\ anchor \in Blocks
    /\ <<Round[anchor], anchor>> \in ruled
    /\ Round[anchor] >= r + WAVE_LENGTH
    /\ \A p \in 1 .. MaxRound :
        (p >= r + WAVE_LENGTH /\ p < Round[anchor]) => <<p, Skip>> \in ruled

CommitJustified(r, l) ==
    /\ l \in LeaderBlocks(Blocks, r)
    /\ \/ enough_leader_support(Blocks, l)
       \/ \E anchor \in Blocks :
            Anchored(r, anchor) /\ Certificates(Past[graph][anchor], l) # {}

SkipJustified(r) ==
    \/ enough_leader_blame(Blocks, r)
    \/ \E anchor \in Blocks :
        /\ Anchored(r, anchor)
        /\ \A l \in LeaderBlocks(Blocks, r) : Certificates(Past[graph][anchor], l) = {}

Justified(r, status) ==
    /\ status = Skip => SkipJustified(r)
    /\ status # Skip => CommitJustified(r, status)

\* The statuses of the running try_decide are among the decisions, and there are
\* none when none runs.
LeadersRuled ==
    /\ ~deciding => leaders = NoLeaders
    /\ \A r \in 1 .. MaxRound :
          /\ leaders[r] # Undecided => <<r, leaders[r]>> \in ruled
          /\ leaders[r] \in Blocks => leaders[r] \in view

IInv ==
    /\ TypeOK
    /\ \A b \in view : Past[graph][b] \subseteq view
    /\ LeadersRuled
    /\ \A r \in 1 .. MaxRound : \A s \in Blocks \cup {Skip} : <<r, s>> \in ruled => Justified(r, s)
    /\ Agreement

-----------------------------------------------------------------------------
\* Facts about graphs.

\* A non-empty set of naturals has a least element.
LEMMA LeastNatural ==
    ASSUME NEW S \in SUBSET Nat, S # {}
    PROVE  \E m \in S : \A n \in S : m <= n
  <1> DEFINE R == OpToRel(<, Nat)
  <1>1. IsWellFoundedOn(R, Nat)
    BY NatLessThanWellFounded
  <1>2. \A x, y \in Nat : <<x, y>> \in R <=> x < y
    BY DEF OpToRel
  <1> HIDE DEF R
  <1>3. PICK m \in S : \A n \in S : ~ (<<n, m>> \in R)
    BY <1>1, WFMin
  <1>4. \A n \in S : ~(n < m)
    BY <1>2, <1>3, Zenon
  <1>5. \A n \in S : m <= n
    BY <1>4
  <1> QED
    BY <1>3, <1>5

\* Quorums are not empty, and more blocks give more authors.
LEMMA QuorumFacts ==
    /\ \A Q \in Quorums : Q # {}
    /\ \A S, T \in SUBSET Blocks :
          (S \subseteq T /\ AuthorsOf(S) \in Quorums) => AuthorsOf(T) \in Quorums
    /\ \A S \in SUBSET Blocks : AuthorsOf(S) \in Quorums => S # {}
  <1>1. \A Q \in Quorums : Q # {}
    BY QuorumAssumption
  <1>2. \A S, T \in SUBSET Blocks :
          (S \subseteq T /\ AuthorsOf(S) \in Quorums) => AuthorsOf(T) \in Quorums
    <2> SUFFICES ASSUME NEW S \in SUBSET Blocks, NEW T \in SUBSET Blocks, S \subseteq T,
                        AuthorsOf(S) \in Quorums
                 PROVE  AuthorsOf(T) \in Quorums
      OBVIOUS
    <2>1. AuthorsOf(S) \subseteq AuthorsOf(T) /\ AuthorsOf(T) \in SUBSET Authorities
      BY BlockAssumption DEF AuthorsOf
    <2> QED
      BY <2>1, QuorumAssumption
  <1>3. \A S \in SUBSET Blocks : AuthorsOf(S) \in Quorums => S # {}
    BY <1>1 DEF AuthorsOf
  <1> QED
    BY <1>1, <1>2, <1>3

\* Two sets of blocks of the same round whose authors are quorums have a block
\* in common: one of an author that does not equivocate.
LEMMA QuorumsShareBlock ==
    ASSUME NEW r \in Nat,
           NEW S \in SUBSET Blocks, NEW T \in SUBSET Blocks,
           \A b \in S \cup T : Round[b] = r,
           AuthorsOf(S) \in Quorums, AuthorsOf(T) \in Quorums
    PROVE  S \cap T # {}
  <1>1. PICK h \in AuthorsOf(S) \cap AuthorsOf(T) : h \notin Byzantine
    BY QuorumAssumption
  <1>2. PICK b \in S : Author[b] = h
    BY <1>1 DEF AuthorsOf
  <1>3. PICK c \in T : Author[c] = h
    BY <1>1 DEF AuthorsOf
  <1>4. b = c
    BY <1>1, <1>2, <1>3, BlockAssumption
  <1> QED
    BY <1>2, <1>3, <1>4

LEMMA GraphFacts ==
    ASSUME NEW g \in Graphs, NEW b \in Blocks
    PROVE  /\ Round[b] \in Nat /\ Round[b] >= 1 /\ Round[b] <= MaxRound
           /\ Ancestors[g][b] \subseteq Blocks /\ Past[g][b] \subseteq Blocks
           /\ Ancestors[g][b] \subseteq Past[g][b]
           /\ \A a \in Ancestors[g][b] : Past[g][a] \subseteq Past[g][b] /\ Round[a] < Round[b]
           /\ \A a, c \in Ancestors[g][b] : Author[a] = Author[c] => a = c
           /\ Round[b] > 1 =>
                AuthorsOf({a \in Ancestors[g][b] : Round[a] + 1 = Round[b]}) \in Quorums
  <1>1. /\ Round[b] \in Nat /\ Round[b] >= 1 /\ Round[b] <= MaxRound
    BY BlockAssumption
  <1>2. /\ Ancestors[g][b] \subseteq Blocks /\ Past[g][b] \subseteq Blocks
    BY GraphAssumption
  <1>3. Past[g][b] = Ancestors[g][b] \cup UNION {Past[g][a] : a \in Ancestors[g][b]}
    BY GraphAssumption
  <1>4. Ancestors[g][b] \subseteq Past[g][b] /\ \A a \in Ancestors[g][b] : Past[g][a] \subseteq Past[g][b]
    BY <1>3
  <1>5. ValidGraph(Ancestors[g])
    BY GraphAssumption
  <1> QED
    BY <1>1, <1>2, <1>4, <1>5 DEF ValidGraph

\* The past of a block has blocks of a quorum in each earlier round.
LEMMA PastQuorum ==
    ASSUME NEW g \in Graphs
    PROVE  \A b \in Blocks : \A q \in Nat :
              (1 <= q /\ q < Round[b]) => AuthorsOf({x \in Past[g][b] : Round[x] = q}) \in Quorums
  <1> DEFINE Good(b) == \A q \in Nat :
              (1 <= q /\ q < Round[b]) => AuthorsOf({x \in Past[g][b] : Round[x] = q}) \in Quorums
             Bad == {b \in Blocks : ~Good(b)}
             Rounds == {Round[b] : b \in Bad}
  <1> SUFFICES ASSUME Bad # {}
               PROVE  FALSE
    OBVIOUS
  <1>1. Bad \subseteq Blocks
    OBVIOUS
  <1>2. \A c \in Blocks : c \notin Bad => Good(c)
    OBVIOUS
  <1>3. \A c \in Bad : ~Good(c)
    OBVIOUS
  <1> HIDE DEF Bad
  <1>a. \A c \in Blocks : Round[c] \in Nat
    BY BlockAssumption
  <1>c. Rounds \in SUBSET Nat /\ Rounds # {}
    BY <1>a, <1>1
  <1>d. PICK m \in Rounds : \A n \in Rounds : m <= n
    <2> HIDE DEF Rounds
    <2> QED
      BY <1>c, LeastNatural
  <1>e. PICK b \in Bad : Round[b] = m
    BY <1>d
  <1>4. \A c \in Blocks : Round[c] < Round[b] => Good(c)
    <2> SUFFICES ASSUME NEW c \in Blocks, Round[c] < Round[b], c \in Bad
                 PROVE  FALSE
      BY <1>2
    <2>1. Round[c] \in Rounds
      OBVIOUS
    <2>2. m <= Round[c]
      BY <2>1, <1>d
    <2> QED
      BY <2>2, <1>e, <1>a, <1>1
  <1>5. PICK q \in Nat : /\ 1 <= q /\ q < Round[b]
                         /\ AuthorsOf({x \in Past[g][b] : Round[x] = q}) \notin Quorums
    BY <1>e, <1>3
  <1> DEFINE parents == {a \in Ancestors[g][b] : Round[a] + 1 = Round[b]}
  <1>b. /\ b \in Blocks /\ Round[b] \in Nat /\ Past[g][b] \subseteq Blocks
        /\ Ancestors[g][b] \subseteq Blocks /\ Ancestors[g][b] \subseteq Past[g][b]
        /\ \A a \in Ancestors[g][b] : Past[g][a] \subseteq Past[g][b] /\ Round[a] \in Nat
        /\ Round[b] > 1 => AuthorsOf(parents) \in Quorums
    BY <1>e, <1>1, GraphFacts
  <1>6. AuthorsOf(parents) \in Quorums /\ parents # {} /\ parents \subseteq Blocks
    <2>1. AuthorsOf(parents) \in Quorums /\ parents \subseteq Blocks
      BY <1>b, <1>5
    <2> QED
      BY <2>1, QuorumFacts
  <1>7. CASE q + 1 = Round[b]
    <2>1. parents \subseteq {x \in Past[g][b] : Round[x] = q}
      BY <1>b, <1>7
    <2>2. {x \in Past[g][b] : Round[x] = q} \subseteq Blocks
      BY <1>b
    <2> HIDE DEF parents
    <2> QED
      BY <2>1, <2>2, <1>5, <1>6, QuorumFacts
  <1>8. CASE q + 1 # Round[b]
    <2>1. PICK a \in parents : TRUE
      BY <1>6
    <2>2. a \in Blocks /\ Round[a] < Round[b] /\ q < Round[a] /\ Past[g][a] \subseteq Past[g][b]
      BY <2>1, <1>b, <1>5, <1>8
    <2>3. AuthorsOf({x \in Past[g][a] : Round[x] = q}) \in Quorums
      BY <2>2, <1>4, <1>5
    <2>4. /\ {x \in Past[g][a] : Round[x] = q} \subseteq {x \in Past[g][b] : Round[x] = q}
          /\ {x \in Past[g][b] : Round[x] = q} \subseteq Blocks
      BY <2>2, <1>b
    <2> QED
      BY <2>3, <2>4, <1>5, QuorumFacts
  <1> QED
    BY <1>7, <1>8

-----------------------------------------------------------------------------
\* Facts about certificates and blames.

\* The votes in a certificate for l are of the round after l.
LEMMA VoteFacts ==
    ASSUME graph \in Graphs, NEW l \in Blocks, NEW c \in Certificates(Blocks, l)
    PROVE  /\ c \in Blocks /\ Round[c] = Round[l] + 2 /\ AuthorsOf(Votes(c, l)) \in Quorums
           /\ Votes(c, l) \subseteq Blocks
           /\ \A v \in Votes(c, l) : Round[v] = Round[l] + 1 /\ l \in Ancestors[graph][v]
  <1>1. c \in Blocks /\ Round[c] = Round[l] + 2 /\ AuthorsOf(Votes(c, l)) \in Quorums
    BY BlockAssumption DEF Certificates, is_certificate, WAVE_LENGTH
  <1>2. Votes(c, l) \subseteq Blocks
    BY <1>1, GraphFacts DEF Votes
  <1>3. ASSUME NEW v \in Votes(c, l)
        PROVE  Round[v] = Round[l] + 1 /\ l \in Ancestors[graph][v]
    <2>1. v \in Blocks /\ v \in Ancestors[graph][c] /\ l \in Ancestors[graph][v]
      BY <1>2 DEF Votes
    <2>2. Round[l] < Round[v] /\ Round[v] < Round[c]
      BY <2>1, <1>1, GraphFacts
    <2>3. Round[l] \in Nat /\ Round[v] \in Nat /\ Round[c] \in Nat
      BY <2>1, <1>1, BlockAssumption
    <2> QED
      BY <2>1, <2>2, <2>3, <1>1
  <1> QED
    BY <1>1, <1>2, <1>3

LEMMA CertificatesMonotone ==
    ASSUME NEW S \in SUBSET Blocks, NEW T \in SUBSET Blocks, S \subseteq T, NEW l
    PROVE  Certificates(S, l) \subseteq Certificates(T, l) /\ Certificates(T, l) \subseteq Blocks
  BY DEF Certificates

LEMMA SupportMonotone ==
    ASSUME NEW S \in SUBSET Blocks, NEW l, enough_leader_support(S, l)
    PROVE  enough_leader_support(Blocks, l)
  <1>1. /\ Certificates(S, l) \subseteq Certificates(Blocks, l)
        /\ Certificates(Blocks, l) \in SUBSET Blocks /\ Certificates(S, l) \in SUBSET Blocks
    BY CertificatesMonotone
  <1> QED
    BY <1>1, QuorumFacts DEF enough_leader_support

LEMMA BlameMonotone ==
    ASSUME NEW S \in SUBSET Blocks, NEW r, enough_leader_blame(S, r)
    PROVE  enough_leader_blame(Blocks, r)
  <1>1. /\ Blames(S, r) \subseteq Blames(Blocks, r)
        /\ Blames(Blocks, r) \in SUBSET Blocks /\ Blames(S, r) \in SUBSET Blocks
    BY DEF Blames
  <1> QED
    BY <1>1, QuorumFacts DEF enough_leader_blame

\* A slot has one certified block at most: the votes of two certificates share
\* a block, and it refers to one block of the author of the slot only.
LEMMA OneCertifiedBlock ==
    ASSUME graph \in Graphs, NEW r \in 1 .. MaxRound,
           NEW l \in LeaderBlocks(Blocks, r), NEW m \in LeaderBlocks(Blocks, r),
           Certificates(Blocks, l) # {}, Certificates(Blocks, m) # {}
    PROVE  l = m
  <1>1. PICK c \in Certificates(Blocks, l) : TRUE
    OBVIOUS
  <1>2. PICK d \in Certificates(Blocks, m) : TRUE
    OBVIOUS
  <1>3. /\ l \in Blocks /\ Round[l] = r /\ Author[l] = Leader[r]
        /\ m \in Blocks /\ Round[m] = r /\ Author[m] = Leader[r]
    BY DEF LeaderBlocks
  <1>4. /\ AuthorsOf(Votes(c, l)) \in Quorums /\ Votes(c, l) \in SUBSET Blocks
        /\ \A v \in Votes(c, l) : Round[v] = r + 1 /\ l \in Ancestors[graph][v]
    BY <1>1, <1>3, VoteFacts
  <1>5. /\ AuthorsOf(Votes(d, m)) \in Quorums /\ Votes(d, m) \in SUBSET Blocks
        /\ \A v \in Votes(d, m) : Round[v] = r + 1 /\ m \in Ancestors[graph][v]
    BY <1>2, <1>3, VoteFacts
  <1>6. Votes(c, l) \cap Votes(d, m) # {}
    <2>1. r + 1 \in Nat
      OBVIOUS
    <2> QED
      BY <2>1, <1>4, <1>5, QuorumsShareBlock
  <1>7. PICK v \in Blocks : l \in Ancestors[graph][v] /\ m \in Ancestors[graph][v]
    BY <1>4, <1>5, <1>6
  <1>8. \A a, b \in Ancestors[graph][v] : Author[a] = Author[b] => a = b
    BY GraphFacts
  <1> QED
    BY <1>3, <1>7, <1>8

\* A certificate and a quorum of blames exclude each other.
LEMMA BlameExcludesCertificate ==
    ASSUME graph \in Graphs, NEW r \in 1 .. MaxRound, NEW l \in LeaderBlocks(Blocks, r),
           Certificates(Blocks, l) # {}, enough_leader_blame(Blocks, r)
    PROVE  FALSE
  <1>1. PICK c \in Certificates(Blocks, l) : TRUE
    OBVIOUS
  <1>3. l \in Blocks /\ Round[l] = r /\ Author[l] = Leader[r]
    BY DEF LeaderBlocks
  <1>4. /\ AuthorsOf(Votes(c, l)) \in Quorums /\ Votes(c, l) \in SUBSET Blocks
        /\ \A v \in Votes(c, l) : Round[v] = r + 1 /\ l \in Ancestors[graph][v]
    BY <1>1, <1>3, VoteFacts
  <1>5. /\ AuthorsOf(Blames(Blocks, r)) \in Quorums /\ Blames(Blocks, r) \in SUBSET Blocks
        /\ \A v \in Blames(Blocks, r) :
              Round[v] = r + 1 /\ \A a \in Ancestors[graph][v] : Author[a] # Leader[r]
    BY DEF enough_leader_blame, Blames
  <1>6. Votes(c, l) \cap Blames(Blocks, r) # {}
    <2>1. r + 1 \in Nat
      OBVIOUS
    <2> QED
      BY <2>1, <1>4, <1>5, QuorumsShareBlock
  <1> QED
    BY <1>3, <1>4, <1>5, <1>6

\* A block with enough support has a certificate in the past of every block
\* after its wave.
LEMMA SupportReachesPast ==
    ASSUME graph \in Graphs, NEW l \in Blocks, enough_leader_support(Blocks, l),
           NEW anchor \in Blocks, Round[anchor] >= Round[l] + WAVE_LENGTH
    PROVE  Certificates(Past[graph][anchor], l) # {}
  <1> DEFINE q == Round[l] + 2
             S == {x \in Past[graph][anchor] : Round[x] = q}
             T == Certificates(Blocks, l)
  <1>1. Round[l] \in Nat /\ Round[anchor] \in Nat
    BY BlockAssumption
  <1>2. q \in Nat /\ 1 <= q /\ q < Round[anchor]
    BY <1>1 DEF WAVE_LENGTH
  <1>3. AuthorsOf(S) \in Quorums
    BY <1>2, PastQuorum
  <1>4. S \in SUBSET Blocks /\ S \subseteq Past[graph][anchor]
    BY GraphFacts
  <1>5. AuthorsOf(T) \in Quorums /\ T \in SUBSET Blocks
    BY DEF enough_leader_support, Certificates
  <1>6. \A b \in S \cup T : Round[b] = q
    BY <1>1 DEF Certificates, WAVE_LENGTH
  <1>7. S \cap T # {}
    <2> HIDE DEF S, T, q
    <2> QED
      BY <1>2, <1>3, <1>4, <1>5, <1>6, QuorumsShareBlock
  <1>8. S \cap T \subseteq Certificates(Past[graph][anchor], l)
    BY DEF Certificates
  <1> QED
    BY <1>7, <1>8

-----------------------------------------------------------------------------
\* Decisions with a justification agree.

\* A justified commit has a certificate.
LEMMA CommitHasCertificate ==
    ASSUME TypeOK, NEW r \in 1 .. MaxRound, NEW l, CommitJustified(r, l)
    PROVE  l \in LeaderBlocks(Blocks, r) /\ l \in Blocks /\ Round[l] = r /\ Certificates(Blocks, l) # {}
  <1>1. l \in LeaderBlocks(Blocks, r) /\ l \in Blocks /\ Round[l] = r
    BY DEF CommitJustified, LeaderBlocks
  <1>2. CASE enough_leader_support(Blocks, l)
    <2>1. Certificates(Blocks, l) \in SUBSET Blocks
      BY DEF Certificates
    <2> QED
      BY <1>1, <1>2, <2>1, QuorumFacts DEF enough_leader_support
  <1>3. CASE \E anchor \in Blocks : Certificates(Past[graph][anchor], l) # {}
    <2>1. PICK anchor \in Blocks : Certificates(Past[graph][anchor], l) # {}
      BY <1>3
    <2>2. Past[graph][anchor] \subseteq Blocks
      BY GraphFacts DEF TypeOK
    <2> QED
      BY <1>1, <2>1, <2>2, CertificatesMonotone
  <1> QED
    BY <1>1, <1>2, <1>3 DEF CommitJustified

LEMMA AgreementOn ==
    ASSUME Agreement, NEW r, NEW s, NEW t, <<r, s>> \in ruled, <<r, t>> \in ruled
    PROVE  s = t
  BY DEF Agreement

\* A slot cannot be justified both ways.
LEMMA CommitExcludesSkip ==
    ASSUME TypeOK, Agreement, NEW r \in 1 .. MaxRound, NEW l,
           CommitJustified(r, l), SkipJustified(r)
    PROVE  FALSE
  <1>1. l \in LeaderBlocks(Blocks, r) /\ l \in Blocks /\ Round[l] = r /\ Certificates(Blocks, l) # {}
    BY CommitHasCertificate
  <1>2. ~enough_leader_blame(Blocks, r)
    BY <1>1, BlameExcludesCertificate DEF TypeOK
  <1>3. PICK A \in Blocks : Anchored(r, A) /\ Certificates(Past[graph][A], l) = {}
    BY <1>1, <1>2 DEF SkipJustified
  <1>4. ~enough_leader_support(Blocks, l)
    BY <1>1, <1>3, SupportReachesPast DEF TypeOK, Anchored
  <1>5. PICK B \in Blocks : Anchored(r, B) /\ Certificates(Past[graph][B], l) # {}
    BY <1>4 DEF CommitJustified
  <1>6. Round[A] \in 1 .. MaxRound /\ Round[B] \in 1 .. MaxRound /\ Skip \notin Blocks
    BY BlockAssumption
  <1>7. CASE Round[A] = Round[B]
    BY <1>3, <1>5, <1>7, AgreementOn DEF Anchored
  <1>8. CASE Round[A] < Round[B]
    <2>1. <<Round[A], A>> \in ruled /\ <<Round[A], Skip>> \in ruled
      BY <1>3, <1>5, <1>6, <1>8 DEF Anchored
    <2> QED
      BY <2>1, <1>6, AgreementOn
  <1>9. CASE Round[B] < Round[A]
    <2>1. <<Round[B], B>> \in ruled /\ <<Round[B], Skip>> \in ruled
      BY <1>3, <1>5, <1>6, <1>9 DEF Anchored
    <2> QED
      BY <2>1, <1>6, AgreementOn
  <1> QED
    BY <1>6, <1>7, <1>8, <1>9

\* All justified decisions of a slot are the same.
LEMMA JustifiedAgree ==
    ASSUME TypeOK, Agreement, NEW r \in 1 .. MaxRound, NEW s, NEW t,
           Justified(r, s), Justified(r, t)
    PROVE  s = t
  <1>1. CASE s = Skip /\ t # Skip
    BY <1>1, CommitExcludesSkip DEF Justified
  <1>2. CASE s # Skip /\ t = Skip
    BY <1>2, CommitExcludesSkip DEF Justified
  <1>3. CASE s # Skip /\ t # Skip
    <2>1. /\ s \in LeaderBlocks(Blocks, r) /\ Certificates(Blocks, s) # {}
          /\ t \in LeaderBlocks(Blocks, r) /\ Certificates(Blocks, t) # {}
      BY <1>3, CommitHasCertificate DEF Justified
    <2> QED
      BY <2>1, OneCertifiedBlock DEF TypeOK
  <1> QED
    BY <1>1, <1>2, <1>3

-----------------------------------------------------------------------------
\* Every step keeps the invariant.

\* What try_decide decides is justified.
LEMMA DecisionsJustified ==
    ASSUME IInv, NEW r \in 1 .. MaxRound, NEW s \in Decisions(r), s # Undecided
    PROVE  Justified(r, s) /\ s \in Blocks \cup {Skip} /\ (s \in Blocks => s \in view)
  <1>a. /\ graph \in Graphs /\ view \in SUBSET Blocks
        /\ Skip \notin Blocks /\ Undecided \notin Blocks /\ Skip # Undecided
    BY BlockAssumption DEF IInv, TypeOK
  <1>b. \A S, q : S \subseteq Blocks => LeaderBlocks(S, q) \subseteq LeaderBlocks(Blocks, q)
    BY DEF LeaderBlocks
  <1>c. \A q : LeaderBlocks(view, q) \subseteq view
    BY DEF LeaderBlocks
  <1>1. CASE s \in try_direct_decide(r)
    <2>1. CASE s = Skip /\ enough_leader_blame(view, r)
      BY <1>a, <2>1, BlameMonotone DEF Justified, SkipJustified
    <2>2. CASE s \in DirectCommits(r)
      <3>1. s \in LeaderBlocks(view, r) /\ enough_leader_support(view, s)
        BY <2>2 DEF DirectCommits
      <3>2. s \in view /\ s \in LeaderBlocks(Blocks, r) /\ enough_leader_support(Blocks, s)
        BY <3>1, <1>a, <1>b, <1>c, SupportMonotone
      <3> QED
        BY <3>2, <1>a DEF Justified, CommitJustified
    <2> QED
      BY <1>1, <2>1, <2>2 DEF try_direct_decide
  <1>2. CASE s \in try_indirect_decide(r)
    <2>1. PICK q \in 1 .. MaxRound :
            /\ IsAnchorRound(r, q) /\ leaders[q] \in Blocks
            /\ s \in decide_leader_from_anchor(r, leaders[q])
      BY <1>2 DEF try_indirect_decide
    <2> DEFINE A == leaders[q]
    <2>2. <<q, A>> \in ruled /\ A \in view
      BY <2>1, <1>a DEF IInv, LeadersRuled
    <2>3. Round[A] = q
      <3>1. Justified(q, A)
        BY <2>1, <2>2 DEF IInv
      <3> QED
        BY <3>1, <2>1, <1>a DEF Justified, CommitJustified, LeaderBlocks
    <2>4. Anchored(r, A)
      <3>1. \A p \in 1 .. MaxRound : (p >= r + WAVE_LENGTH /\ p < q) => <<p, Skip>> \in ruled
        BY <2>1, <1>a DEF IsAnchorRound, IInv, LeadersRuled
      <3> QED
        BY <2>1, <2>2, <2>3, <3>1 DEF Anchored, IsAnchorRound
    <2>5. CASE s = Skip /\ CertifiedLeaders(r, A) = {}
      <3>1. ASSUME NEW l \in LeaderBlocks(Blocks, r), Certificates(Past[graph][A], l) # {}
            PROVE  l \in view
        <4>1. PICK c \in Certificates(Past[graph][A], l) : TRUE
          BY <3>1
        <4>2. Past[graph][A] \subseteq view /\ Past[graph][A] \subseteq Blocks
          BY <2>2, <1>a DEF IInv
        <4>3. l \in Blocks /\ c \in view /\ c \in Certificates(Blocks, l)
          BY <4>1, <4>2 DEF Certificates, LeaderBlocks
        <4>4. PICK v \in Votes(c, l) : v \in Blocks /\ l \in Ancestors[graph][v]
          BY <4>3, <1>a, VoteFacts, QuorumFacts
        <4>5. v \in Ancestors[graph][c]
          BY <4>4 DEF Votes
        <4>6. v \in Past[graph][c] /\ l \in Past[graph][v]
          BY <4>3, <4>4, <4>5, <1>a, GraphFacts
        <4> QED
          BY <4>3, <4>6 DEF IInv
      <3>2. \A l \in LeaderBlocks(Blocks, r) : Certificates(Past[graph][A], l) = {}
        BY <3>1, <2>5 DEF CertifiedLeaders, LeaderBlocks
      <3> QED
        BY <2>1, <2>4, <2>5, <3>2, <1>a DEF Justified, SkipJustified
    <2>6. CASE s \in CertifiedLeaders(r, A)
      <3>1. s \in LeaderBlocks(view, r) /\ Certificates(Past[graph][A], s) # {}
        BY <2>6 DEF CertifiedLeaders
      <3>2. s \in view /\ s \in LeaderBlocks(Blocks, r)
        BY <3>1, <1>a, <1>b, <1>c
      <3> QED
        BY <2>1, <2>4, <3>1, <3>2, <1>a DEF Justified, CommitJustified
    <2> QED
      BY <2>1, <2>5, <2>6 DEF decide_leader_from_anchor
  <1> QED
    BY <1>1, <1>2 DEF Decisions

\* A justification stays one: the graph is fixed and decisions accumulate.
LEMMA JustifiedStable ==
    ASSUME graph' = graph, ruled \subseteq ruled', NEW r, NEW s, Justified(r, s)
    PROVE  Justified(r, s)'
  <1>1. \A A : Anchored(r, A) => Anchored(r, A)'
    BY DEF Anchored
  <1>2. /\ enough_leader_support(Blocks, s)' = enough_leader_support(Blocks, s)
        /\ enough_leader_blame(Blocks, r)' = enough_leader_blame(Blocks, r)
        /\ \A S, l : Certificates(S, l)' = Certificates(S, l)
        /\ LeaderBlocks(Blocks, r)' = LeaderBlocks(Blocks, r)
    BY DEF enough_leader_support, enough_leader_blame, Certificates, Blames, is_certificate,
           Votes, AuthorsOf, LeaderBlocks
  <1>3. SkipJustified(r) => SkipJustified(r)'
    BY <1>1, <1>2 DEF SkipJustified
  <1>4. CommitJustified(r, s) => CommitJustified(r, s)'
    BY <1>1, <1>2 DEF CommitJustified
  <1> QED
    BY <1>3, <1>4 DEF Justified

\* The conjuncts of the invariant about `ruled' hold in the next state when it
\* does not change.
LEMMA RuledUnchanged ==
    ASSUME IInv, UNCHANGED <<graph, ruled>>
    PROVE  /\ (\A r \in 1 .. MaxRound : \A s \in Blocks \cup {Skip} :
                  <<r, s>> \in ruled => Justified(r, s))'
           /\ Agreement'
  <1>1. ASSUME NEW r \in 1 .. MaxRound, NEW s \in Blocks \cup {Skip}, <<r, s>> \in ruled'
        PROVE  Justified(r, s)'
    BY <1>1, JustifiedStable DEF IInv
  <1> QED
    BY <1>1 DEF IInv, Agreement

LEMMA DecideLeaderPreserves ==
    ASSUME IInv, NEW status \in Status, DecideLeader(status)
    PROVE  IInv'
  <1>a. /\ deciding /\ cursor > last_decided /\ status \in Decisions(cursor)
        /\ leaders' = [leaders EXCEPT ![cursor] = status]
        /\ ruled' = IF status = Undecided THEN ruled ELSE ruled \cup {<<cursor, status>>}
        /\ cursor' = cursor - 1
        /\ graph' = graph /\ view' = view /\ last_decided' = last_decided /\ deciding' = deciding
    BY DEF DecideLeader
  <1>b. cursor \in 1 .. MaxRound
    BY <1>a, BlockAssumption DEF IInv, TypeOK
  <1>c. status # Undecided =>
            Justified(cursor, status) /\ status \in Blocks \cup {Skip} /\ (status \in Blocks => status \in view)
    BY <1>a, <1>b, DecisionsJustified
  <1>d. ruled \subseteq ruled' /\ graph' = graph
    BY <1>a
  <1>e. Skip \notin Blocks /\ Undecided \notin Blocks /\ Skip # Undecided /\ MaxRound \in Nat
    BY BlockAssumption
  <1>1. TypeOK'
    <2>1. ruled' \in SUBSET ((1 .. MaxRound) \X (Blocks \cup {Skip}))
      BY <1>a, <1>b, <1>c DEF IInv, TypeOK
    <2>2. cursor' \in 0 .. MaxRound
      BY <1>a, <1>b, <1>e
    <2>3. leaders' \in [1 .. MaxRound -> Status]
      BY <1>a, <1>b DEF IInv, TypeOK
    <2> QED
      BY <1>a, <2>1, <2>2, <2>3 DEF IInv, TypeOK
  <1>2. \A b \in view' : Past[graph'][b] \subseteq view'
    BY <1>a DEF IInv
  <1>3. LeadersRuled'
    <2> SUFFICES ASSUME NEW r \in 1 .. MaxRound
                 PROVE  /\ leaders'[r] # Undecided => <<r, leaders'[r]>> \in ruled'
                        /\ leaders'[r] \in Blocks => leaders'[r] \in view'
      BY <1>a DEF LeadersRuled
    <2>1. CASE r = cursor
      <3>1. leaders'[r] = status
        BY <2>1, <1>a, <1>b DEF IInv, TypeOK
      <3> QED
        BY <2>1, <3>1, <1>a, <1>c, <1>e
    <2>2. CASE r # cursor
      <3>1. leaders'[r] = leaders[r]
        BY <2>2, <1>a, <1>b DEF IInv, TypeOK
      <3> QED
        BY <3>1, <1>a, <1>d DEF IInv, LeadersRuled
    <2> QED
      BY <2>1, <2>2
  <1>4. \A x \in ruled' : x \in ruled \/ (status # Undecided /\ x = <<cursor, status>>)
    BY <1>a
  <1>5. \A r \in 1 .. MaxRound : \A s \in Blocks \cup {Skip} :
            <<r, s>> \in ruled' => Justified(r, s)
    BY <1>4, <1>c DEF IInv
  <1>6. \A r \in 1 .. MaxRound : \A s \in Blocks \cup {Skip} :
            <<r, s>> \in ruled' => Justified(r, s)'
    <2> SUFFICES ASSUME NEW r \in 1 .. MaxRound, NEW s \in Blocks \cup {Skip}, Justified(r, s)
                 PROVE  Justified(r, s)'
      BY <1>5
    <2> QED
      BY <1>d, JustifiedStable
  <1>7. Agreement'
    <2> SUFFICES ASSUME NEW x \in ruled', NEW y \in ruled', x[1] = y[1]
                 PROVE  x[2] = y[2]
      BY DEF Agreement
    <2>1. /\ x = <<x[1], x[2]>> /\ x[1] \in 1 .. MaxRound /\ x[2] \in Blocks \cup {Skip}
          /\ y = <<y[1], y[2]>> /\ y[2] \in Blocks \cup {Skip}
      BY <1>1 DEF TypeOK
    <2>2. Justified(x[1], x[2]) /\ Justified(x[1], y[2])
      BY <2>1, <1>5
    <2> QED
      BY <2>1, <2>2, JustifiedAgree DEF IInv
  <1> QED
    BY <1>1, <1>2, <1>3, <1>6, <1>7 DEF IInv

LEMMA StepPreserves ==
    ASSUME IInv, [Next]_vars
    PROVE  IInv'
  <1>a. MaxRound \in Nat /\ Undecided \notin Blocks
    BY BlockAssumption
  <1>b. /\ NoLeaders \in [1 .. MaxRound -> Status]
        /\ \A r \in 1 .. MaxRound : NoLeaders[r] = Undecided
    BY DEF NoLeaders, Status
  <1>1. ASSUME NEW b \in Blocks, AcceptBlock(b)
        PROVE  IInv'
    <2>1. TypeOK' /\ LeadersRuled'
      BY <1>1 DEF IInv, TypeOK, LeadersRuled, AcceptBlock, NoLeaders
    <2>2. UNCHANGED <<graph, ruled>>
      BY <1>1 DEF AcceptBlock
    <2>3. \A c \in view' : Past[graph'][c] \subseteq view'
      <3>1. Past[graph][b] = Ancestors[graph][b] \cup UNION {Past[graph][a] : a \in Ancestors[graph][b]}
        BY GraphAssumption DEF IInv, TypeOK
      <3>2. Past[graph][b] \subseteq view
        BY <3>1, <1>1 DEF IInv, AcceptBlock
      <3> QED
        BY <3>2, <1>1 DEF IInv, AcceptBlock
    <2> QED
      BY <2>1, <2>2, <2>3, RuledUnchanged DEF IInv
  <1>2. ASSUME NEW r \in 1 .. MaxRound, StartDecide(r)
        PROVE  IInv'
    <2>1. UNCHANGED <<graph, ruled>> /\ view' = view /\ leaders' = NoLeaders
      BY <1>2 DEF StartDecide
    <2>2. TypeOK'
      BY <1>2, <1>a, <1>b DEF IInv, TypeOK, StartDecide
    <2>3. LeadersRuled'
      BY <2>1, <1>a, <1>b DEF LeadersRuled, NoLeaders
    <2> QED
      BY <2>1, <2>2, <2>3, RuledUnchanged DEF IInv
  <1>3. ASSUME NEW status \in LeaderBlocks(view, cursor) \cup {Skip, Undecided}, DecideLeader(status)
        PROVE  IInv'
    <2>1. status \in Status
      BY DEF Status, LeaderBlocks, IInv, TypeOK
    <2> QED
      BY <1>3, <2>1, DecideLeaderPreserves
  <1>4. ASSUME NEW r \in 0 .. MaxRound, Sequence(r)
        PROVE  IInv'
    <2>1. UNCHANGED <<graph, ruled>> /\ view' = view /\ leaders' = NoLeaders
      BY <1>4 DEF Sequence
    <2>a. last_decided' = r /\ cursor' = 0 /\ deciding' \in BOOLEAN
      BY <1>4, Zenon DEF Sequence
    <2>2. TypeOK'
      BY <2>1, <2>a, <1>a, <1>b DEF IInv, TypeOK
    <2>3. LeadersRuled'
      BY <2>1, <1>a, <1>b DEF LeadersRuled, NoLeaders
    <2> QED
      BY <2>1, <2>2, <2>3, RuledUnchanged DEF IInv
  <1>5. CASE NextValidator
    <2>1. /\ UNCHANGED <<graph, ruled, deciding>> /\ view' = {}
          /\ leaders = NoLeaders /\ leaders' = leaders
      BY <1>5 DEF NextValidator, IInv, LeadersRuled
    <2>2. TypeOK'
      BY <1>5, <1>a DEF IInv, TypeOK, NextValidator
    <2>3. NoLeaders' = NoLeaders
      BY DEF NoLeaders
    <2>4. LeadersRuled'
      BY <2>1, <2>3, <1>a, <1>b DEF LeadersRuled
    <2> QED
      BY <2>1, <2>2, <2>4, RuledUnchanged DEF IInv
  <1>6. CASE UNCHANGED vars
    BY <1>6, RuledUnchanged DEF vars, IInv, TypeOK, LeadersRuled, NoLeaders
  <1> QED
    BY <1>1, <1>2, <1>3, <1>4, <1>5, <1>6 DEF Next

-----------------------------------------------------------------------------
\* The theorems.

\* The invariant holds of every behaviour of the committer.
THEOREM Invariance == Spec => []IInv
  <1>1. Init => IInv
    <2> SUFFICES ASSUME Init
                 PROVE  IInv
      OBVIOUS
    <2>1. MaxRound \in Nat
      BY BlockAssumption
    <2>a. /\ graph \in Graphs /\ view = {} /\ last_decided = 0 /\ cursor = 0
          /\ leaders = NoLeaders /\ ruled = {} /\ deciding \in BOOLEAN
      BY Zenon DEF Init
    <2>b. /\ NoLeaders \in [1 .. MaxRound -> Status]
          /\ \A r \in 1 .. MaxRound : NoLeaders[r] = Undecided
      BY DEF NoLeaders, Status
    <2>2. TypeOK
      BY <2>1, <2>a, <2>b DEF TypeOK
    <2>3. LeadersRuled
      BY <2>a, <2>b, BlockAssumption DEF LeadersRuled
    <2>4. Agreement
      BY <2>a DEF Agreement
    <2> QED
      BY <2>a, <2>2, <2>3, <2>4 DEF IInv
  <1>2. IInv /\ [Next]_vars => IInv'
    BY StepPreserves
  <1> QED
    BY <1>1, <1>2, PTL DEF Spec

\* The variables of try_decide stay in their ranges: the cursor of its loop never
\* passes round 0, and only decided statuses are handed out.
THEOREM TypeCorrect == Spec => []TypeOK
  <1>1. IInv => TypeOK
    BY DEF IInv
  <1> QED
    BY <1>1, Invariance, PTL

\* Validators that decide a leader slot decide it alike, for every committee whose
\* quorums share an authority that does not equivocate, every DAG of valid blocks,
\* and every order in which the validators accept them and run try_decide.
THEOREM ValidatorsAgree == Spec => []Agreement
  <1>1. IInv => Agreement
    BY DEF IInv
  <1> QED
    BY <1>1, Invariance, PTL

\* The panics of try_direct_decide and decide_leader_from_anchor on several
\* certified blocks in a slot are not reached.
THEOREM OneCandidateOnly == Spec => []OneCandidate
  <1>1. IInv => OneCandidate
    <2> SUFFICES ASSUME IInv, NEW r \in 1 .. MaxRound,
                        NEW l \in LeaderBlocks(view, r), NEW m \in LeaderBlocks(view, r),
                        Certificates(view, l) # {}, Certificates(view, m) # {}
                 PROVE  l = m
      BY DEF OneCandidate
    <2>1. graph \in Graphs /\ view \in SUBSET Blocks
      BY DEF IInv, TypeOK
    <2>2. l \in LeaderBlocks(Blocks, r) /\ m \in LeaderBlocks(Blocks, r)
      BY <2>1 DEF LeaderBlocks
    <2>3. Certificates(Blocks, l) # {} /\ Certificates(Blocks, m) # {}
      BY <2>1 DEF Certificates
    <2> QED
      BY <2>1, <2>2, <2>3, OneCertifiedBlock
  <1> QED
    BY <1>1, Invariance, PTL

\* No validator sees a certificate and a quorum of blames for the same slot, so
\* the direct skip of try_direct_decide never hides a certified leader.
THEOREM BlameIsFinal == Spec => []BlamedNotCertified
  <1>1. IInv => BlamedNotCertified
    <2> SUFFICES ASSUME IInv, NEW r \in 1 .. MaxRound, NEW l \in LeaderBlocks(view, r),
                        Certificates(view, l) # {}, enough_leader_blame(view, r)
                 PROVE  FALSE
      BY DEF BlamedNotCertified
    <2>1. graph \in Graphs /\ view \in SUBSET Blocks
      BY DEF IInv, TypeOK
    <2>2. l \in LeaderBlocks(Blocks, r) /\ Certificates(Blocks, l) # {}
      BY <2>1 DEF LeaderBlocks, Certificates
    <2>3. enough_leader_blame(Blocks, r)
      BY <2>1, BlameMonotone
    <2> QED
      BY <2>1, <2>2, <2>3, BlameExcludesCertificate
  <1> QED
    BY <1>1, Invariance, PTL

-----------------------------------------------------------------------------
(* QuorumAssumption for the committees that the program builds: the        *)
(* thresholds of a committee of any stake do what the protocol needs of    *)
(* them, and the assertions of both constructors hold.                     *)

\* Integer division rounds down.
LEMMA DivRoundsDown ==
    ASSUME NEW n \in Nat, NEW d \in Nat \ {0}
    PROVE  n \div d \in Nat /\ d * (n \div d) <= n
  BY SMT

\* A committee of any stake: its faults are tolerated, it can lose them and still has a
\* quorum, two quorums share a correct authority, and the assertion of Committee::new holds.
THEOREM ThresholdsSound ==
    ASSUME NEW total \in Nat \ {0}
    PROVE  LET f == FaultTolerance(total)
               q == QuorumThreshold(total)
           IN  /\ f \in Nat /\ 3 * f < total
               /\ 2 * q - f > total
               /\ ValidityThreshold(total) <= q /\ q <= total
  BY DEF FaultTolerance, QuorumThreshold, ValidityThreshold

\* Multiplication by a positive number keeps and reflects the order.
LEMMA CancelFactor ==
    ASSUME NEW d \in Nat \ {0}, NEW x \in Int, NEW y \in Int, d * x <= d * y
    PROVE  x <= y
  BY SMT

\* The scaled budgets leave room in the committee: 5f + 3c + 1 <= total.
LEMMA BudgetFits ==
    ASSUME NEW total \in Nat \ {0}, NEW malicious \in Nat, NEW crash \in Nat
    PROVE  LET f == MaliciousV3(total, malicious, crash)
               c == CrashV3(total, malicious, crash)
           IN  f \in Nat /\ c \in Nat /\ 5 * f + 3 * c + 1 <= total
  <1> DEFINE f == MaliciousV3(total, malicious, crash)
             c == CrashV3(total, malicious, crash)
             b == 5 * malicious + 3 * crash
             t == total - 1
  <1>1. CASE b = 0
    BY <1>1 DEF MaliciousV3, CrashV3, Scaled, BaseStake
  <1>2. CASE b # 0
    <2>1. b \in Nat \ {0} /\ t \in Nat
      BY <1>2
    <2>2. f = (malicious * t) \div b /\ c = (crash * t) \div b
      BY <2>1 DEF MaliciousV3, CrashV3, Scaled, BaseStake
    <2>3. malicious * t \in Nat /\ crash * t \in Nat
      BY <2>1
    <2> HIDE DEF f, c
    <2>4. f \in Nat /\ b * f <= malicious * t
      <3> HIDE DEF b, t
      <3> QED
        BY <2>1, <2>2, <2>3, DivRoundsDown
    <2>5. c \in Nat /\ b * c <= crash * t
      <3> HIDE DEF b, t
      <3> QED
        BY <2>1, <2>2, <2>3, DivRoundsDown
    <2>6. b * t = 5 * (malicious * t) + 3 * (crash * t)
      <3> HIDE DEF t
      <3> QED
        BY <2>1
    <2>7. b * (5 * f + 3 * c) <= b * t
      <3>1. b * (5 * f + 3 * c) = 5 * (b * f) + 3 * (b * c)
        <4> HIDE DEF b
        <4> QED
          BY <2>1, <2>4, <2>5
      <3> DEFINE x == b * f  y == b * c  m == malicious * t  k == crash * t
      <3>2. x \in Int /\ y \in Int /\ m \in Int /\ k \in Int
        BY <2>1, <2>3, <2>4, <2>5
      <3>3. x <= m /\ y <= k
        BY <2>4, <2>5
      <3> HIDE DEF x, y, m, k
      <3>4. 5 * x + 3 * y <= 5 * m + 3 * k
        BY <3>2, <3>3
      <3> QED
        BY <2>6, <3>1, <3>4 DEF x, y, m, k
    <2>8. 5 * f + 3 * c <= t
      <3> HIDE DEF b, t
      <3> QED
        BY <2>1, <2>4, <2>5, <2>7, CancelFactor
    <2> QED
      BY <2>4, <2>5, <2>8 DEF f, c
  <1> QED
    BY <1>1, <1>2

\* The assertions of Committee::new_v3 hold, and its subtraction does not underflow, for
\* a committee of any stake and any two fault budgets: a certificate and a quorum share a
\* correct authority, and two quorums share a certificate of correct ones.
THEOREM ThresholdsSoundV3 ==
    ASSUME NEW total \in Nat \ {0}, NEW malicious \in Nat, NEW crash \in Nat
    PROVE  LET f == MaliciousV3(total, malicious, crash)
               c == CrashV3(total, malicious, crash)
               q == QuorumThresholdV3(total, f, c)
               e == CertificationThresholdV3(f, c)
           IN  /\ q > 0 /\ q <= total
               /\ e + q >= total + f + 1
               /\ q * 2 >= total + f + e
  <1> DEFINE f == MaliciousV3(total, malicious, crash)
             c == CrashV3(total, malicious, crash)
  <1>1. f \in Nat /\ c \in Nat /\ 5 * f + 3 * c + 1 <= total
    BY BudgetFits
  <1> HIDE DEF f, c
  <1>2. LET q == QuorumThresholdV3(total, f, c)
            e == CertificationThresholdV3(f, c)
        IN  /\ q > 0 /\ q <= total
            /\ e + q >= total + f + 1
            /\ q * 2 >= total + f + e
    BY <1>1 DEF QuorumThresholdV3, CertificationThresholdV3
  <1> QED
    BY <1>2 DEF f, c

\* What the modules assume of quorums and validity sets holds for the thresholds: given
\* any measure of stake, two sets of quorum stake share an authority outside every set of
\* tolerated faults, and so does a set of validity stake.
THEOREM QuorumsShareCorrect ==
    ASSUME NEW A, NEW weight \in [SUBSET A -> Nat],
           \A S, T \in SUBSET A : weight[S \cup T] + weight[S \cap T] = weight[S] + weight[T],
           \A S, T \in SUBSET A : S \subseteq T => weight[S] <= weight[T],
           weight[A] > 0,
           NEW F \in SUBSET A, weight[F] <= FaultTolerance(weight[A]),
           NEW P \in SUBSET A, weight[P] >= QuorumThreshold(weight[A]),
           NEW Q \in SUBSET A, weight[Q] >= QuorumThreshold(weight[A]),
           NEW V \in SUBSET A, weight[V] >= ValidityThreshold(weight[A])
    PROVE  P \cap Q \cap (A \ F) # {} /\ V \cap (A \ F) # {}
  <1> DEFINE f == FaultTolerance(weight[A])
             q == QuorumThreshold(weight[A])
  <1>1. weight[A] \in Nat \ {0}
    OBVIOUS
  <1>2. f \in Nat /\ 2 * q - f > weight[A] /\ q = weight[A] - f
    BY <1>1, ThresholdsSound DEF QuorumThreshold
  <1>3. ~(P \cap Q \subseteq F)
    <2>1. weight[P \cup Q] + weight[P \cap Q] = weight[P] + weight[Q]
      OBVIOUS
    <2>2. weight[P \cup Q] <= weight[A]
      OBVIOUS
    <2>3. P \cap Q \subseteq F => weight[P \cap Q] <= weight[F]
      OBVIOUS
    <2>4. P \cap Q \in SUBSET A /\ P \cup Q \in SUBSET A /\ A \in SUBSET A
      OBVIOUS
    <2> HIDE DEF f, q
    <2>5. weight[P \cap Q] \in Nat /\ weight[P \cup Q] \in Nat /\ weight[P] \in Nat
          /\ weight[Q] \in Nat /\ weight[A] \in Nat /\ weight[F] \in Nat
      BY <2>4
    <2>6. weight[F] <= f /\ weight[P] >= q /\ weight[Q] >= q
      BY DEF f, q
    <2> QED
      BY <1>2, <2>1, <2>2, <2>3, <2>5, <2>6
  <1>4. ~(V \subseteq F)
    <2>1. V \subseteq F => weight[V] <= weight[F]
      OBVIOUS
    <2>2. weight[V] >= f + 1
      BY DEF ValidityThreshold
    <2>3. weight[V] \in Nat /\ weight[F] \in Nat
      OBVIOUS
    <2> QED
      BY <1>2, <2>1, <2>2, <2>3
  <1> QED
    BY <1>3, <1>4

=============================================================================
