----------------------------- MODULE Committer -----------------------------
(***************************************************************************)
(* The commit rule of consensus: BaseCommitter (core/src/base_committer.rs) *)
(* with its direct and indirect decisions, and the loop of                 *)
(* UniversalCommitter::try_decide (core/src/universal_committer.rs) over a *)
(* growing local DAG, with pipelining, one leader per round and waves of   *)
(* three rounds (leader, votes, certificates).                             *)
(*                                                                         *)
(* Validators do not talk to each other about decisions, they only share   *)
(* blocks.  So one validator is modelled, which accepts blocks in any      *)
(* order; NextValidator starts another one on the same blocks, and `ruled' *)
(* collects what all of them ever decide.                                  *)
(*                                                                         *)
(* Genesis blocks and garbage collection are left out: the rule only looks *)
(* at blocks above the last committed round.                               *)
(***************************************************************************)
EXTENDS Naturals

CONSTANTS
    Authorities,
    Byzantine,    \* authorities that may equivocate
    Quorums,      \* sets of authorities with the stake of quorum_threshold()
    MaxRound,     \* bound: rounds of the DAG
    Leader,       \* Leader[r]: LeaderSchedule::elect_leader(r, 0)
    Blocks, Author, Round,
    Graphs,       \* names of the ways in which Blocks can refer to each other
    Ancestors,    \* Ancestors[g][b]: ancestors of block b in graph g
    Past,         \* Past[g][b]: all blocks that b refers to, also indirectly
    Skip, Undecided

WAVE_LENGTH == 3

AuthorsOf(S) == {Author[b] : b \in S}

\* What SignedBlockVerifier::verify_block ensures: ancestors are of earlier
\* rounds and distinct authors, and a quorum of them is of the round before.
ValidGraph(ancestors) ==
    \A b \in Blocks :
        /\ \A a \in ancestors[b] : Round[a] < Round[b]
        /\ \A a, c \in ancestors[b] : Author[a] = Author[c] => a = c
        /\ Round[b] > 1 => AuthorsOf({a \in ancestors[b] : Round[a] + 1 = Round[b]}) \in Quorums

\* Two quorums share an authority that does not equivocate, and a set of more
\* authorities than a quorum is a quorum (consensus_config::Committee::new).
ASSUME QuorumAssumption ==
    /\ Quorums \subseteq SUBSET Authorities
    /\ \A P, Q \in Quorums : \E h \in P \cap Q : h \notin Byzantine
    /\ \A P \in Quorums : \A Q \in SUBSET Authorities : P \subseteq Q => Q \in Quorums

ASSUME BlockAssumption ==
    /\ MaxRound \in Nat
    /\ Leader \in [1 .. MaxRound -> Authorities]
    /\ Author \in [Blocks -> Authorities]
    /\ Round \in [Blocks -> 1 .. MaxRound]
    /\ \A b, c \in Blocks :
        (Author[b] = Author[c] /\ Round[b] = Round[c] /\ Author[b] \notin Byzantine) => b = c
    /\ Skip \notin Blocks /\ Undecided \notin Blocks /\ Skip # Undecided

ASSUME GraphAssumption ==
    /\ Ancestors \in [Graphs -> [Blocks -> SUBSET Blocks]]
    /\ Past \in [Graphs -> [Blocks -> SUBSET Blocks]]
    /\ \A g \in Graphs :
        /\ ValidGraph(Ancestors[g])
        /\ \A b \in Blocks :
            Past[g][b] = Ancestors[g][b] \cup UNION {Past[g][a] : a \in Ancestors[g][b]}

VARIABLES
    graph,        \* how the blocks refer to each other
    view,         \* blocks that the validator has accepted
    last_decided, \* Core::last_decided_leader, its round
    deciding,     \* the validator is in try_decide
    cursor,       \* the round its loop is at
    leaders,      \* leaders of try_decide: status of each round above cursor
    ruled         \* history: pairs <<round, status>> decided by any validator

vars == <<graph, view, last_decided, deciding, cursor, leaders, ruled>>

Status == Blocks \cup {Skip, Undecided}

TypeOK ==
    /\ graph \in Graphs
    /\ view \in SUBSET Blocks
    /\ last_decided \in 0 .. MaxRound
    /\ deciding \in BOOLEAN
    /\ cursor \in 0 .. MaxRound
    /\ leaders \in [1 .. MaxRound -> Status]
    /\ ruled \in SUBSET ((1 .. MaxRound) \X (Blocks \cup {Skip}))

NoLeaders == [r \in 1 .. MaxRound |-> Undecided]

Init ==
    /\ graph \in Graphs
    /\ view = {}
    /\ last_decided = 0
    /\ deciding = FALSE
    /\ cursor = 0
    /\ leaders = NoLeaders
    /\ ruled = {}

-----------------------------------------------------------------------------
\* BaseCommitter.

\* Votes of block c for the leader block l: its ancestors that include l.
Votes(c, l) == {v \in Ancestors[graph][c] : l \in Ancestors[graph][v]}

\* Faulty variant of is_certificate: one vote is enough.
is_certificate_OneVote(c, l) == Votes(c, l) # {}

is_certificate(c, l) == AuthorsOf(Votes(c, l)) \in Quorums

\* Blocks of S that are certificates for l, in its decision round.
Certificates(S, l) ==
    {c \in S : Round[c] = Round[l] + WAVE_LENGTH - 1 /\ is_certificate(c, l)}

enough_leader_support(S, l) == AuthorsOf(Certificates(S, l)) \in Quorums

\* Blocks of S in the voting round of round r without any link to its leader.
Blames(S, r) ==
    {v \in S : Round[v] = r + 1 /\ \A a \in Ancestors[graph][v] : Author[a] # Leader[r]}

\* Faulty variant of enough_leader_blame: one blame is enough.
enough_leader_blame_One(S, r) == Blames(S, r) # {}

enough_leader_blame(S, r) == AuthorsOf(Blames(S, r)) \in Quorums

LeaderBlocks(S, r) == {b \in S : Round[b] = r /\ Author[b] = Leader[r]}

DirectCommits(r) == {l \in LeaderBlocks(view, r) : enough_leader_support(view, l)}

\* The outcomes of the direct rule: the code panics when there are several.
try_direct_decide(r) ==
    IF enough_leader_blame(view, r) THEN {Skip}
    ELSE IF DirectCommits(r) = {} THEN {Undecided}
    ELSE DirectCommits(r)

\* Faulty variant of IsAnchorRound: the anchor may be in the decision round.
IsAnchorRound_TooClose(r, q) ==
    /\ q \in 1 .. MaxRound
    /\ q >= r + WAVE_LENGTH - 1
    /\ leaders[q] # Skip
    /\ \A p \in 1 .. MaxRound : (p >= r + WAVE_LENGTH - 1 /\ p < q) => leaders[p] = Skip

\* The first round from the end of r's wave on whose leader is not skipped.
IsAnchorRound(r, q) ==
    /\ q \in 1 .. MaxRound
    /\ q >= r + WAVE_LENGTH
    /\ leaders[q] # Skip
    /\ \A p \in 1 .. MaxRound : (p >= r + WAVE_LENGTH /\ p < q) => leaders[p] = Skip

\* Leader blocks with a certificate that is an ancestor of the anchor.
CertifiedLeaders(r, anchor) ==
    {l \in LeaderBlocks(view, r) : Certificates(Past[graph][anchor], l) # {}}

decide_leader_from_anchor(r, anchor) ==
    IF CertifiedLeaders(r, anchor) = {} THEN {Skip} ELSE CertifiedLeaders(r, anchor)

\* The outcomes of the indirect rule, with several again where the code panics.
try_indirect_decide(r) ==
    LET anchors == {leaders[q] : q \in {q \in 1 .. MaxRound : IsAnchorRound(r, q)}} \cap Blocks
    IN IF anchors = {} THEN {Undecided}
       ELSE UNION {decide_leader_from_anchor(r, anchor) : anchor \in anchors}

Decisions(r) ==
    IF try_direct_decide(r) = {Undecided} THEN try_indirect_decide(r) ELSE try_direct_decide(r)

-----------------------------------------------------------------------------
\* A block whose ancestors are in the DAG is accepted.
AcceptBlock(b) ==
    /\ ~deciding
    /\ b \notin view
    /\ Ancestors[graph][b] \subseteq view
    /\ view' = view \cup {b}
    /\ UNCHANGED <<graph, last_decided, deciding, cursor, leaders, ruled>>

\* The highest round that try_decide looks at.
IsTop(r) ==
    /\ \E b \in view : Round[b] = r + 2
    /\ \A b \in view : Round[b] <= r + 2

\* After a batch of blocks, Core::try_commit calls try_decide.
StartDecide(r) ==
    /\ ~deciding
    /\ IsTop(r)
    /\ r > last_decided
    /\ deciding' = TRUE
    /\ cursor' = r
    /\ leaders' = NoLeaders
    /\ UNCHANGED <<graph, view, last_decided, ruled>>

\* An iteration of the loop of try_decide.
DecideLeader(status) ==
    /\ deciding
    /\ cursor > last_decided
    /\ status \in Decisions(cursor)
    /\ leaders' = [leaders EXCEPT ![cursor] = status]
    /\ ruled' = IF status = Undecided THEN ruled ELSE ruled \cup {<<cursor, status>>}
    /\ cursor' = cursor - 1
    /\ UNCHANGED <<graph, view, last_decided, deciding>>

\* The decided sequence is the longest prefix of decided leaders, up to round r.
Sequence(r) ==
    /\ deciding
    /\ cursor = last_decided
    /\ r >= last_decided
    /\ \A q \in 1 .. MaxRound : (q > last_decided /\ q <= r) => leaders[q] # Undecided
    /\ r < MaxRound => leaders[r + 1] = Undecided
    /\ deciding' = FALSE
    /\ cursor' = 0
    /\ last_decided' = r
    /\ leaders' = NoLeaders
    /\ UNCHANGED <<graph, view, ruled>>

\* Another validator, with a DAG of its own on the same blocks.
NextValidator ==
    /\ ~deciding
    /\ view' = {}
    /\ last_decided' = 0
    /\ UNCHANGED <<graph, deciding, cursor, leaders, ruled>>

Next ==
    \/ \E b \in Blocks : AcceptBlock(b)
    \/ \E r \in 1 .. MaxRound : StartDecide(r)
    \/ \E status \in LeaderBlocks(view, cursor) \cup {Skip, Undecided} : DecideLeader(status)
    \/ \E r \in 0 .. MaxRound : Sequence(r)
    \/ NextValidator

Spec == Init /\ [][Next]_vars

-----------------------------------------------------------------------------
\* Safety.

\* All validators decide every leader slot alike, whichever part of the DAG
\* they have when they do and whichever rule they use.
Agreement == \A x, y \in ruled : x[1] = y[1] => x[2] = y[2]

\* The two panics of BaseCommitter ("the BFT assumption is broken") are not
\* reached: a slot has one certified block at most, and so one block with
\* enough support, also when its author equivocates.
OneCandidate ==
    \A r \in 1 .. MaxRound : \A l, m \in LeaderBlocks(view, r) :
        (Certificates(view, l) # {} /\ Certificates(view, m) # {}) => l = m

\* A certificate and a quorum of blames for the same slot exclude each other.
BlamedNotCertified ==
    \A r \in 1 .. MaxRound : \A l \in LeaderBlocks(view, r) :
        Certificates(view, l) # {} => ~enough_leader_blame(view, r)
=============================================================================
