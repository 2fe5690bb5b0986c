---------------------------- MODULE CommittedDag ----------------------------
(***************************************************************************)
(* What a DAG of blocks determines on its own: the leaders that the commit *)
(* rule decides (the result of the loop that Committer models step by      *)
(* step), the blocks of each commit (which Linearizer shows to be this     *)
(* set), and the votes on one transaction that honest proposers put in     *)
(* their blocks.                                                           *)
(*                                                                         *)
(* Blocks are numbered in the order of BlockRef, by round and then author. *)
(* An authority proposes at most one block in a round, and all authorities *)
(* have the same stake.                                                    *)
(***************************************************************************)
EXTENDS Naturals, Sequences, FiniteSets, FiniteSetsExt

CONSTANTS
    N,          \* authorities
    QuorumSize, \* committee.quorum_threshold()
    MaxRound,   \* bound: rounds of the DAG
    GcDepth,    \* protocol_config.gc_depth()
    Leader,     \* Leader[r]: the leader of round r
    Dags        \* a sequence of DAGs, each the sequence of its blocks' ancestors

Authorities == 1..N
Rounds == 1..MaxRound
Blocks == 1..(N * MaxRound)
Round(b) == ((b - 1) \div N) + 1
Author(b) == ((b - 1) % N) + 1
RoundBlocks(r) == (N * (r - 1) + 1)..(N * r)

Graphs == DOMAIN Dags

\* Ancestors[g][b]: ancestors of block b in graph g.
Ancestors == Dags

\* All blocks that each block refers to, for the first blocks and then the others.
RECURSIVE PastFrom(_, _)
PastFrom(ancestors, past) ==
    LET b == Len(past) + 1
    IN  IF b > Len(ancestors) THEN past
        ELSE PastFrom(ancestors,
                      Append(past, ancestors[b] \cup UNION {past[a] : a \in ancestors[b]}))

\* Past[g][b]: all blocks that b refers to, also indirectly.
Past == [g \in Graphs |-> PastFrom(Ancestors[g], <<>>)]

Skip == 0
Undecided == N * MaxRound + 1

ASSUME CommittedDagAssumption ==
    /\ N \in Nat \ {0} /\ MaxRound \in Nat /\ GcDepth \in Nat
    /\ QuorumSize \in Authorities /\ Leader \in [Rounds -> Authorities]
    /\ Past \in [Graphs -> Seq(SUBSET Blocks)]
    /\ \A g \in Graphs : \A b \in DOMAIN Ancestors[g] :
        /\ Ancestors[g][b] \subseteq DOMAIN Ancestors[g]
        /\ \A a \in Ancestors[g][b] : Round(a) < Round(b)
        /\ \A a, c \in Ancestors[g][b] : Author(a) = Author(c) => a = c
        /\ Round(b) > 1 =>
            Cardinality({a \in Ancestors[g][b] : Round(a) = Round(b) - 1}) >= QuorumSize

AuthorsOf(S) == {Author(b) : b \in S}
IsQuorum(S) == Cardinality(S) >= QuorumSize

\* 0 stands for no commit.
calculate_gc_round(round) == IF round > GcDepth THEN round - GcDepth ELSE 0

-----------------------------------------------------------------------------
(* The commit rule over the blocks in S, with the leaders ldr[r].          *)

LeaderOf(ldr, r) == N * (r - 1) + ldr[r]

is_certificate(g, c, l) == IsQuorum(AuthorsOf({v \in Ancestors[g][c] : l \in Ancestors[g][v]}))

Certificates(g, S, l) ==
    {c \in S \cap RoundBlocks(Round(l) + 2) : is_certificate(g, c, l)}

Blames(g, S, l) ==
    {v \in S \cap RoundBlocks(Round(l) + 1) :
        \A a \in Ancestors[g][v] : Author(a) # Author(l)}

\* The decision on the slot of round r, with the decisions on the slots above it.  Slots
\* less than two rounds below the highest block are not looked at.
DecideLeader(g, S, ldr, r, above) ==
    LET l       == LeaderOf(ldr, r)
        anchors == {q \in (r + 3)..MaxRound : above[q - r] # Skip}
        anchor  == above[Min(anchors) - r]
    IN  CASE S \cap ((N * (r + 1) + 1)..(N * MaxRound)) = {} -> Undecided
          [] IsQuorum(AuthorsOf(Blames(g, S, l))) -> Skip
          [] IsQuorum(AuthorsOf(Certificates(g, S, l))) -> l
          [] OTHER ->
               IF anchors = {} THEN Undecided
               ELSE IF anchor = Undecided THEN Undecided
               ELSE IF Certificates(g, Past[g][anchor], l) = {} THEN Skip
               ELSE l

RECURSIVE DecideFrom(_, _, _, _, _)
DecideFrom(g, S, ldr, r, above) ==
    IF r = 0 THEN above
    ELSE DecideFrom(g, S, ldr, r - 1, <<DecideLeader(g, S, ldr, r, above)>> \o above)

\* One decision for each round.
try_decide(g, S, ldr) == DecideFrom(g, S, ldr, MaxRound, <<>>)

\* The blocks of commit k: the history of its leader above the GC round that is in no
\* earlier commit.
linearize_sub_dag(g, leaders, k) ==
    LET History(j) == Past[g][leaders[j]] \cup {leaders[j]}
        gc_round   == IF k = 1 THEN 0 ELSE calculate_gc_round(Round(leaders[k - 1]))
    IN  {b \in History(k) : Round(b) > gc_round /\ \A j \in 1..(k - 1) : b \notin History(j)}

-----------------------------------------------------------------------------
(* What is committed with a schedule that does not change.                 *)

\* The leaders committed in the end, in the order of their rounds.
Leaders ==
    [g \in Graphs |->
        LET decided   == try_decide(g, DOMAIN Ancestors[g], Leader)
            committed == {r \in Rounds : /\ decided[r] \in Blocks
                                         /\ \A q \in 1..r : decided[q] # Undecided}
        IN  [k \in 1..Cardinality(committed) |->
                LeaderOf(Leader, CHOOSE r \in committed :
                            Cardinality({q \in committed : q <= r}) = k)]]

Commits(g) == DOMAIN Leaders[g]
LeaderRound(g, k) == IF k = 0 THEN 0 ELSE Round(Leaders[g][k])
GcRound(g, k) == calculate_gc_round(LeaderRound(g, k))

SubDags == [g \in Graphs |-> [k \in Commits(g) |-> linearize_sub_dag(g, Leaders[g], k)]]

\* Every DAG has a sequence of leaders with their sub-dags.
ASSUME CommitsAssumption ==
    /\ Leaders \in [Graphs -> Seq(Blocks)]
    /\ SubDags = [g \in Graphs |-> [k \in Commits(g) |-> SubDags[g][k]]]

-----------------------------------------------------------------------------
(* Votes on a transaction of block t.  The proposer of a block v has made  *)
(* the first commits when it proposes v: at most those whose leaders are   *)
(* three rounds below v, and none when it is slow.                         *)

ProposerGcRound(g, v, fast) ==
    IF Author(v) \in fast
    THEN LET made == {k \in Commits(g) : LeaderRound(g, k) + 3 <= Round(v)}
         IN  Max({0} \cup {GcRound(g, k) : k \in made})
    ELSE 0

\* Blocks that link_causal_history returns to the proposer of v: the ones above its GC
\* round that no earlier block of its own includes.
NewlyLinked(g, v, fast) ==
    {b \in Past[g][v] :
        /\ Round(b) > ProposerGcRound(g, v, fast)
        /\ Author(b) # Author(v)
        /\ \A w \in Past[g][v] : Author(w) = Author(v) => b \notin Past[g][w]}

\* Blocks with an explicit reject vote on t when the authorities in `against` reject it.
RejectVotes(g, t, against, fast) ==
    {v \in DOMAIN Ancestors[g] : Author(v) \in against /\ t \in NewlyLinked(g, v, fast)}

=============================================================================
