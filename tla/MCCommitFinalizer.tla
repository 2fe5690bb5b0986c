------------------------- MODULE MCCommitFinalizer -------------------------
(***************************************************************************)
(* Four authorities over eight rounds, with f = 1.  A block refers to the  *)
(* blocks of the round before it, except to the one of the authority that  *)
(* Omits[g][r][a] names (0: to all).                                       *)
(***************************************************************************)
EXTENDS CommitFinalizer

MCLeader == <<1, 2, 3, 4, 1, 2, 3, 4>>

None == <<0, 0, 0, 0>>
Slow4 == <<4, 4, 4, 0>>   \* only authority 4 has its own block
Late4 == <<0, 4, 4, 0>>   \* and authority 1

No2 == <<2, 0, 2, 2>>

SteadyOmits == <<
    <<None, None, None, None, None, None, None, None>>,
    \* Authority 4 is not heard for five rounds: its leader slot in round 4 is skipped, and
    \* its first block is garbage collected.
    <<None, Slow4, Slow4, Slow4, Slow4, None, None, None>>,
    \* Its first block is linked by authority 1 alone, and committed late.
    <<None, Late4, Slow4, Late4, None, None, None, None>>,
    \* The same, and the first block of authority 2 that votes on it is committed when it
    \* may have been garbage collected.
    <<None, Late4, None, No2, No2, None, None, None>>,
    \* The first leader is skipped, and committed late.
    <<None, <<0, 1, 1, 0>>, None, <<0, 3, 0, 3>>, None, None, None, None>>,
    \* The votes of authority 3 are linked late.
    <<None, None, <<3, 3, 0, 0>>, <<3, 3, 0, 3>>, None, None, None, None>>,
    \* The first block of authority 3 is only known to itself until it is the leader, and
    \* two of the votes on it are committed when it may have been garbage collected.
    <<None, <<3, 3, 0, 3>>, <<3, 3, 0, 3>>, <<0, 0, 0, 3>>, <<2, 0, 0, 0>>, None, None, None>> >>

(* Graphs 8 to 11 are four of these again, for the worlds in which the     *)
(* node restarts.                                                          *)
Restarted == <<1, 3, 4, 7>>
Omits == SteadyOmits \o [i \in 1..4 |-> SteadyOmits[Restarted[i]]]
WithRestarts(g) == g > 7

Row(S, r) == {N * (r - 1) + a : a \in S}

AncestorsIn(omits, b) ==
    IF Round(b) = 1 THEN {}
    ELSE Row(Authorities \ {omits[Round(b)][Author(b)]}, Round(b) - 1)

RECURSIVE DagFrom(_, _)
DagFrom(omits, dag) ==
    IF Len(dag) = N * MaxRound THEN dag
    ELSE DagFrom(omits, Append(dag, AncestorsIn(omits, Len(dag) + 1)))

RECURSIVE DagsFrom(_)
DagsFrom(dags) ==
    IF Len(dags) = Len(Omits) THEN dags
    ELSE DagsFrom(Append(dags, DagFrom(Omits[Len(dags) + 1], <<>>)))

MCDags == DagsFrom(<<>>)

\* The blocks with the transaction, all of round 1.
SteadyTargets == <<{1}, {4}, {1, 4}, {4}, {1}, {1, 4}, {3}>>
Targets == SteadyTargets \o [i \in 1..4 |-> SteadyTargets[Restarted[i]]]

MCWorlds ==
    {w \in [graph : Graphs, target : Authorities, against : {{}, {2}, {2, 3}, {1, 2, 3}},
            fast : {{}, Authorities}, faulty : {{}, Row({4}, 2), Row({4}, 5)}] :
        /\ w.target \in Targets[w.graph]
        /\ w.faulty # {} => w.fast = Authorities
        /\ w.faulty # {} \/ w.fast = {} => w.against \in {{2}, {2, 3}}
        /\ WithRestarts(w.graph) =>
              w.against \in {{2}, {2, 3}} /\ w.fast = Authorities /\ w.faulty = {}}

MCDeliveries ==
    {Row({1, 2, 3}, r) : r \in 3..MaxRound} \cup {Row({4}, r) : r \in {2, 6}}

\* With restarts, blocks arrive in larger steps.
MCRestartDeliveries == {Row({1, 2, 3}, r) : r \in {4, 6, 8}} \cup {Row({4}, 2)}

\* What is stored matters only where the node may restart.
MCNext ==
    \/ \E S \in IF WithRestarts(graph) THEN MCRestartDeliveries ELSE Deliveries :
           ReceiveBlocks(S)
    \/ LocalCommit \/ SyncedCommit \/ ProcessCommit
    \/ /\ WithRestarts(graph)
       /\ \/ Flush
          \/ \E k \in 0..Cardinality(DOMAIN outcome) : Restart(k)
          \/ RecoverCommit
          \/ RecoverBlocks

MCSpec == Init /\ [][MCNext]_vars
=============================================================================
