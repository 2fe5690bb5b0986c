-------------------------- MODULE MCLeaderSchedule --------------------------
(***************************************************************************)
(* Four authorities over nine rounds, with f = 1, and a new schedule after *)
(* every second commit.  A block refers to the blocks of the round before  *)
(* it, except to the one of the authority that Omits[g][r][a] names (0: to *)
(* all).                                                                   *)
(***************************************************************************)
EXTENDS LeaderSchedule

MCLeader == <<1, 2, 3, 4, 1, 2, 3, 4, 1>>

MCShuffle(k, a) == (a + k) % N
MCPick(r, n) == (r % n) + 1

None == <<0, 0, 0, 0>>
No1 == <<0, 1, 1, 1>>
No2 == <<2, 0, 2, 2>>
No3 == <<3, 3, 0, 3>>
No4 == <<4, 4, 4, 0>>

Omits == <<
    <<None, None, None, None, None, None, None, None, None>>,
    \* Authority 4 is not heard: its slots are skipped until it is swapped out.
    <<None, No4, No4, No4, No4, No4, No4, No4, No4>>,
    \* Authority 2 is slow in the first rounds and good later.
    <<None, None, No2, No2, None, None, None, None, None>>,
    \* Two slots in a row are skipped.
    <<None, None, No2, No3, None, None, None, None, None>>,
    \* A leader is certified by a single block, and decided through a later leader.
    <<None, <<0, 1, 0, 0>>, <<0, 1, 1, 0>>, <<2, 0, 2, 0>>, <<0, 4, 0, 4>>, None, No1, None, None>>,
    <<None, <<1, 0, 0, 1>>, <<0, 2, 2, 0>>, <<3, 0, 0, 3>>, None, <<0, 1, 1, 0>>, None, No3, None>> >>

Row(S, r) == {N * (r - 1) + a : a \in S}

AncestorsIn(omits, b) ==
    IF Round(b) = 1 THEN {}
    ELSE Row(Authorities \ {omits[Round(b)][Author(b)]}, Round(b) - 1)

RECURSIVE DagFrom(_, _)
DagFrom(omits, dag) ==
    IF Len(dag) = N * MaxRound THEN dag
    ELSE DagFrom(omits, Append(dag, AncestorsIn(omits, Len(dag) + 1)))

RECURSIVE DagsFrom(_)
DagsFrom(dags) ==
    IF Len(dags) = Len(Omits) THEN dags
    ELSE DagsFrom(Append(dags, DagFrom(Omits[Len(dags) + 1], <<>>)))

MCDags == DagsFrom(<<>>)

\* A round without one of its blocks, or a single block.
MCDeliveries ==
    {Row({1, 2, 3}, r) : r \in 3..MaxRound} \cup {Row({2, 3, 4}, r) : r \in {5, 8}}
    \cup {Row({4}, r) : r \in {3, 6}}

=============================================================================
