------------------------ MODULE MCAncestorSelection ------------------------
(***************************************************************************)
(* Four authorities with stakes 3, 3, 2 and 2: a quorum is 7, and the      *)
(* threshold of exclusion is 2, so that authorities 3 and 4 compete for    *)
(* it.  Authority 4 equivocates in round 2.                                *)
(***************************************************************************)
EXTENDS AncestorSelection

MCStakes == <<3, 3, 2, 2>>

B(a, r, i) == [author |-> a, round |-> r, id |-> i]
MCPeerBlocks == {B(2, 1, 0), B(3, 1, 0), B(4, 1, 0),
                 B(2, 2, 0), B(3, 2, 0), B(4, 2, 0), B(4, 2, 1)}

\* Authority 4 is worse than 3; both are good; only 3 is bad.
MCScoreUpdates == {<<10, 10, 2, 1>>, <<10, 10, 10, 10>>, <<10, 10, 1, 10>>}

Rounds(low, high) == [a \in Authorities |-> [low |-> low[a], high |-> high[a]]]
MCQuorumRounds == {
    Rounds(<<0, 0, 0, 0>>, <<0, 0, 0, 0>>),
    Rounds(<<1, 1, 0, 1>>, <<2, 2, 1, 2>>),
    Rounds(<<2, 2, 3, 1>>, <<3, 3, 3, 1>>),
    Rounds(<<2, 2, 0, 2>>, <<3, 3, 0, 2>>)}
=============================================================================
