---------------------------- MODULE MCCommitter ----------------------------
(***************************************************************************)
(* Three authorities with stakes 2, 1 and 1, of which "c" may equivocate   *)
(* and does so as the leader of round 1.  Six rounds: round 1 is decided   *)
(* directly in some views and through the anchor of round 4 in others.     *)
(* The ancestors of the voting, certificate and anchor blocks vary.        *)
(***************************************************************************)
EXTENDS Committer

mcAuthorities == {"a", "b", "c"}
mcByzantine == {"c"}
mcQuorums == {{"a", "b"}, {"a", "c"}, {"a", "b", "c"}}
mcLeader == <<"c", "b", "a", "a", "b", "a">>

B(x, r) == <<x, r, 1>>
Fork == <<"c", 1, 2>>

mcBlocks == {B(x, r) : x \in {"a", "b"}, r \in 1 .. 6} \cup {B("c", r) : r \in 1 .. 4} \cup {Fork}
mcAuthor == [b \in mcBlocks |-> b[1]]
mcRound == [b \in mcBlocks |-> b[2]]

\* Blocks of round r by the authorities in S.
Row(S, r) == {B(x, r) : x \in S}

GraphFor(va, vb, vc, ca, cb, cc, aa) ==
    [b \in mcBlocks |->
        CASE b[2] = 1 -> {}
          [] b = B("a", 2) -> Row({"a", "b"}, 1) \cup va
          [] b = B("b", 2) -> Row({"a", "b"}, 1) \cup vb
          [] b = B("c", 2) -> {B("a", 1)} \cup vc
          [] b = B("a", 3) -> Row(ca, 2)
          [] b = B("b", 3) -> Row(cb, 2)
          [] b = B("c", 3) -> Row(cc, 2)
          [] b = B("a", 4) -> Row(aa, 3)
          [] b = B("b", 4) -> Row({"a", "b"}, 3)
          [] b = B("c", 4) -> Row({"a", "c"}, 3)
          [] b[2] = 5 -> Row({"a", "b"}, 4)
          [] b[2] = 6 -> Row({"a", "b"}, 5)]

Forks == {{}, {B("c", 1)}, {Fork}}

mcGraphs ==
    Forks \X Forks \X {{B("c", 1)}, {Fork}} \X {{"a", "b"}, {"a", "c"}}
      \X {{"a", "b"}} \X {{"a", "c"}} \X {{"a", "b"}, {"a", "c"}}

mcAncestors == [g \in mcGraphs |-> GraphFor(g[1], g[2], g[3], g[4], g[5], g[6], g[7])]

PastOf(ancestors) ==
    LET grow[n \in 0 .. 6] ==
          IF n = 0 THEN ancestors
          ELSE [b \in mcBlocks |->
                  grow[n - 1][b] \cup UNION {ancestors[a] : a \in grow[n - 1][b]}]
    IN grow[6]

mcPast == [g \in mcGraphs |-> PastOf(mcAncestors[g])]
=============================================================================
