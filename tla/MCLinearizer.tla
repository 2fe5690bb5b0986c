---------------------------- MODULE MCLinearizer ----------------------------
(***************************************************************************)
(* Three authorities over five rounds; "c" equivocates in round 2 (c2, e2) *)
(* and its first block is only referred to late.  With GcDepth = 2 blocks  *)
(* are committed late (c1 through b3) and never (e2, when its round is     *)
(* collected before a leader refers to it).                                *)
(***************************************************************************)
EXTENDS Linearizer

mcBlocks == {"a1", "b1", "c1", "a2", "b2", "c2", "e2", "a3", "b3", "a4", "b4", "a5"}

mcRound == [b \in mcBlocks |->
    CASE b \in {"a1", "b1", "c1"} -> 1
      [] b \in {"a2", "b2", "c2", "e2"} -> 2
      [] b \in {"a3", "b3"} -> 3
      [] b \in {"a4", "b4"} -> 4
      [] b = "a5" -> 5]

mcAuthor == [b \in mcBlocks |->
    CASE b \in {"a1", "a2", "a3", "a4", "a5"} -> "a"
      [] b \in {"b1", "b2", "b3", "b4"} -> "b"
      [] b \in {"c1", "c2", "e2"} -> "c"]

mcAncestors == [b \in mcBlocks |->
    CASE b \in {"a1", "b1", "c1"} -> {}
      [] b \in {"a2", "b2"} -> {"a1", "b1"}
      [] b \in {"c2", "e2"} -> {"a1", "c1"}
      [] b = "a3" -> {"a2", "b2"}
      [] b = "b3" -> {"a2", "b2", "c2"}
      [] b = "a4" -> {"a3", "b3"}
      [] b = "b4" -> {"a3", "b3", "e2"}
      [] b = "a5" -> {"a4", "b4"}]

mcPast ==
    LET grow[n \in 0 .. 4] ==
          IF n = 0 THEN mcAncestors
          ELSE [b \in mcBlocks |->
                  grow[n - 1][b] \cup UNION {mcAncestors[a] : a \in grow[n - 1][b]}]
    IN grow[4]

mcLeaders == <<"b1", "a3", "a4", "a5">>
=============================================================================
